------------------------------- MODULE Dispatch -------------------------------
(***************************************************************************)
(* How an authorised mission travels from the queue of a broker over a     *)
(* station to a drone and back: HandleQueuePop, HandleQueueResolve and the *)
(* pending janitor of the broker (cmd/broker/http_server.go), the handlers *)
(* and the fallback loop of the station (cmd/station), its lease radar     *)
(* (pkg/radar) and the drone's side of the calls (cmd/drone/main.go).      *)
(*                                                                         *)
(* Every handler runs in a goroutine of its own, so a handler that takes   *)
(* two locks one after the other takes two steps.  HTTP calls are lost,    *)
(* repeated by the client (pkg/server/http_client.go) and, because the     *)
(* broker's name resolves to all replicas, answered by any broker.  Time   *)
(* is abstract: a lease or a checkout may expire whenever it exists.       *)
(* Missions stay in the home broker that enqueued them; how they got there *)
(* is not this module's concern.                                           *)
(***************************************************************************)
EXTENDS Integers, FiniteSets

CONSTANTS
    Brokers, Stations, Drones, Missions,
    Home,          \* mission -> the broker whose queue it was put on
    MaxTries,      \* attempts of one HTTP call: maxRetries + 1, 4 in the code
    MaxCheckouts,  \* bound: checkouts of one mission
    MaxTimeouts,   \* bound: broker timeouts of one mission
    MaxCrashes     \* bound: crashes of one station

ASSUME DispatchAssumption ==
    /\ Home \in [Missions -> Brokers]
    /\ MaxTries \in Nat \ {0}
    /\ MaxCheckouts \in Nat /\ MaxTimeouts \in Nat /\ MaxCrashes \in Nat

VARIABLES
    \* broker
    queue,      \* broker -> mission -> copies in the priority queue
    popped,     \* broker -> mission -> copies dequeued, checkout not yet registered
    pending,    \* broker -> missions checked out (pendingMissions)
    requeued,   \* broker -> mission -> copies taken back, not yet enqueued
    resolved,   \* mission -> times it was taken off as a success
    \* station
    registered, \* station -> drones (RegisteredDrones)
    radar,      \* station -> mission -> checkout under lease, 0 if none (records)
    dummy,      \* station -> expired checkouts (dummyQueue)
    \* drone
    drone,      \* what each drone does
    \* network
    replies,    \* checkouts on their way from a broker to a station
    calls,      \* PostJSON calls to /queue/resolve in progress
    \* history
    arrived,    \* missions that were enqueued
    checkouts,  \* mission -> how often it was checked out
    timeouts,   \* mission -> how often the broker's janitor took it back
    sweeps,     \* mission -> how often its lease expired on a station
    flown,      \* missions some drone flew to the end
    crashes     \* station -> crashes

broker == <<queue, popped, pending, requeued, resolved>>
station == <<registered, radar, dummy>>
network == <<replies, calls>>
history == <<arrived, checkouts, timeouts, sweeps, flown, crashes>>
vars == <<broker, station, drone, network, history>>

-----------------------------------------------------------------------------
(* Broker *)

\* The mission processor puts an authorised mission on the queue, once: a second
\* copy (BrokerCluster!CopiesBounded says when there is one) is not followed.
Enqueue(m) ==
    /\ m \notin arrived
    /\ arrived' = arrived \cup {m}
    /\ queue' = [queue EXCEPT ![Home[m]][m] = @ + 1]
    /\ UNCHANGED <<popped, pending, requeued, resolved, station, drone, network,
                   checkouts, timeouts, sweeps, flown, crashes>>

\* Mutant of QueuePop: the queue is read and not dequeued.
QueuePopPeeks(b, m) ==
    /\ \E s \in Stations : registered[s] # {}
    /\ queue[b][m] > 0 /\ checkouts[m] < MaxCheckouts
    /\ popped' = [popped EXCEPT ![b][m] = @ + 1]
    /\ UNCHANGED <<queue, pending, requeued, resolved, station, drone, network, history>>

\* HandleQueuePop, called by a station on behalf of a registered drone: Dequeue.
\* Which mission comes first is the queue's business.
QueuePop(b, m) ==
    /\ \E s \in Stations : registered[s] # {}
    /\ queue[b][m] > 0 /\ checkouts[m] < MaxCheckouts
    /\ queue' = [queue EXCEPT ![b][m] = @ - 1]
    /\ popped' = [popped EXCEPT ![b][m] = @ + 1]
    /\ UNCHANGED <<pending, requeued, resolved, station, drone, network, history>>

\* Its second half: the checkout is registered and the answer is sent; it is
\* lost when the station has given up waiting.
QueueCheckout(b, m) ==
    /\ popped[b][m] > 0
    /\ popped' = [popped EXCEPT ![b][m] = @ - 1]
    /\ pending' = [pending EXCEPT ![b] = @ \cup {m}]
    /\ checkouts' = [checkouts EXCEPT ![m] = @ + 1]
    /\ \/ replies' = replies \cup {<<m, checkouts'[m]>>}
       \/ replies' = replies
    /\ UNCHANGED <<queue, requeued, resolved, station, drone, calls,
                   arrived, timeouts, sweeps, flown, crashes>>

\* Mutant of Retry: the attempts are not counted against maxRetries.
RetryUnlimited(c) == {[c EXCEPT !.tries = @ - 1]}

\* What is left of a call after one more attempt failed.
Retry(c) == IF c.tries = 1 THEN {} ELSE {[c EXCEPT !.tries = @ - 1]}

\* Mutant of QueueResolve: a REQUEUE is obeyed without looking at the checkout.
QueueResolveUnchecked(b, c) ==
    LET m == c.mission
        exists == m \in pending[b]
    IN  /\ pending' = [pending EXCEPT ![b] = @ \ {m}]
        /\ requeued' = IF c.action = "REQUEUE"
                       THEN [requeued EXCEPT ![b][m] = @ + 1] ELSE requeued
        /\ resolved' = IF exists /\ c.action = "SUCCESS"
                       THEN [resolved EXCEPT ![m] = @ + 1] ELSE resolved
        /\ \/ calls' = calls \ {c}
           \/ calls' = (calls \ {c}) \cup Retry(c)
        /\ UNCHANGED <<queue, popped, station, drone, replies, history>>

\* HandleQueueResolve up to the unlock.  A mission that is not pending is left
\* alone; one that is pending is dropped on SUCCESS and kept in hand on REQUEUE.
\* The caller repeats the call if the answer is lost.
QueueResolve(b, c) ==
    LET m == c.mission
        exists == m \in pending[b]
    IN  /\ pending' = [pending EXCEPT ![b] = @ \ {m}]
        /\ requeued' = IF exists /\ c.action = "REQUEUE"
                       THEN [requeued EXCEPT ![b][m] = @ + 1] ELSE requeued
        /\ resolved' = IF exists /\ c.action = "SUCCESS"
                       THEN [resolved EXCEPT ![m] = @ + 1] ELSE resolved
        /\ \/ calls' = calls \ {c}
           \/ calls' = (calls \ {c}) \cup Retry(c)
        /\ UNCHANGED <<queue, popped, station, drone, replies, history>>

\* Mutant of QueueReturn: the mission in hand is forgotten.
QueueReturnDrops(b, m) ==
    /\ requeued[b][m] > 0
    /\ requeued' = [requeued EXCEPT ![b][m] = @ - 1]
    /\ UNCHANGED <<queue, popped, pending, resolved, station, drone, network, history>>

\* HandleQueueResolve after the unlock, for REQUEUE.
QueueReturn(b, m) ==
    /\ requeued[b][m] > 0
    /\ requeued' = [requeued EXCEPT ![b][m] = @ - 1]
    /\ queue' = [queue EXCEPT ![b][m] = @ + 1]
    /\ UNCHANGED <<popped, pending, resolved, station, drone, network, history>>

\* startPendingJanitor: 60 seconds passed since the checkout.
PendingTimeout(b, m) ==
    /\ m \in pending[b] /\ timeouts[m] < MaxTimeouts
    /\ pending' = [pending EXCEPT ![b] = @ \ {m}]
    /\ queue' = [queue EXCEPT ![b][m] = @ + 1]
    /\ timeouts' = [timeouts EXCEPT ![m] = @ + 1]
    /\ UNCHANGED <<popped, requeued, resolved, station, drone, network,
                   arrived, checkouts, sweeps, flown, crashes>>

\* An attempt of a call that no broker executes.
CallLost(c) ==
    /\ calls' = (calls \ {c}) \cup Retry(c)
    /\ UNCHANGED <<broker, station, drone, replies, history>>

-----------------------------------------------------------------------------
(* Station *)

\* The checkout and the attempt only keep calls apart: the broker sees the mission.
Call(s, action, m, g, attempt) ==
    [from |-> s, action |-> action, mission |-> m, checkout |-> g,
     attempt |-> attempt, tries |-> MaxTries]

Off == [state |-> "off"]
Free(s) == [state |-> "free", at |-> s]
Flying(s, m, g) == [state |-> "fly", at |-> s, mission |-> m, checkout |-> g]
Acking(s, m, g, t) ==
    [state |-> "ack", at |-> s, mission |-> m, checkout |-> g, tries |-> t]

\* MarkInFlight: a lease of ten seconds; a record of the mission is overwritten.
MarkInFlight(s, m, g) == radar' = [radar EXCEPT ![s][m] = g]

\* Acknowledge: the record of the mission is deleted, if there is one.
Acknowledge(s, m) == radar' = [radar EXCEPT ![s][m] = 0]

\* handleMissionPull after the broker's answer: MarkInFlight, then the mission
\* goes to the drone, unless the drone has given up waiting.
MissionPull(s, m, g) ==
    /\ <<m, g>> \in replies /\ registered[s] # {}
    /\ replies' = replies \ {<<m, g>>}
    /\ MarkInFlight(s, m, g)
    /\ \/ \E d \in registered[s] : /\ drone[d] = Free(s)
                                   /\ drone' = [drone EXCEPT ![d] = Flying(s, m, g)]
       \/ drone' = drone
    /\ UNCHANGED <<broker, registered, dummy, calls, history>>

\* sweep: the lease expired, whether or not the drone is still flying.
Sweep(s, m) ==
    /\ radar[s][m] > 0
    /\ radar' = [radar EXCEPT ![s][m] = 0]
    /\ dummy' = [dummy EXCEPT ![s] = @ \cup {<<m, radar[s][m]>>}]
    /\ sweeps' = [sweeps EXCEPT ![m] = @ + 1]
    /\ UNCHANGED <<broker, registered, drone, network,
                   arrived, checkouts, timeouts, flown, crashes>>

\* Mutant of Fallback: the lapsed mission is reported as a success.
FallbackSucceeds(s, m, g) ==
    /\ <<m, g>> \in dummy[s]
    /\ ~ \E c \in calls : c.from = s /\ c.action = "REQUEUE"
    /\ dummy' = [dummy EXCEPT ![s] = @ \ {<<m, g>>}]
    /\ calls' = calls \cup {Call(s, "SUCCESS", m, g, 0)}
    /\ UNCHANGED <<broker, registered, radar, drone, replies, history>>

\* The fallback loop hands one expired mission back and waits for that call.
Fallback(s, m, g) ==
    /\ <<m, g>> \in dummy[s]
    /\ ~ \E c \in calls : c.from = s /\ c.action = "REQUEUE"
    /\ dummy' = [dummy EXCEPT ![s] = @ \ {<<m, g>>}]
    /\ calls' = calls \cup {Call(s, "REQUEUE", m, g, 0)}
    /\ UNCHANGED <<broker, registered, radar, drone, replies, history>>

\* A station keeps everything in memory.
StationCrash(s) ==
    /\ crashes[s] < MaxCrashes
    /\ crashes' = [crashes EXCEPT ![s] = @ + 1]
    /\ registered' = [registered EXCEPT ![s] = {}]
    /\ radar' = [radar EXCEPT ![s] = [m \in Missions |-> 0]]
    /\ dummy' = [dummy EXCEPT ![s] = {}]
    /\ calls' = {c \in calls : c.from # s}
    /\ UNCHANGED <<broker, drone, replies, arrived, checkouts, timeouts, sweeps, flown>>

-----------------------------------------------------------------------------
(* Drone *)

\* register: the station notes the drone, which misses the answer if it is lost.
Register(d, s) ==
    /\ drone[d] = Off
    /\ registered' = [registered EXCEPT ![s] = @ \cup {d}]
    /\ \/ drone' = [drone EXCEPT ![d] = Free(s)]
       \/ drone' = drone
    /\ UNCHANGED <<broker, radar, dummy, network, history>>

\* executeMission returns true.
Land(d) ==
    /\ drone[d].state = "fly"
    /\ drone' = [drone EXCEPT ![d] = Acking(@.at, @.mission, @.checkout, MaxTries)]
    /\ flown' = flown \cup {drone[d].mission}
    /\ UNCHANGED <<broker, station, network, arrived, checkouts, timeouts, sweeps, crashes>>

\* executeMission returns false, or the drone is lost and another one starts.
Abort(d) ==
    /\ drone[d].state = "fly"
    /\ drone' = [drone EXCEPT ![d] = Off]
    /\ UNCHANGED <<broker, station, network, history>>

\* sendAck after an attempt without an answer.
AckAgain(d) ==
    IF drone[d].tries = 1 THEN Free(drone[d].at)
    ELSE [drone[d] EXCEPT !.tries = @ - 1]

\* An attempt of sendAck reaches handleMissionAck, which forgets the lease of the
\* mission, whoever holds it, and reports SUCCESS to a broker.
MissionAck(d) ==
    /\ drone[d].state = "ack"
    /\ LET s == drone[d].at
           m == drone[d].mission
       IN  /\ Acknowledge(s, m)
           /\ calls' = calls \cup
                {Call(s, "SUCCESS", m, drone[d].checkout, drone[d].tries)}
           /\ \/ drone' = [drone EXCEPT ![d] = Free(s)]
              \/ drone' = [drone EXCEPT ![d] = AckAgain(d)]
    /\ UNCHANGED <<broker, registered, dummy, replies, history>>

AckLost(d) ==
    /\ drone[d].state = "ack"
    /\ drone' = [drone EXCEPT ![d] = AckAgain(d)]
    /\ UNCHANGED <<broker, station, network, history>>

-----------------------------------------------------------------------------

Init ==
    /\ queue = [b \in Brokers |-> [m \in Missions |-> 0]]
    /\ popped = [b \in Brokers |-> [m \in Missions |-> 0]]
    /\ pending = [b \in Brokers |-> {}]
    /\ requeued = [b \in Brokers |-> [m \in Missions |-> 0]]
    /\ resolved = [m \in Missions |-> 0]
    /\ registered = [s \in Stations |-> {}]
    /\ radar = [s \in Stations |-> [m \in Missions |-> 0]]
    /\ dummy = [s \in Stations |-> {}]
    /\ drone = [d \in Drones |-> Off]
    /\ replies = {} /\ calls = {}
    /\ arrived = {} /\ flown = {}
    /\ checkouts = [m \in Missions |-> 0]
    /\ timeouts = [m \in Missions |-> 0]
    /\ sweeps = [m \in Missions |-> 0]
    /\ crashes = [s \in Stations |-> 0]

BrokerNext ==
    \/ \E m \in Missions : Enqueue(m)
    \/ \E b \in Brokers, m \in Missions :
          \/ QueuePop(b, m)
          \/ QueueCheckout(b, m)
          \/ QueueReturn(b, m)
          \/ PendingTimeout(b, m)
    \/ \E c \in calls : \E b \in Brokers : QueueResolve(b, c)

StationNext ==
    \E s \in Stations :
        \/ \E r \in replies : MissionPull(s, r[1], r[2])
        \/ \E m \in Missions : Sweep(s, m)
        \/ \E r \in dummy[s] : Fallback(s, r[1], r[2])
        \/ StationCrash(s)

DroneNext ==
    \E d \in Drones :
        \/ \E s \in Stations : Register(d, s)
        \/ Land(d)
        \/ Abort(d)
        \/ MissionAck(d)
        \/ AckLost(d)

Next == BrokerNext \/ StationNext \/ DroneNext \/ \E c \in calls : CallLost(c)

Spec == Init /\ [][Next]_vars

\* The broker's own goroutines run: handlers finish and the janitor's ticker
\* fires.  Nothing is assumed of stations, drones or the network.
FairSpec ==
    /\ Spec
    /\ \A b \in Brokers, m \in Missions :
          /\ WF_vars(QueueCheckout(b, m))
          /\ WF_vars(QueueReturn(b, m))
          /\ WF_vars(PendingTimeout(b, m))

-----------------------------------------------------------------------------
(* Properties *)

Counts == [Brokers -> [Missions -> Nat]]
CallType ==
    [from : Stations, action : {"SUCCESS", "REQUEUE"}, mission : Missions,
     checkout : Nat, attempt : Nat, tries : 1 .. MaxTries]
DroneType ==
    {Off}
        \cup [state : {"free"}, at : Stations]
        \cup [state : {"fly"}, at : Stations, mission : Missions, checkout : Nat]
        \cup [state : {"ack"}, at : Stations, mission : Missions, checkout : Nat,
              tries : 1 .. MaxTries]

TypeOK ==
    /\ queue \in Counts /\ popped \in Counts /\ requeued \in Counts
    /\ pending \in [Brokers -> SUBSET Missions]
    /\ resolved \in [Missions -> Nat]
    /\ registered \in [Stations -> SUBSET Drones]
    /\ radar \in [Stations -> [Missions -> Nat]]
    /\ dummy \in [Stations -> SUBSET (Missions \X Nat)]
    /\ replies \subseteq Missions \X Nat
    /\ calls \subseteq CallType
    /\ drone \in [Drones -> DroneType]
    /\ arrived \subseteq Missions /\ flown \subseteq Missions
    /\ checkouts \in [Missions -> Nat]
    /\ timeouts \in [Missions -> Nat] /\ sweeps \in [Missions -> Nat]
    /\ crashes \in [Stations -> Nat]

\* Copies of m in the hands of broker b.
Copies(b, m) ==
    queue[b][m] + popped[b][m] + requeued[b][m] + (IF m \in pending[b] THEN 1 ELSE 0)

\* No mission is lost and none is multiplied: from its arrival on there is one
\* copy of it, in its home broker's queue, in a handler or checked out, or it
\* was resolved once, whatever calls are lost, repeated, late or misdirected
\* and whichever stations crash (http_server.go:92-183).
MissionConserved ==
    \A m \in Missions :
        /\ Copies(Home[m], m) + resolved[m] = IF m \in arrived THEN 1 ELSE 0
        /\ \A b \in Brokers \ {Home[m]} : Copies(b, m) = 0

\* A mission only counts as done when a drone flew it to the end
\* (http_server.go:174-180, cmd/station/http_server.go:114-132).
ResolvedMeansFlown == \A m \in Missions : resolved[m] > 0 => m \in flown

\* A mission is handed out again only because the broker's timeout or a lapsed
\* lease took it back, and one lapsed lease does so at most once for each
\* attempt of the REQUEUE call (http_server.go:92-183, cmd/station/main.go:35-52).
RedispatchesBounded ==
    \A m \in Missions :
        checkouts[m] <= 1 + timeouts[m] + MaxTries * sweeps[m]

\* No mission stays checked out or in a handler for ever: again and again it is
\* back on the queue, until it is resolved (http_server.go:91-109).
NoMissionStuck ==
    \A m \in Missions :
        m \in arrived ~> (queue[Home[m]][m] > 0 \/ resolved[m] > 0)

=============================================================================
