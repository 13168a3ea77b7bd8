-------------------------------- MODULE Fleet ---------------------------------
(***************************************************************************)
(* The drones' main loop (cmd/drone/main.go) against stations that crash   *)
(* and come back: registration over the common name, the pull over the     *)
(* address of the station that answered, and what becomes of the missions  *)
(* when either side loses the other.                                       *)
(*                                                                         *)
(* A drone decides by itself that it is registered; the station keeps its  *)
(* own list in memory (RegisteredDrones).  Only an aborted flight makes a  *)
(* drone register again.  A pull is a GET that the client repeats although *)
(* it takes a mission off the queue (http_client.go:110).                  *)
(*                                                                         *)
(* The brokers are one queue and one map of pending missions: a resolve of *)
(* the station that asks another replica than the mission's finds nothing  *)
(* pending and has no effect.  Module Flight has the pings in detail; here *)
(* a flight lands, aborts or hangs.                                        *)
(***************************************************************************)
EXTENDS Integers, FiniteSets

CONSTANTS
    Drones, Stations,
    Missions,    \* in the queue at first
    MaxTries,    \* attempts of one GetJSON: maxRetries + 1, 4 in the code
    MaxFaults    \* bound: crashes of stations, and calls and answers lost or late

ASSUME FleetAssumption == MaxTries \in Nat \ {0} /\ MaxFaults \in Nat

VARIABLES
    drone,       \* what each drone believes and does
    up,          \* stations that answer
    registered,  \* station -> drones (RegisteredDrones)
    queue,       \* missions the broker can hand out
    pending,     \* pendingMissions of the broker
    radar,       \* station -> missions with a lease (records)
    done,        \* missions the broker saw succeed
    \* history
    forsaken,    \* drones whose station lost its memory since they registered
    faults       \* so far

missions == <<queue, pending, radar, done>>
vars == <<drone, up, registered, missions, forsaken, faults>>

Off == [state |-> "off"]
Free(s) == [state |-> "free", at |-> s]
Pulling(s, k) == [state |-> "pull", at |-> s, attempt |-> k]
Flying(s, m) == [state |-> "fly", at |-> s, mission |-> m]
Hung(s) == [state |-> "hung", at |-> s]

Fault == faults < MaxFaults /\ faults' = faults + 1
NoFault == UNCHANGED faults

-----------------------------------------------------------------------------
(* Registration *)

\* Mutants of Register: the drone does not look at the outcome of its call; it
\* never accepts the address in the answer.
RegisterBlind(d, s) ==
    /\ drone[d] = Off
    /\ forsaken' = forsaken \ {d}
    /\ drone' = [drone EXCEPT ![d] = Free(s)]
    /\ \/ s \in up /\ registered' = [registered EXCEPT ![s] = @ \cup {d}] /\ NoFault
       \/ UNCHANGED registered /\ Fault
    /\ UNCHANGED <<up, missions>>

RegisterDeaf(d, s) ==
    /\ drone[d] = Off /\ s \in up
    /\ registered' = [registered EXCEPT ![s] = @ \cup {d}]
    /\ forsaken' = forsaken \ {d}
    /\ UNCHANGED <<drone, up, missions, faults>>

\* register and handleRegister.  If the answer is lost the station knows a drone
\* that does not know it, and the drone tries again.
Register(d, s) ==
    /\ drone[d] = Off /\ s \in up
    /\ registered' = [registered EXCEPT ![s] = @ \cup {d}]
    /\ forsaken' = forsaken \ {d}
    /\ \/ drone' = [drone EXCEPT ![d] = Free(s)] /\ NoFault
       \/ UNCHANGED drone /\ Fault
    /\ UNCHANGED <<up, missions>>

-----------------------------------------------------------------------------
(* pullMission and handleMissionPull *)

PullStart(d) ==
    /\ drone[d].state = "free"
    /\ drone' = [drone EXCEPT ![d] = Pulling(@.at, 1)]
    /\ UNCHANGED <<up, registered, missions, forsaken, faults>>

\* After an attempt without an answer GetJSON tries again or gives up, and the
\* drone is where it was before the pull.
Again(d) ==
    IF drone[d].attempt < MaxTries
    THEN Pulling(drone[d].at, drone[d].attempt + 1)
    ELSE Free(drone[d].at)

Heard(d) == drone[d].state = "pull" /\ drone[d].at \in up
Known(d) == d \in registered[drone[d].at]

\* No mission: 401, or 204 because the queue is empty.  Neither is repeated and
\* neither makes the drone register again.
PullRefused(d) ==
    /\ Heard(d) /\ (Known(d) => queue = {})
    /\ drone' = [drone EXCEPT ![d] = Free(@.at)]
    /\ UNCHANGED <<up, registered, missions, forsaken, faults>>

\* HandleQueuePop of the broker.
Checkout(m) ==
    /\ m \in queue
    /\ queue' = queue \ {m} /\ pending' = pending \cup {m}

PullServed(d, m) ==
    /\ Heard(d) /\ Known(d) /\ Checkout(m)
    /\ radar' = [radar EXCEPT ![drone[d].at] = @ \cup {m}]
    /\ drone' = [drone EXCEPT ![d] = Flying(@.at, m)]
    /\ UNCHANGED <<up, registered, done, forsaken, faults>>

\* Mutant of PopLost: the broker forgets the mission it handed out.
PopLostForgets(d, m) ==
    /\ Heard(d) /\ Known(d) /\ m \in queue /\ Fault
    /\ queue' = queue \ {m}
    /\ UNCHANGED <<drone, up, registered, pending, radar, done, forsaken>>

\* The station's own GET of /queue/pop takes a mission and its answer is lost; the
\* station repeats the GET.
PopLost(d, m) ==
    /\ Heard(d) /\ Known(d) /\ Checkout(m) /\ Fault
    /\ UNCHANGED <<drone, up, registered, radar, done, forsaken>>

\* The station leases a mission to a drone that has stopped waiting.
PullLate(d, m) ==
    /\ Heard(d) /\ Known(d) /\ Checkout(m) /\ Fault
    /\ radar' = [radar EXCEPT ![drone[d].at] = @ \cup {m}]
    /\ drone' = [drone EXCEPT ![d] = Again(d)]
    /\ UNCHANGED <<up, registered, done, forsaken>>

\* The station is not there or never hears the attempt.
PullUnanswered(d) ==
    /\ drone[d].state = "pull"
    /\ \/ drone[d].at \notin up /\ NoFault
       \/ drone[d].at \in up /\ Fault
    /\ drone' = [drone EXCEPT ![d] = Again(d)]
    /\ UNCHANGED <<up, registered, missions, forsaken>>

-----------------------------------------------------------------------------
(* Flight *)

Flown(d) == drone[d].mission

\* Resolve of the mission at its broker: nothing happens if it is not pending.
Resolved(m) == pending' = pending \ {m}

Lands(d) ==
    /\ drone[d].state = "fly"
    /\ drone' = [drone EXCEPT ![d] = Free(@.at)]
    /\ UNCHANGED <<up, registered, queue, forsaken>>

Acknowledge(d) ==
    /\ drone[d].at \in up
    /\ radar' = [radar EXCEPT ![drone[d].at] = @ \ {Flown(d)}]

\* sendAck and handleMissionAck: the SUCCESS is heard.
LandReported(d) ==
    /\ Lands(d) /\ Acknowledge(d)
    /\ Resolved(Flown(d))
    /\ done' = done \cup ({Flown(d)} \cap pending)
    /\ NoFault

\* The station asks another replica, as often as the name resolves to it, or none.
LandUnreported(d) ==
    /\ Lands(d) /\ Acknowledge(d)
    /\ UNCHANGED <<pending, done, faults>>

\* The station never hears sendAck.
LandUnheard(d) ==
    /\ Lands(d)
    /\ \/ drone[d].at \notin up /\ NoFault
       \/ drone[d].at \in up /\ Fault
    /\ UNCHANGED <<pending, radar, done>>

\* Three pings in a row failed: the station is gone, has no such lease any more, or
\* the network lost them.
PingsFail(d) ==
    /\ drone[d].state = "fly"
    /\ \/ (drone[d].at \notin up \/ Flown(d) \notin radar[drone[d].at]) /\ NoFault
       \/ drone[d].at \in up /\ Flown(d) \in radar[drone[d].at] /\ Fault
    /\ UNCHANGED <<up, registered, missions, forsaken>>

\* The session is cleared.
Abort(d) ==
    /\ PingsFail(d)
    /\ drone' = [drone EXCEPT ![d] = Off]

\* The third ping fails when the flight time is over: both goroutines of
\* executeMission wait for the other to receive (module Flight).
Hang(d) ==
    /\ PingsFail(d)
    /\ drone' = [drone EXCEPT ![d] = Hung(@.at)]

-----------------------------------------------------------------------------
(* Recovery *)

\* sweep, the fallback loop and REQUEUE, which may ask another replica.  The lease of
\* a drone in flight runs out too, if its pings are lost or slow.
LeaseExpires(s, m) ==
    /\ m \in radar[s]
    /\ radar' = [radar EXCEPT ![s] = @ \ {m}]
    /\ \/ Resolved(m) /\ queue' = queue \cup ({m} \cap pending)
       \/ UNCHANGED <<queue, pending>>
    /\ UNCHANGED <<drone, up, registered, done, forsaken, faults>>

\* startPendingJanitor of the broker: 60 s, longer than any lease and any flight.
PendingTimeout(m) ==
    /\ m \in pending
    /\ \A s \in Stations : m \notin radar[s] /\ \A d \in Drones : drone[d] # Flying(s, m)
    /\ Resolved(m) /\ queue' = queue \cup {m}
    /\ UNCHANGED <<drone, up, registered, radar, done, forsaken, faults>>

\* Drones that believe to be registered with s.
Fixed(s) == {d \in Drones : drone[d] # Off /\ drone[d].at = s}

Crash(s) ==
    /\ s \in up /\ Fault
    /\ up' = up \ {s}
    /\ registered' = [registered EXCEPT ![s] = {}]
    /\ radar' = [radar EXCEPT ![s] = {}]
    /\ forsaken' = forsaken \cup Fixed(s)
    /\ UNCHANGED <<drone, queue, pending, done>>

\* A stopped container is started again: same name, empty memory.
Recover(s) ==
    /\ s \notin up
    /\ up' = up \cup {s}
    /\ UNCHANGED <<drone, registered, missions, forsaken, faults>>

-----------------------------------------------------------------------------

Init ==
    /\ drone = [d \in Drones |-> Off]
    /\ up = Stations
    /\ registered = [s \in Stations |-> {}]
    /\ queue = Missions /\ pending = {} /\ done = {}
    /\ radar = [s \in Stations |-> {}]
    /\ forsaken = {} /\ faults = 0

Pull(d) ==
    \/ PullRefused(d) \/ PullUnanswered(d)
    \/ \E m \in Missions : PullServed(d, m) \/ PopLost(d, m) \/ PullLate(d, m)

FlightEnds(d) ==
    LandReported(d) \/ LandUnreported(d) \/ LandUnheard(d) \/ Abort(d) \/ Hang(d)

Next ==
    \/ \E d \in Drones :
        \/ \E s \in Stations : Register(d, s)
        \/ PullStart(d)
        \/ Pull(d)
        \/ FlightEnds(d)
    \/ \E s \in Stations :
        \/ \E m \in Missions : LeaseExpires(s, m)
        \/ Crash(s)
        \/ Recover(s)
    \/ \E m \in Missions : PendingTimeout(m)

Spec == Init /\ [][Next]_vars

Renewed(s, m) == \E d \in Drones : drone[d] = Flying(s, m)

\* The drones' loops go on, every call returns and the tickers of station and broker
\* fire.  A flight ends in one of the ways module Flight allows, the hang included.
\* The network is not always bad: of the flights that could land with a lease and a
\* replica that has the mission, again and again one does.  Nobody has to bring a
\* stopped station back.
FairSpec ==
    /\ Spec
    /\ \A d \in Drones :
          /\ WF_vars(\E s \in Stations : Register(d, s))
          /\ WF_vars(PullStart(d)) /\ WF_vars(Pull(d)) /\ WF_vars(FlightEnds(d))
          /\ SF_vars(LandReported(d) /\ done' # done)
    /\ \A s \in Stations, m \in Missions : WF_vars(~Renewed(s, m) /\ LeaseExpires(s, m))
    /\ \A m \in Missions : WF_vars(PendingTimeout(m))

-----------------------------------------------------------------------------
(* Properties *)

TypeOK ==
    /\ drone \in [Drones -> {Off} \cup {Free(s) : s \in Stations}
                    \cup {Pulling(s, k) : s \in Stations, k \in 1 .. MaxTries}
                    \cup {Flying(s, m) : s \in Stations, m \in Missions}
                    \cup {Hung(s) : s \in Stations}]
    /\ up \subseteq Stations
    /\ registered \in [Stations -> SUBSET Drones]
    /\ queue \subseteq Missions /\ pending \subseteq Missions /\ done \subseteq Missions
    /\ radar \in [Stations -> SUBSET Missions]
    /\ forsaken \subseteq Drones /\ faults \in Nat

\* A drone that asks a station which does not know it, and always will.
Stranded(d) == drone[d].state \in {"free", "pull"} /\ ~Known(d)

\* A drone that believes to be registered is known to its station unless that
\* station crashed since: no lost or repeated call of register or pull alone puts a
\* drone out of service (main.go:91-107, http_server.go:48-85).
StrandedOnlyByCrash == \A d \in Drones : Stranded(d) => d \in forsaken

\* A drone that gave up its flight is adopted again by a station that knows it, if
\* there is one (main.go:63-68, 80-86).
AbortedReadopted ==
    \A d \in Drones : drone[d] = Off ~>
        \/ drone[d].state = "free" /\ (Known(d) \/ d \in forsaken)
        \/ up = {}

OutOfService(d) ==
    Stranded(d) \/ drone[d].state = "hung" \/ (drone[d] = Off /\ up = {})

\* Missions taken by a repeated pull, leased to a drone that stopped waiting, whose
\* lease ran out in flight, given up or resolved at the wrong replica all come back:
\* every mission succeeds in the end, unless crashes strand or failed pings hang all
\* drones (main.go:110-163, http_server.go:87-132).
ServedUnlessStranded ==
    <>(done = Missions) \/ <>[](\A d \in Drones : OutOfService(d))

=============================================================================
