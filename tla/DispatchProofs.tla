---------------------------- MODULE DispatchProofs ----------------------------
(***************************************************************************)
(* Proofs about Dispatch, for any brokers, stations, drones and missions   *)
(* and any number of lost, repeated and misdirected calls.                 *)
(***************************************************************************)
EXTENDS Dispatch, TLAPS, FiniteSetTheorems

\* Only missions flown to the end are announced as successes.
Announced ==
    /\ \A c \in calls : c.action = "SUCCESS" => c.mission \in flown
    /\ \A d \in Drones : drone[d].state = "ack" => drone[d].mission \in flown

DispatchInv == TypeOK /\ MissionConserved /\ Announced /\ ResolvedMeansFlown

-----------------------------------------------------------------------------
(* Facts about the records *)

\* A call that is tried again is the same call with one attempt less.
LEMMA RetryType ==
  ASSUME NEW c \in CallType
  PROVE  Retry(c) \subseteq {u \in CallType : /\ u.action = c.action
                                              /\ u.mission = c.mission
                                              /\ u.from = c.from
                                              /\ u.tries < c.tries}
BY DispatchAssumption DEF Retry, CallType

\* What a drone in flight or acknowledging carries.
LEMMA DroneParts ==
  ASSUME NEW r \in DroneType
  PROVE  /\ r.state \in {"off", "free", "fly", "ack"}
         /\ r.state \in {"fly", "ack"} =>
               r.at \in Stations /\ r.mission \in Missions /\ r.checkout \in Nat
         /\ r.state = "ack" => r.tries \in 1 .. MaxTries
BY DEF DroneType, Off

\* The states a drone can be put in.
LEMMA DroneStates ==
  ASSUME NEW s \in Stations, NEW m \in Missions, NEW g \in Nat,
         NEW t \in 1 .. MaxTries
  PROVE  /\ Off \in DroneType /\ Free(s) \in DroneType
         /\ Flying(s, m, g) \in DroneType /\ Acking(s, m, g, t) \in DroneType
BY DEF DroneType, Off, Free, Flying, Acking

\* An acknowledgement that is tried again is about the same mission.
LEMMA AckAgainType ==
  ASSUME NEW d \in Drones, drone \in [Drones -> DroneType], drone[d].state = "ack"
  PROVE  /\ AckAgain(d) \in DroneType
         /\ AckAgain(d).state = "ack" => AckAgain(d).mission = drone[d].mission
<1>1. /\ drone[d] \in [state : {"ack"}, at : Stations, mission : Missions,
                       checkout : Nat, tries : 1 .. MaxTries]
  BY DEF DroneType, Off
<1>2. CASE drone[d].tries = 1
  BY <1>1, <1>2 DEF AckAgain, DroneType, Free
<1>3. CASE drone[d].tries # 1
  <2>1. drone[d].tries - 1 \in 1 .. MaxTries
    BY <1>1, <1>3, DispatchAssumption
  <2> QED
    BY <1>1, <1>3, <2>1 DEF AckAgain, DroneType
<1> QED
  BY <1>2, <1>3

-----------------------------------------------------------------------------
(* Type correctness *)

\* The empty system is typed.
LEMMA InitType == Init => TypeOK
BY DEF Init, TypeOK, Counts, DroneType

\* Steps of the brokers keep the types.
LEMMA BrokerType ==
  ASSUME TypeOK, BrokerNext
  PROVE  TypeOK'
<1> USE DispatchAssumption
<1>1. ASSUME NEW m \in Missions, Enqueue(m) PROVE TypeOK'
  BY <1>1 DEF TypeOK, Counts, Enqueue, station, network
<1>2. ASSUME NEW b \in Brokers, NEW m \in Missions, QueuePop(b, m) PROVE TypeOK'
  BY <1>2 DEF TypeOK, Counts, QueuePop, station, network, history
<1>3. ASSUME NEW b \in Brokers, NEW m \in Missions, QueueCheckout(b, m) PROVE TypeOK'
  BY <1>3 DEF TypeOK, Counts, QueueCheckout, station
<1>4. ASSUME NEW b \in Brokers, NEW m \in Missions, QueueReturn(b, m) PROVE TypeOK'
  BY <1>4 DEF TypeOK, Counts, QueueReturn, station, network, history
<1>5. ASSUME NEW b \in Brokers, NEW m \in Missions, PendingTimeout(b, m) PROVE TypeOK'
  BY <1>5 DEF TypeOK, Counts, PendingTimeout, station, network
<1>6. ASSUME NEW c \in calls, NEW b \in Brokers, QueueResolve(b, c) PROVE TypeOK'
  <2>1. c \in CallType /\ c.mission \in Missions
    BY DEF TypeOK, CallType
  <2>2. calls' \subseteq CallType
    BY <1>6, <2>1, RetryType DEF QueueResolve, TypeOK
  <2>3. requeued' \in Counts /\ resolved' \in [Missions -> Nat]
    BY <1>6, <2>1 DEF TypeOK, Counts, QueueResolve
  <2> QED
    BY <1>6, <2>1, <2>2, <2>3 DEF TypeOK, QueueResolve, station, history
<1> QED
  BY <1>1, <1>2, <1>3, <1>4, <1>5, <1>6 DEF BrokerNext

\* So do steps of the stations.
LEMMA StationType ==
  ASSUME TypeOK, StationNext
  PROVE  TypeOK'
<1> PICK s \in Stations :
        \/ \E r \in replies : MissionPull(s, r[1], r[2])
        \/ \E m \in Missions : Sweep(s, m)
        \/ \E r \in dummy[s] : Fallback(s, r[1], r[2])
        \/ StationCrash(s)
  BY DEF StationNext
<1>1. ASSUME NEW r \in replies, MissionPull(s, r[1], r[2]) PROVE TypeOK'
  <2>1. r[1] \in Missions /\ r[2] \in Nat
    BY DEF TypeOK
  <2>2. drone' \in [Drones -> DroneType]
    BY <1>1, <2>1, DroneStates, DispatchAssumption
       DEF TypeOK, MissionPull, MarkInFlight, DroneType, Flying
  <2> QED
    BY <1>1, <2>1, <2>2 DEF TypeOK, MissionPull, MarkInFlight, broker, history
<1>2. ASSUME NEW m \in Missions, Sweep(s, m) PROVE TypeOK'
  BY <1>2 DEF TypeOK, Sweep, broker, network
<1>3. ASSUME NEW r \in dummy[s], Fallback(s, r[1], r[2]) PROVE TypeOK'
  <2>1. r[1] \in Missions /\ r[2] \in Nat
    BY DEF TypeOK
  <2>2. Call(s, "REQUEUE", r[1], r[2], 0) \in CallType
    BY <2>1, DispatchAssumption DEF Call, CallType
  <2> QED
    BY <1>3, <2>1, <2>2 DEF TypeOK, Fallback, broker, history
<1>4. CASE StationCrash(s)
  BY <1>4 DEF TypeOK, StationCrash, broker
<1> QED
  BY <1>1, <1>2, <1>3, <1>4

\* And steps of the drones and losses of calls.
LEMMA DroneStepType ==
  ASSUME TypeOK, DroneNext \/ \E c \in calls : CallLost(c)
  PROVE  TypeOK'
<1>1. ASSUME NEW c \in calls, CallLost(c) PROVE TypeOK'
  BY <1>1, RetryType DEF TypeOK, CallLost, broker, station, history
<1>2. ASSUME NEW d \in Drones, NEW s \in Stations, Register(d, s) PROVE TypeOK'
  BY <1>2 DEF TypeOK, Register, Free, DroneType, broker, network, history
<1>3. ASSUME NEW d \in Drones, Land(d) PROVE TypeOK'
  <2>1. /\ drone[d].at \in Stations /\ drone[d].mission \in Missions
        /\ drone[d].checkout \in Nat
    BY <1>3, DroneParts DEF TypeOK, Land
  <2>2. Acking(drone[d].at, drone[d].mission, drone[d].checkout, MaxTries) \in DroneType
    BY <2>1, DispatchAssumption, DroneStates
  <2> QED
    BY <1>3, <2>1, <2>2 DEF TypeOK, Land, broker, station, network
<1>4. ASSUME NEW d \in Drones, Abort(d) PROVE TypeOK'
  BY <1>4 DEF TypeOK, Abort, DroneType, broker, station, network, history
<1>5. ASSUME NEW d \in Drones, MissionAck(d) PROVE TypeOK'
  <2>1. /\ drone[d].at \in Stations /\ drone[d].mission \in Missions
        /\ drone[d].checkout \in Nat /\ drone[d].tries \in 1 .. MaxTries
    BY <1>5, DroneParts DEF TypeOK, MissionAck, Acknowledge
  <2>2. AckAgain(d) \in DroneType /\ Free(drone[d].at) \in DroneType
    BY <1>5, <2>1, AckAgainType DEF TypeOK, MissionAck, Acknowledge, DroneType, Free
  <2>3. Call(drone[d].at, "SUCCESS", drone[d].mission, drone[d].checkout,
             drone[d].tries) \in CallType
    BY <2>1, DispatchAssumption DEF Call, CallType
  <2> QED
    BY <1>5, <2>1, <2>2, <2>3 DEF TypeOK, MissionAck, Acknowledge, broker, history
<1>6. ASSUME NEW d \in Drones, AckLost(d) PROVE TypeOK'
  <2>1. AckAgain(d) \in DroneType
    BY <1>6, AckAgainType DEF TypeOK, AckLost
  <2> QED
    BY <1>6, <2>1 DEF TypeOK, AckLost, broker, station, network, history
<1> QED
  BY <1>1, <1>2, <1>3, <1>4, <1>5, <1>6 DEF DroneNext

-----------------------------------------------------------------------------
(* Conservation *)

\* A step that keeps the number of copies in every broker conserves missions.
LEMMA SameCopies ==
  ASSUME MissionConserved, resolved' = resolved, arrived' = arrived,
         \A b \in Brokers, m \in Missions : Copies(b, m)' = Copies(b, m)
  PROVE  MissionConserved'
BY DispatchAssumption DEF MissionConserved

\* Counts are natural numbers, and a checked out mission is a single copy.
LEMMA CopiesType ==
  ASSUME TypeOK, NEW b \in Brokers, NEW m \in Missions
  PROVE  /\ queue[b][m] \in Nat /\ popped[b][m] \in Nat /\ requeued[b][m] \in Nat
         /\ resolved[m] \in Nat /\ Copies(b, m) \in Nat
BY DEF TypeOK, Counts, Copies

\* Wherever a copy is, its mission is at home, unresolved, and nowhere else.
LEMMA OneCopy ==
  ASSUME TypeOK, MissionConserved, NEW b \in Brokers, NEW m \in Missions,
         Copies(b, m) > 0
  PROVE  b = Home[m] /\ Copies(b, m) = 1 /\ resolved[m] = 0 /\ m \in arrived
<1>1. Copies(b, m) \in Nat /\ resolved[m] \in Nat
  BY CopiesType
<1>2. b = Home[m]
  BY <1>1 DEF MissionConserved
<1> QED
  BY <1>1, <1>2 DEF MissionConserved

\* Every step of a broker moves a copy of a mission from one place to another.
LEMMA BrokerConserves ==
  ASSUME TypeOK, MissionConserved, BrokerNext
  PROVE  MissionConserved'
<1>0. \A b \in Brokers, m \in Missions :
         /\ queue[b][m] \in Nat /\ popped[b][m] \in Nat /\ requeued[b][m] \in Nat
         /\ resolved[m] \in Nat /\ Copies(b, m) \in Nat
  BY CopiesType
<1>1. ASSUME NEW m \in Missions, Enqueue(m) PROVE MissionConserved'
  <2>1. m \notin arrived /\ arrived' = arrived \cup {m} /\ resolved' = resolved
    BY <1>1 DEF Enqueue
  <2>2. \A b \in Brokers, k \in Missions :
           Copies(b, k)' = IF b = Home[m] /\ k = m THEN Copies(b, k) + 1
                           ELSE Copies(b, k)
    BY <1>0, <1>1, DispatchAssumption DEF Enqueue, Copies, TypeOK, Counts
  <2> QED
    BY <1>0, <2>1, <2>2, DispatchAssumption DEF MissionConserved
<1>2. ASSUME NEW b \in Brokers, NEW m \in Missions, QueuePop(b, m)
      PROVE  MissionConserved'
  <2>1. \A h \in Brokers, k \in Missions : Copies(h, k)' = Copies(h, k)
    <3>1. \A h \in Brokers, k \in Missions :
             /\ queue'[h][k] = IF h = b /\ k = m THEN queue[h][k] - 1 ELSE queue[h][k]
             /\ popped'[h][k] = IF h = b /\ k = m THEN popped[h][k] + 1 ELSE popped[h][k]
      BY <1>2 DEF QueuePop, TypeOK, Counts
    <3>2. pending' = pending /\ requeued' = requeued
      BY <1>2 DEF QueuePop
    <3> SUFFICES ASSUME NEW h \in Brokers, NEW k \in Missions
                 PROVE  Copies(h, k)' = Copies(h, k)
      OBVIOUS
    <3>3. queue[h][k] \in Nat /\ popped[h][k] \in Nat /\ requeued[h][k] \in Nat
      BY <1>0
    <3>4. queue'[h][k] + popped'[h][k] = queue[h][k] + popped[h][k]
      BY <3>1, <3>3
    <3>5. requeued'[h][k] = requeued[h][k] /\ pending'[h] = pending[h]
      BY <3>2
    <3>6. queue'[h][k] \in Int /\ popped'[h][k] \in Int
      BY <3>1, <3>3
    <3> QED
      BY <3>3, <3>4, <3>5, <3>6 DEF Copies
  <2> QED
    BY <1>2, <2>1, SameCopies DEF QueuePop, history
<1>3. ASSUME NEW b \in Brokers, NEW m \in Missions, QueueCheckout(b, m)
      PROVE  MissionConserved'
  <2>1. popped[b][m] > 0
    BY <1>3 DEF QueueCheckout
  <2>2. Copies(b, m) > 0
    BY <1>0, <2>1 DEF Copies
  <2>3. m \notin pending[b]
    BY <1>0, <2>1, <2>2, OneCopy DEF Copies
  <2>4. \A h \in Brokers, k \in Missions : Copies(h, k)' = Copies(h, k)
    BY <1>0, <1>3, <2>3 DEF QueueCheckout, Copies, TypeOK, Counts
  <2> QED
    BY <1>3, <2>4, SameCopies DEF QueueCheckout
<1>4. ASSUME NEW b \in Brokers, NEW m \in Missions, QueueReturn(b, m)
      PROVE  MissionConserved'
  <2>1. \A h \in Brokers, k \in Missions : Copies(h, k)' = Copies(h, k)
    <3>1. \A h \in Brokers, k \in Missions :
             /\ requeued'[h][k] = IF h = b /\ k = m THEN requeued[h][k] - 1 ELSE requeued[h][k]
             /\ queue'[h][k] = IF h = b /\ k = m THEN queue[h][k] + 1 ELSE queue[h][k]
      BY <1>4 DEF QueueReturn, TypeOK, Counts
    <3>2. pending' = pending /\ popped' = popped
      BY <1>4 DEF QueueReturn
    <3> QED
      BY <1>0, <3>1, <3>2 DEF Copies
  <2> QED
    BY <1>4, <2>1, SameCopies DEF QueueReturn, history
<1>5. ASSUME NEW b \in Brokers, NEW m \in Missions, PendingTimeout(b, m)
      PROVE  MissionConserved'
  <2>1. \A h \in Brokers, k \in Missions : Copies(h, k)' = Copies(h, k)
    BY <1>0, <1>5 DEF PendingTimeout, Copies, TypeOK, Counts
  <2> QED
    BY <1>5, <2>1, SameCopies DEF PendingTimeout
<1>6. ASSUME NEW c \in calls, NEW b \in Brokers, QueueResolve(b, c)
      PROVE  MissionConserved'
  <2>1. c.mission \in Missions /\ c.action \in {"SUCCESS", "REQUEUE"}
    BY DEF TypeOK, CallType
  <2>2. arrived' = arrived /\ queue' = queue /\ popped' = popped
    BY <1>6 DEF QueueResolve, history
  <2>3. CASE c.mission \notin pending[b]
    <3>1. pending' = pending /\ requeued' = requeued /\ resolved' = resolved
      BY <1>6, <2>3 DEF QueueResolve, TypeOK
    <3> QED
      BY <2>2, <3>1 DEF MissionConserved, Copies
  <2>4. CASE c.mission \in pending[b] /\ c.action = "REQUEUE"
    <3>1. \A h \in Brokers, k \in Missions : Copies(h, k)' = Copies(h, k)
      <4>1. \A h \in Brokers, k \in Missions :
               requeued'[h][k] = IF h = b /\ k = c.mission THEN requeued[h][k] + 1
                                 ELSE requeued[h][k]
        BY <1>6, <2>1, <2>4 DEF QueueResolve, TypeOK, Counts
      <4>2. \A h \in Brokers, k \in Missions :
               k \in pending'[h] <=> k \in pending[h] /\ ~(h = b /\ k = c.mission)
        BY <1>6, <2>1 DEF QueueResolve, TypeOK
      <4> SUFFICES ASSUME NEW h \in Brokers, NEW k \in Missions
                   PROVE  Copies(h, k)' = Copies(h, k)
        OBVIOUS
      <4>3. queue[h][k] \in Nat /\ popped[h][k] \in Nat /\ requeued[h][k] \in Nat
        BY <1>0
      <4>4. CASE h = b /\ k = c.mission
        <5>1. k \in pending[h] /\ k \notin pending'[h]
          BY <2>4, <4>2, <4>4
        <5>2. requeued'[h][k] = requeued[h][k] + 1
          BY <4>1, <4>4
        <5> QED
          BY <2>2, <4>3, <5>1, <5>2 DEF Copies
      <4>5. CASE ~(h = b /\ k = c.mission)
        <5>1. k \in pending[h] <=> k \in pending'[h]
          BY <4>2, <4>5
        <5>2. requeued'[h][k] = requeued[h][k]
          BY <4>1, <4>5
        <5> QED
          BY <2>2, <4>3, <5>1, <5>2 DEF Copies
      <4> QED
        BY <4>4, <4>5
    <3> QED
      BY <1>6, <2>2, <2>4, <3>1, SameCopies DEF QueueResolve
  <2>5. CASE c.mission \in pending[b] /\ c.action = "SUCCESS"
    <3> DEFINE m == c.mission
    <3>1. Copies(b, m) > 0
      BY <1>0, <2>1, <2>5 DEF Copies
    <3>2. b = Home[m] /\ Copies(b, m) = 1 /\ resolved[m] = 0 /\ m \in arrived
      BY <2>1, <3>1, OneCopy
    <3>3. \A h \in Brokers, k \in Missions :
             Copies(h, k)' = IF h = b /\ k = m THEN Copies(h, k) - 1
                             ELSE Copies(h, k)
      BY <1>0, <1>6, <2>1, <2>2, <2>5 DEF QueueResolve, Copies, TypeOK
    <3>4. \A k \in Missions : resolved'[k] = IF k = m THEN 1 ELSE resolved[k]
      BY <1>6, <2>1, <2>5, <3>2 DEF QueueResolve, TypeOK
    <3> QED
      BY <1>0, <2>1, <2>2, <3>2, <3>3, <3>4, DispatchAssumption DEF MissionConserved
  <2> QED
    BY <2>1, <2>3, <2>4, <2>5
<1> QED
  BY <1>1, <1>2, <1>3, <1>4, <1>5, <1>6 DEF BrokerNext

\* No step of a station, of a drone or of the network touches a copy.
LEMMA OthersConserve ==
  ASSUME MissionConserved, StationNext \/ DroneNext \/ \E c \in calls : CallLost(c)
  PROVE  MissionConserved'
<1>1. UNCHANGED <<queue, popped, pending, requeued, resolved, arrived>>
  BY DEF StationNext, MissionPull, MarkInFlight, Sweep, Fallback, StationCrash, DroneNext,
         Register, Land, Abort, MissionAck, AckLost, CallLost, broker, history
<1> QED
  BY <1>1 DEF MissionConserved, Copies

-----------------------------------------------------------------------------
(* Success means flown *)

\* Every announcement of a success comes from a drone that landed.
LEMMA NextAnnounced ==
  ASSUME TypeOK, Announced, ResolvedMeansFlown, Next
  PROVE  Announced' /\ ResolvedMeansFlown'
<1>0. \A c \in calls : c \in CallType
  BY DEF TypeOK
<1>1. CASE BrokerNext
  <2>1. /\ drone' = drone /\ flown' = flown
        /\ \/ calls' = calls /\ resolved' = resolved
           \/ \E c \in calls, b \in Brokers : QueueResolve(b, c)
    BY <1>1 DEF BrokerNext, Enqueue, QueuePop, QueueCheckout, QueueReturn,
                PendingTimeout, QueueResolve, network, history
  <2>2. CASE calls' = calls /\ resolved' = resolved
    BY <2>1, <2>2 DEF Announced, ResolvedMeansFlown
  <2>3. ASSUME NEW c \in calls, NEW b \in Brokers, QueueResolve(b, c)
        PROVE  Announced' /\ ResolvedMeansFlown'
    <3>1. calls' \subseteq calls \cup Retry(c)
      BY <2>3 DEF QueueResolve
    <3>2. Announced'
      BY <1>0, <2>1, <3>1, RetryType DEF Announced
    <3>3. c.mission \in Missions
      BY <1>0 DEF CallType
    <3>4. ResolvedMeansFlown'
      BY <2>1, <2>3, <3>3 DEF QueueResolve, ResolvedMeansFlown, Announced, TypeOK
    <3> QED
      BY <3>2, <3>4
  <2> QED
    BY <2>1, <2>2, <2>3
<1>2. CASE StationNext
  <2>1. flown' = flown /\ resolved' = resolved
    BY <1>2 DEF StationNext, MissionPull, MarkInFlight, Sweep, Fallback, StationCrash, broker, history
  <2>2. \A c \in calls' : c \in calls \/ c.action = "REQUEUE"
    <3>1. ASSUME NEW s \in Stations, NEW r \in dummy[s], Fallback(s, r[1], r[2])
          PROVE  \A c \in calls' : c \in calls \/ c.action = "REQUEUE"
      BY <3>1 DEF Fallback, Call
    <3>2. CASE calls' \subseteq calls
      BY <3>2
    <3> QED
      BY <1>2, <3>1, <3>2 DEF StationNext, MissionPull, MarkInFlight, Sweep, StationCrash, network
  <2>3. \A d \in Drones : drone'[d] = drone[d] \/ drone'[d].state = "fly"
    <3>1. ASSUME NEW s \in Stations, NEW r \in replies, MissionPull(s, r[1], r[2])
          PROVE  \A d \in Drones : drone'[d] = drone[d] \/ drone'[d].state = "fly"
      BY <3>1 DEF MissionPull, MarkInFlight, TypeOK, Flying
    <3>2. CASE drone' = drone
      BY <3>2
    <3> QED
      BY <1>2, <3>1, <3>2 DEF StationNext, Sweep, Fallback, StationCrash
  <2> QED
    BY <2>1, <2>2, <2>3 DEF Announced, ResolvedMeansFlown
<1>3. ASSUME NEW d \in Drones,
             (\E s \in Stations : Register(d, s)) \/ Abort(d)
      PROVE  Announced' /\ ResolvedMeansFlown'
  <2>1. /\ flown' = flown /\ resolved' = resolved /\ calls' = calls
        /\ \A e \in Drones : drone'[e] = drone[e]
                              \/ drone'[e].state \in {"free", "off"}
    BY <1>3 DEF Register, Abort, broker, network, history, TypeOK, Free, Off
  <2> QED
    BY <2>1 DEF Announced, ResolvedMeansFlown
<1>4. ASSUME NEW d \in Drones, Land(d)
      PROVE  Announced' /\ ResolvedMeansFlown'
  <2>1. /\ flown' = flown \cup {drone[d].mission} /\ resolved' = resolved
        /\ calls' = calls
        /\ \A e \in Drones :
              \/ drone'[e] = drone[e]
              \/ e = d /\ drone'[e].mission = drone[d].mission
    <3>1. drone' = [drone EXCEPT ![d] =
                       Acking(drone[d].at, drone[d].mission, drone[d].checkout, MaxTries)]
      BY <1>4 DEF Land
    <3>2. Acking(drone[d].at, drone[d].mission, drone[d].checkout, MaxTries).mission
            = drone[d].mission
      BY DEF Acking
    <3>3. \A e \in Drones :
              \/ drone'[e] = drone[e]
              \/ e = d /\ drone'[e].mission = drone[d].mission
      BY <3>1, <3>2 DEF TypeOK
    <3> QED
      BY <1>4, <3>3 DEF Land, broker, network
  <2> QED
    BY <2>1 DEF Announced, ResolvedMeansFlown
<1>5. ASSUME NEW d \in Drones, MissionAck(d) \/ AckLost(d)
      PROVE  Announced' /\ ResolvedMeansFlown'
  <2>1. flown' = flown /\ resolved' = resolved /\ drone[d].state = "ack"
    BY <1>5 DEF MissionAck, Acknowledge, AckLost, broker, history
  <2>2. \A c \in calls' : c \in calls \/ c.mission = drone[d].mission
    BY <1>5 DEF MissionAck, Acknowledge, AckLost, network, Call
  <2>3. \A e \in Drones :
          \/ drone'[e] = drone[e]
          \/ e = d /\ (drone'[e] = AckAgain(d) \/ drone'[e].state = "free")
    BY <1>5 DEF MissionAck, Acknowledge, AckLost, TypeOK, Free
  <2>4. AckAgain(d).state = "ack" => AckAgain(d).mission = drone[d].mission
    BY <2>1, AckAgainType DEF TypeOK
  <2> QED
    BY <2>1, <2>2, <2>3, <2>4 DEF Announced, ResolvedMeansFlown
<1>6. ASSUME NEW c \in calls, CallLost(c)
      PROVE  Announced' /\ ResolvedMeansFlown'
  <2>1. /\ drone' = drone /\ flown' = flown /\ resolved' = resolved
        /\ calls' \subseteq calls \cup Retry(c)
    BY <1>6 DEF CallLost, broker, history
  <2> QED
    BY <1>0, <2>1, RetryType DEF Announced, ResolvedMeansFlown
<1> QED
  BY <1>1, <1>2, <1>3, <1>4, <1>5, <1>6 DEF Next, DroneNext

-----------------------------------------------------------------------------
(* Redispatches *)

\* The attempts left of the calls that hand m back.
Requeues(m) ==
    {t \in Stations \X (1 .. MaxTries) :
        \E c \in calls : /\ c.action = "REQUEUE" /\ c.mission = m
                         /\ c.from = t[1] /\ t[2] <= c.tries}

\* The lapsed checkouts of m that no station has handed back yet.
Lapsed(m) == {t \in Stations \X Nat : <<m, t[2]>> \in dummy[t[1]]}

\* The checkouts m had and the copies that wait for the next one.
Spent(m) == checkouts[m] + queue[Home[m]][m] + popped[Home[m]][m] + requeued[Home[m]][m]

\* What may have brought a copy onto the queue.
Fund(m) == (IF m \in arrived THEN 1 ELSE 0) + timeouts[m] + MaxTries * sweeps[m]

\* A lapsed lease pays for the attempts of one REQUEUE call, and every attempt pays
\* for one more checkout.
BudgetOf(m) ==
    /\ IsFiniteSet(Requeues(m)) /\ IsFiniteSet(Lapsed(m))
    /\ Spent(m) + Cardinality(Requeues(m)) + MaxTries * Cardinality(Lapsed(m)) <= Fund(m)

\* The fallback loop of a station has one call under way at a time.
OneRequeue ==
    \A c, d \in calls :
        c.action = "REQUEUE" /\ d.action = "REQUEUE" /\ c.from = d.from => c = d

BudgetInv == OneRequeue /\ \A m \in Missions : BudgetOf(m)

\* Both sides of the account are natural numbers.
LEMMA BudgetTypes ==
  ASSUME TypeOK, NEW m \in Missions
  PROVE  Spent(m) \in Nat /\ Fund(m) \in Nat
<1>1. Home[m] \in Brokers /\ MaxTries \in Nat
  BY DispatchAssumption
<1>2. /\ checkouts[m] \in Nat /\ timeouts[m] \in Nat /\ sweeps[m] \in Nat
      /\ queue[Home[m]][m] \in Nat /\ popped[Home[m]][m] \in Nat
      /\ requeued[Home[m]][m] \in Nat
  BY <1>1 DEF TypeOK, Counts
<1>3. MaxTries * sweeps[m] \in Nat
  BY <1>1, <1>2
<1> QED
  BY <1>2, <1>3 DEF Spent, Fund

\* A product grows with its factor.
LEMMA Times ==
  ASSUME NEW k \in Nat, NEW a \in Nat, NEW b \in Nat, a <= b
  PROVE  k * a \in Nat /\ k * b \in Nat /\ k * a <= k * b /\ k * (a + 1) = k * a + k
OBVIOUS

\* A step that starts no call, lets no lease lapse and spends no more than it funds.
LEMMA BudgetKept ==
  ASSUME TypeOK, TypeOK', NEW m \in Missions, BudgetOf(m),
         Requeues(m)' \subseteq Requeues(m), Lapsed(m)' \subseteq Lapsed(m),
         Spent(m)' + Fund(m) <= Spent(m) + Fund(m)'
  PROVE  BudgetOf(m)'
<1>1. /\ IsFiniteSet(Requeues(m)') /\ Cardinality(Requeues(m)') <= Cardinality(Requeues(m))
      /\ IsFiniteSet(Lapsed(m)') /\ Cardinality(Lapsed(m)') <= Cardinality(Lapsed(m))
  BY FS_Subset DEF BudgetOf
<1>2. /\ Cardinality(Requeues(m)) \in Nat /\ Cardinality(Requeues(m)') \in Nat
      /\ Cardinality(Lapsed(m)) \in Nat /\ Cardinality(Lapsed(m)') \in Nat
  BY <1>1, FS_CardinalityType DEF BudgetOf
<1> DEFINE p == MaxTries * Cardinality(Lapsed(m))
           q == MaxTries * Cardinality(Lapsed(m)')
<1>3. p \in Nat /\ q \in Nat /\ q <= p
  BY <1>1, <1>2, Times, DispatchAssumption
<1>4. Spent(m) \in Nat /\ Fund(m) \in Nat /\ Spent(m)' \in Nat /\ Fund(m)' \in Nat
  <2>1. Spent(m) \in Nat /\ Fund(m) \in Nat
    BY BudgetTypes
  <2>2. /\ Home[m] \in Brokers /\ MaxTries \in Nat
    BY DispatchAssumption
  <2>3. /\ checkouts'[m] \in Nat /\ timeouts'[m] \in Nat /\ sweeps'[m] \in Nat
        /\ queue'[Home[m]][m] \in Nat /\ popped'[Home[m]][m] \in Nat
        /\ requeued'[Home[m]][m] \in Nat
    BY <2>2 DEF TypeOK, Counts
  <2>4. MaxTries * sweeps'[m] \in Nat
    BY <2>2, <2>3
  <2> QED
    BY <2>1, <2>3, <2>4 DEF Spent, Fund
<1>5. Spent(m) + Cardinality(Requeues(m)) + p <= Fund(m)
  BY DEF BudgetOf
<1>6. Spent(m)' + Cardinality(Requeues(m)') + q <= Fund(m)'
  <2> HIDE DEF p, q
  <2> QED
    BY <1>1, <1>2, <1>3, <1>4, <1>5
<1> QED
  BY <1>1, <1>6 DEF BudgetOf

\* Attempts of REQUEUE calls are only used up, unless a call is started.
LEMMA RequeuesShrink ==
  ASSUME TypeOK,
         \A d \in calls' : d.action = "REQUEUE" =>
            \E c \in calls : /\ c.action = "REQUEUE" /\ c.mission = d.mission
                             /\ c.from = d.from /\ d.tries <= c.tries,
         TypeOK', NEW m \in Missions
  PROVE  Requeues(m)' \subseteq Requeues(m)
<1> SUFFICES ASSUME NEW t \in Stations \X (1 .. MaxTries), t \in Requeues(m)'
             PROVE  t \in Requeues(m)
  BY DEF Requeues
<1>1. PICK d \in calls' : /\ d.action = "REQUEUE" /\ d.mission = m
                          /\ d.from = t[1] /\ t[2] <= d.tries
  BY DEF Requeues
<1>2. PICK c \in calls : /\ c.action = "REQUEUE" /\ c.mission = m
                         /\ c.from = t[1] /\ d.tries <= c.tries
  BY <1>1
<1>3. c \in CallType /\ d \in CallType
  BY <1>1, <1>2 DEF TypeOK
<1>4. c.tries \in Int /\ d.tries \in Int /\ t[2] \in Int
  BY <1>3 DEF CallType
<1> QED
  BY <1>1, <1>2, <1>4 DEF Requeues

\* A call that is answered, tried again or given up leaves at most one call behind,
\* with fewer attempts.
LEMMA CallsAfter ==
  ASSUME TypeOK, OneRequeue, NEW c \in calls, calls' \subseteq (calls \ {c}) \cup Retry(c)
  PROVE  /\ OneRequeue'
         /\ \A d \in calls' : d.action = "REQUEUE" =>
               \E e \in calls : /\ e.action = "REQUEUE" /\ e.mission = d.mission
                                /\ e.from = d.from /\ d.tries <= e.tries
<1>1. \A d \in calls : d \in CallType
  BY DEF TypeOK
<1>2. \A d \in Retry(c) : /\ d \in CallType /\ d.action = c.action /\ d.mission = c.mission
                          /\ d.from = c.from /\ d.tries < c.tries
  BY <1>1, RetryType
<1>3. \A d, e \in Retry(c) : d = e
  BY DEF Retry
<1>4. OneRequeue'
  BY <1>2, <1>3 DEF OneRequeue
<1>5. \A d \in CallType : d.tries \in Int
  BY DEF CallType
<1> QED
  BY <1>1, <1>2, <1>4, <1>5

\* A broker hands out what a timeout, an arrival or an attempt of a REQUEUE call paid for
\* (cmd/broker/http_server.go:92-183).
LEMMA BrokerBudget ==
  ASSUME TypeOK, TypeOK', MissionConserved, BudgetInv, BrokerNext
  PROVE  BudgetInv'
<1> DEFINE Kept(m) == Spent(m)' + Fund(m) <= Spent(m) + Fund(m)'
<1>0. \A b \in Brokers, m \in Missions :
         /\ queue[b][m] \in Nat /\ popped[b][m] \in Nat /\ requeued[b][m] \in Nat
         /\ checkouts[m] \in Nat /\ timeouts[m] \in Nat /\ sweeps[m] \in Nat
         /\ Home[m] \in Brokers
  BY DispatchAssumption DEF TypeOK, Counts
<1>a. \A m \in Missions : Spent(m) \in Nat /\ Fund(m) \in Nat
  BY BudgetTypes
<1>b. ASSUME calls' = calls, dummy' = dummy, \A m \in Missions : Kept(m)
      PROVE  BudgetInv'
  <2>1. ASSUME NEW m \in Missions PROVE BudgetOf(m)'
    <3>1. Requeues(m)' = Requeues(m) /\ Lapsed(m)' = Lapsed(m)
      BY <1>b DEF Requeues, Lapsed
    <3> QED
      BY <1>b, <3>1, BudgetKept DEF BudgetInv
  <2> QED
    BY <1>b, <2>1 DEF BudgetInv, OneRequeue
<1>c. \A m \in Missions : MaxTries * sweeps[m] \in Nat
  BY <1>0, DispatchAssumption
<1>1. ASSUME NEW m \in Missions, Enqueue(m) PROVE BudgetInv'
  <2>1. /\ calls' = calls /\ dummy' = dummy
        /\ UNCHANGED <<popped, requeued, checkouts, timeouts, sweeps>>
        /\ m \notin arrived /\ arrived' = arrived \cup {m}
        /\ queue' = [queue EXCEPT ![Home[m]][m] = @ + 1]
    BY <1>1 DEF Enqueue, network, station
  <2>2. ASSUME NEW k \in Missions PROVE Kept(k)
    <3>1. CASE k = m
      <4>1. queue'[Home[k]][k] = queue[Home[k]][k] + 1
        BY <1>0, <2>1, <3>1 DEF TypeOK, Counts
      <4>a. /\ checkouts'[k] = checkouts[k] /\ popped'[Home[k]][k] = popped[Home[k]][k]
            /\ requeued'[Home[k]][k] = requeued[Home[k]][k] /\ timeouts'[k] = timeouts[k]
            /\ MaxTries * sweeps'[k] = MaxTries * sweeps[k]
            /\ k \notin arrived /\ k \in arrived'
        BY <2>1, <3>1
      <4>b. /\ checkouts[k] \in Nat /\ popped[Home[k]][k] \in Nat /\ requeued[Home[k]][k] \in Nat
            /\ queue[Home[k]][k] \in Nat /\ timeouts[k] \in Nat /\ MaxTries * sweeps[k] \in Nat
        <5>1. Home[k] \in Brokers
          BY DispatchAssumption
        <5> QED
          BY <1>0, <1>c, <5>1
      <4>2. Spent(k)' = Spent(k) + 1
        BY <4>a, <4>b, <4>1 DEF Spent
      <4>3. Fund(k)' = Fund(k) + 1
        <5> DEFINE p == MaxTries * sweeps[k]
        <5>1. Fund(k) = 0 + timeouts[k] + p /\ Fund(k)' = 1 + timeouts[k] + p
          BY <4>a DEF Fund
        <5>2. p \in Nat
          BY <4>b
        <5> HIDE DEF p
        <5> QED
          BY <4>b, <5>1, <5>2
      <4> QED
        BY <1>a, <4>2, <4>3
    <3>2. CASE k # m
      <4>1. queue'[Home[k]][k] = queue[Home[k]][k]
        BY <1>0, <2>1, <3>2 DEF TypeOK, Counts
      <4>2. Spent(k)' = Spent(k) /\ Fund(k)' = Fund(k)
        BY <2>1, <3>2, <4>1 DEF Spent, Fund
      <4> QED
        BY <1>a, <4>2
    <3> QED
      BY <3>1, <3>2
  <2> QED
    BY <1>b, <2>1, <2>2
<1>2. ASSUME NEW b \in Brokers, NEW m \in Missions, QueuePop(b, m) PROVE BudgetInv'
  <2>1. /\ calls' = calls /\ dummy' = dummy
        /\ UNCHANGED <<requeued, checkouts, timeouts, sweeps, arrived>>
        /\ queue' = [queue EXCEPT ![b][m] = @ - 1]
        /\ popped' = [popped EXCEPT ![b][m] = @ + 1]
    BY <1>2 DEF QueuePop, network, station, history
  <2>2. ASSUME NEW k \in Missions PROVE Kept(k)
    <3>1. queue'[Home[k]][k] + popped'[Home[k]][k] = queue[Home[k]][k] + popped[Home[k]][k]
      <4>1. CASE k = m /\ b = Home[k]
        <5>1. queue'[Home[k]][k] = queue[Home[k]][k] - 1 /\ popped'[Home[k]][k] = popped[Home[k]][k] + 1
          BY <1>0, <2>1, <4>1 DEF TypeOK, Counts
        <5> QED
          BY <1>0, <5>1
      <4>2. CASE ~(k = m /\ b = Home[k])
        BY <1>0, <2>1, <4>2 DEF TypeOK, Counts
      <4> QED
        BY <4>1, <4>2
    <3>2. queue'[Home[k]][k] \in Nat /\ popped'[Home[k]][k] \in Nat
      BY <1>0 DEF TypeOK, Counts
    <3>3. Spent(k)' = Spent(k) /\ Fund(k)' = Fund(k)
      BY <1>0, <2>1, <3>1, <3>2 DEF Spent, Fund
    <3> QED
      BY <1>a, <3>3
  <2> QED
    BY <1>b, <2>1, <2>2
<1>3. ASSUME NEW b \in Brokers, NEW m \in Missions, QueueCheckout(b, m) PROVE BudgetInv'
  <2>1. /\ calls' = calls /\ dummy' = dummy
        /\ UNCHANGED <<requeued, queue, timeouts, sweeps, arrived>>
        /\ popped[b][m] > 0
        /\ popped' = [popped EXCEPT ![b][m] = @ - 1]
        /\ checkouts' = [checkouts EXCEPT ![m] = @ + 1]
    BY <1>3 DEF QueueCheckout, station
  <2>2. b = Home[m]
    <3>1. Copies(b, m) > 0
      BY <1>0, <2>1 DEF Copies
    <3> QED
      BY <3>1, OneCopy
  <2>3. ASSUME NEW k \in Missions PROVE Kept(k)
    <3>1. CASE k = m
      <4>1. checkouts'[k] = checkouts[k] + 1 /\ popped'[Home[k]][k] = popped[Home[k]][k] - 1
        BY <1>0, <2>1, <2>2, <3>1 DEF TypeOK, Counts
      <4>2. Spent(k)' = Spent(k) /\ Fund(k)' = Fund(k)
        BY <1>0, <2>1, <4>1 DEF Spent, Fund
      <4> QED
        BY <1>a, <4>2
    <3>2. CASE k # m
      <4>1. checkouts'[k] = checkouts[k] /\ popped'[Home[k]][k] = popped[Home[k]][k]
        BY <1>0, <2>1, <3>2 DEF TypeOK, Counts
      <4>2. Spent(k)' = Spent(k) /\ Fund(k)' = Fund(k)
        BY <2>1, <4>1 DEF Spent, Fund
      <4> QED
        BY <1>a, <4>2
    <3> QED
      BY <3>1, <3>2
  <2> QED
    BY <1>b, <2>1, <2>3
<1>4. ASSUME NEW b \in Brokers, NEW m \in Missions, QueueReturn(b, m) PROVE BudgetInv'
  <2>1. /\ calls' = calls /\ dummy' = dummy
        /\ UNCHANGED <<popped, checkouts, timeouts, sweeps, arrived>>
        /\ queue' = [queue EXCEPT ![b][m] = @ + 1]
        /\ requeued' = [requeued EXCEPT ![b][m] = @ - 1]
    BY <1>4 DEF QueueReturn, network, station, history
  <2>2. ASSUME NEW k \in Missions PROVE Kept(k)
    <3>1. queue'[Home[k]][k] + requeued'[Home[k]][k] = queue[Home[k]][k] + requeued[Home[k]][k]
      <4>1. CASE k = m /\ b = Home[k]
        <5>1. queue'[Home[k]][k] = queue[Home[k]][k] + 1 /\ requeued'[Home[k]][k] = requeued[Home[k]][k] - 1
          BY <1>0, <2>1, <4>1 DEF TypeOK, Counts
        <5> QED
          BY <1>0, <5>1
      <4>2. CASE ~(k = m /\ b = Home[k])
        BY <1>0, <2>1, <4>2 DEF TypeOK, Counts
      <4> QED
        BY <4>1, <4>2
    <3>2. queue'[Home[k]][k] \in Nat /\ requeued'[Home[k]][k] \in Nat
      BY <1>0 DEF TypeOK, Counts
    <3>3. Spent(k)' = Spent(k) /\ Fund(k)' = Fund(k)
      BY <1>0, <2>1, <3>1, <3>2 DEF Spent, Fund
    <3> QED
      BY <1>a, <3>3
  <2> QED
    BY <1>b, <2>1, <2>2
<1>5. ASSUME NEW b \in Brokers, NEW m \in Missions, PendingTimeout(b, m) PROVE BudgetInv'
  <2>1. /\ calls' = calls /\ dummy' = dummy
        /\ UNCHANGED <<popped, requeued, checkouts, sweeps, arrived>>
        /\ m \in pending[b]
        /\ queue' = [queue EXCEPT ![b][m] = @ + 1]
        /\ timeouts' = [timeouts EXCEPT ![m] = @ + 1]
    BY <1>5 DEF PendingTimeout, network, station
  <2>2. b = Home[m]
    <3>1. Copies(b, m) > 0
      BY <1>0, <2>1 DEF Copies
    <3> QED
      BY <3>1, OneCopy
  <2>3. ASSUME NEW k \in Missions PROVE Kept(k)
    <3>1. CASE k = m
      <4>1. timeouts'[k] = timeouts[k] + 1 /\ queue'[Home[k]][k] = queue[Home[k]][k] + 1
        BY <1>0, <2>1, <2>2, <3>1 DEF TypeOK, Counts
      <4>a. /\ checkouts'[k] = checkouts[k] /\ popped'[Home[k]][k] = popped[Home[k]][k]
            /\ requeued'[Home[k]][k] = requeued[Home[k]][k]
            /\ MaxTries * sweeps'[k] = MaxTries * sweeps[k] /\ arrived' = arrived
        BY <2>1
      <4>b. /\ checkouts[k] \in Nat /\ popped[Home[k]][k] \in Nat /\ requeued[Home[k]][k] \in Nat
            /\ queue[Home[k]][k] \in Nat /\ timeouts[k] \in Nat /\ MaxTries * sweeps[k] \in Nat
        BY <1>0, <1>c
      <4>2. Spent(k)' = Spent(k) + 1
        BY <4>a, <4>b, <4>1 DEF Spent
      <4>3. Fund(k)' = Fund(k) + 1
        <5> DEFINE p == MaxTries * sweeps[k]
                   a == IF k \in arrived THEN 1 ELSE 0
        <5>1. Fund(k) = a + timeouts[k] + p /\ Fund(k)' = a + (timeouts[k] + 1) + p
          BY <4>a, <4>1 DEF Fund
        <5>2. p \in Nat /\ a \in Nat
          BY <4>b
        <5> HIDE DEF p, a
        <5> QED
          BY <4>b, <5>1, <5>2
      <4> QED
        BY <1>a, <4>2, <4>3
    <3>2. CASE k # m
      <4>1. timeouts'[k] = timeouts[k] /\ queue'[Home[k]][k] = queue[Home[k]][k]
        BY <1>0, <2>1, <3>2 DEF TypeOK, Counts
      <4>2. Spent(k)' = Spent(k) /\ Fund(k)' = Fund(k)
        BY <2>1, <4>1 DEF Spent, Fund
      <4> QED
        BY <1>a, <4>2
    <3> QED
      BY <3>1, <3>2
  <2> QED
    BY <1>b, <2>1, <2>3
<1>6. ASSUME NEW c \in calls, NEW b \in Brokers, QueueResolve(b, c) PROVE BudgetInv'
  <2> DEFINE m == c.mission
             t == <<c.from, c.tries>>
  <2>1. /\ dummy' = dummy /\ UNCHANGED <<queue, popped, checkouts, timeouts, sweeps, arrived>>
        /\ calls' \subseteq (calls \ {c}) \cup Retry(c)
        /\ \/ requeued' = requeued
           \/ c.action = "REQUEUE" /\ requeued' = [requeued EXCEPT ![b][m] = @ + 1]
    BY <1>6 DEF QueueResolve, station, history
  <2>2. c \in CallType /\ m \in Missions /\ c.from \in Stations /\ c.tries \in 1 .. MaxTries
    BY DEF TypeOK, CallType
  <2>3. /\ OneRequeue'
        /\ \A d \in calls' : d.action = "REQUEUE" =>
               \E e \in calls : /\ e.action = "REQUEUE" /\ e.mission = d.mission
                                /\ e.from = d.from /\ d.tries <= e.tries
    BY <2>1, CallsAfter DEF BudgetInv
  <2>4. ASSUME NEW k \in Missions PROVE Lapsed(k)' = Lapsed(k) /\ Requeues(k)' \subseteq Requeues(k)
    BY <2>1, <2>3, RequeuesShrink DEF Lapsed
  <2>5. ASSUME NEW k \in Missions, k # m \/ requeued' = requeued PROVE BudgetOf(k)'
    <3>1. requeued'[Home[k]][k] = requeued[Home[k]][k]
      <4>1. CASE requeued' = requeued
        BY <4>1
      <4>2. CASE k # m /\ requeued' = [requeued EXCEPT ![b][m] = @ + 1]
        <5>1. Home[k] \in Brokers /\ m \in Missions
          BY <1>0, <2>2
        <5> HIDE DEF m
        <5> QED
          BY <4>2, <5>1 DEF TypeOK, Counts
      <4> QED
        BY <2>1, <2>5, <4>1, <4>2
    <3>2. Spent(k)' = Spent(k) /\ Fund(k)' = Fund(k)
      BY <2>1, <3>1 DEF Spent, Fund
    <3> QED
      BY <1>a, <2>4, <3>2, BudgetKept DEF BudgetInv
  <2>6. ASSUME c.action = "REQUEUE", requeued' = [requeued EXCEPT ![b][m] = @ + 1]
        PROVE  BudgetOf(m)'
    <3>0. BudgetOf(m)
      BY <2>2 DEF BudgetInv
    <3>1. t \in Requeues(m)
      <4>1. t \in Stations \X (1 .. MaxTries) /\ t[1] = c.from /\ t[2] = c.tries
        BY <2>2
      <4>2. c.tries <= c.tries
        BY <2>2
      <4> QED
        BY <2>6, <4>1, <4>2 DEF Requeues
    <3>2. Requeues(m)' \subseteq Requeues(m) \ {t}
      <4>1. Requeues(m)' \subseteq Requeues(m)
        BY <2>2, <2>4
      <4>2. t \notin Requeues(m)'
        <5> SUFFICES ASSUME NEW d \in calls', d.action = "REQUEUE", d.from = c.from, c.tries <= d.tries
                     PROVE  FALSE
          BY DEF Requeues
        <5>1. CASE d \in calls \ {c}
          BY <2>6, <5>1 DEF BudgetInv, OneRequeue
        <5>2. CASE d \in Retry(c)
          <6>1. d \in CallType /\ d.tries < c.tries
            BY <2>2, <5>2, RetryType
          <6>2. d.tries \in Int /\ c.tries \in Int
            BY <2>2, <6>1 DEF CallType
          <6> QED
            BY <6>1, <6>2
        <5> QED
          BY <2>1, <5>1, <5>2
      <4> QED
        BY <4>1, <4>2
    <3>3. /\ IsFiniteSet(Requeues(m) \ {t})
          /\ Cardinality(Requeues(m) \ {t}) = Cardinality(Requeues(m)) - 1
      BY <3>0, <3>1, FS_RemoveElement DEF BudgetOf
    <3>4. /\ IsFiniteSet(Requeues(m)')
          /\ Cardinality(Requeues(m)') <= Cardinality(Requeues(m)) - 1
      BY <3>2, <3>3, FS_Subset
    <3>5. Lapsed(m)' = Lapsed(m)
      BY <2>2, <2>4
    <3>6. Spent(m)' <= Spent(m) + 1 /\ Spent(m)' \in Nat
      <4>1. /\ requeued'[Home[m]][m] <= requeued[Home[m]][m] + 1
            /\ requeued'[Home[m]][m] \in Nat
        BY <1>0, <2>2, <2>6 DEF TypeOK, Counts
      <4> QED
        BY <1>0, <2>1, <2>2, <4>1 DEF Spent
    <3>7. Fund(m)' = Fund(m)
      BY <2>1 DEF Fund
    <3>8. /\ Cardinality(Requeues(m)) \in Nat /\ Cardinality(Requeues(m)') \in Nat
          /\ MaxTries * Cardinality(Lapsed(m)) \in Nat
      BY <3>0, <3>4, FS_CardinalityType, DispatchAssumption DEF BudgetOf
    <3>9. Spent(m) + Cardinality(Requeues(m)) + MaxTries * Cardinality(Lapsed(m)) <= Fund(m)
      BY <3>0 DEF BudgetOf
    <3>10. Spent(m)' + Cardinality(Requeues(m)') + MaxTries * Cardinality(Lapsed(m)') <= Fund(m)'
      <4> DEFINE p == MaxTries * Cardinality(Lapsed(m))
      <4>1. p \in Nat /\ Spent(m) + Cardinality(Requeues(m)) + p <= Fund(m)
        BY <3>8, <3>9
      <4>2. Spent(m) \in Nat /\ Fund(m) \in Nat
        BY <1>a, <2>2
      <4>3. Spent(m)' + Cardinality(Requeues(m)') + p <= Fund(m)'
        <5> HIDE DEF p, m
        <5> QED
          BY <3>4, <3>6, <3>7, <3>8, <4>1, <4>2
      <4> QED
        BY <3>5, <4>3
    <3> QED
      BY <3>0, <3>4, <3>5, <3>10 DEF BudgetOf
  <2> QED
    BY <2>1, <2>2, <2>3, <2>5, <2>6 DEF BudgetInv
<1> QED
  BY <1>1, <1>2, <1>3, <1>4, <1>5, <1>6 DEF BrokerNext

\* A lapsed lease pays for the attempts of the call that reports it
\* (pkg/radar/radar.go:93-117, cmd/station/main.go:35-52).
LEMMA StationBudget ==
  ASSUME TypeOK, TypeOK', BudgetInv, StationNext
  PROVE  BudgetInv'
<1> PICK s \in Stations :
        \/ \E r \in replies : MissionPull(s, r[1], r[2])
        \/ \E m \in Missions : Sweep(s, m)
        \/ \E r \in dummy[s] : Fallback(s, r[1], r[2])
        \/ StationCrash(s)
  BY DEF StationNext
<1>a. \A m \in Missions : Spent(m) \in Nat /\ Fund(m) \in Nat
  BY BudgetTypes
<1>b. \A m \in Missions : BudgetOf(m)
  BY DEF BudgetInv
<1>c. \A m \in Missions : /\ Cardinality(Requeues(m)) \in Nat /\ Cardinality(Lapsed(m)) \in Nat
                          /\ MaxTries * Cardinality(Lapsed(m)) \in Nat
  BY <1>b, FS_CardinalityType, DispatchAssumption DEF BudgetOf
<1>d. UNCHANGED <<queue, popped, requeued, checkouts, timeouts, arrived>>
  BY DEF MissionPull, Sweep, Fallback, StationCrash, broker, history
<1>e. \A m \in Missions : Spent(m)' = Spent(m)
  BY <1>d DEF Spent
<1>1. ASSUME calls' \subseteq calls, \A h \in Stations : dummy'[h] \subseteq dummy[h], sweeps' = sweeps
      PROVE  BudgetInv'
  <2>1. ASSUME NEW m \in Missions PROVE BudgetOf(m)'
    <3>1. Requeues(m)' \subseteq Requeues(m) /\ Lapsed(m)' \subseteq Lapsed(m)
      BY <1>1 DEF Requeues, Lapsed
    <3>2. Fund(m)' = Fund(m)
      BY <1>1, <1>d DEF Fund
    <3> QED
      BY <1>a, <1>b, <1>e, <3>1, <3>2, BudgetKept
  <2> QED
    BY <1>1, <2>1 DEF BudgetInv, OneRequeue
<1>2. ASSUME NEW r \in replies, MissionPull(s, r[1], r[2]) PROVE BudgetInv'
  <2>1. calls' = calls /\ dummy' = dummy /\ sweeps' = sweeps
    BY <1>2 DEF MissionPull, history
  <2> QED
    BY <1>1, <2>1
<1>3. CASE StationCrash(s)
  <2>1. calls' \subseteq calls /\ dummy' = [dummy EXCEPT ![s] = {}] /\ sweeps' = sweeps
    BY <1>3 DEF StationCrash
  <2>2. \A h \in Stations : dummy'[h] \subseteq dummy[h]
    BY <2>1 DEF TypeOK
  <2> QED
    BY <1>1, <2>1, <2>2
<1>4. ASSUME NEW m \in Missions, Sweep(s, m) PROVE BudgetInv'
  <2> DEFINE t == <<s, radar[s][m]>>
  <2>1. /\ calls' = calls /\ sweeps' = [sweeps EXCEPT ![m] = @ + 1]
        /\ dummy' = [dummy EXCEPT ![s] = @ \cup {<<m, radar[s][m]>>}]
    BY <1>4 DEF Sweep, network
  <2>2. \A k \in Missions : Requeues(k)' = Requeues(k)
    BY <2>1 DEF Requeues
  <2>3. \A k \in Missions : Lapsed(k)' \subseteq IF k = m THEN Lapsed(k) \cup {t} ELSE Lapsed(k)
    <3> SUFFICES ASSUME NEW k \in Missions, NEW u \in Lapsed(k)', u \notin Lapsed(k)
                 PROVE  k = m /\ u = t
      OBVIOUS
    <3>1. u \in Stations \X Nat /\ <<k, u[2]>> \in dummy'[u[1]] /\ <<k, u[2]>> \notin dummy[u[1]]
      BY DEF Lapsed
    <3>2. u[1] = s /\ <<k, u[2]>> = <<m, radar[s][m]>>
      BY <2>1, <3>1 DEF TypeOK
    <3> QED
      BY <3>1, <3>2
  <2>4. ASSUME NEW k \in Missions, k # m PROVE BudgetOf(k)'
    <3>1. Requeues(k)' \subseteq Requeues(k) /\ Lapsed(k)' \subseteq Lapsed(k)
      BY <2>2, <2>3, <2>4
    <3>2. Fund(k)' = Fund(k)
      BY <1>d, <2>1, <2>4 DEF Fund, TypeOK
    <3> QED
      BY <1>a, <1>b, <1>e, <3>1, <3>2, BudgetKept
  <2>5. BudgetOf(m)'
    <3> DEFINE n == Cardinality(Lapsed(m))
               k == Cardinality(Lapsed(m)')
    <3>1. /\ IsFiniteSet(Lapsed(m) \cup {t}) /\ Cardinality(Lapsed(m) \cup {t}) <= n + 1
          /\ Cardinality(Lapsed(m) \cup {t}) \in Nat /\ n \in Nat
      <4>1. IsFiniteSet(Lapsed(m)) /\ Cardinality(Lapsed(m)) \in Nat
        BY <1>b, <1>c DEF BudgetOf
      <4> HIDE DEF t
      <4>2. /\ IsFiniteSet(Lapsed(m) \cup {t})
            /\ Cardinality(Lapsed(m) \cup {t}) = Cardinality(Lapsed(m))
               \/ Cardinality(Lapsed(m) \cup {t}) = Cardinality(Lapsed(m)) + 1
        BY <4>1, FS_AddElement
      <4> QED
        BY <4>1, <4>2
    <3>2. IsFiniteSet(Lapsed(m)') /\ k <= n + 1 /\ k \in Nat
      <4>1. Lapsed(m)' \subseteq Lapsed(m) \cup {t}
        BY <2>3
      <4>2. /\ IsFiniteSet(Lapsed(m)')
            /\ Cardinality(Lapsed(m)') <= Cardinality(Lapsed(m) \cup {t})
        BY <3>1, <4>1, FS_Subset
      <4>3. Cardinality(Lapsed(m)') \in Nat
        BY <4>2, FS_CardinalityType
      <4> QED
        BY <3>1, <4>2, <4>3
    <3>3. MaxTries * k \in Nat /\ MaxTries * k <= MaxTries * n + MaxTries /\ MaxTries * n \in Nat
      <4>1. MaxTries \in Nat /\ n \in Nat /\ n + 1 \in Nat
        BY <3>1, DispatchAssumption
      <4>2. MaxTries * k <= MaxTries * (n + 1) /\ MaxTries * k \in Nat
        <5> HIDE DEF n, k
        <5> QED
          BY <3>2, <4>1, Times
      <4>3. MaxTries * (n + 1) = MaxTries * n + MaxTries /\ MaxTries * n \in Nat
        <5> HIDE DEF n, k
        <5> QED
          BY <4>1, Times
      <4> QED
        BY <4>2, <4>3
    <3>4. Fund(m)' = Fund(m) + MaxTries
      <4> DEFINE x == sweeps[m]
                 a == (IF m \in arrived THEN 1 ELSE 0) + timeouts[m]
      <4>1. sweeps'[m] = x + 1 /\ x \in Nat /\ a \in Nat /\ MaxTries \in Nat
        BY <2>1, DispatchAssumption DEF TypeOK
      <4>2. Fund(m) = a + MaxTries * x /\ Fund(m)' = a + MaxTries * sweeps'[m]
        BY <1>d DEF Fund
      <4>3. MaxTries * (x + 1) = MaxTries * x + MaxTries /\ MaxTries * x \in Nat
        <5> HIDE DEF x
        <5> QED
          BY <4>1, Times
      <4> HIDE DEF x, a
      <4> QED
        BY <4>1, <4>2, <4>3
    <3>5. Spent(m) + Cardinality(Requeues(m)) + MaxTries * n <= Fund(m)
      BY <1>b DEF BudgetOf
    <3>6. Spent(m)' + Cardinality(Requeues(m)') + MaxTries * k <= Fund(m)'
      <4> DEFINE p == MaxTries * n
                 q == MaxTries * k
                 w == Cardinality(Requeues(m))
      <4>1. p \in Nat /\ q \in Nat /\ q <= p + MaxTries /\ w \in Nat /\ MaxTries \in Nat
        BY <1>c, <3>3, DispatchAssumption
      <4>2. Spent(m) + w + p <= Fund(m)
        BY <3>5
      <4>3. Spent(m)' = Spent(m) /\ Cardinality(Requeues(m)') = w
        BY <1>e, <2>2
      <4>4. Spent(m) \in Nat /\ Fund(m) \in Nat
        BY <1>a
      <4>5. Spent(m) + w + q <= Fund(m)'
        <5> HIDE DEF p, q, w
        <5> QED
          BY <3>4, <4>1, <4>2, <4>4
      <4> QED
        BY <4>3, <4>5
    <3> QED
      BY <1>b, <2>2, <3>2, <3>6 DEF BudgetOf
  <2> QED
    BY <2>1, <2>4, <2>5 DEF BudgetInv, OneRequeue
<1>5. ASSUME NEW r \in dummy[s], Fallback(s, r[1], r[2]) PROVE BudgetInv'
  <2> DEFINE m == r[1]
             t == <<s, r[2]>>
             u == Call(s, "REQUEUE", r[1], r[2], 0)
             row == {s} \X (1 .. MaxTries)
  <2>0. r \in Missions \X Nat /\ m \in Missions /\ r = <<r[1], r[2]>> /\ r[2] \in Nat
    BY DEF TypeOK
  <2>1. /\ calls' = calls \cup {u} /\ sweeps' = sweeps
        /\ dummy' = [dummy EXCEPT ![s] = @ \ {<<r[1], r[2]>>}]
        /\ ~ \E c \in calls : c.from = s /\ c.action = "REQUEUE"
    BY <1>5 DEF Fallback, history
  <2>2. u.from = s /\ u.action = "REQUEUE" /\ u.mission = m /\ u.tries = MaxTries
    BY DEF Call
  <2>3. OneRequeue'
    <3> HIDE DEF u
    <3> QED
      BY <2>1, <2>2 DEF BudgetInv, OneRequeue
  <2>4. \A k \in Missions : Fund(k)' = Fund(k)
    BY <1>d, <2>1 DEF Fund
  <2>5. \A k \in Missions : Lapsed(k)' \subseteq Lapsed(k)
    BY <2>1 DEF Lapsed, TypeOK
  <2>6. \A k \in Missions : Requeues(k)' \subseteq IF k = m THEN Requeues(k) \cup row ELSE Requeues(k)
    <3> SUFFICES ASSUME NEW k \in Missions, NEW v \in Requeues(k)', v \notin Requeues(k)
                 PROVE  k = m /\ v \in row
      OBVIOUS
    <3>1. v \in Stations \X (1 .. MaxTries)
      BY DEF Requeues
    <3>2. PICK c \in calls' : /\ c.action = "REQUEUE" /\ c.mission = k
                              /\ c.from = v[1] /\ v[2] <= c.tries
      BY DEF Requeues
    <3>3. c = u
      BY <2>1, <3>1, <3>2 DEF Requeues
    <3> HIDE DEF u
    <3> QED
      BY <2>2, <3>1, <3>2, <3>3
  <2>7. ASSUME NEW k \in Missions, k # m PROVE BudgetOf(k)'
    <3>1. Requeues(k)' \subseteq Requeues(k)
      BY <2>6, <2>7
    <3> QED
      BY <1>a, <1>b, <1>e, <2>4, <2>5, <3>1, BudgetKept
  <2>8. BudgetOf(m)'
    <3>1. IsFiniteSet(row) /\ Cardinality(row) = MaxTries
      <4>1. IsFiniteSet({s}) /\ Cardinality({s}) = 1
        BY FS_Singleton
      <4>2. IsFiniteSet(1 .. MaxTries) /\ Cardinality(1 .. MaxTries) = MaxTries
        BY FS_Interval, DispatchAssumption
      <4>3. IsFiniteSet(row) /\ Cardinality(row) = 1 * Cardinality(1 .. MaxTries)
        BY <4>1, <4>2, FS_Product
      <4> QED
        BY <4>2, <4>3, DispatchAssumption
    <3>2. /\ IsFiniteSet(Requeues(m)')
          /\ Cardinality(Requeues(m)') <= Cardinality(Requeues(m)) + MaxTries
          /\ Cardinality(Requeues(m)') \in Nat
      <4>1. IsFiniteSet(Requeues(m)) /\ Cardinality(Requeues(m)) \in Nat
        BY <1>b, <1>c, <2>0 DEF BudgetOf
      <4>2. /\ IsFiniteSet(Requeues(m) \cup row)
            /\ Cardinality(Requeues(m) \cup row) = Cardinality(Requeues(m)) + Cardinality(row)
                                                     - Cardinality(Requeues(m) \cap row)
        <5> HIDE DEF row, m
        <5> QED
          BY <3>1, <4>1, FS_Union
      <4>3. Cardinality(Requeues(m) \cap row) \in Nat
        <5>1. IsFiniteSet(Requeues(m) \cap row)
          BY <4>1, FS_Intersection
        <5> QED
          BY <5>1, FS_CardinalityType
      <4>4. Requeues(m)' \subseteq Requeues(m) \cup row
        BY <2>0, <2>6
      <4>5. /\ IsFiniteSet(Requeues(m)')
            /\ Cardinality(Requeues(m)') <= Cardinality(Requeues(m) \cup row)
        <5> HIDE DEF row, m
        <5> QED
          BY <4>2, <4>4, FS_Subset
      <4>6. Cardinality(Requeues(m)') \in Nat
        BY <4>5, FS_CardinalityType
      <4>7. MaxTries \in Nat
        BY DispatchAssumption
      <4> HIDE DEF row, m
      <4> QED
        BY <3>1, <4>1, <4>2, <4>3, <4>5, <4>6, <4>7
    <3>3. /\ IsFiniteSet(Lapsed(m)')
          /\ MaxTries * Cardinality(Lapsed(m)') + MaxTries <= MaxTries * Cardinality(Lapsed(m))
          /\ MaxTries * Cardinality(Lapsed(m)') \in Nat
      <4>1. t \in Lapsed(m)
        BY <2>0 DEF Lapsed
      <4>2. Lapsed(m)' \subseteq Lapsed(m) \ {t}
        <5>1. <<r[1], r[2]>> \notin dummy'[s]
          BY <2>1 DEF TypeOK
        <5>2. t \notin Lapsed(m)'
          BY <5>1 DEF Lapsed
        <5>3. Lapsed(m)' \subseteq Lapsed(m)
          BY <2>0, <2>5
        <5> HIDE DEF m, t
        <5> QED
          BY <5>2, <5>3
      <4>3. /\ IsFiniteSet(Lapsed(m) \ {t})
            /\ Cardinality(Lapsed(m) \ {t}) = Cardinality(Lapsed(m)) - 1
        <5>1. IsFiniteSet(Lapsed(m))
          BY <1>b, <2>0 DEF BudgetOf
        <5> HIDE DEF m, t
        <5> QED
          BY <4>1, <5>1, FS_RemoveElement
      <4>4. /\ IsFiniteSet(Lapsed(m)')
            /\ Cardinality(Lapsed(m)') <= Cardinality(Lapsed(m)) - 1
        <5> HIDE DEF m, t
        <5> QED
          BY <4>2, <4>3, FS_Subset
      <4> DEFINE n == Cardinality(Lapsed(m))
                 k == Cardinality(Lapsed(m)')
      <4>5. n \in Nat /\ k \in Nat /\ k + 1 <= n /\ k + 1 \in Nat /\ MaxTries \in Nat
        <5>1. n \in Nat /\ k \in Nat
          BY <1>c, <2>0, <4>4, FS_CardinalityType
        <5>2. k <= n - 1
          BY <4>4
        <5> HIDE DEF n, k
        <5> QED
          BY <5>1, <5>2, DispatchAssumption
      <4>6. MaxTries * (k + 1) = MaxTries * k + MaxTries /\ MaxTries * k \in Nat
            /\ MaxTries * (k + 1) <= MaxTries * n
        <5> HIDE DEF n, k
        <5> QED
          BY <4>5, Times
      <4> QED
        BY <4>4, <4>6
    <3>4. Spent(m)' + Cardinality(Requeues(m)') + MaxTries * Cardinality(Lapsed(m)') <= Fund(m)'
      <4> DEFINE p == MaxTries * Cardinality(Lapsed(m))
                 q == MaxTries * Cardinality(Lapsed(m)')
                 w == Cardinality(Requeues(m))
                 x == Cardinality(Requeues(m)')
      <4>1. /\ p \in Nat /\ q \in Nat /\ w \in Nat /\ x \in Nat /\ MaxTries \in Nat
            /\ q + MaxTries <= p /\ x <= w + MaxTries
        BY <1>c, <2>0, <3>2, <3>3, DispatchAssumption
      <4>2. Spent(m) + w + p <= Fund(m)
        BY <1>b, <2>0 DEF BudgetOf
      <4>3. /\ Spent(m)' = Spent(m) /\ Fund(m)' = Fund(m)
            /\ Spent(m) \in Nat /\ Fund(m) \in Nat
        BY <1>a, <1>e, <2>0, <2>4
      <4> HIDE DEF p, q, w, x, m
      <4>4. Spent(m)' + x + q <= Fund(m)'
        BY <4>1, <4>2, <4>3
      <4> QED
        BY <4>4 DEF x, q
    <3> QED
      BY <3>2, <3>3, <3>4 DEF BudgetOf
  <2> QED
    BY <2>3, <2>7, <2>8 DEF BudgetInv
<1> QED
  BY <1>2, <1>3, <1>4, <1>5

\* Drones only announce successes, and a call that no broker executes is tried again with
\* one attempt less or given up (cmd/drone/main.go:114-132, pkg/server/http_client.go:38-77).
LEMMA OthersBudget ==
  ASSUME TypeOK, TypeOK', BudgetInv, DroneNext \/ \E c \in calls : CallLost(c)
  PROVE  BudgetInv'
<1>1. UNCHANGED <<queue, popped, requeued, checkouts, timeouts, sweeps, arrived, dummy>>
  BY DEF DroneNext, Register, Land, Abort, MissionAck, AckLost, CallLost, broker, station, history
<1>2. ASSUME OneRequeue',
             \A d \in calls' : d.action = "REQUEUE" =>
                 \E e \in calls : /\ e.action = "REQUEUE" /\ e.mission = d.mission
                                  /\ e.from = d.from /\ d.tries <= e.tries
      PROVE  BudgetInv'
  <2>1. ASSUME NEW m \in Missions PROVE BudgetOf(m)'
    <3>1. Requeues(m)' \subseteq Requeues(m) /\ Lapsed(m)' \subseteq Lapsed(m)
      BY <1>1, <1>2, RequeuesShrink DEF Lapsed
    <3>2. Spent(m)' = Spent(m) /\ Fund(m)' = Fund(m) /\ Spent(m) \in Nat /\ Fund(m) \in Nat
      BY <1>1, BudgetTypes DEF Spent, Fund
    <3> QED
      BY <3>1, <3>2, BudgetKept DEF BudgetInv
  <2> QED
    BY <1>2, <2>1 DEF BudgetInv
<1>3. CASE DroneNext
  <2>1. \A c \in calls' : c.action = "REQUEUE" => c \in calls
    <3>1. ASSUME NEW d \in Drones, MissionAck(d)
          PROVE  \A c \in calls' : c.action = "REQUEUE" => c \in calls
      BY <3>1 DEF MissionAck, Call
    <3>2. CASE calls' = calls
      BY <3>2
    <3> QED
      BY <1>3, <3>1, <3>2 DEF DroneNext, Register, Land, Abort, AckLost, network
  <2>2. \A c \in calls : c.tries \in Int
    BY DEF TypeOK, CallType
  <2> QED
    BY <1>2, <2>1, <2>2 DEF BudgetInv, OneRequeue
<1>4. ASSUME NEW c \in calls, CallLost(c) PROVE BudgetInv'
  <2>1. calls' \subseteq (calls \ {c}) \cup Retry(c)
    BY <1>4 DEF CallLost
  <2> QED
    BY <1>2, <2>1, CallsAfter DEF BudgetInv
<1> QED
  BY <1>3, <1>4

-----------------------------------------------------------------------------
(* The theorems *)

\* The invariant holds in every reachable state.
THEOREM DispatchInvariant == Spec => []DispatchInv
<1>1. Init => DispatchInv
  <2> SUFFICES ASSUME Init PROVE DispatchInv
    OBVIOUS
  <2>1. TypeOK
    BY InitType
  <2>2. MissionConserved /\ ResolvedMeansFlown
    BY DispatchAssumption DEF Init, MissionConserved, Copies, ResolvedMeansFlown
  <2>3. Announced
    BY DEF Init, Announced, Off
  <2> QED
    BY <2>1, <2>2, <2>3 DEF DispatchInv
<1>2. DispatchInv /\ [Next]_vars => DispatchInv'
  <2> SUFFICES ASSUME DispatchInv, [Next]_vars PROVE DispatchInv'
    OBVIOUS
  <2>1. CASE Next
    <3>1. TypeOK'
      BY <2>1, BrokerType, StationType, DroneStepType DEF Next, DispatchInv
    <3>2. MissionConserved'
      BY <2>1, BrokerConserves, OthersConserve DEF Next, DispatchInv
    <3> QED
      BY <2>1, <3>1, <3>2, NextAnnounced DEF DispatchInv
  <2>2. CASE UNCHANGED vars
    BY <2>2 DEF DispatchInv, TypeOK, MissionConserved, Copies, Announced,
                ResolvedMeansFlown, vars, broker, station, network, history
  <2> QED
    BY <2>1, <2>2
<1> QED
  BY <1>1, <1>2, PTL DEF Spec

\* Queues, checkouts, calls, leases and drones keep their types, for any number of
\* each (cmd/broker/http_server.go:92-183, cmd/station/http_server.go:48-140).
THEOREM DispatchTypes == Spec => []TypeOK
<1>1. DispatchInv => TypeOK
  BY DEF DispatchInv
<1> QED
  BY <1>1, DispatchInvariant, PTL

\* A mission is never lost and never multiplied between its arrival and its
\* resolution (cmd/broker/http_server.go:92-183).
THEOREM MissionsAreConserved == Spec => []MissionConserved
<1>1. DispatchInv => MissionConserved
  BY DEF DispatchInv
<1> QED
  BY <1>1, DispatchInvariant, PTL

\* A broker drops a mission as a success only after a drone flew it
\* (cmd/broker/http_server.go:174-180).
THEOREM SuccessIsFlown == Spec => []ResolvedMeansFlown
<1>1. DispatchInv => ResolvedMeansFlown
  BY DEF DispatchInv
<1> QED
  BY <1>1, DispatchInvariant, PTL

\* For any number of stations, drones, lost answers and crashes: a mission is checked out
\* once for its arrival, once for every timeout of the broker and at most MaxTries times for
\* every lease that lapsed; late, repeated and misdirected REQUEUE calls buy no further one
\* (cmd/broker/http_server.go:92-183, cmd/station/main.go:35-52).
THEOREM NoRedispatchUnpaid == Spec => []RedispatchesBounded
<1>1. Init => BudgetInv
  <2> SUFFICES ASSUME Init PROVE BudgetInv
    OBVIOUS
  <2>1. ASSUME NEW m \in Missions PROVE BudgetOf(m)
    <3>1. Requeues(m) = {} /\ Lapsed(m) = {}
      BY DEF Init, Requeues, Lapsed
    <3>2. Home[m] \in Brokers /\ MaxTries \in Nat
      BY DispatchAssumption
    <3>3. Spent(m) = 0
      BY <3>2 DEF Init, Spent
    <3>4. Fund(m) = 0
      BY <3>2 DEF Init, Fund
    <3>5. IsFiniteSet({}) /\ Cardinality({}) = 0
      BY FS_EmptySet
    <3> QED
      BY <3>1, <3>2, <3>3, <3>4, <3>5 DEF BudgetOf
  <2> QED
    BY <2>1 DEF Init, BudgetInv, OneRequeue
<1>2. DispatchInv /\ DispatchInv' /\ BudgetInv /\ [Next]_vars => BudgetInv'
  <2> SUFFICES ASSUME DispatchInv, DispatchInv', BudgetInv, [Next]_vars PROVE BudgetInv'
    OBVIOUS
  <2>1. CASE Next
    BY <2>1, BrokerBudget, StationBudget, OthersBudget DEF Next, DispatchInv
  <2>2. CASE UNCHANGED vars
    BY <2>2 DEF BudgetInv, BudgetOf, OneRequeue, Requeues, Lapsed, Spent, Fund,
                vars, broker, station, network, history
  <2> QED
    BY <2>1, <2>2
<1>3. DispatchInv /\ BudgetInv => RedispatchesBounded
  <2> SUFFICES ASSUME TypeOK, BudgetInv, NEW m \in Missions
               PROVE  checkouts[m] <= 1 + timeouts[m] + MaxTries * sweeps[m]
    BY DEF DispatchInv, RedispatchesBounded
  <2> DEFINE p == MaxTries * Cardinality(Lapsed(m))
             q == MaxTries * sweeps[m]
  <2>1. BudgetOf(m)
    BY DEF BudgetInv
  <2>2. /\ Cardinality(Requeues(m)) \in Nat /\ p \in Nat /\ q \in Nat
        /\ checkouts[m] \in Nat /\ timeouts[m] \in Nat
    BY <2>1, FS_CardinalityType, DispatchAssumption DEF BudgetOf, TypeOK
  <2>3. checkouts[m] <= Spent(m) /\ Spent(m) \in Nat
    <3>1. Home[m] \in Brokers
      BY DispatchAssumption
    <3> QED
      BY <3>1 DEF Spent, TypeOK, Counts
  <2>4. Fund(m) <= 1 + timeouts[m] + q /\ Fund(m) \in Nat
    <3>1. Fund(m) = (IF m \in arrived THEN 1 ELSE 0) + timeouts[m] + q
      BY DEF Fund
    <3> HIDE DEF q
    <3> QED
      BY <2>2, <3>1
  <2>5. Spent(m) + Cardinality(Requeues(m)) + p <= Fund(m)
    BY <2>1 DEF BudgetOf
  <2>6. checkouts[m] <= 1 + timeouts[m] + q
    <3> HIDE DEF p, q
    <3> QED
      BY <2>2, <2>3, <2>4, <2>5
  <2> QED
    BY <2>6
<1> QED
  BY <1>1, <1>2, <1>3, DispatchInvariant, PTL DEF Spec

=============================================================================
