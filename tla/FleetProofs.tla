------------------------------ MODULE FleetProofs -----------------------------
(***************************************************************************)
(* Proofs about Fleet for any drones, stations, missions, attempts and     *)
(* bound on faults: types, and that only a crash makes a station forget a  *)
(* drone that has a session with it.                                       *)
(***************************************************************************)
EXTENDS Fleet, TLAPS

\* A drone with a session, in flight too, is on the list of its station unless that
\* station lost its memory since.
Listed ==
    \A d \in Drones :
        drone[d] # Off /\ d \notin forsaken => d \in registered[drone[d].at]

FleetInv == TypeOK /\ Listed

DroneType ==
    {Off} \cup {Free(s) : s \in Stations}
        \cup {Pulling(s, k) : s \in Stations, k \in 1 .. MaxTries}
        \cup {Flying(s, m) : s \in Stations, m \in Missions}
        \cup {Hung(s) : s \in Stations}

-----------------------------------------------------------------------------

\* The shapes of a drone's session.
LEMMA Shapes ==
  ASSUME NEW x \in DroneType
  PROVE  /\ x.state \in {"off", "free", "pull", "fly", "hung"}
         /\ x # Off <=> x.state # "off"
         /\ x.state # "off" => x.at \in Stations
         /\ x.state = "pull" => x.attempt \in 1 .. MaxTries
         /\ x.state = "fly" => x.mission \in Missions
BY DEF DroneType, Off, Free, Pulling, Flying, Hung

\* The shapes a step writes.
LEMMA Written ==
  ASSUME NEW s \in Stations
  PROVE  /\ Off \in DroneType
         /\ Free(s) \in DroneType /\ Free(s).at = s /\ Free(s) # Off
         /\ Hung(s) \in DroneType /\ Hung(s).at = s /\ Hung(s) # Off
         /\ \A m \in Missions : /\ Flying(s, m) \in DroneType
                                /\ Flying(s, m).at = s /\ Flying(s, m) # Off
         /\ \A k \in 1 .. MaxTries : /\ Pulling(s, k) \in DroneType
                                     /\ Pulling(s, k).at = s /\ Pulling(s, k) # Off
BY DEF DroneType, Off, Free, Pulling, Flying, Hung

\* After a failed attempt the session is with the same station.
LEMMA AgainType ==
  ASSUME TypeOK, NEW d \in Drones, drone[d].state = "pull"
  PROVE  Again(d) \in DroneType /\ Again(d).at = drone[d].at /\ Again(d) # Off
<1>1. drone[d] \in DroneType
  BY DEF TypeOK, DroneType
<1>2. drone[d].at \in Stations /\ drone[d].attempt \in 1 .. MaxTries
  BY <1>1, Shapes
<1>3. CASE drone[d].attempt < MaxTries
  <2>1. drone[d].attempt + 1 \in 1 .. MaxTries
    BY <1>2, <1>3, FleetAssumption
  <2> QED
    BY <1>2, <1>3, <2>1, Written DEF Again
<1>4. CASE ~(drone[d].attempt < MaxTries)
  BY <1>2, <1>4, Written DEF Again
<1> QED
  BY <1>3, <1>4

\* A step that gives one drone another session with the same station, or none.
LEMMA SameStation ==
  ASSUME FleetInv, NEW d \in Drones, NEW x \in DroneType,
         x = Off \/ (drone[d] # Off /\ x.at = drone[d].at),
         drone' = [drone EXCEPT ![d] = x],
         UNCHANGED <<registered, forsaken>>
  PROVE  drone' \in [Drones -> DroneType] /\ Listed'
<1>1. drone \in [Drones -> DroneType]
  BY DEF FleetInv, TypeOK, DroneType
<1>2. ASSUME NEW e \in Drones, drone'[e] # Off, e \notin forsaken'
      PROVE  e \in registered'[drone'[e].at]
  BY <1>1, <1>2 DEF FleetInv, Listed
<1> QED
  BY <1>1, <1>2 DEF Listed

-----------------------------------------------------------------------------

\* At first no drone has a session.
LEMMA FleetInit == Init => FleetInv
<1> SUFFICES ASSUME Init PROVE FleetInv
  OBVIOUS
<1>1. TypeOK
  BY FleetAssumption DEF Init, TypeOK
<1>2. Listed
  BY DEF Init, Listed
<1> QED
  BY <1>1, <1>2 DEF FleetInv

\* The types of everything but the sessions.
ListTypes ==
    /\ up \subseteq Stations
    /\ registered \in [Stations -> SUBSET Drones]
    /\ queue \subseteq Missions /\ pending \subseteq Missions /\ done \subseteq Missions
    /\ radar \in [Stations -> SUBSET Missions]
    /\ forsaken \subseteq Drones /\ faults \in Nat

\* Registrations, checkouts, resolves and faults keep the lists' types.
LEMMA ListsTyped == TypeOK /\ [Next]_vars => ListTypes'
<1> SUFFICES ASSUME TypeOK, [Next]_vars PROVE ListTypes'
  OBVIOUS
<1>0. ListTypes /\ \A d \in Drones : drone[d] \in DroneType
  BY DEF TypeOK, DroneType, ListTypes
<1> USE <1>0 DEF ListTypes
<1>1. ASSUME NEW d \in Drones, NEW s \in Stations, Register(d, s) PROVE ListTypes'
  BY <1>1 DEF Register, Fault, NoFault, missions
<1>2. ASSUME NEW d \in Drones, PullStart(d) \/ PullRefused(d) \/ PullUnanswered(d)
      PROVE  ListTypes'
  BY <1>2 DEF PullStart, PullRefused, PullUnanswered, Fault, NoFault, missions
<1>3. ASSUME NEW d \in Drones, NEW m \in Missions,
             PullServed(d, m) \/ PopLost(d, m) \/ PullLate(d, m)
      PROVE  ListTypes'
  BY <1>3 DEF PullServed, PopLost, PullLate, Checkout, Fault
<1>4. ASSUME NEW d \in Drones, LandReported(d) \/ LandUnreported(d) \/ LandUnheard(d)
      PROVE  ListTypes'
  BY <1>4 DEF LandReported, LandUnreported, LandUnheard, Lands, Acknowledge, Resolved,
              Fault, NoFault
<1>5. ASSUME NEW d \in Drones, Abort(d) \/ Hang(d) PROVE ListTypes'
  BY <1>5 DEF Abort, Hang, PingsFail, Fault, NoFault, missions
<1>6. ASSUME NEW s \in Stations, NEW m \in Missions, LeaseExpires(s, m) PROVE ListTypes'
  BY <1>6 DEF LeaseExpires, Resolved
<1>7. ASSUME NEW s \in Stations, Crash(s) \/ Recover(s) PROVE ListTypes'
  BY <1>7 DEF Crash, Recover, Fixed, Fault, missions
<1>8. ASSUME NEW m \in Missions, PendingTimeout(m) PROVE ListTypes'
  BY <1>8 DEF PendingTimeout, Resolved
<1>9. CASE UNCHANGED vars
  BY <1>9 DEF vars, missions
<1> QED
  BY <1>1, <1>2, <1>3, <1>4, <1>5, <1>6, <1>7, <1>8, <1>9 DEF Next, Pull, FlightEnds

\* A step keeps the sessions and the lists in agreement.
LEMMA SessionsAgree ==
  FleetInv /\ [Next]_vars => drone' \in [Drones -> DroneType] /\ Listed'
<1> SUFFICES ASSUME FleetInv, [Next]_vars
             PROVE  drone' \in [Drones -> DroneType] /\ Listed'
  OBVIOUS
<1>a. /\ drone \in [Drones -> DroneType] /\ registered \in [Stations -> SUBSET Drones]
  BY DEF FleetInv, TypeOK, DroneType
<1>1. ASSUME NEW d \in Drones, NEW s \in Stations, Register(d, s)
      PROVE  drone' \in [Drones -> DroneType] /\ Listed'
  <2>1. /\ registered' = [registered EXCEPT ![s] = @ \cup {d}]
        /\ forsaken' = forsaken \ {d} /\ drone[d] = Off
        /\ drone' = [drone EXCEPT ![d] = Free(s)] \/ drone' = drone
    BY <1>1 DEF Register
  <2>2. Free(s) \in DroneType /\ Free(s).at = s
    BY Written
  <2>3. ASSUME NEW e \in Drones, drone'[e] # Off, e \notin forsaken'
        PROVE  e \in registered'[drone'[e].at]
    <3>1. CASE e = d
      BY <1>a, <2>1, <2>2, <2>3, <3>1
    <3>2. CASE e # d
      <4>1. drone'[e] = drone[e] /\ e \notin forsaken
        BY <1>a, <2>1, <2>3, <3>2
      <4>2. e \in registered[drone[e].at] /\ drone[e].at \in Stations
        BY <1>a, <2>3, <4>1, Shapes DEF FleetInv, Listed
      <4> QED
        BY <1>a, <2>1, <4>1, <4>2
    <3> QED
      BY <3>1, <3>2
  <2> QED
    BY <1>a, <2>1, <2>2, <2>3 DEF Listed
<1>2. ASSUME NEW d \in Drones, PullStart(d)
      PROVE  drone' \in [Drones -> DroneType] /\ Listed'
  <2>1. drone[d] # Off /\ drone[d].at \in Stations
    BY <1>a, <1>2, Shapes DEF PullStart
  <2>2. 1 \in 1 .. MaxTries
    BY FleetAssumption
  <2>3. drone' = [drone EXCEPT ![d] = Pulling(drone[d].at, 1)]
    BY <1>2 DEF PullStart
  <2> QED
    BY <1>2, <2>1, <2>2, <2>3, Written, SameStation DEF PullStart
<1>3. ASSUME NEW d \in Drones, PullRefused(d) \/ Lands(d)
      PROVE  drone' \in [Drones -> DroneType] /\ Listed'
  <2>1. drone[d] # Off /\ drone[d].at \in Stations
    BY <1>a, <1>3, Shapes DEF PullRefused, Heard, Lands
  <2>2. drone' = [drone EXCEPT ![d] = Free(drone[d].at)] /\ UNCHANGED <<registered, forsaken>>
    BY <1>3 DEF PullRefused, Lands
  <2> QED
    BY <2>1, <2>2, Written, SameStation
<1>4. ASSUME NEW d \in Drones, NEW m \in Missions, PullServed(d, m)
      PROVE  drone' \in [Drones -> DroneType] /\ Listed'
  <2>1. drone[d] # Off /\ drone[d].at \in Stations
    BY <1>a, <1>4, Shapes DEF PullServed, Heard
  <2>2. /\ drone' = [drone EXCEPT ![d] = Flying(drone[d].at, m)]
        /\ UNCHANGED <<registered, forsaken>>
    BY <1>4 DEF PullServed
  <2> QED
    BY <2>1, <2>2, Written, SameStation
<1>5. ASSUME NEW d \in Drones, PullUnanswered(d) \/ \E m \in Missions : PullLate(d, m)
      PROVE  drone' \in [Drones -> DroneType] /\ Listed'
  <2>1. drone[d].state = "pull" /\ drone[d] # Off
    BY <1>a, <1>5, Shapes DEF PullLate, PullUnanswered, Heard
  <2>2. drone' = [drone EXCEPT ![d] = Again(d)] /\ UNCHANGED <<registered, forsaken>>
    BY <1>5 DEF PullLate, PullUnanswered
  <2>3. Again(d) \in DroneType /\ Again(d).at = drone[d].at
    BY <2>1, AgainType DEF FleetInv
  <2> QED
    BY <2>1, <2>2, <2>3, SameStation
<1>6. ASSUME NEW d \in Drones, Abort(d)
      PROVE  drone' \in [Drones -> DroneType] /\ Listed'
  <2>1. drone' = [drone EXCEPT ![d] = Off] /\ UNCHANGED <<registered, forsaken>>
    BY <1>6 DEF Abort, PingsFail
  <2>2. Off \in DroneType
    BY DEF DroneType
  <2> QED
    BY <2>1, <2>2, SameStation
<1>7. ASSUME NEW s \in Stations, Crash(s)
      PROVE  drone' \in [Drones -> DroneType] /\ Listed'
  <2>1. /\ registered' = [registered EXCEPT ![s] = {}] /\ drone' = drone
        /\ forsaken' = forsaken \cup {d \in Drones : drone[d] # Off /\ drone[d].at = s}
    BY <1>7 DEF Crash, Fixed
  <2>2. ASSUME NEW e \in Drones, drone'[e] # Off, e \notin forsaken'
        PROVE  e \in registered'[drone'[e].at]
    <3>1. drone[e].at # s /\ drone[e].at \in Stations /\ e \in registered[drone[e].at]
      BY <1>a, <2>1, <2>2, Shapes DEF FleetInv, Listed
    <3> QED
      BY <1>a, <2>1, <3>1
  <2> QED
    BY <1>a, <2>1, <2>2 DEF Listed
<1>8. CASE UNCHANGED <<drone, registered, forsaken>>
  BY <1>8, <1>a DEF FleetInv, Listed
<1>9. ASSUME NEW d \in Drones, NEW m \in Missions, PopLost(d, m)
      PROVE  UNCHANGED <<drone, registered, forsaken>>
  BY <1>9 DEF PopLost
<1>10. ASSUME NEW s \in Stations, Recover(s) \/ \E m \in Missions : LeaseExpires(s, m)
       PROVE  UNCHANGED <<drone, registered, forsaken>>
  BY <1>10 DEF LeaseExpires, Recover
<1>11. ASSUME (\E m \in Missions : PendingTimeout(m)) \/ UNCHANGED vars
       PROVE  UNCHANGED <<drone, registered, forsaken>>
  BY <1>11 DEF PendingTimeout, vars
<1>12. ASSUME NEW d \in Drones, Hang(d)
       PROVE  drone' \in [Drones -> DroneType] /\ Listed'
  <2>1. drone[d] # Off /\ drone[d].at \in Stations
    BY <1>a, <1>12, Shapes DEF Hang, PingsFail
  <2>2. drone' = [drone EXCEPT ![d] = Hung(drone[d].at)] /\ UNCHANGED <<registered, forsaken>>
    BY <1>12 DEF Hang, PingsFail
  <2> QED
    BY <2>1, <2>2, Written, SameStation
<1>13. ASSUME NEW d \in Drones, FlightEnds(d)
       PROVE  drone' \in [Drones -> DroneType] /\ Listed'
  BY <1>3, <1>6, <1>12, <1>13 DEF FlightEnds, LandReported, LandUnreported, LandUnheard
<1> QED
  BY <1>1, <1>2, <1>3, <1>4, <1>5, <1>7, <1>8, <1>9, <1>10, <1>11, <1>13 DEF Next, Pull

-----------------------------------------------------------------------------

\* The inductive invariant: types, and that a session is on the list of its station
\* unless the station crashed (main.go:63-119, http_server.go:48-85).
THEOREM FleetInvariant == Spec => []FleetInv
<1>1. FleetInv /\ [Next]_vars => FleetInv'
  BY ListsTyped, SessionsAgree DEF FleetInv, TypeOK, DroneType, ListTypes
<1> QED
  BY <1>1, FleetInit, PTL DEF Spec

\* Sessions and lists keep their types: a pull never makes more attempts than allowed
\* and nothing flies or is leased but a mission of the queue (main.go:63-119,
\* http_server.go:48-101).
THEOREM FleetTypes == Spec => []TypeOK
BY FleetInvariant, PTL DEF FleetInv

\* For any fleet and any losses and repetitions of calls: a drone that believes to
\* be registered is known to its station unless the station crashed since
\* (main.go:91-107, http_server.go:48-85).
THEOREM OnlyCrashesStrand == Spec => []StrandedOnlyByCrash
<1>1. FleetInv => StrandedOnlyByCrash
  <2> SUFFICES ASSUME FleetInv, NEW d \in Drones, Stranded(d), d \notin forsaken
               PROVE  FALSE
    BY DEF StrandedOnlyByCrash
  <2>1. drone[d] \in DroneType
    BY DEF FleetInv, TypeOK, DroneType
  <2>2. drone[d] # Off
    BY <2>1, Shapes DEF Stranded
  <2> QED
    BY <2>2 DEF FleetInv, Listed, Stranded, Known
<1> QED
  BY <1>1, FleetInvariant, PTL

=============================================================================
