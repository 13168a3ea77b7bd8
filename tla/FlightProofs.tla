----------------------------- MODULE FlightProofs -----------------------------
(***************************************************************************)
(* Proofs about Flight for any flight times, lease, ping interval, call    *)
(* duration and number of tolerated misses: the heartbeat ends with its    *)
(* mission, a mission is given up only after enough misses in a row, and a *)
(* drone whose pings are answered in time keeps its lease.                 *)
(***************************************************************************)
EXTENDS Flight, TLAPS

\* The goroutines' control: who is where when, and that the code's count of failures
\* is the true number of misses in a row.
Control ==
    /\ hb = "off" <=> main \in {"ack", "report", "idle", "aborted"}
    /\ failures = misses
    /\ hb \in {"wait", "ping"} => failures < MaxMisses
    /\ hb = "abort" \/ main = "aborted" => failures = MaxMisses
    /\ clean => misses = 0

\* The lease of a drone without misses, counted from the last renewal, which was at
\* expires - Lease.  While the heartbeat waits, no tick has passed unnoticed since.
Renewals ==
    main \in {"fly", "done"} /\ up /\ clean /\ ~slow =>
        /\ hb = "wait" => /\ expires >= Lease
                          /\ now <= (expires - Lease) + PingEvery
                          /\ ~tick => now - (expires - Lease) <= (now % PingEvery)
        /\ hb = "ping" /\ now - pingStart <= Lease - PingEvery =>
               expires >= pingStart + Lease - PingEvery

FlightInv == TypeOK /\ Control /\ Renewals

-----------------------------------------------------------------------------

\* Quotient and remainder.
LEMMA DivMod ==
  ASSUME NEW n \in Nat, NEW p \in Nat \ {0}
  PROVE  n = (p * (n \div p)) + (n % p) /\ (n % p) \in 0 .. p - 1 /\ n \div p \in Nat
BY Z3

\* Products grow by the factor at least.
LEMMA ProductStep ==
  ASSUME NEW p \in Nat \ {0}, NEW a \in Int, NEW b \in Int, a < b
  PROVE p * a + p <= p * b
<1>1. b - a - 1 \in Nat
  OBVIOUS
<1>2. p * (b - a - 1) >= 0
  BY <1>1, SMT
<1> QED
  BY <1>2, SMT

\* Quotient and remainder are unique.
LEMMA UniqueDivMod ==
  ASSUME NEW p \in Nat \ {0}, NEW a \in Int, NEW b \in Int,
         NEW r \in 0 .. p - 1, NEW s \in 0 .. p - 1,
         p * a + r = p * b + s
  PROVE a = b /\ r = s
<1>1. ~ a < b
  <2> SUFFICES ASSUME a < b PROVE FALSE
    OBVIOUS
  <2>1. p * a + p <= p * b
    BY ProductStep
  <2>2. p * a \in Int /\ p * b \in Int
    OBVIOUS
  <2> QED
   BY <2>1, <2>2
<1>2. ~ b < a
  <2> SUFFICES ASSUME b < a PROVE FALSE
    OBVIOUS
  <2>1. p * b + p <= p * a
    BY ProductStep
  <2>2. p * a \in Int /\ p * b \in Int
    OBVIOUS
  <2> QED
   BY <2>1, <2>2
<1> QED
  BY <1>1, <1>2
\* The remainder grows by one or a multiple is reached (the ticker of main.go:131).
LEMMA NextTick ==
  ASSUME NEW n \in Nat, NEW p \in Nat \ {0}
  PROVE  /\ (n % p) \in Nat /\ (n % p) < p
         /\ ((n + 1) % p) = 0 \/ ((n + 1) % p) = (n % p) + 1
<1> DEFINE q == n \div p  r == n % p
           q1 == (n + 1) \div p  r1 == (n + 1) % p
<1>1. n = (p * q) + r /\ r \in 0 .. p - 1 /\ q \in Nat
  BY DivMod
<1>2. n + 1 = (p * q1) + r1 /\ r1 \in 0 .. p - 1 /\ q1 \in Nat
  <2>1. n + 1 \in Nat
    OBVIOUS
  <2> QED
    BY <2>1, DivMod
<1> HIDE DEF q, r, q1, r1
<1>3. CASE r + 1 < p
  <2>1. (p * q) + (r + 1) = (p * q1) + r1
    BY <1>1, <1>2
  <2> QED
    BY <2>1, <1>1, <1>2, <1>3, UniqueDivMod
<1>4. CASE r + 1 = p
  <2>1. (p * (q + 1)) + 0 = (p * q1) + r1
    BY <1>1, <1>2, <1>4
  <2>2. r1 = 0
    BY <2>1, <1>1, <1>2, <1>4, UniqueDivMod
  <2> QED
    BY <1>1, <2>2 DEF r, r1
<1> QED
  BY <1>1, <1>3, <1>4 DEF r, r1

\* A mission starts with a fresh lease and no miss.
LEMMA FlightInit == Init => FlightInv
<1> SUFFICES ASSUME Init PROVE FlightInv
  OBVIOUS
<1>1. TypeOK
  <2>1. /\ now \in Nat /\ flightEnd \in FlightTimes
        /\ main \in {"fly", "done", "ack", "report", "idle", "aborted"}
        /\ hb \in {"wait", "ping", "abort", "off"}
        /\ pingStart \in 0 .. now /\ failures \in 0 .. MaxMisses
        /\ expires \in Nat \cup {-1} /\ misses \in Nat
    BY FlightAssumption DEF Init
  <2>2. tick \in BOOLEAN /\ up \in BOOLEAN /\ clean \in BOOLEAN /\ slow \in BOOLEAN
    BY Zenon DEF Init
  <2> QED
    BY <2>1, <2>2 DEF TypeOK
<1>2. Control
  BY FlightAssumption DEF Init, Control
<1>3. (0 % PingEvery) \in Nat
  BY FlightAssumption, NextTick
<1>4. Renewals
  BY <1>3, FlightAssumption DEF Init, Renewals
<1> QED
  BY <1>1, <1>2, <1>4 DEF FlightInv

\* Every step keeps the types.
LEMMA FlightType == TypeOK /\ Control /\ [Next]_vars => TypeOK'
<1> SUFFICES ASSUME TypeOK, Control, [Next]_vars PROVE TypeOK'
  OBVIOUS
<1> USE FlightAssumption DEF TypeOK
<1>1. CASE PingStart
  <2>1. /\ now' \in Nat /\ flightEnd' \in FlightTimes
        /\ main' \in {"fly", "done", "ack", "report", "idle", "aborted"}
        /\ hb' \in {"wait", "ping", "abort", "off"}
        /\ pingStart' \in 0 .. now' /\ failures' \in 0 .. MaxMisses
        /\ expires' \in Nat \cup {-1} /\ misses' \in Nat
    BY <1>1 DEF PingStart, history
  <2>2. tick' \in BOOLEAN /\ up' \in BOOLEAN /\ clean' \in BOOLEAN /\ slow' \in BOOLEAN
    BY <1>1, Zenon DEF PingStart, history
  <2> QED
    BY <2>1, <2>2 DEF TypeOK
<1>2. CASE PingOK
  BY <1>2 DEF PingOK, Renewed, Answered
<1>3. CASE PingFailed
  BY <1>3 DEF PingFailed, Control, Renewed, Answered
<1>4. CASE Main
  BY <1>4 DEF Main, FlightOver, Done, Aborted, SendAck, SaveReport, history
<1>5. CASE NextMission
  <2>1. /\ now' \in Nat /\ flightEnd' \in FlightTimes
        /\ main' \in {"fly", "done", "ack", "report", "idle", "aborted"}
        /\ hb' \in {"wait", "ping", "abort", "off"}
        /\ pingStart' \in 0 .. now' /\ failures' \in 0 .. MaxMisses
        /\ expires' \in Nat \cup {-1} /\ misses' \in Nat
    BY <1>5 DEF NextMission
  <2>2. tick' \in BOOLEAN /\ up' \in BOOLEAN /\ clean' \in BOOLEAN /\ slow' \in BOOLEAN
    BY <1>5, Zenon DEF NextMission
  <2> QED
    BY <2>1, <2>2 DEF TypeOK
<1>6. CASE Sweep \/ StationLost
  BY <1>6 DEF Sweep, StationLost, drone, history
<1>7. CASE Pass
  BY <1>7 DEF Pass, history
<1>8. CASE UNCHANGED vars
  BY <1>8 DEF vars, drone, history
<1> QED
  BY <1>1, <1>2, <1>3, <1>4, <1>5, <1>6, <1>7, <1>8 DEF Next, Heartbeat

\* Every step keeps the control of the two goroutines.
LEMMA FlightControl == TypeOK /\ Control /\ [Next]_vars => Control'
<1> SUFFICES ASSUME TypeOK, Control, [Next]_vars PROVE Control'
  OBVIOUS
<1> USE FlightAssumption DEF TypeOK, Control
<1>1. CASE PingStart
  BY <1>1 DEF PingStart, history
<1>2. CASE PingOK
  BY <1>2 DEF PingOK, Answered
<1>3. CASE PingFailed
  <2>1. /\ hb = "ping" /\ failures' = failures + 1 /\ misses' = misses + 1 /\ main' = main
        /\ hb' = IF failures + 1 >= MaxMisses THEN "abort" ELSE "wait"
    BY <1>3 DEF PingFailed, Missed, Answered
  <2>2. ~clean'
    BY <1>3, Zenon DEF PingFailed, Answered
  <2> QED
    BY <2>1, <2>2
<1>4. CASE Main
  BY <1>4 DEF Main, FlightOver, Done, Aborted, SendAck, SaveReport, history
<1>5. CASE NextMission
  BY <1>5 DEF NextMission
<1>6. CASE Sweep \/ StationLost
  BY <1>6 DEF Sweep, StationLost, drone, history
<1>7. CASE Pass
  BY <1>7 DEF Pass, history
<1>8. CASE UNCHANGED vars
  BY <1>8 DEF vars, drone, history
<1> QED
  BY <1>1, <1>2, <1>3, <1>4, <1>5, <1>6, <1>7, <1>8 DEF Next, Heartbeat

\* Every step keeps the account of the lease.
LEMMA FlightRenewals == FlightInv /\ [Next]_vars => Renewals'
<1> SUFFICES ASSUME TypeOK, Control, Renewals, [Next]_vars,
                    main' \in {"fly", "done"}, up', clean', ~slow'
             PROVE  /\ hb' = "wait" =>
                         /\ expires' >= Lease
                         /\ now' <= (expires' - Lease) + PingEvery
                         /\ ~tick' => now' - (expires' - Lease) <= (now' % PingEvery)
                    /\ hb' = "ping" /\ now' - pingStart' <= Lease - PingEvery =>
                         expires' >= pingStart' + Lease - PingEvery
  BY DEF FlightInv, Renewals
<1>a. (now % PingEvery) \in Nat /\ (now % PingEvery) < PingEvery
  BY NextTick, FlightAssumption DEF TypeOK
<1>b. (0 % PingEvery) \in Nat
  BY NextTick, FlightAssumption
<1> USE FlightAssumption DEF TypeOK
<1>1. CASE PingStart
  BY <1>1, <1>a DEF PingStart, Renewals, history
<1>2. CASE PingOK
  BY <1>2, <1>a DEF PingOK, Renewed, Answered
<1>3. CASE PingFailed
  BY <1>3 DEF PingFailed, Answered
<1>4. CASE Main
  BY <1>4 DEF Main, FlightOver, Done, Aborted, SendAck, SaveReport, Renewals, history
<1>5. CASE NextMission
  BY <1>5, <1>b DEF NextMission
<1>6. CASE Sweep
  <2>1. /\ now > expires /\ UNCHANGED <<main, hb, tick, pingStart, now, up, clean, slow>>
    BY <1>6 DEF Sweep, drone, history
  <2>2. hb # "wait"
    BY <2>1, <1>a DEF Renewals
  <2> QED
    BY <2>1, <2>2, <1>a DEF Renewals
<1>7. CASE StationLost
  BY <1>7 DEF StationLost
<1>8. CASE Pass
  <2>1. /\ now' = now + 1 /\ tick' = (tick \/ now' % PingEvery = 0)
        /\ UNCHANGED <<main, hb, pingStart, up, expires, clean, slow>>
    BY <1>8 DEF Pass, history
  <2>2. CASE hb = "wait"
    <3>1. ~tick
      BY <1>8, <2>2 DEF Pass, NothingDue
    <3>2. (now' % PingEvery) = 0 \/ (now' % PingEvery) = (now % PingEvery) + 1
      BY <2>1, NextTick
    <3>3. now - (expires - Lease) <= (now % PingEvery) /\ expires >= Lease
      BY <2>1, <2>2, <3>1 DEF Renewals
    <3> QED
      BY <1>a, <2>1, <2>2, <3>1, <3>2, <3>3
  <2>3. CASE hb = "ping"
    BY <2>1, <2>3 DEF Renewals
  <2> QED
    BY <2>1, <2>2, <2>3
<1>9. CASE UNCHANGED vars
  BY <1>9 DEF vars, drone, history, Renewals
<1> QED
  BY <1>1, <1>2, <1>3, <1>4, <1>5, <1>6, <1>7, <1>8, <1>9 DEF Next, Heartbeat

\* The inductive invariant of a drone in flight (main.go:122-163, radar.go:36-54).
THEOREM FlightInvariant == Spec => []FlightInv
<1>1. FlightInv /\ [Next]_vars => FlightInv'
  BY FlightType, FlightControl, FlightRenewals DEF FlightInv
<1> QED
  BY <1>1, FlightInit, PTL DEF Spec

\* Clock, goroutines and lease record keep their types (main.go:122-163).
THEOREM FlightTypes == Spec => []TypeOK
BY FlightInvariant, PTL DEF FlightInv

\* No heartbeat outlives its mission, whatever the timings (main.go:130-162).
THEOREM HeartbeatEnds == Spec => []NoStrayHeartbeat
<1>1. FlightInv => NoStrayHeartbeat
  BY DEF FlightInv, Control, NoStrayHeartbeat
<1> QED
  BY <1>1, FlightInvariant, PTL

\* A mission is given up only after MaxMisses pings in a row failed
\* (main.go:142-152).
THEOREM AbortsAreEarned == Spec => []AbortNeedsMisses
<1>1. FlightInv => AbortNeedsMisses
  BY FlightAssumption DEF FlightInv, TypeOK, Control, AbortNeedsMisses
<1> QED
  BY <1>1, FlightInvariant, PTL

\* For any lease at least as long as the ping interval: a drone whose pings are
\* answered within the lease less one interval never loses its lease
\* (main.go:130-162, radar.go:36-54, 99-118).
THEOREM LeasesAreHeld == Spec => []LeaseHeld
<1>1. FlightInv => LeaseHeld
  <2> SUFFICES ASSUME FlightInv, main \in {"fly", "done"}, up, clean, ~slow,
                      hb = "ping" => now - pingStart <= Lease - PingEvery
               PROVE  now <= expires
    BY DEF LeaseHeld
  <2>1. hb \in {"wait", "ping"}
    BY FlightAssumption DEF FlightInv, TypeOK, Control
  <2> QED
    BY <2>1, FlightAssumption DEF FlightInv, TypeOK, Renewals
<1> QED
  BY <1>1, FlightInvariant, PTL

=============================================================================
