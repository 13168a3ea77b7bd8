-------------------------------- MODULE Flight --------------------------------
(***************************************************************************)
(* One drone in flight (cmd/drone/main.go): the main goroutine that waits  *)
(* for the end of the flight, the heartbeat goroutine that renews the      *)
(* lease, the two unbuffered channels between them, and the lease record   *)
(* on the station (pkg/radar/radar.go, cmd/station/http_server.go).        *)
(*                                                                         *)
(* Time is counted in half seconds since the start of the mission.  It     *)
(* passes only when no goroutine has something to do at once.              *)
(***************************************************************************)
EXTENDS Integers

CONSTANTS
    FlightTimes,  \* possible flight durations: 4 .. 9 s
    PingEvery,    \* ticker of the heartbeat: 2 s
    MaxCall,      \* longest GetJSON: four attempts of 2 s and their backoff
    Lease,        \* lease granted by the station: 10 s
    SweepEvery,   \* ticker of the station's janitor: 2 s
    MaxMisses,    \* consecutive failed pings that abort the mission: 3
    MaxNow        \* bound: time of one mission

ASSUME FlightAssumption ==
    /\ FlightTimes \subseteq Nat /\ FlightTimes # {}
    /\ PingEvery \in Nat \ {0} /\ MaxCall \in Nat
    /\ Lease \in Nat /\ PingEvery <= Lease
    /\ SweepEvery \in Nat /\ MaxMisses \in Nat \ {0} /\ MaxNow \in Nat

VARIABLES
    now,        \* half seconds since the mission was pulled
    main,       \* main: "fly", "done" (sending on doneChan), "ack", "report",
                \*       "idle" or "aborted"
    hb,         \* heartbeat: "wait" (select), "ping" (in GetJSON),
                \*       "abort" (sending on abortChan) or "off"
    tick,       \* a tick waits in ticker.C, which holds one
    pingStart,  \* when the current GetJSON started
    failures,   \* consecutiveFailures
    flightEnd,  \* when time.After fires
    up,         \* the station exists
    expires,    \* ExpiresAt of the record, -1 when there is none
    misses,     \* history: pings that failed since the last one that did not
    clean,      \* history: no ping of this mission failed
    slow        \* history: a ping outlasted the slack of the lease

drone == <<main, hb, tick, pingStart, failures, flightEnd>>
history == <<misses, clean, slow>>
vars == <<now, drone, up, expires, history>>

-----------------------------------------------------------------------------
(* Station *)

\* RenewLease: refused without a record and after its expiry.
Renewable == up /\ expires >= 0 /\ now <= expires

\* Mutant of Renewed: the extended record is not written back to the map.
RenewedNotStored == expires
Renewed == now + Lease

\* sweep: collects the expired record at the next tick of the janitor.
Sweep ==
    /\ up /\ expires >= 0 /\ now > expires
    /\ expires' = -1
    /\ UNCHANGED <<now, drone, up, history>>

\* The station is destroyed in flight, and its leases with it.
StationLost ==
    /\ up
    /\ up' = FALSE /\ expires' = -1
    /\ UNCHANGED <<now, drone, history>>

-----------------------------------------------------------------------------
(* Heartbeat goroutine *)

\* case <-ticker.C.
PingStart ==
    /\ hb = "wait" /\ tick
    /\ hb' = "ping" /\ tick' = FALSE /\ pingStart' = now
    /\ UNCHANGED <<now, main, failures, flightEnd, up, expires, history>>

Answered(ok) ==
    /\ misses' = IF ok THEN 0 ELSE misses + 1
    /\ clean' = (clean /\ ok)
    /\ slow' = (slow \/ now - pingStart > Lease - PingEvery)

\* Mutant of PingOK: an answer does not reset the count of failures.
PingOKNoReset ==
    /\ hb = "ping" /\ Renewable
    /\ expires' = Renewed
    /\ hb' = "wait"
    /\ Answered(TRUE)
    /\ UNCHANGED <<now, main, tick, pingStart, failures, flightEnd, up>>

PingOK ==
    /\ hb = "ping" /\ Renewable
    /\ expires' = Renewed
    /\ failures' = 0 /\ hb' = "wait"
    /\ Answered(TRUE)
    /\ UNCHANGED <<now, main, tick, pingStart, flightEnd, up>>

\* Mutant of Missed: off by one.
MissedLate(n) == n + 1 > MaxMisses
Missed(n) == n + 1 >= MaxMisses

\* GetJSON gives up: the station is gone, refuses (410), or cannot be heard.  In
\* the last case it may have renewed the lease and only the answer was lost.
PingFailed ==
    /\ hb = "ping"
    /\ \/ expires' = expires
       \/ Renewable /\ expires' = Renewed
    /\ failures' = failures + 1
    /\ hb' = IF Missed(failures) THEN "abort" ELSE "wait"
    /\ Answered(FALSE)
    /\ UNCHANGED <<now, main, tick, pingStart, flightEnd, up>>

-----------------------------------------------------------------------------
(* Main goroutine *)

\* case <-time.After(flightDuration): main now sends on doneChan.
FlightOver ==
    /\ main = "fly" /\ now >= flightEnd
    /\ main' = "done"
    /\ UNCHANGED <<now, hb, tick, pingStart, failures, flightEnd, up, expires, history>>

\* Mutants of Done: the heartbeat's select has no doneChan case; main does not
\* wait for the heartbeat to take the signal.
DoneUnheard == FALSE /\ UNCHANGED vars
DoneUnwaited ==
    /\ main = "done"
    /\ main' = "ack"
    /\ UNCHANGED <<now, hb, tick, pingStart, failures, flightEnd, up, expires, history>>

\* doneChan: both goroutines meet and the heartbeat returns.
Done ==
    /\ main = "done" /\ hb = "wait"
    /\ main' = "ack" /\ hb' = "off"
    /\ UNCHANGED <<now, tick, pingStart, failures, flightEnd, up, expires, history>>

\* abortChan: both goroutines meet, executeMission returns false.
Aborted ==
    /\ main = "fly" /\ hb = "abort"
    /\ main' = "aborted" /\ hb' = "off"
    /\ UNCHANGED <<now, tick, pingStart, failures, flightEnd, up, expires, history>>

\* sendAck: Acknowledge deletes the record, if the station hears it.
SendAck ==
    /\ main = "ack" /\ main' = "report"
    /\ expires' \in {expires, -1}
    /\ UNCHANGED <<now, hb, tick, pingStart, failures, flightEnd, up, history>>

\* saveReportToLedger: submitted, or given up with a log line.
SaveReport ==
    /\ main = "report" /\ main' = "idle"
    /\ UNCHANGED <<now, hb, tick, pingStart, failures, flightEnd, up, expires, history>>

\* The next mission, from this station or, after an abort, from a new one.
\* MarkInFlight grants the first lease.
NextMission ==
    /\ \/ main = "idle" /\ up
       \/ main = "aborted"
    /\ now' = 0 /\ main' = "fly" /\ hb' = "wait"
    /\ tick' = FALSE /\ pingStart' = 0 /\ failures' = 0
    /\ flightEnd' \in FlightTimes
    /\ up' = TRUE /\ expires' = Lease
    /\ misses' = 0 /\ clean' = TRUE /\ slow' = FALSE

-----------------------------------------------------------------------------
(* Time *)

\* Nothing is due: the flight goes on, no tick waits for the heartbeat, the
\* current call may still take longer, and the janitor is not overdue.
NothingDue ==
    /\ main = "fly" => now < flightEnd /\ hb # "abort"
    /\ hb = "wait" => ~tick /\ main # "done"
    /\ hb = "ping" => now < pingStart + MaxCall
    /\ expires >= 0 => now <= expires + SweepEvery

Pass ==
    /\ main = "fly" \/ hb = "ping"
    /\ NothingDue /\ now < MaxNow
    /\ now' = now + 1
    /\ tick' = (tick \/ now' % PingEvery = 0)
    /\ UNCHANGED <<main, hb, pingStart, failures, flightEnd, up, expires, history>>

-----------------------------------------------------------------------------

Init ==
    /\ now = 0 /\ main = "fly" /\ hb = "wait"
    /\ tick = FALSE /\ pingStart = 0 /\ failures = 0
    /\ flightEnd \in FlightTimes
    /\ up = TRUE /\ expires = Lease
    /\ misses = 0 /\ clean = TRUE /\ slow = FALSE

Heartbeat == PingStart \/ PingOK \/ PingFailed
Main == FlightOver \/ Done \/ Aborted \/ SendAck \/ SaveReport

Next == Heartbeat \/ Main \/ NextMission \/ Sweep \/ StationLost \/ Pass

Spec == Init /\ [][Next]_vars

\* Time passes, GetJSON returns, and a goroutine that can go on does.
FairSpec ==
    /\ Spec
    /\ WF_vars(Pass) /\ WF_vars(Sweep)
    /\ WF_vars(Heartbeat) /\ WF_vars(FlightOver \/ SendAck \/ SaveReport)
    /\ WF_vars(Aborted) /\ SF_vars(Done)

-----------------------------------------------------------------------------
(* Properties *)

TypeOK ==
    /\ now \in Nat /\ flightEnd \in FlightTimes
    /\ main \in {"fly", "done", "ack", "report", "idle", "aborted"}
    /\ hb \in {"wait", "ping", "abort", "off"}
    /\ tick \in BOOLEAN /\ pingStart \in 0 .. now /\ failures \in 0 .. MaxMisses
    /\ up \in BOOLEAN /\ expires \in Nat \cup {-1}
    /\ misses \in Nat /\ clean \in BOOLEAN /\ slow \in BOOLEAN

\* The heartbeat of a mission never outlives it: once executeMission returned,
\* nobody renews the lease of a mission that is over (main.go:131-162).
NoStrayHeartbeat ==
    main \in {"ack", "report", "idle", "aborted"} => hb = "off"

\* A mission is given up only after three pings in a row failed
\* (main.go:144-152).
AbortNeedsMisses == main = "aborted" => misses >= MaxMisses

\* A drone whose pings are all answered, none of them after more than the lease
\* less one tick, keeps its lease until main and heartbeat have met, also when the
\* last ping outlasts the flight (main.go:132-162, radar.go:36-54, 99-118).
LeaseHeld ==
    main \in {"fly", "done"} /\ up /\ clean /\ ~slow
        /\ (hb = "ping" => now - pingStart <= Lease - PingEvery)
      => now <= expires

\* Every flight ends: in a report, in an abort, or in the one way both
\* goroutines block each other: the last miss meets the end of the flight.
FlightEnds ==
    main = "fly" ~> \/ main \in {"idle", "aborted"}
                    \/ main = "done" /\ hb = "abort"

\* Stated by the documentation, refuted by the run of the finding.

\* After the flight the drone sends its report (README.md:67).
LandedReports == main = "done" ~> main = "report"

=============================================================================
