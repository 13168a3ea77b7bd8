----------------------------- MODULE LamportClock -----------------------------
(***************************************************************************)
(* The Lamport clock of a broker process (pkg/clock/lamport.go), shared by *)
(* the workers that stamp incoming packets (cmd/broker/                    *)
(* mission_processor.go).  Each atomic instruction is one step, so the     *)
(* load and the compare-and-swap of Sync interleave with other workers.    *)
(* The clock stays far below 2^64.  The loop of Sync is lock-free and not  *)
(* wait-free: nothing bounds the swaps one worker may lose, but each one   *)
(* it loses was won by somebody else.                                      *)
(***************************************************************************)
EXTENDS Integers, Sequences, FiniteSets

CONSTANTS
    Workers,     \* goroutines started by StartWorkers
    Received,    \* values of InternalClock in packets; 0 when there is none
    MaxStamps    \* bound: missions stamped

ASSUME ClockAssumption == Received \subseteq Nat /\ MaxStamps \in Nat

VARIABLES
    clock,   \* globalLamportClock
    pc,      \* worker -> "idle", "tick", "load" or "cas"
    recv,    \* worker -> InternalClock of its packet
    snap,    \* worker -> value loaded by Sync ("current")
    \* history
    floor,   \* worker -> clock when it took its packet
    log,     \* stamps given, in the order they were given
    misses,  \* worker -> swaps it lost since it took its packet
    beaten   \* worker -> changes of the clock by other workers since then

vars == <<clock, pc, recv, snap, floor, log, misses, beaten>>

\* The stamp of a mission, with what it must come after.
Stamp(w, value) == [at |-> value, recv |-> recv[w], floor |-> floor[w]]

Larger(a, b) == IF a > b THEN a ELSE b

\* w changes the clock under the workers that are at work on a packet.
Overtaken(w) ==
    [v \in Workers |-> IF v # w /\ pc[v] # "idle" THEN beaten[v] + 1 ELSE beaten[v]]

-----------------------------------------------------------------------------

\* A worker takes a packet that passed the idempotency filter.
Take(w) ==
    /\ pc[w] = "idle"
    /\ Len(log) + Cardinality({v \in Workers : pc[v] # "idle"}) < MaxStamps
    /\ pc' = [pc EXCEPT ![w] = "tick"]
    /\ \E r \in Received : recv' = [recv EXCEPT ![w] = r]
    /\ floor' = [floor EXCEPT ![w] = clock]
    /\ misses' = [misses EXCEPT ![w] = 0]
    /\ beaten' = [beaten EXCEPT ![w] = 0]
    /\ UNCHANGED <<clock, snap, log>>

\* Tick; its value is the stamp unless the packet carries a clock.
Tick(w) ==
    /\ pc[w] = "tick"
    /\ clock' = clock + 1
    /\ IF recv[w] > 0
       THEN /\ pc' = [pc EXCEPT ![w] = "load"]
            /\ log' = log
       ELSE /\ pc' = [pc EXCEPT ![w] = "idle"]
            /\ log' = Append(log, Stamp(w, clock'))
    /\ beaten' = Overtaken(w)
    /\ UNCHANGED <<recv, snap, floor, misses>>

\* Sync: LoadUint64.
SyncLoad(w) ==
    /\ pc[w] = "load"
    /\ snap' = [snap EXCEPT ![w] = clock]
    /\ pc' = [pc EXCEPT ![w] = "cas"]
    /\ UNCHANGED <<clock, recv, floor, log, misses, beaten>>

\* Mutant of NewClock: the larger of the two clocks, without the step past it.
NewClockNoStep(w) == Larger(snap[w], recv[w])
NewClock(w) == Larger(snap[w], recv[w]) + 1

\* Mutant of SyncSwap: a plain store.
SyncStore(w) ==
    /\ pc[w] = "cas"
    /\ clock' = NewClock(w)
    /\ pc' = [pc EXCEPT ![w] = "idle"]
    /\ log' = Append(log, Stamp(w, NewClock(w)))
    /\ beaten' = Overtaken(w)
    /\ UNCHANGED <<recv, snap, floor, misses>>

\* Sync: CompareAndSwapUint64 succeeds and Sync returns.
SyncSwap(w) ==
    /\ pc[w] = "cas" /\ clock = snap[w]
    /\ clock' = NewClock(w)
    /\ pc' = [pc EXCEPT ![w] = "idle"]
    /\ log' = Append(log, Stamp(w, NewClock(w)))
    /\ beaten' = Overtaken(w)
    /\ UNCHANGED <<recv, snap, floor, misses>>

\* Mutant of SyncRetry: after a failure the old snapshot is compared again.
SyncRetryStale(w) ==
    /\ pc[w] = "cas" /\ clock # snap[w]
    /\ misses' = [misses EXCEPT ![w] = @ + 1]
    /\ UNCHANGED <<clock, pc, recv, snap, floor, log, beaten>>

\* Sync: CompareAndSwapUint64 fails and the loop starts again.
SyncRetry(w) ==
    /\ pc[w] = "cas" /\ clock # snap[w]
    /\ pc' = [pc EXCEPT ![w] = "load"]
    /\ misses' = [misses EXCEPT ![w] = @ + 1]
    /\ UNCHANGED <<clock, recv, snap, floor, log, beaten>>

-----------------------------------------------------------------------------

Init ==
    /\ clock = 0
    /\ pc = [w \in Workers |-> "idle"]
    /\ recv = [w \in Workers |-> 0]
    /\ snap = [w \in Workers |-> 0]
    /\ floor = [w \in Workers |-> 0]
    /\ log = <<>>
    /\ misses = [w \in Workers |-> 0]
    /\ beaten = [w \in Workers |-> 0]

Next ==
    \E w \in Workers :
        Take(w) \/ Tick(w) \/ SyncLoad(w) \/ SyncSwap(w) \/ SyncRetry(w)

Spec == Init /\ [][Next]_vars

-----------------------------------------------------------------------------
(* Properties *)

StampType == [at : Nat, recv : Nat, floor : Nat]

TypeOK ==
    /\ clock \in Nat
    /\ pc \in [Workers -> {"idle", "tick", "load", "cas"}]
    /\ recv \in [Workers -> Nat]
    /\ snap \in [Workers -> Nat]
    /\ floor \in [Workers -> Nat]
    /\ log \in Seq(StampType)
    /\ misses \in [Workers -> Nat]
    /\ beaten \in [Workers -> Nat]

\* No two missions get one stamp, and stamps are given in increasing order,
\* however the workers' loads and swaps interleave (lamport.go:8-39).
StampsIncrease ==
    \A i, j \in 1 .. Len(log) : i < j => log[i].at < log[j].at

\* A stamp lies past the clock the packet carried and past every stamp given
\* before its worker took it (lamport.go:18-39, mission_processor.go:44-47).
StampsCausal ==
    \A i \in 1 .. Len(log) : log[i].at > log[i].recv /\ log[i].at > log[i].floor

\* Sync never loses a swap for nothing: a worker goes round its loop at most once for
\* every tick or swap of another worker since it took its packet, so that workers who
\* keep failing see others succeed (lamport.go:19-38).
LostToWinners == \A w \in Workers : misses[w] <= beaten[w]

=============================================================================
