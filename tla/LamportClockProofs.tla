-------------------------- MODULE LamportClockProofs --------------------------
(***************************************************************************)
(* Proofs about LamportClock, for any number of workers and packets.       *)
(***************************************************************************)
EXTENDS LamportClock, TLAPS

\* Nothing that was given out or remembered lies in the future of the clock.
Past ==
    /\ \A i \in 1 .. Len(log) : log[i].at <= clock
    /\ \A w \in Workers : floor[w] <= clock

ClockInv == TypeOK /\ Past /\ StampsIncrease /\ StampsCausal

\* A snapshot that is out of date was overtaken after it was loaded, once more than the
\* worker has lost so far.
Overdue ==
    \A w \in Workers : pc[w] = "cas" /\ snap[w] # clock => misses[w] < beaten[w]

\* Appending a stamp past the clock keeps the order and the causality.
LEMMA StampGiven ==
  ASSUME ClockInv, NEW w \in Workers, NEW v \in Nat,
         v > clock, v > recv[w], clock' = v, log' = Append(log, Stamp(w, v)),
         floor' = floor
  PROVE  log' \in Seq(StampType) /\ Past' /\ StampsIncrease' /\ StampsCausal'
<1>1. Stamp(w, v) \in StampType
  BY DEF ClockInv, TypeOK, Stamp, StampType
<1>2. log \in Seq(StampType) /\ clock \in Nat /\ Len(log) \in Nat
  BY DEF ClockInv, TypeOK
<1>3. /\ log' \in Seq(StampType) /\ Len(log') = Len(log) + 1
      /\ \A i \in 1 .. Len(log) : log'[i] = log[i]
      /\ log'[Len(log) + 1] = Stamp(w, v)
  BY <1>1, <1>2
<1>4. Stamp(w, v).at = v /\ Stamp(w, v).recv = recv[w] /\ Stamp(w, v).floor = floor[w]
  BY DEF Stamp
<1>5. \A i \in 1 .. Len(log) : log[i] \in StampType
  BY <1>2
<1>6. \A i \in 1 .. Len(log) : log[i].at \in Nat /\ log[i].at < v
  BY <1>2, <1>5 DEF ClockInv, Past, StampType
<1>7. \A i \in 1 .. Len(log') : i \in 1 .. Len(log) \/ i = Len(log) + 1
  BY <1>2, <1>3
<1>8. \A u \in Workers : floor[u] \in Nat /\ floor[u] < v
  BY <1>2 DEF ClockInv, TypeOK, Past
<1>9. Past'
  <2>1. \A i \in 1 .. Len(log') : log'[i].at <= v
    BY <1>3, <1>4, <1>6, <1>7
  <2> QED
    BY <1>8, <2>1 DEF Past
<1>10. StampsIncrease'
  <2> SUFFICES ASSUME NEW i \in 1 .. Len(log'), NEW j \in 1 .. Len(log'), i < j
               PROVE  log'[i].at < log'[j].at
    BY DEF StampsIncrease
  <2>1. i \in 1 .. Len(log)
    BY <1>2, <1>3
  <2>2. CASE j \in 1 .. Len(log)
    BY <1>3, <2>1, <2>2 DEF ClockInv, StampsIncrease
  <2>3. CASE j = Len(log) + 1
    BY <1>3, <1>4, <1>6, <2>1, <2>3
  <2> QED
    BY <1>7, <2>2, <2>3
<1>11. StampsCausal'
  <2> SUFFICES ASSUME NEW i \in 1 .. Len(log')
               PROVE  log'[i].at > log'[i].recv /\ log'[i].at > log'[i].floor
    BY DEF StampsCausal
  <2>1. CASE i \in 1 .. Len(log)
    BY <1>3, <2>1 DEF ClockInv, StampsCausal
  <2>2. CASE i = Len(log) + 1
    BY <1>3, <1>4, <1>8, <2>2
  <2> QED
    BY <1>7, <2>1, <2>2
<1> QED
  BY <1>3, <1>9, <1>10, <1>11

\* ClockInv is inductive.
LEMMA NextInv == ClockInv /\ [Next]_vars => ClockInv'
<1> SUFFICES ASSUME ClockInv, [Next]_vars PROVE ClockInv'
  OBVIOUS
<1> USE DEF ClockInv
<1>1. ASSUME NEW w \in Workers, Take(w) PROVE ClockInv'
  <2>1. TypeOK'
    BY <1>1, ClockAssumption DEF Take, TypeOK
  <2>2. Past' /\ StampsIncrease' /\ StampsCausal'
    BY <1>1 DEF Take, TypeOK, Past, StampsIncrease, StampsCausal
  <2> QED
    BY <2>1, <2>2
<1>2. ASSUME NEW w \in Workers, Tick(w) PROVE ClockInv'
  <2>1. clock \in Nat /\ recv[w] \in Nat /\ clock' = clock + 1 /\ floor' = floor
    BY <1>2 DEF Tick, TypeOK
  <2>4. beaten' \in [Workers -> Nat] /\ UNCHANGED <<recv, snap, misses>>
    BY <1>2 DEF Tick, Overtaken, TypeOK
  <2>0. pc' \in [Workers -> {"idle", "tick", "load", "cas"}]
    <3>1. pc \in [Workers -> {"idle", "tick", "load", "cas"}]
      BY DEF TypeOK
    <3>2. \/ pc' = [pc EXCEPT ![w] = "load"]
          \/ pc' = [pc EXCEPT ![w] = "idle"]
      BY <1>2 DEF Tick
    <3> QED
      BY <3>1, <3>2
  <2>2. CASE recv[w] > 0
    <3>1. log' = log
      BY <1>2, <2>2 DEF Tick
    <3>2. TypeOK'
      BY <2>0, <2>1, <2>4, <3>1 DEF TypeOK
    <3>3. \A i \in 1 .. Len(log) : log[i].at \in Nat
      <4>1. \A i \in 1 .. Len(log) : log[i] \in StampType
        BY DEF TypeOK
      <4> QED
        BY <4>1 DEF StampType
    <3>4. Past'
      <4>1. \A u \in Workers : floor[u] \in Nat
        BY DEF TypeOK
      <4> QED
        BY <2>1, <3>1, <3>3, <4>1 DEF Past
    <3>5. StampsIncrease' /\ StampsCausal'
      BY <3>1 DEF StampsIncrease, StampsCausal
    <3> QED
      BY <3>2, <3>4, <3>5
  <2>3. CASE ~(recv[w] > 0)
    <3>1. log' = Append(log, Stamp(w, clock'))
      BY <1>2, <2>3 DEF Tick
    <3>2. log' \in Seq(StampType) /\ Past' /\ StampsIncrease' /\ StampsCausal'
      BY <2>1, <2>3, <3>1, StampGiven
    <3>3. TypeOK'
      BY <2>0, <2>1, <2>4, <3>2 DEF TypeOK
    <3> QED
      BY <3>2, <3>3
  <2> QED
    BY <2>2, <2>3
<1>3. ASSUME NEW w \in Workers, SyncLoad(w) \/ SyncRetry(w) PROVE ClockInv'
  <2>1. TypeOK'
    <3>1. CASE SyncLoad(w)
      BY <3>1 DEF SyncLoad, TypeOK
    <3>2. CASE SyncRetry(w)
      BY <3>2 DEF SyncRetry, TypeOK
    <3> QED
      BY <1>3, <3>1, <3>2
  <2>2. UNCHANGED <<clock, floor, log>>
    BY <1>3 DEF SyncLoad, SyncRetry
  <2> QED
    BY <2>1, <2>2 DEF Past, StampsIncrease, StampsCausal
<1>4. ASSUME NEW w \in Workers, SyncSwap(w) PROVE ClockInv'
  <2>1. /\ snap[w] = clock /\ clock \in Nat /\ recv[w] \in Nat
        /\ floor' = floor /\ clock' = NewClock(w)
        /\ log' = Append(log, Stamp(w, NewClock(w)))
    BY <1>4 DEF SyncSwap, TypeOK
  <2>2. NewClock(w) \in Nat /\ NewClock(w) > clock /\ NewClock(w) > recv[w]
    BY <2>1 DEF NewClock, Larger
  <2>3. log' \in Seq(StampType) /\ Past' /\ StampsIncrease' /\ StampsCausal'
    BY <2>1, <2>2, StampGiven
  <2>4. TypeOK'
    BY <1>4, <2>1, <2>2, <2>3 DEF SyncSwap, Overtaken, TypeOK
  <2> QED
    BY <2>3, <2>4
<1>5. CASE UNCHANGED vars
  BY <1>5 DEF vars, TypeOK, Past, StampsIncrease, StampsCausal
<1> QED
  BY <1>1, <1>2, <1>3, <1>4, <1>5 DEF Next

\* Losses stay behind the changes of the clock.
LEMMA LossesNext ==
  ClockInv /\ Overdue /\ LostToWinners /\ [Next]_vars => Overdue' /\ LostToWinners'
<1> SUFFICES ASSUME TypeOK, Overdue, LostToWinners, [Next]_vars, NEW v \in Workers
             PROVE  /\ pc'[v] = "cas" /\ snap'[v] # clock' => misses'[v] < beaten'[v]
                    /\ misses'[v] <= beaten'[v]
  BY DEF ClockInv, Overdue, LostToWinners
<1> DEFINE Goal == /\ pc'[v] = "cas" /\ snap'[v] # clock' => misses'[v] < beaten'[v]
                   /\ misses'[v] <= beaten'[v]
<1>0. /\ misses[v] \in Nat /\ beaten[v] \in Nat /\ misses[v] <= beaten[v]
      /\ pc[v] = "cas" /\ snap[v] # clock => misses[v] < beaten[v]
  BY DEF TypeOK, Overdue, LostToWinners
<1>1. ASSUME NEW w \in Workers, Take(w) PROVE  Goal
  BY <1>0, <1>1 DEF Take, TypeOK
<1>2. ASSUME NEW w \in Workers, Tick(w) \/ SyncSwap(w)
      PROVE  Goal
  <2>1. /\ misses'[v] = misses[v] /\ beaten'[v] >= beaten[v]
        /\ v # w /\ pc[v] # "idle" => beaten'[v] = beaten[v] + 1
    BY <1>0, <1>2 DEF Tick, SyncSwap, Overtaken
  <2>2. pc'[v] = "cas" => v # w /\ pc[v] = "cas"
    BY <1>2 DEF Tick, SyncSwap, TypeOK
  <2>3. beaten'[v] \in Nat
    BY <1>0, <1>2 DEF Tick, SyncSwap, Overtaken
  <2> QED
    BY <1>0, <2>1, <2>2, <2>3
<1>3. ASSUME NEW w \in Workers, SyncLoad(w)
      PROVE  Goal
  BY <1>0, <1>3 DEF SyncLoad, TypeOK
<1>4. ASSUME NEW w \in Workers, SyncRetry(w)
      PROVE  Goal
  BY <1>0, <1>4 DEF SyncRetry, TypeOK
<1>5. ASSUME UNCHANGED vars PROVE Goal
  BY <1>0, <1>5 DEF vars
<1>6. Goal
  <2> HIDE DEF Goal
  <2> QED
    BY <1>1, <1>2, <1>3, <1>4, <1>5 DEF Next
<1> QED
  BY <1>6

\* The invariant holds in every reachable state.
THEOREM ClockInvariant == Spec => []ClockInv
<1>1. Init => ClockInv
  BY DEF Init, ClockInv, TypeOK, Past, StampsIncrease, StampsCausal
<1> QED
  BY <1>1, NextInv, PTL DEF Spec

\* With any number of workers no two missions share a Lamport stamp
\* (pkg/clock/lamport.go:8-39).
THEOREM StampsAreUnique == Spec => []StampsIncrease
<1>1. ClockInv => StampsIncrease
  BY DEF ClockInv
<1> QED
  BY <1>1, ClockInvariant, PTL

\* Every stamp follows the clock the packet carried and every stamp given before
\* the packet was taken (pkg/clock/lamport.go:18-39).
THEOREM StampsAreCausal == Spec => []StampsCausal
<1>1. ClockInv => StampsCausal
  BY DEF ClockInv
<1> QED
  BY <1>1, ClockInvariant, PTL

\* With any number of workers and packets: Sync loses a swap only to a tick or a swap of
\* another worker, one for each loss (pkg/clock/lamport.go:19-38).
THEOREM LossesHaveWinners == Spec => []LostToWinners
<1>1. Init => Overdue /\ LostToWinners
  BY DEF Init, Overdue, LostToWinners
<1> QED
  BY <1>1, LossesNext, ClockInvariant, PTL DEF Spec

=============================================================================
