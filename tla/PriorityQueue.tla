---------------------------- MODULE PriorityQueue -----------------------------
(***************************************************************************)
(* The mission queue of a broker and of a station                          *)
(* (pkg/queue/priority_queue.go): a binary heap in a slice, under a mutex, *)
(* with the anti-starvation worker.                                        *)
(*                                                                         *)
(* The loops of Go's container/heap (external) are modelled swap by swap.  *)
(* The operation that runs one holds the mutex, so no other operation can  *)
(* begin before it has ended; only the Lamport clock moves meanwhile.      *)
(***************************************************************************)
EXTENDS Integers, Sequences, SequencesExt

CONSTANTS
    Ids, SensorOf, Stamps, AgingLimit,  \* as in PriorityBag
    MaxClock,  \* bound: Lamport clock of the process
    Word       \* 2^64 in the code: stamps and clock are uint64

ASSUME QueueAssumption ==
    /\ SensorOf \in [Ids -> Nat] /\ Stamps \subseteq Nat /\ AgingLimit \in Nat
    /\ MaxClock \in Nat /\ Word \in Nat /\ Word > MaxClock

VARIABLES
    heap,    \* the slice, heap[1] is its element 0
    holder,  \* who holds the mutex: "none", "push", "pop" or "init"
    at,      \* position of the mission that rises or sinks
    top,     \* root of the subtree in which it sinks
    clock,   \* globalLamportClock
    aged     \* history: missions a pass of the worker found too old

vars == <<heap, holder, at, top, clock, aged>>

Bag == INSTANCE PriorityBag WITH items <- ToSet(heap)

Mission == [id : Ids, critical : BOOLEAN, clock : Stamps]

Less(a, b) ==
    IF a.critical # b.critical THEN a.critical
    ELSE IF a.clock # b.clock THEN a.clock < b.clock
    ELSE SensorOf[a.id] < SensorOf[b.id]

Swap(h, i, j) == [h EXCEPT ![i] = h[j], ![j] = h[i]]

Unlock == holder' = "none" /\ at' = 0 /\ top' = 0

-----------------------------------------------------------------------------
(* Enqueue *)

\* Mutant of Enqueue: the new mission stays at the end of the slice.
EnqueueAppend(m) ==
    /\ holder = "none" /\ \A x \in ToSet(heap) : x.id # m.id
    /\ heap' = Append(heap, m)
    /\ UNCHANGED <<holder, at, top, clock, aged>>

\* heap.Push of a new mission, one taken back, or one of another broker, whose
\* stamp may be older or newer than this process's clock.
Enqueue(m) ==
    /\ holder = "none" /\ \A x \in ToSet(heap) : x.id # m.id
    /\ heap' = Append(heap, m)
    /\ holder' = "push" /\ at' = Len(heap) + 1 /\ top' = 0
    /\ UNCHANGED <<clock, aged>>

Rises == at # 1 /\ Less(heap[at], heap[at \div 2])

\* up: the mission trades places with its parent while it goes before it.
Up ==
    /\ holder = "push"
    /\ \/ /\ Rises
          /\ heap' = Swap(heap, at, at \div 2) /\ at' = at \div 2
          /\ UNCHANGED <<holder, top>>
       \/ /\ ~Rises
          /\ Unlock /\ UNCHANGED heap
    /\ UNCHANGED <<clock, aged>>

-----------------------------------------------------------------------------
(* Sinking, for Dequeue and for heap.Init *)

\* heap.Pop keeps its last element out of the loop.
Size == IF holder = "pop" THEN Len(heap) - 1 ELSE Len(heap)

\* The child that goes first.
FirstChild ==
    IF 2 * at + 1 <= Size /\ Less(heap[2 * at + 1], heap[2 * at])
    THEN 2 * at + 1 ELSE 2 * at

Sinks == 2 * at <= Size /\ Less(heap[FirstChild], heap[at])

\* down: the mission trades places with its first child while that goes before it.
Down ==
    /\ holder \in {"pop", "init"} /\ Sinks
    /\ heap' = Swap(heap, FirstChild, at) /\ at' = FirstChild
    /\ UNCHANGED <<holder, top, clock, aged>>

\* heap.Pop begins: the first mission is swapped to the end.
Dequeue ==
    /\ holder = "none" /\ Len(heap) > 0
    /\ heap' = Swap(heap, 1, Len(heap))
    /\ holder' = "pop" /\ at' = 1 /\ top' = 1
    /\ UNCHANGED <<clock, aged>>

\* Mutant of Pop: the head of the slice is cut off instead of its end.
PopHead ==
    /\ holder = "pop" /\ ~Sinks
    /\ heap' = Tail(heap)
    /\ aged' = aged \ {heap[Len(heap)].id}
    /\ Unlock /\ UNCHANGED clock

\* Pop: the last element is cut off and returned.
Pop ==
    /\ holder = "pop" /\ ~Sinks
    /\ heap' = SubSeq(heap, 1, Len(heap) - 1)
    /\ aged' = aged \ {heap[Len(heap)].id}
    /\ Unlock /\ UNCHANGED clock

\* The loop of heap.Init goes on to the next root.
Heapify ==
    /\ holder = "init" /\ ~Sinks
    /\ \/ /\ top > 1
          /\ top' = top - 1 /\ at' = top - 1
          /\ UNCHANGED holder
       \/ /\ top = 1
          /\ Unlock
    /\ UNCHANGED <<heap, clock, aged>>

-----------------------------------------------------------------------------
(* Anti-starvation *)

\* The worker's test, on unsigned words.
\* Mutant: without the comparison that keeps the subtraction from wrapping.
TooOldWraps(m) == (clock - m.clock) % Word > AgingLimit
TooOld(m) == clock > m.clock /\ (clock - m.clock) % Word > AgingLimit

Marked(m) == [m EXCEPT !.critical = @ \/ TooOld(m)]

\* Mutant of Rebalance: promoted missions stay where they were.
RebalanceNever(promoted) == UNCHANGED <<holder, at, top>>

\* heap.Init begins at the last mission with a child, if anyone was promoted.
Rebalance(promoted) ==
    IF promoted /\ Len(heap) > 1
    THEN holder' = "init" /\ at' = Len(heap) \div 2 /\ top' = Len(heap) \div 2
    ELSE UNCHANGED <<holder, at, top>>

\* One pass of antiStarvationWorker.
AntiStarvation ==
    /\ holder = "none" /\ Len(heap) > 0
    /\ heap' = [i \in DOMAIN heap |-> Marked(heap[i])]
    /\ Rebalance(\E i \in DOMAIN heap : ~heap[i].critical /\ TooOld(heap[i]))
    /\ aged' = aged \cup {m.id : m \in {x \in ToSet(heap) : Bag!Aged(x)}}
    /\ UNCHANGED clock

\* Other workers tick the clock.
ClockTick ==
    /\ clock < MaxClock
    /\ clock' = clock + 1
    /\ UNCHANGED <<heap, holder, at, top, aged>>

-----------------------------------------------------------------------------

Init ==
    /\ heap = <<>> /\ holder = "none" /\ at = 0 /\ top = 0
    /\ clock = 0 /\ aged = {}

Next ==
    \/ \E m \in Mission : Enqueue(m)
    \/ Up
    \/ Dequeue
    \/ Down
    \/ Pop
    \/ AntiStarvation
    \/ Heapify
    \/ ClockTick

Spec == Init /\ [][Next]_vars

-----------------------------------------------------------------------------
(* Properties *)

TypeOK ==
    /\ heap \in Seq(Mission) /\ Len(heap) = Cardinality(ToSet(heap))
    /\ holder \in {"none", "push", "pop", "init"}
    /\ at \in 0 .. Len(heap) /\ top \in 0 .. Len(heap)
    /\ clock \in 0 .. MaxClock /\ aged \subseteq {m.id : m \in ToSet(heap)}

\* Whenever the mutex is free no mission in the slice is ahead of its parent: what
\* heap.Pop relies on, restored by every push, pop and promotion
\* (priority_queue.go:78-131).
HeapOrdered ==
    holder = "none" => \A j \in 2 .. Len(heap) : ~Less(heap[j], heap[j \div 2])

\* The heap implements the abstract queue: it loses no mission, Dequeue takes
\* one with none before it, and exactly the missions that waited longer than
\* the limit are promoted (priority_queue.go:25-131).
ImplementsBag == Bag!Spec

\* Starvation prevention: once a pass of the worker found a mission too old, no
\* mission stamped after it is served before it (priority_queue.go:25-38, 99-131).
AgedNotOvertaken ==
    [][Len(heap') < Len(heap) =>
          LET served == CHOOSE x \in ToSet(heap) : x \notin ToSet(heap')
          IN  \A m \in ToSet(heap') : m.id \in aged => served.clock <= m.clock]_vars

=============================================================================
