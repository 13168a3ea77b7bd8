------------------------- MODULE PriorityQueueProofs --------------------------
(***************************************************************************)
(* Proofs about PriorityQueue, for any missions, stamps, limit and length  *)
(* of the slice: the loops of the heap restore its order, the first        *)
(* element is one that none goes before, and the heap with its promotions  *)
(* implements the abstract queue.                                          *)
(***************************************************************************)
EXTENDS PriorityQueue, FiniteSetTheorems, WellFoundedInduction, TLAPS

-----------------------------------------------------------------------------
(* The order of missions *)

\* Less is the order of the abstract queue (priority_queue.go:25-38).
LEMMA LessIsBagLess ==
  ASSUME NEW a \in Mission, NEW b \in Mission
  PROVE  Less(a, b) <=> Bag!Less(a, b)
<1>1. /\ a.critical \in BOOLEAN /\ b.critical \in BOOLEAN
      /\ a.clock \in Nat /\ b.clock \in Nat
  BY QueueAssumption DEF Mission
<1>2. Less(a, b) <=>
         \/ a.critical /\ ~b.critical
         \/ /\ a.critical = b.critical
            /\ \/ a.clock < b.clock
               \/ a.clock = b.clock /\ SensorOf[a.id] < SensorOf[b.id]
  BY <1>1 DEF Less
<1> QED
  BY <1>2 DEF Bag!Less

\* Of two missions at most one goes before the other.
LEMMA LessAsymmetric ==
  ASSUME NEW a \in Mission, NEW b \in Mission, Less(a, b)
  PROVE  ~Less(b, a)
<1>1. /\ a.clock \in Nat /\ b.clock \in Nat
      /\ SensorOf[a.id] \in Nat /\ SensorOf[b.id] \in Nat
      /\ a.critical \in BOOLEAN /\ b.critical \in BOOLEAN
  BY QueueAssumption DEF Mission
<1> QED
  BY <1>1 DEF Less

\* What does not go before b does not go before what b does not go before.
LEMMA LessTransitive ==
  ASSUME NEW a \in Mission, NEW b \in Mission, NEW c \in Mission,
         ~Less(c, b), ~Less(b, a)
  PROVE  ~Less(c, a)
<1>1. /\ a.clock \in Nat /\ b.clock \in Nat /\ c.clock \in Nat
      /\ SensorOf[a.id] \in Nat /\ SensorOf[b.id] \in Nat /\ SensorOf[c.id] \in Nat
      /\ a.critical \in BOOLEAN /\ b.critical \in BOOLEAN /\ c.critical \in BOOLEAN
  BY QueueAssumption DEF Mission
<1> QED
  BY <1>1 DEF Less

\* What does not go after a critical mission is critical and not younger.
LEMMA NotAfterCritical ==
  ASSUME NEW a \in Mission, NEW b \in Mission, ~Less(b, a), b.critical
  PROVE  a.clock <= b.clock
<1>1. /\ a.clock \in Nat /\ b.clock \in Nat
      /\ a.critical \in BOOLEAN /\ b.critical \in BOOLEAN
  BY QueueAssumption DEF Mission
<1>2. ~(b.clock < a.clock)
  <2>1. ~(b.critical /\ ~a.critical) /\ ~(b.critical = a.critical /\ b.clock < a.clock)
    BY LessIsBagLess DEF Bag!Less
  <2>2. a.critical = b.critical
    BY <1>1, <2>1
  <2> QED
    BY <2>1, <2>2
<1> QED
  BY <1>1, <1>2

\* Below the size of a word the unsigned subtraction is the subtraction.
LEMMA SmallRemainder ==
  ASSUME NEW x \in Nat, NEW w \in Nat, x < w
  PROVE  x % w = x
OBVIOUS

-----------------------------------------------------------------------------
(* Positions *)

\* The parent of a position.
LEMMA Half ==
  ASSUME NEW k \in Nat, k >= 1
  PROVE  /\ k \div 2 \in Nat /\ k \div 2 < k
         /\ 2 * (k \div 2) <= k /\ k <= 2 * (k \div 2) + 1
         /\ k >= 2 => k \div 2 >= 1
OBVIOUS

\* The missions of a slice, by position.
LEMMA InSlice ==
  ASSUME NEW S, NEW s \in Seq(S), NEW x
  PROVE  x \in ToSet(s) <=> \E i \in 1 .. Len(s) : s[i] = x
BY DEF ToSet

\* What a swap does.
LEMMA SwapFacts ==
  ASSUME NEW h \in Seq(Mission), NEW i \in 1 .. Len(h), NEW j \in 1 .. Len(h)
  PROVE  /\ Swap(h, i, j) \in Seq(Mission) /\ Len(Swap(h, i, j)) = Len(h)
         /\ Swap(h, i, j)[i] = h[j] /\ Swap(h, i, j)[j] = h[i]
         /\ \A k \in 1 .. Len(h) : k # i /\ k # j => Swap(h, i, j)[k] = h[k]
         /\ ToSet(Swap(h, i, j)) = ToSet(h)
<1> DEFINE g == Swap(h, i, j)
<1>1. /\ g \in Seq(Mission) /\ Len(g) = Len(h) /\ g[i] = h[j] /\ g[j] = h[i]
      /\ \A k \in 1 .. Len(h) : k # i /\ k # j => g[k] = h[k]
  BY DEF Swap
<1> HIDE DEF g
<1>2. ASSUME NEW x PROVE x \in ToSet(g) <=> x \in ToSet(h)
  <2>1. x \in ToSet(g) <=> \E k \in 1 .. Len(g) : g[k] = x
    BY <1>1, InSlice
  <2>2. x \in ToSet(h) <=> \E k \in 1 .. Len(h) : h[k] = x
    BY InSlice
  <2> QED
    BY <1>1, <2>1, <2>2
<1>3. ToSet(g) = ToSet(h)
  BY <1>2
<1> QED
  BY <1>1, <1>3 DEF g

-----------------------------------------------------------------------------
(* The loops of the heap *)

\* The child at k does not go before its parent.
Settled(h, k) == ~Less(h[k], h[k \div 2])

\* While the mission at j rises it may go before its parent, but its children do not
\* go before that parent.
RiseOK(h, j) ==
    /\ \A k \in 2 .. Len(h) : k # j => Settled(h, k)
    /\ j > 1 => \A k \in 2 .. Len(h) : k \div 2 = j => ~Less(h[k], h[j \div 2])

\* While the mission at j sinks among the first n, below the root lo, its children may
\* go before it, but not before its parent.
SinkOK(h, n, lo, j) ==
    /\ \A k \in 2 .. n : k \div 2 >= lo /\ k \div 2 # j => Settled(h, k)
    /\ j \div 2 >= lo => \A k \in 2 .. n : k \div 2 = j => ~Less(h[k], h[j \div 2])

\* A swap with the parent leaves only the risen mission out of order.
LEMMA UpRises ==
  ASSUME NEW h \in Seq(Mission), NEW j \in 2 .. Len(h), RiseOK(h, j),
         Less(h[j], h[j \div 2])
  PROVE  RiseOK(Swap(h, j, j \div 2), j \div 2)
<1> DEFINE p == j \div 2
           g == Swap(h, j, p)
<1>0. /\ Len(h) \in Nat /\ j \in Nat /\ p \in 1 .. Len(h) /\ p < j /\ p \in Nat
      /\ j \in 1 .. Len(h)
  BY Half
<1>1. /\ Len(g) = Len(h) /\ g[j] = h[p] /\ g[p] = h[j]
      /\ \A k \in 1 .. Len(h) : k # j /\ k # p => g[k] = h[k]
  <2> HIDE DEF p
  <2> QED
    BY <1>0, SwapFacts
<1>2. \A k \in 1 .. Len(h) : h[k] \in Mission
  OBVIOUS
<1>3. ~Less(h[p], h[j])
  BY <1>0, <1>2, LessAsymmetric
<1> HIDE DEF g
<1>4. ASSUME NEW k \in 2 .. Len(h), k # p PROVE ~Less(g[k], g[k \div 2])
  <2> DEFINE q == k \div 2
  <2>0. k \in Nat /\ q \in 1 .. Len(h) /\ q < k /\ k \in 1 .. Len(h)
    BY Half
  <2>1. CASE k = j
    BY <1>1, <1>3, <2>1
  <2>2. CASE q = p /\ k # j
    <3>1. ~Less(h[k], h[p])
      BY <2>2 DEF RiseOK, Settled
    <3>2. ~Less(h[k], h[j])
      BY <1>0, <1>2, <1>3, <2>0, <3>1, LessTransitive
    <3> QED
      BY <1>1, <1>4, <2>0, <2>2, <3>2
  <2>3. CASE q = j
    <3>1. ~Less(h[k], h[p])
      BY <1>0, <2>3 DEF RiseOK
    <3>2. k # j
      BY <2>0, <2>3
    <3> QED
      BY <1>1, <1>4, <2>0, <2>3, <3>1, <3>2
  <2>4. CASE k # j /\ q # p /\ q # j
    <3>1. ~Less(h[k], h[q])
      BY <2>4 DEF RiseOK, Settled
    <3> QED
      BY <1>1, <1>4, <2>0, <2>4, <3>1
  <2> QED
    BY <2>1, <2>2, <2>3, <2>4
<1>5. ASSUME p > 1, NEW k \in 2 .. Len(h), k \div 2 = p PROVE ~Less(g[k], g[p \div 2])
  <2> DEFINE r == p \div 2
  <2>0. r \in 1 .. Len(h) /\ r < p /\ k \in 1 .. Len(h) /\ p < k /\ p \in 2 .. Len(h)
    BY <1>0, <1>5, Half
  <2>1. g[r] = h[r]
    BY <1>0, <1>1, <2>0
  <2>2. ~Less(h[p], h[r])
    BY <1>0, <2>0 DEF RiseOK, Settled
  <2>3. CASE k = j
    BY <1>1, <2>1, <2>2, <2>3
  <2>4. CASE k # j
    <3>1. ~Less(h[k], h[p])
      BY <1>5, <2>4 DEF RiseOK, Settled
    <3>2. ~Less(h[k], h[r])
      BY <1>0, <1>2, <2>0, <2>2, <3>1, LessTransitive
    <3>3. g[k] = h[k]
      BY <1>0, <1>1, <2>0, <2>4
    <3> QED
      BY <2>1, <3>2, <3>3
  <2> QED
    BY <2>3, <2>4
<1> QED
  BY <1>1, <1>4, <1>5 DEF RiseOK, Settled, g

\* The mission that rose has found its place.
LEMMA UpEnds ==
  ASSUME NEW h \in Seq(Mission), NEW j \in 1 .. Len(h), RiseOK(h, j),
         j = 1 \/ ~Less(h[j], h[j \div 2])
  PROVE  \A k \in 2 .. Len(h) : Settled(h, k)
BY DEF RiseOK, Settled

\* A swap with the first child leaves only the sunk mission out of order.
LEMMA DownSinks ==
  ASSUME NEW h \in Seq(Mission), NEW n \in 0 .. Len(h), NEW lo \in Nat, lo >= 1,
         NEW j \in 1 .. Len(h), lo <= j, SinkOK(h, n, lo, j),
         NEW c \in 2 .. n, c \div 2 = j, Less(h[c], h[j]),
         \A k \in 2 .. n : k \div 2 = j => ~Less(h[k], h[c])
  PROVE  SinkOK(Swap(h, c, j), n, lo, c)
<1> DEFINE g == Swap(h, c, j)
<1>0. /\ Len(h) \in Nat /\ n \in Nat /\ n <= Len(h) /\ c \in 1 .. Len(h) /\ j < c
      /\ c \in Nat /\ j \in Nat
  BY Half
<1>1. /\ g[c] = h[j] /\ g[j] = h[c]
      /\ \A k \in 1 .. Len(h) : k # c /\ k # j => g[k] = h[k]
  BY <1>0, SwapFacts
<1>2. \A k \in 1 .. Len(h) : h[k] \in Mission
  OBVIOUS
<1>3. ~Less(h[j], h[c])
  BY <1>0, <1>2, LessAsymmetric
<1> HIDE DEF g
<1>4. ASSUME NEW k \in 2 .. n, k \div 2 >= lo, k \div 2 # c PROVE ~Less(g[k], g[k \div 2])
  <2> DEFINE q == k \div 2
  <2>0. k \in Nat /\ q \in 1 .. Len(h) /\ q < k /\ k \in 1 .. Len(h)
    BY <1>0, Half
  <2>1. CASE k = c
    BY <1>1, <1>3, <2>1
  <2>2. CASE q = j /\ k # c
    <3>1. ~Less(h[k], h[c])
      BY <2>2
    <3>2. g[k] = h[k] /\ g[q] = h[c]
      BY <1>1, <2>0, <2>2
    <3> QED
      BY <3>1, <3>2
  <2>3. CASE k = j
    <3>1. ~Less(h[c], h[q])
      BY <1>4, <2>3 DEF SinkOK
    <3>2. g[q] = h[q] /\ g[k] = h[c]
      BY <1>1, <1>4, <2>0, <2>3
    <3> QED
      BY <3>1, <3>2
  <2>4. CASE k # j /\ k # c /\ q # j
    <3>1. ~Less(h[k], h[q])
      BY <1>4, <2>4 DEF SinkOK, Settled
    <3>2. g[k] = h[k] /\ g[q] = h[q]
      BY <1>1, <1>4, <2>0, <2>4
    <3> QED
      BY <3>1, <3>2
  <2> QED
    BY <2>1, <2>2, <2>3, <2>4
<1>5. ASSUME NEW k \in 2 .. n, k \div 2 = c PROVE ~Less(g[k], g[c \div 2])
  <2>0. k \in 1 .. Len(h) /\ c < k
    BY <1>0, <1>5, Half
  <2>1. ~Less(h[k], h[c])
    BY <1>0, <1>5 DEF SinkOK, Settled
  <2>2. g[k] = h[k] /\ g[j] = h[c]
    BY <1>0, <1>1, <2>0
  <2> QED
    BY <2>1, <2>2
<1> QED
  BY <1>4, <1>5 DEF SinkOK, Settled, g

\* The mission that sank has found its place.
LEMMA DownEnds ==
  ASSUME NEW h \in Seq(Mission), NEW n \in 0 .. Len(h), NEW lo \in Nat, lo >= 1,
         NEW j \in 1 .. Len(h), SinkOK(h, n, lo, j),
         \A k \in 2 .. n : k \div 2 = j => ~Less(h[k], h[j])
  PROVE  \A k \in 2 .. n : k \div 2 >= lo => Settled(h, k)
BY DEF SinkOK, Settled

\* A non-empty set of positions has a first one.
LEMMA LeastNat ==
  ASSUME NEW T, T \subseteq Nat, T # {}
  PROVE  \E x \in T : \A y \in T : x <= y
<1>1. IsWellFoundedOn(OpToRel(<, Nat), Nat)
  BY NatLessThanWellFounded, Zenon
<1>2. PICK x \in T : \A y \in T : ~ (<<y, x>> \in OpToRel(<, Nat))
  BY <1>1, WFMin, Zenon
<1>3. \A y \in T : ~ (y < x)
  BY <1>2 DEF OpToRel
<1> QED
  BY <1>3

\* In a heap none goes before the first element: of the positions whose mission did, the
\* least would have a parent with a lesser position, whose mission did as well.
LEMMA RootIsFirst ==
  ASSUME NEW h \in Seq(Mission), \A k \in 2 .. Len(h) : Settled(h, k),
         NEW i \in 1 .. Len(h)
  PROVE  ~Less(h[i], h[1])
<1> DEFINE T == {k \in 1 .. Len(h) : Less(h[k], h[1])}
<1>0. Len(h) \in Nat /\ T \subseteq Nat /\ \A k \in 1 .. Len(h) : h[k] \in Mission
  OBVIOUS
<1>1. SUFFICES ASSUME T # {} PROVE FALSE
  OBVIOUS
<1>2. PICK k \in T : \A y \in T : k <= y
  BY <1>0, <1>1, LeastNat
<1>3. k \in 1 .. Len(h) /\ Less(h[k], h[1])
  OBVIOUS
<1>4. k # 1
  BY <1>0, <1>3, LessAsymmetric
<1> DEFINE q == k \div 2
<1>5. k \in 2 .. Len(h) /\ q \in 1 .. Len(h) /\ q < k
  BY <1>0, <1>3, <1>4, Half
<1>6. ~Less(h[k], h[q])
  BY <1>5 DEF Settled
<1>7. ~Less(h[q], h[1])
  <2> HIDE DEF q
  <2>1. q \notin T
    BY <1>0, <1>2, <1>3, <1>5
  <2> QED
    BY <1>5, <2>1
<1> HIDE DEF q
<1>8. 1 \in 1 .. Len(h)
  BY <1>0, <1>3
<1> QED
  BY <1>0, <1>3, <1>5, <1>6, <1>7, <1>8, LessTransitive

\* Missions with different events are as many as their positions.
DistinctIds(h) == \A i, j \in 1 .. Len(h) : h[i].id = h[j].id => i = j

\* So the slice is as long as its set of missions is large.
LEMMA SliceSize ==
  ASSUME NEW h \in Seq(Mission), DistinctIds(h)
  PROVE  Cardinality(ToSet(h)) = Len(h)
<1> DEFINE f == [i \in 1 .. Len(h) |-> h[i]]
<1>1. Len(h) \in Nat /\ \A x : x \in ToSet(h) <=> \E i \in 1 .. Len(h) : h[i] = x
  BY InSlice
<1>2. f \in Bijection(1 .. Len(h), ToSet(h))
  <2>1. f \in [1 .. Len(h) -> ToSet(h)]
    BY <1>1
  <2>2. \A i, j \in 1 .. Len(h) : f[i] = f[j] => i = j
    BY DEF DistinctIds
  <2>3. \A x \in ToSet(h) : \E i \in 1 .. Len(h) : f[i] = x
    BY <1>1
  <2> HIDE DEF f
  <2>4. f \in Injection(1 .. Len(h), ToSet(h))
    BY <2>1, <2>2 DEF Injection, IsInjective
  <2>5. f \in Surjection(1 .. Len(h), ToSet(h))
    BY <2>1, <2>3 DEF Surjection
  <2> QED
    BY <2>4, <2>5 DEF Bijection
<1>3. IsFiniteSet(1 .. Len(h)) /\ Cardinality(1 .. Len(h)) = Len(h)
  BY <1>1, FS_Interval
<1> HIDE DEF f
<1> QED
  BY <1>2, <1>3, FS_Bijection DEF ExistsBijection

\* The first child is a child, and no child goes before it.
LEMMA FirstChildFacts ==
  ASSUME heap \in Seq(Mission), at \in 1 .. Len(heap), Size \in 0 .. Len(heap),
         2 * at <= Size
  PROVE  /\ FirstChild \in 2 .. Size /\ FirstChild \div 2 = at
         /\ \A k \in 2 .. Size : k \div 2 = at => ~Less(heap[k], heap[FirstChild])
<1>0. Len(heap) \in Nat /\ Size \in Nat /\ at \in Nat /\ at >= 1 /\ Size <= Len(heap)
  OBVIOUS
<1>1. \A k \in 1 .. Len(heap) : heap[k] \in Mission
  OBVIOUS
<1>2. \A k \in Nat : k \div 2 = at <=> k = 2 * at \/ k = 2 * at + 1
  BY <1>0
<1>3. FirstChild \in 2 .. Size /\ FirstChild \div 2 = at
  BY <1>0, <1>2 DEF FirstChild
<1>4. ASSUME NEW k \in 2 .. Size, k \div 2 = at PROVE ~Less(heap[k], heap[FirstChild])
  <2>1. k = 2 * at \/ k = 2 * at + 1
    BY <1>2, <1>4
  <2>2. \A a \in Mission : ~Less(a, a)
    BY LessAsymmetric
  <2>3. k \in 1 .. Len(heap) /\ 2 * at \in 1 .. Len(heap)
    BY <1>0
  <2>4. CASE FirstChild = 2 * at
    <3>1. k = 2 * at + 1 => ~Less(heap[k], heap[2 * at])
      BY <1>0, <2>4 DEF FirstChild
    <3> QED
      BY <1>1, <2>1, <2>2, <2>3, <2>4, <3>1
  <2>5. CASE FirstChild # 2 * at
    <3>1. FirstChild = 2 * at + 1 /\ 2 * at + 1 <= Size /\ Less(heap[2 * at + 1], heap[2 * at])
      BY <2>5 DEF FirstChild
    <3>2. 2 * at + 1 \in 1 .. Len(heap)
      BY <1>0, <3>1
    <3>3. ~Less(heap[2 * at], heap[2 * at + 1]) /\ ~Less(heap[2 * at + 1], heap[2 * at + 1])
      BY <1>1, <2>2, <2>3, <3>1, <3>2, LessAsymmetric
    <3> QED
      BY <2>1, <3>1, <3>3
  <2> QED
    BY <2>4, <2>5
<1> QED
  BY <1>3, <1>4

\* The worker's test on words is the one on numbers, and its mark the promotion.
LEMMA MarkedIsPromoted ==
  ASSUME clock \in 0 .. MaxClock, NEW m \in Mission
  PROVE  /\ TooOld(m) <=> Bag!Aged(m)
         /\ Marked(m) = Bag!Promoted(m) /\ Marked(m) \in Mission
         /\ Marked(m).id = m.id /\ Marked(m).clock = m.clock
         /\ Marked(m).critical <=> m.critical \/ TooOld(m)
<1>1. /\ m.clock \in Nat /\ clock \in Nat /\ MaxClock \in Nat /\ Word \in Nat
      /\ clock < Word /\ AgingLimit \in Nat
  <2>1. m.clock \in Nat
    BY QueueAssumption DEF Mission
  <2>2. MaxClock \in Nat /\ Word \in Nat /\ Word > MaxClock /\ AgingLimit \in Nat
    BY QueueAssumption
  <2> QED
    BY <2>1, <2>2
<1>2. clock > m.clock => (clock - m.clock) % Word = clock - m.clock
  <2>1. SUFFICES ASSUME clock > m.clock PROVE (clock - m.clock) % Word = clock - m.clock
    OBVIOUS
  <2>2. clock - m.clock \in Nat /\ clock - m.clock < Word
    BY <1>1, <2>1
  <2> QED
    BY <1>1, <2>2, SmallRemainder
<1>3. TooOld(m) <=> Bag!Aged(m)
  BY <1>1, <1>2 DEF TooOld, Bag!Aged
<1>4. TooOld(m) \in BOOLEAN
  BY DEF TooOld
<1>5. /\ Marked(m) \in Mission /\ Marked(m).id = m.id /\ Marked(m).clock = m.clock
      /\ Marked(m).critical <=> m.critical \/ TooOld(m)
  BY <1>4 DEF Marked, Mission
<1>6. Marked(m) = Bag!Promoted(m)
  BY <1>3, <1>4 DEF Marked, Bag!Promoted, Mission, Bag!Aged
<1> QED
  BY <1>3, <1>5, <1>6

-----------------------------------------------------------------------------
(* The inductive invariant *)

\* The slice holds missions of different events, and the clock fits its bound.
SliceInv == heap \in Seq(Mission) /\ DistinctIds(heap) /\ clock \in 0 .. MaxClock

\* What the holder of the mutex has yet to restore; with the mutex free, nothing.
FreeInv == holder = "none" /\ at = 0 /\ top = 0 /\ \A k \in 2 .. Len(heap) : Settled(heap, k)
PushInv == holder = "push" /\ at \in 1 .. Len(heap) /\ top = 0 /\ RiseOK(heap, at)
PopInv ==
    /\ holder = "pop" /\ at \in 1 .. Len(heap) /\ top = 1
    /\ SinkOK(heap, Len(heap) - 1, 1, at)
    /\ \A i \in 1 .. Len(heap) - 1 : ~Less(heap[i], heap[Len(heap)])
HeapifyInv ==
    /\ holder = "init" /\ at \in 1 .. Len(heap) /\ top \in 1 .. at
    /\ SinkOK(heap, Len(heap), top, at)

LoopInv == FreeInv \/ PushInv \/ PopInv \/ HeapifyInv

\* A mission once found too old is critical for as long as it is queued.
AgedInv == \A e \in aged : \E m \in ToSet(heap) : m.id = e /\ m.critical

QueueInv == SliceInv /\ LoopInv /\ AgedInv

\* What the steps of the loops and the start of Dequeue keep, all being swaps.
LEMMA SwapKeeps ==
  ASSUME SliceInv, AgedInv, NEW i \in 1 .. Len(heap), NEW j \in 1 .. Len(heap),
         heap' = Swap(heap, i, j), UNCHANGED <<clock, aged>>
  PROVE  SliceInv' /\ AgedInv' /\ ToSet(heap)' = ToSet(heap) /\ Len(heap') = Len(heap)
<1>1. /\ heap' \in Seq(Mission) /\ Len(heap') = Len(heap)
      /\ heap'[i] = heap[j] /\ heap'[j] = heap[i]
      /\ \A k \in 1 .. Len(heap) : k # i /\ k # j => heap'[k] = heap[k]
      /\ ToSet(heap') = ToSet(heap)
  BY SwapFacts DEF SliceInv
<1>2. DistinctIds(heap')
  <2>1. SUFFICES ASSUME NEW a \in 1 .. Len(heap), NEW b \in 1 .. Len(heap),
                        heap'[a].id = heap'[b].id
                 PROVE  a = b
    BY <1>1 DEF DistinctIds
  <2> DEFINE from(k) == IF k = i THEN j ELSE IF k = j THEN i ELSE k
  <2>2. \A k \in 1 .. Len(heap) : from(k) \in 1 .. Len(heap) /\ heap'[k] = heap[from(k)]
    BY <1>1
  <2>3. from(a) = from(b)
    BY <2>1, <2>2 DEF SliceInv, DistinctIds
  <2> QED
    BY <2>3
<1>3. AgedInv'
  BY <1>1 DEF AgedInv
<1> QED
  BY <1>1, <1>2, <1>3 DEF SliceInv

\* heap.Push begins: only the new mission, which has no child, may be out of order.
LEMMA EnqueueStep ==
  ASSUME QueueInv, NEW m \in Mission, Enqueue(m)
  PROVE  QueueInv' /\ ToSet(heap)' = ToSet(heap) \cup {m}
<1> DEFINE n == Len(heap)
<1>1. /\ heap \in Seq(Mission) /\ n \in Nat /\ FreeInv
      /\ \A k \in 1 .. n : heap[k] \in Mission
  BY DEF QueueInv, SliceInv, LoopInv, PushInv, PopInv, HeapifyInv, Enqueue
<1>2. /\ heap' \in Seq(Mission) /\ Len(heap') = n + 1 /\ heap'[n + 1] = m
      /\ \A k \in 1 .. n : heap'[k] = heap[k]
  BY <1>1 DEF Enqueue
<1>3. ToSet(heap') = ToSet(heap) \cup {m}
  <2>1. ASSUME NEW x PROVE x \in ToSet(heap') <=> x \in ToSet(heap) \/ x = m
    <3>1. x \in ToSet(heap') <=> \E k \in 1 .. n + 1 : heap'[k] = x
      BY <1>2, InSlice
    <3>2. x \in ToSet(heap) <=> \E k \in 1 .. n : heap[k] = x
      BY <1>1, InSlice
    <3> QED
      BY <1>1, <1>2, <3>1, <3>2
  <2> QED
    BY <2>1
<1>4. SliceInv'
  <2>1. \A k \in 1 .. n : heap[k].id # m.id
    BY <1>1, InSlice DEF Enqueue
  <2>2. DistinctIds(heap')
    BY <1>1, <1>2, <2>1 DEF DistinctIds, QueueInv, SliceInv
  <2> QED
    BY <1>2, <2>2 DEF QueueInv, SliceInv, Enqueue
<1>5. PushInv'
  <2>1. holder' = "push" /\ at' = n + 1 /\ top' = 0
    BY DEF Enqueue
  <2>2. ASSUME NEW k \in 2 .. n + 1, k # n + 1 PROVE ~Less(heap'[k], heap'[k \div 2])
    <3>1. k \in 2 .. n /\ k \div 2 \in 1 .. n
      BY <1>1, <2>2, Half
    <3>2. ~Less(heap[k], heap[k \div 2])
      BY <1>1, <3>1 DEF FreeInv, Settled
    <3> QED
      BY <1>1, <1>2, <3>1, <3>2
  <2>3. \A k \in 2 .. n + 1 : k \div 2 # n + 1
    BY <1>1, Half
  <2>4. RiseOK(heap', n + 1)
    BY <1>2, <2>2, <2>3 DEF RiseOK, Settled
  <2> QED
    BY <1>1, <1>2, <2>1, <2>4 DEF PushInv
<1>6. AgedInv'
  BY <1>3 DEF QueueInv, AgedInv, Enqueue
<1> QED
  BY <1>3, <1>4, <1>5, <1>6 DEF QueueInv, LoopInv

\* A turn of up: the mission rises, or the slice is a heap again.
LEMMA UpStep ==
  ASSUME QueueInv, Up
  PROVE  QueueInv' /\ ToSet(heap)' = ToSet(heap) /\ Len(heap') = Len(heap)
<1>1. PushInv /\ heap \in Seq(Mission) /\ Len(heap) \in Nat /\ at \in 1 .. Len(heap)
  BY DEF QueueInv, SliceInv, LoopInv, FreeInv, PushInv, PopInv, HeapifyInv, Up
<1>2. CASE Rises
  <2>1. at \in 2 .. Len(heap) /\ at \div 2 \in 1 .. Len(heap)
    BY <1>1, <1>2, Half DEF Rises
  <2>2. /\ heap' = Swap(heap, at, at \div 2) /\ at' = at \div 2 /\ holder' = "push"
        /\ top' = 0 /\ UNCHANGED <<clock, aged>>
    BY <1>1, <1>2 DEF Up, PushInv
  <2>3. SliceInv' /\ AgedInv' /\ ToSet(heap)' = ToSet(heap) /\ Len(heap') = Len(heap)
    BY <1>1, <2>1, <2>2, SwapKeeps DEF QueueInv
  <2>4. RiseOK(heap', at')
    BY <1>1, <1>2, <2>1, <2>2, UpRises DEF PushInv, Rises
  <2>5. PushInv'
    BY <2>1, <2>2, <2>3, <2>4 DEF PushInv
  <2> QED
    BY <2>3, <2>5 DEF QueueInv, LoopInv
<1>3. CASE ~Rises
  <2>1. /\ heap' = heap /\ holder' = "none" /\ at' = 0 /\ top' = 0
        /\ UNCHANGED <<clock, aged>>
    BY <1>3 DEF Up, Unlock
  <2>2. \A k \in 2 .. Len(heap) : Settled(heap, k)
    BY <1>1, <1>3, UpEnds DEF PushInv, Rises
  <2>3. FreeInv'
    BY <2>1, <2>2 DEF FreeInv, Settled
  <2>4. SliceInv' /\ AgedInv'
    BY <2>1 DEF QueueInv, SliceInv, AgedInv
  <2> QED
    BY <2>1, <2>3, <2>4 DEF QueueInv, LoopInv
<1> QED
  BY <1>2, <1>3

\* The loop sinks among all but the last mission for heap.Pop, among all for heap.Init.
LEMMA SinkingInv ==
  ASSUME QueueInv, holder \in {"pop", "init"}
  PROVE  /\ heap \in Seq(Mission) /\ Len(heap) \in Nat /\ at \in 1 .. Len(heap)
         /\ top \in Nat /\ top >= 1 /\ top <= at
         /\ Size \in 0 .. Len(heap) /\ SinkOK(heap, Size, top, at)
         /\ holder = "pop" => PopInv /\ Size = Len(heap) - 1
         /\ holder = "init" => HeapifyInv /\ Size = Len(heap)
<1>1. heap \in Seq(Mission) /\ Len(heap) \in Nat
  BY DEF QueueInv, SliceInv
<1>2. CASE holder = "pop"
  <2>1. PopInv
    BY <1>2 DEF QueueInv, LoopInv, FreeInv, PushInv, HeapifyInv
  <2>2. Size = Len(heap) - 1
    BY <1>2 DEF Size
  <2> QED
    BY <1>1, <1>2, <2>1, <2>2 DEF PopInv
<1>3. CASE holder = "init"
  <2>1. HeapifyInv
    BY <1>3 DEF QueueInv, LoopInv, FreeInv, PushInv, PopInv
  <2>2. Size = Len(heap)
    BY <1>3 DEF Size
  <2> QED
    BY <1>1, <1>3, <2>1, <2>2 DEF HeapifyInv
<1> QED
  BY <1>2, <1>3

\* The mission that does not sink has no child that goes before it.
LEMMA SunkInv ==
  ASSUME QueueInv, holder \in {"pop", "init"}, ~Sinks
  PROVE  \A k \in 2 .. Size : k \div 2 >= top => Settled(heap, k)
<1>1. /\ heap \in Seq(Mission) /\ Len(heap) \in Nat /\ at \in 1 .. Len(heap)
      /\ top \in Nat /\ top >= 1 /\ Size \in 0 .. Len(heap) /\ SinkOK(heap, Size, top, at)
  BY SinkingInv
<1>2. ASSUME NEW k \in 2 .. Size, k \div 2 = at PROVE ~Less(heap[k], heap[at])
  <2>1. 2 * at <= Size
    BY <1>1, <1>2, Half
  <2>2. /\ FirstChild \in 2 .. Size
        /\ ~Less(heap[k], heap[FirstChild])
    BY <1>1, <1>2, <2>1, FirstChildFacts
  <2>3. ~Less(heap[FirstChild], heap[at])
    BY <2>1 DEF Sinks
  <2>4. heap[k] \in Mission /\ heap[FirstChild] \in Mission /\ heap[at] \in Mission
    BY <1>1, <2>2
  <2> QED
    BY <2>2, <2>3, <2>4, LessTransitive
<1> QED
  BY <1>1, <1>2, DownEnds

\* A turn of down, which for heap.Pop leaves the last element alone.
LEMMA DownStep ==
  ASSUME QueueInv, Down
  PROVE  QueueInv' /\ ToSet(heap)' = ToSet(heap) /\ Len(heap') = Len(heap)
<1> DEFINE n == Len(heap)
           c == FirstChild
<1>1. /\ heap \in Seq(Mission) /\ n \in Nat /\ at \in 1 .. n
      /\ top \in Nat /\ top >= 1 /\ top <= at
      /\ Size \in 0 .. n /\ SinkOK(heap, Size, top, at)
      /\ holder = "pop" => PopInv /\ Size = n - 1
      /\ holder = "init" => HeapifyInv /\ Size = n
  BY SinkingInv DEF Down
<1>2. 2 * at <= Size /\ Less(heap[c], heap[at])
  BY DEF Down, Sinks
<1>3. /\ c \in 2 .. Size /\ c \div 2 = at
      /\ \A k \in 2 .. Size : k \div 2 = at => ~Less(heap[k], heap[c])
  BY <1>1, <1>2, FirstChildFacts
<1>4. /\ heap' = Swap(heap, c, at) /\ at' = c
      /\ UNCHANGED <<holder, top, clock, aged>> /\ holder \in {"pop", "init"}
  BY DEF Down
<1> HIDE DEF c
<1>5. c \in 1 .. n /\ at < c
  BY <1>1, <1>3, Half
<1>6. SliceInv' /\ AgedInv' /\ ToSet(heap)' = ToSet(heap) /\ Len(heap') = n
  BY <1>1, <1>4, <1>5, SwapKeeps DEF QueueInv
<1>7. SinkOK(heap', Size, top, c)
  BY <1>1, <1>2, <1>3, <1>4, DownSinks
<1>8. CASE holder = "pop"
  <2>1. PopInv /\ Size = n - 1 /\ top = 1
    BY <1>1, <1>8 DEF PopInv
  <2>2. /\ heap'[c] = heap[at] /\ heap'[at] = heap[c]
        /\ \A k \in 1 .. n : k # c /\ k # at => heap'[k] = heap[k]
    BY <1>1, <1>4, <1>5, SwapFacts
  <2>3. c \in 1 .. n - 1 /\ at \in 1 .. n - 1 /\ n # c /\ n # at /\ n \in 1 .. n
    BY <1>1, <1>3, <1>5, <2>1
  <2>4. \A i \in 1 .. n - 1 : ~Less(heap'[i], heap'[n])
    BY <1>1, <2>1, <2>2, <2>3 DEF PopInv
  <2>5. PopInv'
    BY <1>4, <1>5, <1>6, <1>7, <1>8, <2>1, <2>4 DEF PopInv
  <2> QED
    BY <1>6, <2>5 DEF QueueInv, LoopInv
<1>9. CASE holder = "init"
  <2>1. HeapifyInv'
    BY <1>1, <1>4, <1>5, <1>6, <1>7, <1>9 DEF HeapifyInv
  <2> QED
    BY <1>6, <2>1 DEF QueueInv, LoopInv
<1> QED
  BY <1>4, <1>8, <1>9

\* heap.Pop begins: the root, which none goes before, moves to the end.
LEMMA DequeueStep ==
  ASSUME QueueInv, Dequeue
  PROVE  QueueInv' /\ ToSet(heap)' = ToSet(heap) /\ Len(heap') = Len(heap)
<1> DEFINE n == Len(heap)
<1>1. /\ heap \in Seq(Mission) /\ n \in Nat /\ n >= 1 /\ FreeInv
      /\ 1 \in 1 .. n /\ n \in 1 .. n
  BY DEF QueueInv, SliceInv, LoopInv, PushInv, PopInv, HeapifyInv, Dequeue
<1>2. /\ heap' = Swap(heap, 1, n) /\ holder' = "pop" /\ at' = 1 /\ top' = 1
      /\ UNCHANGED <<clock, aged>>
  BY DEF Dequeue
<1>3. SliceInv' /\ AgedInv' /\ ToSet(heap)' = ToSet(heap) /\ Len(heap') = n
  BY <1>1, <1>2, SwapKeeps DEF QueueInv
<1>4. /\ heap'[1] = heap[n] /\ heap'[n] = heap[1]
      /\ \A k \in 1 .. n : k # 1 /\ k # n => heap'[k] = heap[k]
  BY <1>1, <1>2, SwapFacts
<1>5. \A i \in 1 .. n - 1 : ~Less(heap'[i], heap'[n])
  <2>1. \A i \in 1 .. n : ~Less(heap[i], heap[1])
    BY <1>1, RootIsFirst DEF FreeInv
  <2> QED
    BY <1>1, <1>4, <2>1
<1>6. SinkOK(heap', n - 1, 1, 1)
  <2>1. ASSUME NEW k \in 2 .. n - 1, k \div 2 >= 1, k \div 2 # 1
        PROVE  ~Less(heap'[k], heap'[k \div 2])
    <3>1. k \in 2 .. n /\ k \in 1 .. n /\ k # 1 /\ k # n
          /\ k \div 2 \in 1 .. n /\ k \div 2 # n
      BY <1>1, <2>1, Half
    <3>2. ~Less(heap[k], heap[k \div 2])
      BY <1>1, <3>1 DEF FreeInv, Settled
    <3> QED
      BY <1>4, <2>1, <3>1, <3>2
  <2>2. ~(1 \div 2 >= 1)
    OBVIOUS
  <2> QED
    BY <2>1, <2>2 DEF SinkOK, Settled
<1>7. PopInv'
  BY <1>1, <1>2, <1>3, <1>5, <1>6 DEF PopInv
<1> QED
  BY <1>3, <1>7 DEF QueueInv, LoopInv

\* heap.Pop ends: the mission served is one that none goes before.
LEMMA PopStep ==
  ASSUME QueueInv, Pop
  PROVE  /\ QueueInv'
         /\ heap[Len(heap)] \in ToSet(heap)
         /\ \A x \in ToSet(heap) : ~Less(x, heap[Len(heap)])
         /\ ToSet(heap)' = ToSet(heap) \ {heap[Len(heap)]}
<1> DEFINE n == Len(heap)
           out == heap[n]
<1>1. /\ heap \in Seq(Mission) /\ n \in Nat /\ PopInv /\ Size = n - 1
      /\ n >= 1 /\ n \in 1 .. n /\ n - 1 \in Nat /\ top = 1
      /\ \A k \in 1 .. n : heap[k] \in Mission
  BY SinkingInv DEF Pop, PopInv
<1>2. /\ heap' = SubSeq(heap, 1, n - 1) /\ aged' = aged \ {out.id} /\ clock' = clock
      /\ holder' = "none" /\ at' = 0 /\ top' = 0
  BY DEF Pop, Unlock
<1>3. /\ heap' \in Seq(Mission) /\ Len(heap') = n - 1
      /\ \A k \in 1 .. n - 1 : heap'[k] = heap[k]
  BY <1>1, <1>2
<1>4. \A x : x \in ToSet(heap) <=> \E k \in 1 .. n : heap[k] = x
  BY <1>1, InSlice
<1>5. \A x : x \in ToSet(heap') <=> \E k \in 1 .. n - 1 : heap'[k] = x
  BY <1>3, InSlice
<1>6. \A k \in 1 .. n - 1 : heap[k].id # out.id
  BY <1>1 DEF QueueInv, SliceInv, DistinctIds
<1>7. ToSet(heap') = ToSet(heap) \ {out}
  <2>1. ASSUME NEW x PROVE x \in ToSet(heap') <=> x \in ToSet(heap) /\ x # out
    <3>1. ASSUME x \in ToSet(heap') PROVE x \in ToSet(heap) /\ x # out
      BY <1>1, <1>3, <1>4, <1>5, <1>6, <3>1
    <3>2. ASSUME x \in ToSet(heap), x # out PROVE x \in ToSet(heap')
      <4>1. PICK k \in 1 .. n : heap[k] = x
        BY <1>4, <3>2
      <4>2. k \in 1 .. n - 1
        BY <1>1, <3>2, <4>1
      <4> QED
        BY <1>3, <1>5, <4>1, <4>2
    <3> QED
      BY <3>1, <3>2
  <2> QED
    BY <2>1
<1>8. out \in ToSet(heap) /\ \A x \in ToSet(heap) : ~Less(x, out)
  <2>1. \A k \in 1 .. n - 1 : ~Less(heap[k], out)
    BY <1>1 DEF PopInv
  <2>2. ~Less(out, out)
    BY <1>1, LessAsymmetric
  <2>3. \A k \in 1 .. n : k \in 1 .. n - 1 \/ k = n
    BY <1>1
  <2>4. \A k \in 1 .. n : ~Less(heap[k], out)
    BY <2>1, <2>2, <2>3
  <2> HIDE DEF out
  <2> QED
    BY <1>1, <1>4, <2>4 DEF out
<1>9. SliceInv'
  <2>1. DistinctIds(heap')
    BY <1>1, <1>3 DEF QueueInv, SliceInv, DistinctIds
  <2> QED
    BY <1>2, <1>3, <2>1 DEF QueueInv, SliceInv
<1>10. FreeInv'
  <2>1. \A k \in 2 .. n - 1 : k \div 2 >= 1 => Settled(heap, k)
    BY <1>1, SunkInv DEF Pop
  <2>2. ASSUME NEW k \in 2 .. n - 1 PROVE ~Less(heap'[k], heap'[k \div 2])
    <3>1. k \in 1 .. n - 1 /\ k \div 2 \in 1 .. n - 1 /\ k \div 2 >= 1
      BY <1>1, Half
    <3>2. ~Less(heap[k], heap[k \div 2])
      BY <2>1, <3>1 DEF Settled
    <3> QED
      BY <1>3, <3>1, <3>2
  <2> QED
    BY <1>2, <1>3, <2>2 DEF FreeInv, Settled
<1>11. AgedInv'
  BY <1>2, <1>7 DEF QueueInv, AgedInv
<1> QED
  BY <1>7, <1>8, <1>9, <1>10, <1>11 DEF QueueInv, LoopInv

\* heap.Init goes on: below each root it has done, the order is restored.
LEMMA HeapifyStep ==
  ASSUME QueueInv, Heapify
  PROVE  QueueInv' /\ heap' = heap /\ clock' = clock
<1>1. /\ heap \in Seq(Mission) /\ Len(heap) \in Nat /\ at \in 1 .. Len(heap)
      /\ top \in 1 .. at /\ Size = Len(heap)
  BY SinkingInv DEF Heapify, HeapifyInv
<1>2. \A k \in 2 .. Len(heap) : k \div 2 >= top => Settled(heap, k)
  BY <1>1, SunkInv DEF Heapify
<1>3. UNCHANGED <<heap, clock, aged>>
  BY DEF Heapify
<1>4. SliceInv' /\ AgedInv'
  BY <1>3 DEF QueueInv, SliceInv, AgedInv
<1>5. CASE top > 1
  <2>1. top' = top - 1 /\ at' = top - 1 /\ holder' = "init"
    BY <1>1, <1>5 DEF Heapify
  <2>2. \A k \in 2 .. Len(heap) : k \div 2 >= top - 1 /\ k \div 2 # top - 1 => Settled(heap, k)
    <3>1. ASSUME NEW k \in 2 .. Len(heap), k \div 2 >= top - 1, k \div 2 # top - 1
          PROVE  k \div 2 >= top
      BY <1>1, <3>1, Half
    <3> QED
      BY <1>2, <3>1
  <2>3. ~((top - 1) \div 2 >= top - 1)
    BY <1>1, <1>5, Half
  <2>4. SinkOK(heap, Len(heap), top - 1, top - 1)
    BY <2>2, <2>3 DEF SinkOK
  <2>5. HeapifyInv'
    BY <1>1, <1>3, <1>5, <2>1, <2>4 DEF HeapifyInv
  <2> QED
    BY <1>3, <1>4, <2>5 DEF QueueInv, LoopInv
<1>6. CASE top = 1
  <2>1. holder' = "none" /\ at' = 0 /\ top' = 0
    BY <1>6 DEF Heapify, Unlock
  <2>2. \A k \in 2 .. Len(heap) : Settled(heap, k)
    <3>1. ASSUME NEW k \in 2 .. Len(heap) PROVE k \div 2 >= top
      BY <1>1, <1>6, Half
    <3> QED
      BY <1>2, <3>1
  <2>3. FreeInv'
    BY <1>3, <2>1, <2>2 DEF FreeInv, Settled
  <2> QED
    BY <1>3, <1>4, <2>3 DEF QueueInv, LoopInv
<1> QED
  BY <1>1, <1>5, <1>6

\* A pass of the worker promotes the aged missions and leaves heap.Init to do.
LEMMA AntiStarvationStep ==
  ASSUME QueueInv, AntiStarvation
  PROVE  /\ QueueInv' /\ Len(heap') = Len(heap)
         /\ ToSet(heap)' = {Bag!Promoted(m) : m \in ToSet(heap)}
<1> DEFINE n == Len(heap)
           promoted == \E i \in DOMAIN heap : ~heap[i].critical /\ TooOld(heap[i])
<1>1. /\ heap \in Seq(Mission) /\ n \in Nat /\ n >= 1 /\ FreeInv /\ DOMAIN heap = 1 .. n
      /\ clock \in 0 .. MaxClock /\ \A k \in 1 .. n : heap[k] \in Mission
  BY DEF QueueInv, SliceInv, LoopInv, PushInv, PopInv, HeapifyInv, AntiStarvation
<1>2. heap' = [i \in 1 .. n |-> Marked(heap[i])] /\ clock' = clock
  BY <1>1 DEF AntiStarvation
<1>3. \A k \in 1 .. n : /\ Marked(heap[k]) = Bag!Promoted(heap[k])
                        /\ Marked(heap[k]) \in Mission
                        /\ Marked(heap[k]).id = heap[k].id
                        /\ Marked(heap[k]).critical <=> heap[k].critical \/ TooOld(heap[k])
                        /\ TooOld(heap[k]) <=> Bag!Aged(heap[k])
  BY <1>1, MarkedIsPromoted
<1>4. /\ heap' \in Seq(Mission) /\ Len(heap') = n
      /\ \A k \in 1 .. n : heap'[k] = Marked(heap[k])
  <2>1. \A k \in 1 .. n : Marked(heap[k]) \in Mission
    BY <1>3
  <2> QED
    BY <1>1, <1>2, <2>1
<1>5. \A x : x \in ToSet(heap) <=> \E k \in 1 .. n : heap[k] = x
  BY <1>1, InSlice
<1>6. \A x : x \in ToSet(heap') <=> \E k \in 1 .. n : heap'[k] = x
  BY <1>4, InSlice
<1>7. ToSet(heap') = {Bag!Promoted(m) : m \in ToSet(heap)}
  <2>1. \A x : x \in ToSet(heap') <=> \E k \in 1 .. n : Bag!Promoted(heap[k]) = x
    BY <1>3, <1>4, <1>6
  <2> QED
    BY <1>5, <2>1
<1>8. SliceInv'
  <2>1. DistinctIds(heap')
    BY <1>3, <1>4 DEF QueueInv, SliceInv, DistinctIds
  <2> QED
    BY <1>1, <1>2, <1>4, <2>1 DEF SliceInv
<1>9. AgedInv'
  <2>1. SUFFICES ASSUME NEW e \in aged' PROVE \E m \in ToSet(heap') : m.id = e /\ m.critical
    BY DEF AgedInv
  <2>2. \E k \in 1 .. n : heap[k].id = e /\ (heap[k].critical \/ TooOld(heap[k]))
    <3>1. CASE e \in aged
      BY <1>5, <3>1 DEF QueueInv, AgedInv
    <3>2. CASE e \notin aged
      <4>1. PICK m \in ToSet(heap) : m.id = e /\ Bag!Aged(m)
        BY <2>1, <3>2 DEF AntiStarvation
      <4> QED
        BY <1>3, <1>5, <4>1
    <3> QED
      BY <3>1, <3>2
  <2> QED
    BY <1>3, <1>4, <1>6, <2>2
<1>10. CASE promoted /\ n > 1
  <2> DEFINE mid == n \div 2
  <2>1. holder' = "init" /\ at' = mid /\ top' = mid
    BY <1>10 DEF AntiStarvation, Rebalance
  <2>2. mid \in 1 .. n /\ mid \in Nat /\ mid >= 1
    BY <1>1, <1>10, Half
  <2>3. ASSUME NEW k \in 2 .. n PROVE k \div 2 <= mid
    BY <1>1, <2>3
  <2>4. ~(mid \div 2 >= mid)
    <3> HIDE DEF mid
    <3> QED
      BY <2>2, Half
  <2>5. \A k \in 2 .. n : ~(k \div 2 >= mid /\ k \div 2 # mid)
    <3>1. ASSUME NEW k \in 2 .. n PROVE k \div 2 \in Nat
      BY <1>1, Half
    <3> HIDE DEF mid
    <3> QED
      BY <2>2, <2>3, <3>1
  <2> HIDE DEF mid
  <2>6. SinkOK(heap', n, mid, mid)
    BY <2>4, <2>5 DEF SinkOK
  <2>7. HeapifyInv'
    BY <1>4, <2>1, <2>2, <2>6 DEF HeapifyInv
  <2> QED
    BY <1>4, <1>7, <1>8, <1>9, <2>7 DEF QueueInv, LoopInv
<1>11. CASE ~(promoted /\ n > 1)
  <2>1. UNCHANGED <<holder, at, top>>
    BY <1>11 DEF AntiStarvation, Rebalance
  <2>2. ASSUME n > 1 PROVE FreeInv'
    <3>1. \A k \in 1 .. n : TooOld(heap[k]) => heap[k].critical
      BY <1>1, <1>11, <2>2
    <3>2. \A k \in 1 .. n : heap'[k] = heap[k]
      <4>1. ASSUME NEW k \in 1 .. n PROVE Marked(heap[k]) = heap[k]
        BY <1>1, <3>1 DEF Marked, Mission
      <4> QED
        BY <1>4, <4>1
    <3>3. ASSUME NEW k \in 2 .. n PROVE k \in 1 .. n /\ k \div 2 \in 1 .. n
      BY <1>1, Half
    <3>4. \A k \in 2 .. n : Settled(heap', k)
      BY <1>1, <3>2, <3>3 DEF FreeInv, Settled
    <3>5. FreeInv'
      BY <1>1, <1>4, <2>1, <3>4 DEF FreeInv, Settled
    <3> QED
      BY <3>5
  <2>3. ASSUME ~(n > 1) PROVE FreeInv'
    <3>1. 2 .. n = {}
      BY <1>1, <2>3
    <3> QED
      BY <1>1, <1>4, <2>1, <3>1 DEF FreeInv
  <2>4. FreeInv'
    BY <2>2, <2>3
  <2> QED
    BY <1>4, <1>7, <1>8, <1>9, <2>4 DEF QueueInv, LoopInv
<1> QED
  BY <1>10, <1>11

\* The clock moves without the mutex.
LEMMA ClockTickStep ==
  ASSUME QueueInv, ClockTick
  PROVE  QueueInv' /\ heap' = heap
<1>1. /\ UNCHANGED <<heap, holder, at, top, aged>> /\ clock < MaxClock
      /\ clock' = clock + 1
  BY DEF ClockTick
<1>2. clock' \in 0 .. MaxClock
  BY <1>1, QueueAssumption DEF QueueInv, SliceInv
<1>3. SliceInv' /\ AgedInv'
  BY <1>1, <1>2 DEF QueueInv, SliceInv, AgedInv
<1>4. LoopInv'
  BY <1>1 DEF QueueInv, LoopInv, FreeInv, PushInv, PopInv, HeapifyInv, Settled, RiseOK, SinkOK
<1> QED
  BY <1>1, <1>3, <1>4 DEF QueueInv

\* Nothing moves.
LEMMA StutterStep ==
  ASSUME QueueInv, UNCHANGED vars
  PROVE  QueueInv'
BY DEF QueueInv, SliceInv, AgedInv, LoopInv, FreeInv, PushInv, PopInv, HeapifyInv,
       Settled, RiseOK, SinkOK, vars

\* New makes an empty slice.
LEMMA InitInv ==
  Init => QueueInv
<1> SUFFICES ASSUME Init PROVE QueueInv
  OBVIOUS
<1>1. heap = <<>> /\ heap \in Seq(Mission) /\ Len(heap) = 0
  BY DEF Init
<1>2. SliceInv /\ AgedInv
  BY <1>1, QueueAssumption DEF Init, SliceInv, AgedInv, DistinctIds
<1>3. FreeInv
  BY <1>1 DEF Init, FreeInv
<1> QED
  BY <1>2, <1>3 DEF QueueInv, LoopInv

\* Every step keeps the invariant.
LEMMA StepInv ==
  QueueInv /\ [Next]_vars => QueueInv'
<1> SUFFICES ASSUME QueueInv, [Next]_vars PROVE QueueInv'
  OBVIOUS
<1> QED
  BY EnqueueStep, UpStep, DequeueStep, DownStep, PopStep, HeapifyStep, AntiStarvationStep,
     ClockTickStep, StutterStep DEF Next

\* The loops keep their invariants, and what is missing of the heap's order is always at
\* the mission that rises or sinks (priority_queue.go:78-131).
THEOREM QueueInvariant ==
  Spec => []QueueInv
BY InitInv, StepInv, PTL DEF Spec

-----------------------------------------------------------------------------
(* What follows *)

\* The invariant gives the types.
LEMMA InvImpliesTypeOK ==
  QueueInv => TypeOK
<1> SUFFICES ASSUME QueueInv PROVE TypeOK
  OBVIOUS
<1>1. heap \in Seq(Mission) /\ Len(heap) \in Nat /\ Len(heap) = Cardinality(ToSet(heap))
  BY SliceSize DEF QueueInv, SliceInv
<1>2. /\ holder \in {"none", "push", "pop", "init"}
      /\ at \in 0 .. Len(heap) /\ top \in 0 .. Len(heap)
  BY <1>1 DEF QueueInv, LoopInv, FreeInv, PushInv, PopInv, HeapifyInv
<1>3. clock \in 0 .. MaxClock /\ aged \subseteq {m.id : m \in ToSet(heap)}
  BY DEF QueueInv, SliceInv, AgedInv
<1> QED
  BY <1>1, <1>2, <1>3 DEF TypeOK

\* The queue keeps its types: in particular the slice holds every mission once
\* (priority_queue.go:45-52, 78-97).
THEOREM QueueTypes ==
  Spec => []TypeOK
BY QueueInvariant, InvImpliesTypeOK, PTL

\* With the mutex free the slice is a heap (priority_queue.go:78-131).
THEOREM SliceIsHeap ==
  Spec => []HeapOrdered
<1>1. QueueInv => HeapOrdered
  BY DEF QueueInv, LoopInv, FreeInv, PushInv, PopInv, HeapifyInv, HeapOrdered, Settled
<1> QED
  BY QueueInvariant, <1>1, PTL

\* Every step is one of the abstract queue, or leaves its missions alone.
LEMMA StepOfBag ==
  QueueInv /\ [Next]_vars => [Bag!Next]_<<ToSet(heap), clock>>
<1> SUFFICES ASSUME QueueInv, [Next]_vars PROVE [Bag!Next]_<<ToSet(heap), clock>>
  OBVIOUS
<1>1. ASSUME NEW m \in Mission, Enqueue(m) PROVE Bag!Next
  <2>1. Bag!Add(m)
    BY <1>1, EnqueueStep DEF Enqueue, Bag!Add
  <2>2. m \in Bag!Mission
    BY DEF Mission, Bag!Mission
  <2> QED
    BY <2>1, <2>2 DEF Bag!Next
<1>2. ASSUME Pop PROVE Bag!Next
  <2> DEFINE m == heap[Len(heap)]
  <2>1. /\ m \in ToSet(heap) /\ ToSet(heap)' = ToSet(heap) \ {m} /\ clock' = clock
        /\ \A x \in ToSet(heap) : ~Less(x, m)
    BY <1>2, PopStep DEF Pop
  <2>2. ToSet(heap) \subseteq Mission
    BY InSlice DEF QueueInv, SliceInv
  <2> HIDE DEF m
  <2>3. \A x \in ToSet(heap) : ~Bag!Less(x, m)
    BY <2>1, <2>2, LessIsBagLess
  <2>4. Bag!TakeFirst(m)
    BY <2>1, <2>3 DEF Bag!TakeFirst
  <2> QED
    BY <2>1, <2>4 DEF Bag!Next
<1>3. ASSUME AntiStarvation PROVE Bag!Next
  BY <1>3, AntiStarvationStep DEF AntiStarvation, Bag!Next, Bag!PromoteAged
<1>4. ASSUME ClockTick PROVE Bag!Next
  BY <1>4 DEF ClockTick, Bag!Next, Bag!Elapse
<1>5. ASSUME Up \/ Dequeue \/ Down PROVE UNCHANGED <<ToSet(heap), clock>>
  BY <1>5, UpStep, DequeueStep, DownStep DEF Up, Dequeue, Down
<1>6. ASSUME Heapify \/ UNCHANGED vars PROVE UNCHANGED <<ToSet(heap), clock>>
  BY <1>6 DEF Heapify, vars
<1> QED
  BY <1>1, <1>2, <1>3, <1>4, <1>5, <1>6 DEF Next

\* The heap implements the abstract queue: what is taken is a mission that none goes
\* before, none is lost, and the worker promotes the aged ones (priority_queue.go:25-131).
THEOREM HeapImplementsBag ==
  Spec => ImplementsBag
<1>1. Init => Bag!Init
  <2> SUFFICES ASSUME Init PROVE Bag!Init
    OBVIOUS
  <2>0. heap \in Seq(Mission)
    BY DEF Init
  <2>1. Len(heap) = 0 /\ clock = 0
    BY DEF Init
  <2>2. \A x : x \notin ToSet(heap)
    <3>1. \A x : x \in ToSet(heap) <=> \E i \in 1 .. Len(heap) : heap[i] = x
      BY <2>0, InSlice
    <3>2. 1 .. Len(heap) = {}
      BY <2>1
    <3> QED
      BY <3>1, <3>2
  <2> QED
    BY <2>1, <2>2 DEF Bag!Init
<1> QED
  BY <1>1, QueueInvariant, StepOfBag, PTL DEF Spec, ImplementsBag, Bag!Spec

\* A step that serves a mission while an aged one is older.
Overtakes ==
    /\ Len(heap') < Len(heap)
    /\ LET served == CHOOSE x \in ToSet(heap) : x \notin ToSet(heap')
       IN  \E m \in ToSet(heap') : m.id \in aged /\ ~(served.clock <= m.clock)

\* Only Pop shortens the slice, and what it serves no aged mission goes before.
LEMMA StepDoesNotOvertake ==
  QueueInv /\ [Next]_vars => ~Overtakes
<1> SUFFICES ASSUME QueueInv, [Next]_vars, Overtakes PROVE FALSE
  OBVIOUS
<1>0. Len(heap) \in Nat /\ heap \in Seq(Mission) /\ Len(heap') < Len(heap)
  BY DEF QueueInv, SliceInv, Overtakes
<1>1. Pop
  <2>1. ASSUME NEW m \in Mission, Enqueue(m) PROVE FALSE
    BY <1>0, <2>1 DEF Enqueue
  <2>2. ~Up /\ ~Dequeue /\ ~Down /\ ~AntiStarvation
    BY <1>0, UpStep, DequeueStep, DownStep, AntiStarvationStep
  <2>3. ~Heapify /\ ~ClockTick /\ ~UNCHANGED vars
    BY <1>0 DEF Heapify, ClockTick, vars
  <2> QED
    BY <2>1, <2>2, <2>3 DEF Next
<1> DEFINE out == heap[Len(heap)]
<1>2. /\ out \in ToSet(heap) /\ \A x \in ToSet(heap) : ~Less(x, out)
      /\ ToSet(heap') = ToSet(heap) \ {out}
  BY <1>1, PopStep
<1> HIDE DEF out
<1>3. (CHOOSE x \in ToSet(heap) : x \notin ToSet(heap')) = out
  BY <1>2
<1>4. PICK m \in ToSet(heap') : m.id \in aged /\ ~(out.clock <= m.clock)
  BY <1>3 DEF Overtakes
<1>5. m \in ToSet(heap) /\ m \in Mission /\ out \in Mission
  BY <1>0, <1>2, <1>4, InSlice
<1>6. m.critical
  <2>1. PICK x \in ToSet(heap) : x.id = m.id /\ x.critical
    BY <1>4 DEF QueueInv, AgedInv
  <2>2. x = m
    BY <1>0, <1>5, <2>1, InSlice DEF QueueInv, SliceInv, DistinctIds
  <2> QED
    BY <2>1, <2>2
<1>7. ~Less(m, out)
  BY <1>2, <1>5
<1> QED
  BY <1>4, <1>5, <1>6, <1>7, NotAfterCritical

\* A mission that a pass of the worker found too old is not overtaken by a younger one
\* (priority_queue.go:25-38, 99-131).
THEOREM AgedAreNotOvertaken ==
  Spec => AgedNotOvertaken
<1>1. QueueInv /\ [Next]_vars =>
         [Len(heap') < Len(heap) =>
            LET served == CHOOSE x \in ToSet(heap) : x \notin ToSet(heap')
            IN  \A m \in ToSet(heap') : m.id \in aged => served.clock <= m.clock]_vars
  BY StepDoesNotOvertake DEF Overtakes
<1> QED
  BY <1>1, QueueInvariant, PTL DEF Spec, AgedNotOvertaken

=============================================================================
