----------------------------- MODULE PriorityBag ------------------------------
(***************************************************************************)
(* What the mission queue promises, without the heap: a collection of      *)
(* missions from which the first by priority is taken, in which missions   *)
(* that waited too long become critical (pkg/queue/priority_queue.go).     *)
(***************************************************************************)
EXTENDS Integers

CONSTANTS
    Ids,         \* event identifiers of missions
    SensorOf,    \* event -> SensorID, the last criterion of the order
    Stamps,      \* Lamport stamps of missions
    AgingLimit   \* ticks after which a mission is promoted

Mission == [id : Ids, critical : BOOLEAN, clock : Stamps]

\* Less: critical first, then the older stamp, then the smaller sensor.
Less(a, b) ==
    \/ a.critical /\ ~b.critical
    \/ /\ a.critical = b.critical
       /\ \/ a.clock < b.clock
          \/ a.clock = b.clock /\ SensorOf[a.id] < SensorOf[b.id]

VARIABLES items, clock

\* A mission has waited too long.
Aged(m) == clock - m.clock > AgingLimit
Promoted(m) == [m EXCEPT !.critical = @ \/ Aged(m)]

Add(m) ==
    /\ \A x \in items : x.id # m.id
    /\ items' = items \cup {m}
    /\ UNCHANGED clock

TakeFirst(m) ==
    /\ m \in items /\ \A x \in items : ~Less(x, m)
    /\ items' = items \ {m}
    /\ UNCHANGED clock

PromoteAged ==
    /\ items' = {Promoted(m) : m \in items}
    /\ UNCHANGED clock

Elapse == clock' = clock + 1 /\ UNCHANGED items

Init == items = {} /\ clock = 0

Next ==
    \/ \E m \in Mission : Add(m)
    \/ \E m \in items : TakeFirst(m)
    \/ PromoteAged
    \/ Elapse

Spec == Init /\ [][Next]_<<items, clock>>

=============================================================================
