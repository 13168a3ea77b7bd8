---------------------------- MODULE BrokerCluster -----------------------------
(***************************************************************************)
(* The replicated brokers between the sensors and the mission queues:      *)
(* intake of sensor packets with the idempotency filter, ownership of a    *)
(* sector by the consistent ring, the charge on the ledger, the gossip of  *)
(* its outcome, and the rescue of a lost broker's missions                 *)
(* (cmd/broker: mission_processor.go, routing.go, shadowbuffer.go,         *)
(* unverified_buffer.go, HandleShadowSync in http_server.go;               *)
(* internal/inventory).                                                    *)
(*                                                                         *)
(* A broker is an IP address: a restarted container is another broker.     *)
(* Everything it holds is in memory.  Packets and gossip are at most once  *)
(* and unordered.  SpendCredit takes up to 8.5 s and the filter remembers  *)
(* for 60 s, so an event is forgotten only when no worker is at it.        *)
(***************************************************************************)
EXTENDS Integers, FiniteSets

CONSTANTS
    Brokers, Events,
    Initial,     \* brokers running at first; the others may start later
    Rank,        \* event -> broker -> distance of its sector on the ring
    MaxExpiries, \* bound: times a broker's filter forgets an event
    MaxCrashes   \* bound: brokers that crash

ASSUME ClusterAssumption ==
    /\ Initial \subseteq Brokers
    /\ Rank \in [Events -> [Brokers -> Nat]]
    /\ \A e \in Events, b, c \in Brokers : Rank[e][b] = Rank[e][c] => b = c
    /\ MaxExpiries \in Nat /\ MaxCrashes \in Nat

VARIABLES
    up, crashed,  \* brokers running, brokers gone
    dns,          \* what tasks.broker resolves to
    view,         \* broker -> members of its ring
    filter,       \* broker -> events its IdempotencyFilter remembers
    work,         \* broker -> event -> where the worker that has it is
    unverified,   \* broker -> events in the waiting room
    shadow,       \* broker -> events in the ShadowBuffer
    queue,        \* broker -> event -> entries in the priority queue
    rescue,       \* broker -> keys the running rescue has still to visit
    packets,      \* UDP datagrams under way: <<broker, event>>
    gossip,       \* calls of /internal/shadow/sync under way
    \* history
    sensed,       \* events the sensors sent
    expiries,     \* broker -> event -> times the filter forgot it
    paid,         \* event -> approvals: the broker, and the times its filter had
                  \*          forgotten the event when SpendCredit returned true
    enqueued,     \* broker -> event -> times it was put on the queue
    handed        \* events a station fetched from some queue

topology == <<up, crashed, dns>>
network == <<packets, gossip>>
history == <<sensed, expiries, paid, enqueued, handed>>
vars == <<topology, view, filter, work, unverified, shadow, queue, rescue,
          network, history>>

-----------------------------------------------------------------------------
(* Ring *)

\* consistent.Get: the first member after the key of the sector.
Owner(members, e) ==
    CHOOSE b \in members : \A c \in members : Rank[e][b] <= Rank[e][c]

\* What process asks: with an empty ring GetOwnerIP is "" and the broker goes on
\* as if it were the owner.
ActsAsOwner(b, e) == view[b] # {} => Owner(view[b], e) = b

\* What RescueOrphanedMissions asks.
Owns(b, e) == view[b] # {} /\ Owner(view[b], e) = b

GetAllMembers(b) == view[b]

-----------------------------------------------------------------------------
(* Sensors and network *)

\* A sensor sends one event to every broker it knows.
Sense(e) ==
    /\ e \notin sensed
    /\ sensed' = sensed \cup {e}
    /\ packets' = packets \cup {<<b, e>> : b \in dns}
    /\ UNCHANGED <<topology, view, filter, work, unverified, shadow, queue, rescue,
                   gossip, expiries, paid, enqueued, handed>>

\* The network, a full channel of the sensor or a full channel of the broker
\* drops a packet.
PacketLost(p) ==
    /\ p \in packets
    /\ packets' = packets \ {p}
    /\ UNCHANGED <<topology, view, filter, work, unverified, shadow, queue, rescue,
                   gossip, history>>

\* broadcastValidationSync calls once and ignores the answer.
GossipLost(g) ==
    /\ g \in gossip
    /\ gossip' = gossip \ {g}
    /\ UNCHANGED <<topology, view, filter, work, unverified, shadow, queue, rescue,
                   packets, history>>

-----------------------------------------------------------------------------
(* Mission processor *)

\* CheckAndAdd: a new event is stored, a known one stays.
CheckAndAdd(b, e) == filter' = [filter EXCEPT ![b] = @ \cup {e}]

\* process, first part: a worker takes a packet; a known event is dropped.
Take(b, e) ==
    /\ b \in up /\ <<b, e>> \in packets /\ work[b][e] = "none"
    /\ packets' = packets \ {<<b, e>>}
    /\ CheckAndAdd(b, e)
    /\ work' = IF e \in filter[b] THEN work
               ELSE [work EXCEPT ![b][e] = "taken"]
    /\ UNCHANGED <<topology, view, unverified, shadow, queue, rescue, gossip,
                   history>>

\* A datagram to the owner; whether it arrives is the network's business.
ForwardPacket(c, e) == packets' = packets \cup {<<c, e>>}

\* process of a secondary: waiting room and upstream gossip to the owner.
Forward(b, e) ==
    /\ work[b][e] = "taken" /\ ~ActsAsOwner(b, e)
    /\ work' = [work EXCEPT ![b][e] = "none"]
    /\ unverified' = [unverified EXCEPT ![b] = @ \cup {e}]
    /\ ForwardPacket(Owner(view[b], e), e)
    /\ UNCHANGED <<topology, view, filter, shadow, queue, rescue, gossip,
                   history>>

\* process of the primary calls SpendCredit.
Charge(b, e) ==
    /\ work[b][e] = "taken" /\ ActsAsOwner(b, e)
    /\ work' = [work EXCEPT ![b][e] = "charging"]
    /\ UNCHANGED <<topology, view, filter, unverified, shadow, queue, rescue,
                   network, history>>

\* SpendCredit returns true or false; module Charge says when.
SpendCredit(b, e) ==
    /\ work[b][e] = "charging"
    /\ \/ /\ work' = [work EXCEPT ![b][e] = "paid"]
          /\ paid' = [paid EXCEPT ![e] = @ \cup {<<b, expiries[b][e]>>}]
       \/ /\ work' = [work EXCEPT ![b][e] = "refused"]
          /\ paid' = paid
    /\ UNCHANGED <<topology, view, filter, unverified, shadow, queue, rescue,
                   network, sensed, expiries, enqueued, handed>>

\* broadcastValidationSync: one call to every other member of the ring.  It skips
\* the first address of the container and process goes by all of them; a broker is
\* on one network only, where these are the same (docker-compose.yml:84-86).
Broadcast(b, e, action) ==
    gossip' = gossip \cup {[to |-> c, event |-> e, action |-> action] :
                              c \in GetAllMembers(b) \ {b}}

\* PriorityQueue.Enqueue.
Enqueue(b, e) ==
    /\ queue' = [queue EXCEPT ![b][e] = @ + 1]
    /\ enqueued' = [enqueued EXCEPT ![b][e] = @ + 1]

\* process of the primary, approved.
Approve(b, e) ==
    /\ work[b][e] = "paid"
    /\ work' = [work EXCEPT ![b][e] = "none"]
    /\ Enqueue(b, e)
    /\ Broadcast(b, e, "ACK")
    /\ UNCHANGED <<topology, view, filter, unverified, shadow, rescue, packets,
                   sensed, expiries, paid, handed>>

\* process of the primary, rejected.
Reject(b, e) ==
    /\ work[b][e] = "refused"
    /\ work' = [work EXCEPT ![b][e] = "none"]
    /\ Broadcast(b, e, "NACK")
    /\ UNCHANGED <<topology, view, filter, unverified, shadow, queue, rescue,
                   packets, history>>

\* Mutant of ShadowSync: every verdict promotes the mission.
ShadowSyncAny(g) ==
    LET b == g.to  e == g.event
    IN  /\ g \in gossip /\ b \in up
        /\ gossip' = gossip \ {g}
        /\ CheckAndAdd(b, e)
        /\ unverified' = [unverified EXCEPT ![b] = @ \ {e}]
        /\ shadow' = [shadow EXCEPT ![b] = @ \cup {e}]
        /\ UNCHANGED <<topology, view, work, queue, rescue, packets, history>>

\* HandleShadowSync.
ShadowSync(g) ==
    LET b == g.to  e == g.event
    IN  /\ g \in gossip /\ b \in up
        /\ gossip' = gossip \ {g}
        /\ CheckAndAdd(b, e)
        /\ unverified' = [unverified EXCEPT ![b] = @ \ {e}]
        /\ shadow' = IF g.action = "ACK" THEN [shadow EXCEPT ![b] = @ \cup {e}]
                     ELSE shadow
        /\ UNCHANGED <<topology, view, work, queue, rescue, packets, history>>

\* The janitor of the waiting room.
UnverifiedExpire(b, e) ==
    /\ e \in unverified[b]
    /\ unverified' = [unverified EXCEPT ![b] = @ \ {e}]
    /\ UNCHANGED <<topology, view, filter, work, shadow, queue, rescue, network,
                   history>>

\* cleanupWorker of the filter.
FilterExpire(b, e) ==
    /\ e \in filter[b] /\ work[b][e] = "none" /\ expiries[b][e] < MaxExpiries
    /\ filter' = [filter EXCEPT ![b] = @ \ {e}]
    /\ expiries' = [expiries EXCEPT ![b][e] = @ + 1]
    /\ UNCHANGED <<topology, view, work, unverified, shadow, queue, rescue, network,
                   sensed, paid, enqueued, handed>>

\* Mutant of QueuePop: an empty queue is not noticed.
QueuePopEmpty(b, e) ==
    /\ b \in up
    /\ queue' = [queue EXCEPT ![b][e] = @ - 1]
    /\ handed' = handed \cup {e}
    /\ UNCHANGED <<topology, view, filter, work, unverified, shadow, rescue, network,
                   sensed, expiries, paid, enqueued>>

\* HandleQueuePop: a station fetches a mission (module Dispatch goes on).
QueuePop(b, e) ==
    /\ queue[b][e] > 0
    /\ queue' = [queue EXCEPT ![b][e] = @ - 1]
    /\ handed' = handed \cup {e}
    /\ UNCHANGED <<topology, view, filter, work, unverified, shadow, rescue, network,
                   sensed, expiries, paid, enqueued>>

-----------------------------------------------------------------------------
(* Topology *)

\* Mutant of WatchTopology: the ring is replaced and nobody is told.
WatchTopologyQuiet(b) ==
    /\ b \in up /\ rescue[b] = {} /\ dns # {} /\ dns # view[b]
    /\ view' = [view EXCEPT ![b] = dns]
    /\ UNCHANGED <<topology, filter, work, unverified, shadow, queue, rescue, network,
                   history>>

\* One round of WatchTopology that finds a change: the ring is replaced and the
\* rescue starts.  Rounds are 5 s apart; the rescue before has ended by then.
WatchTopology(b) ==
    /\ b \in up /\ rescue[b] = {} /\ dns # {} /\ dns # view[b]
    /\ view' = [view EXCEPT ![b] = dns]
    /\ rescue' = [rescue EXCEPT ![b] = Events]
    /\ UNCHANGED <<topology, filter, work, unverified, shadow, queue, network,
                   history>>

\* Mutant of RescueVisit: the rescued mission stays in the buffer.
RescueVisitKeeps(b, e) ==
    /\ e \in rescue[b]
    /\ rescue' = [rescue EXCEPT ![b] = @ \ {e}]
    /\ shadow' = shadow
    /\ IF e \in shadow[b] /\ Owns(b, e) THEN Enqueue(b, e)
       ELSE UNCHANGED <<queue, enqueued>>
    /\ UNCHANGED <<topology, view, filter, work, unverified, network, sensed,
                   expiries, paid, handed>>

\* RescueOrphanedMissions, one key of the Range.  A key stored while the Range
\* runs may or may not be seen: it is visited after or before the store.  A store
\* of the same mission between Enqueue and Delete goes with the Delete, as if it
\* had come before the visit, so the two are one step.
RescueVisit(b, e) ==
    /\ e \in rescue[b]
    /\ rescue' = [rescue EXCEPT ![b] = @ \ {e}]
    /\ IF e \in shadow[b] /\ Owns(b, e)
       THEN /\ Enqueue(b, e)
            /\ shadow' = [shadow EXCEPT ![b] = @ \ {e}]
       ELSE UNCHANGED <<queue, enqueued, shadow>>
    /\ UNCHANGED <<topology, view, filter, work, unverified, network, sensed,
                   expiries, paid, handed>>

\* Swarm's DNS follows the running containers.
DnsUpdate ==
    /\ dns # up
    /\ dns' = up
    /\ UNCHANGED <<up, crashed, view, filter, work, unverified, shadow, queue, rescue,
                   network, history>>

\* A broker starts, with an empty ring (main).
Start(b) ==
    /\ b \notin up \cup crashed
    /\ up' = up \cup {b}
    /\ UNCHANGED <<crashed, dns, view, filter, work, unverified, shadow, queue, rescue,
                   network, history>>

\* A broker dies with all it holds; what was sent to it is lost.
Crash(b) ==
    /\ b \in up /\ Cardinality(crashed) < MaxCrashes
    /\ up' = up \ {b}
    /\ crashed' = crashed \cup {b}
    /\ view' = [view EXCEPT ![b] = {}]
    /\ filter' = [filter EXCEPT ![b] = {}]
    /\ work' = [work EXCEPT ![b] = [e \in Events |-> "none"]]
    /\ unverified' = [unverified EXCEPT ![b] = {}]
    /\ shadow' = [shadow EXCEPT ![b] = {}]
    /\ queue' = [queue EXCEPT ![b] = [e \in Events |-> 0]]
    /\ rescue' = [rescue EXCEPT ![b] = {}]
    /\ UNCHANGED <<dns, network, history>>

-----------------------------------------------------------------------------

Init ==
    /\ up = Initial /\ crashed = {} /\ dns = Initial
    /\ view = [b \in Brokers |-> {}]
    /\ filter = [b \in Brokers |-> {}]
    /\ work = [b \in Brokers |-> [e \in Events |-> "none"]]
    /\ unverified = [b \in Brokers |-> {}]
    /\ shadow = [b \in Brokers |-> {}]
    /\ queue = [b \in Brokers |-> [e \in Events |-> 0]]
    /\ rescue = [b \in Brokers |-> {}]
    /\ packets = {} /\ gossip = {}
    /\ sensed = {} /\ handed = {}
    /\ expiries = [b \in Brokers |-> [e \in Events |-> 0]]
    /\ paid = [e \in Events |-> {}]
    /\ enqueued = [b \in Brokers |-> [e \in Events |-> 0]]

Next ==
    \/ \E e \in Events : Sense(e)
    \/ \E p \in packets : PacketLost(p)
    \/ \E g \in gossip : GossipLost(g) \/ ShadowSync(g)
    \/ \E b \in Brokers, e \in Events :
          \/ Take(b, e) \/ Forward(b, e) \/ Charge(b, e) \/ SpendCredit(b, e)
          \/ Approve(b, e) \/ Reject(b, e) \/ UnverifiedExpire(b, e)
          \/ FilterExpire(b, e) \/ QueuePop(b, e) \/ RescueVisit(b, e)
    \/ \E b \in Brokers : WatchTopology(b) \/ Start(b) \/ Crash(b)
    \/ DnsUpdate

Spec == Init /\ [][Next]_vars

\* The DNS follows, WatchTopology looks every five seconds and the rescue is a
\* goroutine that ends.
FairSpec ==
    /\ Spec
    /\ WF_vars(DnsUpdate)
    /\ \A b \in Brokers : WF_vars(WatchTopology(b))
    /\ \A b \in Brokers, e \in Events : WF_vars(RescueVisit(b, e))

-----------------------------------------------------------------------------
(* Properties *)

Gossip == [to : Brokers, event : Events, action : {"ACK", "NACK"}]

TypeOK ==
    /\ up \subseteq Brokers /\ crashed \subseteq Brokers \ up /\ dns \subseteq Brokers
    /\ view \in [Brokers -> SUBSET Brokers]
    /\ filter \in [Brokers -> SUBSET Events]
    /\ work \in [Brokers -> [Events -> {"none", "taken", "charging", "paid", "refused"}]]
    /\ unverified \in [Brokers -> SUBSET Events]
    /\ shadow \in [Brokers -> SUBSET Events]
    /\ queue \in [Brokers -> [Events -> Nat]]
    /\ rescue \in [Brokers -> SUBSET Events]
    /\ packets \subseteq Brokers \X Events
    /\ gossip \subseteq Gossip
    /\ sensed \subseteq Events /\ handed \subseteq Events
    /\ expiries \in [Brokers -> [Events -> 0 .. MaxExpiries]]
    /\ paid \in [Events -> SUBSET (Brokers \X (0 .. MaxExpiries))]
    /\ enqueued \in [Brokers -> [Events -> Nat]]

\* Nothing flies unasked: a mission that waits in a queue or a shadow buffer, or
\* that a station fetched, was charged by a broker to which SpendCredit returned
\* true; forwarding, the waiting room, NACKs, gossip and rescue never let one slip
\* through (mission_processor.go:57-80, http_server.go:215-229).
FliesOnlyIfApproved ==
    \A e \in Events :
        (e \in handed \/ \E b \in Brokers : e \in shadow[b] \/ queue[b][e] > 0)
            => paid[e] # {}

\* A broker puts a mission on its queue at most once for every approval, its own
\* or a sibling's, and a broker approves an event at most once for as long as its
\* filter remembers it: packets that come twice, gossip and rescues do not
\* multiply it further (mission_processor.go:38-42, shadowbuffer.go:22-48).
CopiesBounded ==
    \A b \in Brokers, e \in Events : enqueued[b][e] <= Cardinality(paid[e])

\* Failover: a mission whose backup a broker holds when the owner of its sector
\* crashes gets onto the queue of that broker, if the sector falls to it and it
\* does not crash too (routing.go:34-63, shadowbuffer.go:22-48).
FailoverRescues ==
    \A b, o \in Brokers, e \in Events :
        (/\ e \in shadow[b] /\ o \in crashed
         /\ view[b] # {} /\ Owner(view[b], e) = o)
            ~> \/ enqueued[b][e] > 0
               \/ b \in crashed
               \/ view[b] # {} /\ Owner(view[b], e) \notin {b, o}

=============================================================================
