------------------------- MODULE BrokerClusterProofs --------------------------
(***************************************************************************)
(* Proofs about BrokerCluster, for any set of brokers and events, any      *)
(* placement of the sectors on the ring and any number of crashes.         *)
(***************************************************************************)
EXTENDS BrokerCluster, TLAPS, WellFoundedInduction, FiniteSetTheorems

\* SpendCredit returned true to some broker for e.
Approved(e) == paid[e] # {}

\* An approval is on its way to a queue or to a shadow buffer only if it was given.
VerdictInv ==
    /\ \A b \in Brokers, e \in Events : work[b][e] = "paid" => Approved(e)
    /\ \A g \in gossip : g.action = "ACK" => Approved(g.event)

ClusterInv == TypeOK /\ VerdictInv /\ FliesOnlyIfApproved

-----------------------------------------------------------------------------
(* The ring *)

\* A non-empty set of natural numbers has a least element, if some relation that
\* contains < is well-founded.
LEMMA LeastByRelation ==
  ASSUME NEW R, IsWellFoundedOn(R, Nat),
         \A x, y \in Nat : y < x => <<y, x>> \in R,
         NEW T, T \subseteq Nat, T # {}
  PROVE  \E x \in T : \A y \in T : x <= y
<1>1. PICK x \in T : \A y \in T : ~ (<<y, x>> \in R)
  BY WFMin
<1>2. \A y \in T : ~ (y < x)
  BY <1>1
<1> QED
  BY <1>2

\* It has.
LEMMA LeastNat ==
  ASSUME NEW T, T \subseteq Nat, T # {}
  PROVE  \E x \in T : \A y \in T : x <= y
<1>1. IsWellFoundedOn(OpToRel(<, Nat), Nat)
  BY NatLessThanWellFounded, Zenon
<1>2. \A x, y \in Nat : y < x => <<y, x>> \in OpToRel(<, Nat)
  BY DEF OpToRel
<1> QED
  BY <1>1, <1>2, LeastByRelation, Zenon

\* A ring with members gives every sector to one of them.
LEMMA OwnerIsMember ==
  ASSUME NEW S \in SUBSET Brokers, S # {}, NEW e \in Events
  PROVE  Owner(S, e) \in S
<1> DEFINE T == {Rank[e][b] : b \in S}
<1>1. T \subseteq Nat /\ T # {}
  BY ClusterAssumption
<1>2. \E x \in T : \A y \in T : x <= y
  BY <1>1, LeastNat
<1>3. \E b \in S : \A c \in S : Rank[e][b] <= Rank[e][c]
  BY <1>2
<1> QED
  BY <1>3 DEF Owner

-----------------------------------------------------------------------------
(* Types *)

\* A function changed at one point keeps its type.
LEMMA PutType ==
  ASSUME NEW S, NEW T, NEW f \in [S -> T], NEW x \in S, NEW v \in T
  PROVE  [f EXCEPT ![x] = v] \in [S -> T]
OBVIOUS

\* Every state has its type (whatever workers, gossip and topology do).
LEMMA TypeInit == Init => TypeOK
BY ClusterAssumption DEF Init, TypeOK

\* A step keeps the types; only Forward needs to know who owns a sector.
LEMMA TypeStep == TypeOK /\ [Next]_vars => TypeOK'
<1> SUFFICES ASSUME TypeOK, [Next]_vars PROVE TypeOK'
  OBVIOUS
<1> USE ClusterAssumption
<1>1. ASSUME NEW e \in Events, Sense(e) PROVE TypeOK'
  BY <1>1 DEF TypeOK, Sense, topology, network, history
<1>2. ASSUME NEW p \in packets, PacketLost(p) PROVE TypeOK'
  BY <1>2 DEF TypeOK, PacketLost, topology, network, history
<1>3. ASSUME NEW g \in gossip, GossipLost(g) PROVE TypeOK'
  BY <1>3 DEF TypeOK, GossipLost, topology, network, history
<1>4. ASSUME NEW g \in gossip, ShadowSync(g) PROVE TypeOK'
  BY <1>4 DEF TypeOK, ShadowSync, CheckAndAdd, Gossip, topology, network, history
<1>5. ASSUME NEW b \in Brokers, NEW e \in Events, Take(b, e) PROVE TypeOK'
  BY <1>5 DEF TypeOK, Take, CheckAndAdd, topology, network, history
<1>6. ASSUME NEW b \in Brokers, NEW e \in Events, Forward(b, e) PROVE TypeOK'
  <2>1. view[b] \in SUBSET Brokers /\ view[b] # {}
    BY <1>6 DEF Forward, ForwardPacket, ActsAsOwner, TypeOK
  <2>2. Owner(view[b], e) \in Brokers
    BY <2>1, OwnerIsMember
  <2> QED
    BY <1>6, <2>2 DEF TypeOK, Forward, ForwardPacket, topology, network, history
<1>7. ASSUME NEW b \in Brokers, NEW e \in Events, Charge(b, e) PROVE TypeOK'
  BY <1>7 DEF TypeOK, Charge, topology, network, history
<1>8. ASSUME NEW b \in Brokers, NEW e \in Events, SpendCredit(b, e) PROVE TypeOK'
  <2>1. expiries[b][e] \in 0 .. MaxExpiries
    BY DEF TypeOK
  <2>2. paid' \in [Events -> SUBSET (Brokers \X (0 .. MaxExpiries))]
    <3>1. paid[e] \cup {<<b, expiries[b][e]>>} \in SUBSET (Brokers \X (0 .. MaxExpiries))
      BY <2>1 DEF TypeOK
    <3>2. paid' = paid \/ paid' = [paid EXCEPT ![e] = @ \cup {<<b, expiries[b][e]>>}]
      BY <1>8 DEF SpendCredit
    <3>3. paid \in [Events -> SUBSET (Brokers \X (0 .. MaxExpiries))]
      BY DEF TypeOK
    <3> QED
      BY <3>1, <3>2, <3>3, PutType
  <2>3. work' \in [Brokers -> [Events -> {"none", "taken", "charging", "paid", "refused"}]]
    <3>1. CASE work' = [work EXCEPT ![b][e] = "paid"]
      BY <3>1 DEF TypeOK
    <3>2. CASE work' = [work EXCEPT ![b][e] = "refused"]
      BY <3>2 DEF TypeOK
    <3> QED
      BY <1>8, <3>1, <3>2 DEF SpendCredit
  <2>4. UNCHANGED <<up, crashed, dns, view, filter, unverified, shadow, queue, rescue,
                    packets, gossip, sensed, expiries, enqueued, handed>>
    BY <1>8 DEF SpendCredit, topology, network
  <2> QED
    BY <2>2, <2>3, <2>4 DEF TypeOK
<1>9. ASSUME NEW b \in Brokers, NEW e \in Events, Approve(b, e) PROVE TypeOK'
  BY <1>9 DEF TypeOK, Approve, Enqueue, Broadcast, GetAllMembers, Gossip, topology, network, history
<1>10. ASSUME NEW b \in Brokers, NEW e \in Events, Reject(b, e) PROVE TypeOK'
  BY <1>10 DEF TypeOK, Reject, Broadcast, GetAllMembers, Gossip, topology, network, history
<1>11. ASSUME NEW b \in Brokers, NEW e \in Events, UnverifiedExpire(b, e) PROVE TypeOK'
  BY <1>11 DEF TypeOK, UnverifiedExpire, topology, network, history
<1>12. ASSUME NEW b \in Brokers, NEW e \in Events, FilterExpire(b, e) PROVE TypeOK'
  BY <1>12 DEF TypeOK, FilterExpire, topology, network, history
<1>13. ASSUME NEW b \in Brokers, NEW e \in Events, QueuePop(b, e) PROVE TypeOK'
  BY <1>13 DEF TypeOK, QueuePop, topology, network, history
<1>14. ASSUME NEW b \in Brokers, NEW e \in Events, RescueVisit(b, e) PROVE TypeOK'
  <2>1. CASE e \in shadow[b] /\ Owns(b, e)
    <3>1. queue' \in [Brokers -> [Events -> Nat]] /\ enqueued' \in [Brokers -> [Events -> Nat]]
      <4>1. /\ queue' = [queue EXCEPT ![b][e] = @ + 1]
            /\ enqueued' = [enqueued EXCEPT ![b][e] = @ + 1]
        BY <1>14, <2>1 DEF RescueVisit, Enqueue
      <4> QED
        BY <4>1 DEF TypeOK
    <3>2. rescue' = [rescue EXCEPT ![b] = @ \ {e}] /\ shadow' = [shadow EXCEPT ![b] = @ \ {e}]
      BY <1>14, <2>1 DEF RescueVisit
    <3>3. shadow' \in [Brokers -> SUBSET Events] /\ rescue' \in [Brokers -> SUBSET Events]
      BY <3>2 DEF TypeOK
    <3>4. UNCHANGED <<up, crashed, dns, view, filter, work, unverified, packets, gossip,
                      sensed, expiries, paid, handed>>
      BY <1>14 DEF RescueVisit, topology, network
    <3> QED
      BY <3>1, <3>3, <3>4 DEF TypeOK
  <2>2. CASE ~(e \in shadow[b] /\ Owns(b, e))
    BY <1>14, <2>2 DEF TypeOK, RescueVisit, topology, network, history
  <2> QED
    BY <2>1, <2>2
<1>15. ASSUME NEW b \in Brokers, WatchTopology(b) PROVE TypeOK'
  BY <1>15 DEF TypeOK, WatchTopology, topology, network, history
<1>16. ASSUME NEW b \in Brokers, Start(b) PROVE TypeOK'
  BY <1>16 DEF TypeOK, Start, topology, network, history
<1>17. ASSUME NEW b \in Brokers, Crash(b) PROVE TypeOK'
  BY <1>17 DEF TypeOK, Crash, topology, network, history
<1>18. ASSUME DnsUpdate PROVE TypeOK'
  BY <1>18 DEF TypeOK, DnsUpdate, topology, network, history
<1>19. ASSUME UNCHANGED vars PROVE TypeOK'
  BY <1>19 DEF TypeOK, vars, topology, network, history
<1> QED
  BY <1>1, <1>2, <1>3, <1>4, <1>5, <1>6, <1>7, <1>8, <1>9, <1>10, <1>11, <1>12, <1>13, <1>14, <1>15, <1>16, <1>17, <1>18, <1>19 DEF Next
-----------------------------------------------------------------------------
(* Payment *)

\* An approval is not taken back.
LEMMA ApprovedStays ==
  ASSUME TypeOK, [Next]_vars, NEW e \in Events, Approved(e)
  PROVE  Approved(e)'
<1>1. ASSUME NEW x \in Events, Sense(x) PROVE Approved(e)'
  BY <1>1 DEF Approved, Sense, history
<1>2. ASSUME NEW p \in packets, PacketLost(p) PROVE Approved(e)'
  BY <1>2 DEF Approved, PacketLost, history
<1>3. ASSUME NEW g \in gossip, GossipLost(g) PROVE Approved(e)'
  BY <1>3 DEF Approved, GossipLost, history
<1>4. ASSUME NEW g \in gossip, ShadowSync(g) PROVE Approved(e)'
  BY <1>4 DEF Approved, ShadowSync, history
<1>5. ASSUME NEW b \in Brokers, NEW x \in Events, Take(b, x) PROVE Approved(e)'
  BY <1>5 DEF Approved, Take, history
<1>6. ASSUME NEW b \in Brokers, NEW x \in Events, Forward(b, x) PROVE Approved(e)'
  BY <1>6 DEF Approved, Forward, ForwardPacket, history
<1>7. ASSUME NEW b \in Brokers, NEW x \in Events, Charge(b, x) PROVE Approved(e)'
  BY <1>7 DEF Approved, Charge, history
<1>8. ASSUME NEW b \in Brokers, NEW x \in Events, SpendCredit(b, x) PROVE Approved(e)'
  <2>1. CASE paid' = paid
    BY <2>1 DEF Approved
  <2>2. CASE paid' = [paid EXCEPT ![x] = @ \cup {<<b, expiries[b][x]>>}]
    BY <2>2 DEF Approved, TypeOK
  <2> QED
    BY <1>8, <2>1, <2>2 DEF SpendCredit
<1>9. ASSUME NEW b \in Brokers, NEW x \in Events, Approve(b, x) PROVE Approved(e)'
  BY <1>9 DEF Approved, Approve
<1>10. ASSUME NEW b \in Brokers, NEW x \in Events, Reject(b, x) PROVE Approved(e)'
  BY <1>10 DEF Approved, Reject, history
<1>11. ASSUME NEW b \in Brokers, NEW x \in Events, UnverifiedExpire(b, x) PROVE Approved(e)'
  BY <1>11 DEF Approved, UnverifiedExpire, history
<1>12. ASSUME NEW b \in Brokers, NEW x \in Events, FilterExpire(b, x) PROVE Approved(e)'
  BY <1>12 DEF Approved, FilterExpire, history
<1>13. ASSUME NEW b \in Brokers, NEW x \in Events, QueuePop(b, x) PROVE Approved(e)'
  BY <1>13 DEF Approved, QueuePop, history
<1>14. ASSUME NEW b \in Brokers, NEW x \in Events, RescueVisit(b, x) PROVE Approved(e)'
  BY <1>14 DEF Approved, RescueVisit, history
<1>15. ASSUME NEW b \in Brokers, WatchTopology(b) PROVE Approved(e)'
  BY <1>15 DEF Approved, WatchTopology, history
<1>16. ASSUME NEW b \in Brokers, Start(b) PROVE Approved(e)'
  BY <1>16 DEF Approved, Start, history
<1>17. ASSUME NEW b \in Brokers, Crash(b) PROVE Approved(e)'
  BY <1>17 DEF Approved, Crash, history
<1>18. ASSUME DnsUpdate PROVE Approved(e)'
  BY <1>18 DEF Approved, DnsUpdate, history
<1>19. ASSUME UNCHANGED vars PROVE Approved(e)'
  BY <1>19 DEF Approved, vars, history
<1> QED
  BY <1>1, <1>2, <1>3, <1>4, <1>5, <1>6, <1>7, <1>8, <1>9, <1>10, <1>11, <1>12, <1>13, <1>14, <1>15, <1>16, <1>17, <1>18, <1>19 DEF Next

\* Only SpendCredit makes a worker's charge "paid", and only such a
\* worker sends an ACK (mission_processor.go:68-80).
LEMMA VerdictStep == TypeOK /\ VerdictInv /\ [Next]_vars => VerdictInv'
<1> SUFFICES ASSUME TypeOK, VerdictInv, [Next]_vars PROVE VerdictInv'
  OBVIOUS
<1>a. \A e \in Events : Approved(e) => Approved(e)'
  BY ApprovedStays
<1>b. \A g \in gossip : g.event \in Events
  BY DEF TypeOK, Gossip
<1>1. ASSUME NEW x \in Events, Sense(x) PROVE VerdictInv'
  BY <1>a, <1>b, <1>1 DEF VerdictInv, Sense, network
<1>2. ASSUME NEW p \in packets, PacketLost(p) PROVE VerdictInv'
  BY <1>a, <1>b, <1>2 DEF VerdictInv, PacketLost, network
<1>3. ASSUME NEW g \in gossip, GossipLost(g) PROVE VerdictInv'
  BY <1>a, <1>b, <1>3 DEF VerdictInv, GossipLost, network
<1>4. ASSUME NEW g \in gossip, ShadowSync(g) PROVE VerdictInv'
  BY <1>a, <1>b, <1>4 DEF VerdictInv, ShadowSync, network
<1>5. ASSUME NEW b \in Brokers, NEW x \in Events, Take(b, x) PROVE VerdictInv'
  <2>1. \A c \in Brokers, e \in Events : work'[c][e] = "paid" => work[c][e] = "paid"
    BY <1>5 DEF Take, TypeOK
  <2>2. gossip' = gossip
    BY <1>5 DEF Take, network
  <2> QED
    BY <1>a, <1>b, <2>1, <2>2 DEF VerdictInv
<1>6. ASSUME NEW b \in Brokers, NEW x \in Events, Forward(b, x) PROVE VerdictInv'
  <2>1. \A c \in Brokers, e \in Events : work'[c][e] = "paid" => work[c][e] = "paid"
    BY <1>6 DEF Forward, ForwardPacket, TypeOK
  <2>2. gossip' = gossip
    BY <1>6 DEF Forward, ForwardPacket, network
  <2> QED
    BY <1>a, <1>b, <2>1, <2>2 DEF VerdictInv
<1>7. ASSUME NEW b \in Brokers, NEW x \in Events, Charge(b, x) PROVE VerdictInv'
  <2>1. \A c \in Brokers, e \in Events : work'[c][e] = "paid" => work[c][e] = "paid"
    BY <1>7 DEF Charge, TypeOK
  <2>2. gossip' = gossip
    BY <1>7 DEF Charge, network
  <2> QED
    BY <1>a, <1>b, <2>1, <2>2 DEF VerdictInv
<1>8. ASSUME NEW b \in Brokers, NEW x \in Events, SpendCredit(b, x) PROVE VerdictInv'
  <2>1. gossip' = gossip
    BY <1>8 DEF SpendCredit, network
  <2>2. CASE work' = [work EXCEPT ![b][x] = "paid"] /\ Approved(x)'
    BY <1>a, <1>b, <2>1, <2>2 DEF VerdictInv, TypeOK
  <2>3. CASE work' = [work EXCEPT ![b][x] = "refused"]
    BY <1>a, <1>b, <2>1, <2>3 DEF VerdictInv, TypeOK
  <2> QED
    <3>1. ASSUME paid' = [paid EXCEPT ![x] = @ \cup {<<b, expiries[b][x]>>}]
          PROVE  Approved(x)'
      BY <3>1 DEF Approved, TypeOK
    <3> QED
      BY <1>8, <2>2, <2>3, <3>1 DEF SpendCredit
<1>9. ASSUME NEW b \in Brokers, NEW x \in Events, Approve(b, x) PROVE VerdictInv'
  <2>1. \A c \in Brokers, e \in Events : work'[c][e] = "paid" => work[c][e] = "paid"
    BY <1>9 DEF Approve, TypeOK
  <2>2. ASSUME NEW g \in gossip', g \notin gossip
        PROVE  g.event = x /\ g.action = "ACK"
    <3>1. gossip' = gossip \cup {[to |-> c, event |-> x, action |-> "ACK"] : c \in view[b] \ {b}}
      BY <1>9 DEF Approve, Broadcast, GetAllMembers
    <3>2. PICK c \in view[b] \ {b} : g = [to |-> c, event |-> x, action |-> "ACK"]
      BY <2>2, <3>1
    <3> QED
      BY <3>2
  <2>3. Approved(x)
    BY <1>9 DEF Approve, VerdictInv
  <2> QED
    BY <1>a, <1>b, <2>1, <2>2, <2>3 DEF VerdictInv
<1>10. ASSUME NEW b \in Brokers, NEW x \in Events, Reject(b, x) PROVE VerdictInv'
  <2>1. \A c \in Brokers, e \in Events : work'[c][e] = "paid" => work[c][e] = "paid"
    BY <1>10 DEF Reject, TypeOK
  <2>2. ASSUME NEW g \in gossip', g \notin gossip
        PROVE  g.event = x /\ g.action = "NACK"
    <3>1. gossip' = gossip \cup {[to |-> c, event |-> x, action |-> "NACK"] : c \in view[b] \ {b}}
      BY <1>10 DEF Reject, Broadcast, GetAllMembers
    <3>2. PICK c \in view[b] \ {b} : g = [to |-> c, event |-> x, action |-> "NACK"]
      BY <2>2, <3>1
    <3> QED
      BY <3>2
  <2> QED
    BY <1>a, <1>b, <2>1, <2>2 DEF VerdictInv
<1>11. ASSUME NEW b \in Brokers, NEW x \in Events, UnverifiedExpire(b, x) PROVE VerdictInv'
  BY <1>a, <1>b, <1>11 DEF VerdictInv, UnverifiedExpire, network
<1>12. ASSUME NEW b \in Brokers, NEW x \in Events, FilterExpire(b, x) PROVE VerdictInv'
  BY <1>a, <1>b, <1>12 DEF VerdictInv, FilterExpire, network
<1>13. ASSUME NEW b \in Brokers, NEW x \in Events, QueuePop(b, x) PROVE VerdictInv'
  BY <1>a, <1>b, <1>13 DEF VerdictInv, QueuePop, network
<1>14. ASSUME NEW b \in Brokers, NEW x \in Events, RescueVisit(b, x) PROVE VerdictInv'
  BY <1>a, <1>b, <1>14 DEF VerdictInv, RescueVisit, network
<1>15. ASSUME NEW b \in Brokers, WatchTopology(b) PROVE VerdictInv'
  BY <1>a, <1>b, <1>15 DEF VerdictInv, WatchTopology, network
<1>16. ASSUME NEW b \in Brokers, Start(b) PROVE VerdictInv'
  BY <1>a, <1>b, <1>16 DEF VerdictInv, Start, network
<1>17. ASSUME NEW b \in Brokers, Crash(b) PROVE VerdictInv'
  <2>1. \A c \in Brokers, e \in Events : work'[c][e] = "paid" => work[c][e] = "paid"
    BY <1>17 DEF Crash, TypeOK
  <2>2. gossip' = gossip
    BY <1>17 DEF Crash, network
  <2> QED
    BY <1>a, <1>b, <2>1, <2>2 DEF VerdictInv
<1>18. ASSUME DnsUpdate PROVE VerdictInv'
  BY <1>a, <1>b, <1>18 DEF VerdictInv, DnsUpdate, network
<1>19. ASSUME UNCHANGED vars PROVE VerdictInv'
  BY <1>a, <1>b, <1>19 DEF VerdictInv, vars, network
<1> QED
  BY <1>1, <1>2, <1>3, <1>4, <1>5, <1>6, <1>7, <1>8, <1>9, <1>10, <1>11, <1>12, <1>13, <1>14, <1>15, <1>16, <1>17, <1>18, <1>19 DEF Next

\* What lies in a queue or a shadow buffer, or was fetched, was there before or was
\* put there for an approval (mission_processor.go:70, http_server.go:221,
\* shadowbuffer.go:35).
LEMMA PaymentStep == TypeOK /\ VerdictInv /\ FliesOnlyIfApproved /\ [Next]_vars => FliesOnlyIfApproved'
<1> DEFINE Held(e) == e \in handed \/ \E c \in Brokers : e \in shadow[c] \/ queue[c][e] > 0
<1> SUFFICES ASSUME TypeOK, VerdictInv, FliesOnlyIfApproved, [Next]_vars,
                    NEW e \in Events, Held(e)'
             PROVE  Approved(e) \/ Approved(e)'
  BY ApprovedStays DEF FliesOnlyIfApproved, Approved
<1>a. Held(e) => Approved(e)
  BY DEF FliesOnlyIfApproved, Approved
<1>1. ASSUME NEW x \in Events, Sense(x) PROVE Approved(e) \/ Approved(e)'
  BY <1>a, <1>1 DEF Sense, history
<1>2. ASSUME NEW p \in packets, PacketLost(p) PROVE Approved(e) \/ Approved(e)'
  BY <1>a, <1>2 DEF PacketLost, history
<1>3. ASSUME NEW g \in gossip, GossipLost(g) PROVE Approved(e) \/ Approved(e)'
  BY <1>a, <1>3 DEF GossipLost, history
<1>4. ASSUME NEW g \in gossip, ShadowSync(g) PROVE Approved(e) \/ Approved(e)'
  <2>1. \A c \in Brokers : e \in shadow'[c] => e \in shadow[c] \/ (e = g.event /\ g.action = "ACK")
    BY <1>4 DEF ShadowSync, TypeOK
  <2>2. handed' = handed /\ queue' = queue
    BY <1>4 DEF ShadowSync, history
  <2> QED
    BY <1>a, <2>1, <2>2 DEF VerdictInv
<1>5. ASSUME NEW b \in Brokers, NEW x \in Events, Take(b, x) PROVE Approved(e) \/ Approved(e)'
  BY <1>a, <1>5 DEF Take, history
<1>6. ASSUME NEW b \in Brokers, NEW x \in Events, Forward(b, x) PROVE Approved(e) \/ Approved(e)'
  BY <1>a, <1>6 DEF Forward, ForwardPacket, history
<1>7. ASSUME NEW b \in Brokers, NEW x \in Events, Charge(b, x) PROVE Approved(e) \/ Approved(e)'
  BY <1>a, <1>7 DEF Charge, history
<1>8. ASSUME NEW b \in Brokers, NEW x \in Events, SpendCredit(b, x) PROVE Approved(e) \/ Approved(e)'
  BY <1>a, <1>8 DEF SpendCredit, history
<1>9. ASSUME NEW b \in Brokers, NEW x \in Events, Approve(b, x) PROVE Approved(e) \/ Approved(e)'
  <2>1. \A c \in Brokers : queue'[c][e] > 0 => queue[c][e] > 0 \/ e = x
    BY <1>9 DEF Approve, Enqueue, TypeOK
  <2>2. handed' = handed /\ shadow' = shadow /\ work[b][x] = "paid"
    BY <1>9 DEF Approve
  <2> QED
    BY <1>a, <2>1, <2>2 DEF VerdictInv
<1>10. ASSUME NEW b \in Brokers, NEW x \in Events, Reject(b, x) PROVE Approved(e) \/ Approved(e)'
  BY <1>a, <1>10 DEF Reject, history
<1>11. ASSUME NEW b \in Brokers, NEW x \in Events, UnverifiedExpire(b, x) PROVE Approved(e) \/ Approved(e)'
  BY <1>a, <1>11 DEF UnverifiedExpire, history
<1>12. ASSUME NEW b \in Brokers, NEW x \in Events, FilterExpire(b, x) PROVE Approved(e) \/ Approved(e)'
  BY <1>a, <1>12 DEF FilterExpire, history
<1>13. ASSUME NEW b \in Brokers, NEW x \in Events, QueuePop(b, x) PROVE Approved(e) \/ Approved(e)'
  <2>1. \A c \in Brokers : queue'[c][e] > 0 => queue[c][e] > 0
    BY <1>13 DEF QueuePop, TypeOK
  <2>2. handed' = handed \cup {x} /\ shadow' = shadow /\ queue[b][x] > 0
    BY <1>13 DEF QueuePop
  <2> QED
    BY <1>a, <2>1, <2>2
<1>14. ASSUME NEW b \in Brokers, NEW x \in Events, RescueVisit(b, x) PROVE Approved(e) \/ Approved(e)'
  <2>1. handed' = handed
    BY <1>14 DEF RescueVisit
  <2>2. CASE x \in shadow[b] /\ Owns(b, x)
    <3>1. /\ queue' = [queue EXCEPT ![b][x] = @ + 1]
          /\ shadow' = [shadow EXCEPT ![b] = @ \ {x}]
      BY <1>14, <2>2 DEF RescueVisit, Enqueue
    <3>2. \A c \in Brokers : queue'[c][e] > 0 => queue[c][e] > 0 \/ e = x
      BY <3>1 DEF TypeOK
    <3>3. \A c \in Brokers : e \in shadow'[c] => e \in shadow[c]
      BY <3>1 DEF TypeOK
    <3> QED
      BY <1>a, <2>1, <2>2, <3>2, <3>3
  <2>3. CASE ~(x \in shadow[b] /\ Owns(b, x))
    BY <1>a, <1>14, <2>1, <2>3 DEF RescueVisit
  <2> QED
    BY <2>2, <2>3
<1>15. ASSUME NEW b \in Brokers, WatchTopology(b) PROVE Approved(e) \/ Approved(e)'
  BY <1>a, <1>15 DEF WatchTopology, history
<1>16. ASSUME NEW b \in Brokers, Start(b) PROVE Approved(e) \/ Approved(e)'
  BY <1>a, <1>16 DEF Start, history
<1>17. ASSUME NEW b \in Brokers, Crash(b) PROVE Approved(e) \/ Approved(e)'
  <2>1. \A c \in Brokers : queue'[c][e] > 0 => queue[c][e] > 0
    BY <1>17 DEF Crash, TypeOK
  <2>2. \A c \in Brokers : e \in shadow'[c] => e \in shadow[c]
    BY <1>17 DEF Crash, TypeOK
  <2>3. handed' = handed
    BY <1>17 DEF Crash, history
  <2> QED
    BY <1>a, <2>1, <2>2, <2>3
<1>18. ASSUME DnsUpdate PROVE Approved(e) \/ Approved(e)'
  BY <1>a, <1>18 DEF DnsUpdate, history
<1>19. ASSUME UNCHANGED vars PROVE Approved(e) \/ Approved(e)'
  BY <1>a, <1>19 DEF vars, history
<1> QED
  BY <1>1, <1>2, <1>3, <1>4, <1>5, <1>6, <1>7, <1>8, <1>9, <1>10, <1>11, <1>12, <1>13, <1>14, <1>15, <1>16, <1>17, <1>18, <1>19 DEF Next

-----------------------------------------------------------------------------
(* Copies *)

\* The brokers whose worker has the approval of e and has not queued it yet.
Paying(e) == {c \in Brokers : work[c][e] = "paid"}

Ack(b, e) == [to |-> b, event |-> e, action |-> "ACK"]

\* The copies of e that b may still put on its queue for a sibling's approval.
Owed(b, e) == (IF e \in shadow[b] THEN 1 ELSE 0) + (IF Ack(b, e) \in gossip THEN 1 ELSE 0)

\* What b has put on its queue, what it may still put there and the workers that
\* hold an approval together never exceed the approvals.
CopiesOf(e) ==
    /\ IsFiniteSet(paid[e]) /\ IsFiniteSet(Paying(e))
    /\ \A b \in Brokers :
          enqueued[b][e] + Owed(b, e) + Cardinality(Paying(e)) <= Cardinality(paid[e])

\* An approval is new when it comes: while a worker is at an event the filter knows
\* it, and has not forgotten it since the broker's last approval of the event.
FreshAt(c, e) ==
    /\ work[c][e] # "none" => e \in filter[c] /\ c \notin crashed
    /\ \A x \in 0 .. MaxExpiries : <<c, x>> \in paid[e] => x <= expiries[c][e]
    /\ <<c, expiries[c][e]>> \in paid[e] =>
          work[c][e] \notin {"taken", "charging"} /\ (e \in filter[c] \/ c \in crashed)

FreshInv == \A c \in Brokers, e \in Events : FreshAt(c, e)

CopiesInv == \A e \in Events : CopiesOf(e)

\* What CopiesOf and FreshAt look at.
core == <<crashed, filter, work, shadow, gossip, expiries, paid, enqueued>>

\* The steps of sensors, of the network, of the waiting room, of stations and of
\* the topology touch none of it.
LEMMA StillCore ==
  ASSUME UNCHANGED core, FreshInv, CopiesInv
  PROVE  FreshInv' /\ CopiesInv'
BY DEF core, FreshInv, FreshAt, CopiesInv, CopiesOf, Owed, Paying

\* What is left when nobody approves e and nobody queues it: fewer copies.
LEMMA CopiesKept ==
  ASSUME NEW e \in Events, TypeOK, TypeOK', CopiesOf(e), paid'[e] = paid[e],
         \A c \in Brokers : work'[c][e] = "paid" => work[c][e] = "paid",
         \A b \in Brokers : enqueued'[b][e] + Owed(b, e)' <= enqueued[b][e] + Owed(b, e)
  PROVE  CopiesOf(e)'
<1>1. Paying(e)' \subseteq Paying(e)
  BY DEF Paying
<1>2. IsFiniteSet(Paying(e)') /\ Cardinality(Paying(e)') <= Cardinality(Paying(e))
  BY <1>1, FS_Subset DEF CopiesOf
<1>3. /\ Cardinality(Paying(e)) \in Nat /\ Cardinality(Paying(e)') \in Nat
      /\ Cardinality(paid[e]) \in Nat
  BY <1>2, FS_CardinalityType DEF CopiesOf
<1>4. ASSUME NEW b \in Brokers
      PROVE  enqueued'[b][e] + Owed(b, e)' + Cardinality(Paying(e)') <= Cardinality(paid[e])
  <2>1. /\ enqueued[b][e] \in Nat /\ enqueued'[b][e] \in Nat
        /\ Owed(b, e) \in Nat /\ Owed(b, e)' \in Nat
    BY DEF TypeOK, Owed
  <2>2. enqueued[b][e] + Owed(b, e) + Cardinality(Paying(e)) <= Cardinality(paid[e])
    BY DEF CopiesOf
  <2>3. enqueued'[b][e] + Owed(b, e)' <= enqueued[b][e] + Owed(b, e)
    OBVIOUS
  <2> QED
    BY <1>2, <1>3, <2>1, <2>2, <2>3
<1> QED
  BY <1>2, <1>4 DEF CopiesOf

\* SpendCredit returns true for a worker whose approval is new: one more approval,
\* one more copy to come (mission_processor.go:68-70).
LEMMA CopiesSpend ==
  ASSUME NEW b \in Brokers, NEW x \in Events, TypeOK, TypeOK', FreshInv, CopiesInv,
         SpendCredit(b, x)
  PROVE  CopiesInv'
<1>0. /\ work[b][x] = "charging"
      /\ UNCHANGED <<shadow, gossip, enqueued>>
  BY DEF SpendCredit, network
<1>1. SUFFICES ASSUME NEW e \in Events PROVE CopiesOf(e)'
  BY DEF CopiesInv
<1>2. CopiesOf(e)
  BY DEF CopiesInv
<1>3. \A c \in Brokers : Owed(c, e)' = Owed(c, e)
  BY <1>0 DEF Owed
<1>4. CASE e # x \/ (work' = [work EXCEPT ![b][x] = "refused"] /\ paid' = paid)
  <2>1. \A c \in Brokers : work'[c][e] = "paid" => work[c][e] = "paid"
    <3>1. CASE e # x /\ work' = [work EXCEPT ![b][x] = "paid"]
      BY <3>1 DEF TypeOK
    <3>2. CASE work' = [work EXCEPT ![b][x] = "refused"]
      BY <3>2 DEF TypeOK
    <3>3. \/ work' = [work EXCEPT ![b][x] = "paid"]
          \/ work' = [work EXCEPT ![b][x] = "refused"]
      BY DEF SpendCredit
    <3> QED
      BY <1>4, <3>1, <3>2, <3>3
  <2>2. paid'[e] = paid[e]
    BY <1>4 DEF SpendCredit, TypeOK
  <2>3. \A c \in Brokers : enqueued'[c][e] + Owed(c, e)' <= enqueued[c][e] + Owed(c, e)
    BY <1>0, <1>3 DEF TypeOK, Owed
  <2> QED
    BY <1>2, <2>1, <2>2, <2>3, CopiesKept
<1>5. CASE e = x /\ work' = [work EXCEPT ![b][x] = "paid"]
                 /\ paid' = [paid EXCEPT ![x] = @ \cup {<<b, expiries[b][x]>>}]
  <2>1. b \notin Paying(e) /\ Paying(e)' = Paying(e) \cup {b}
    BY <1>0, <1>5 DEF Paying, TypeOK
  <2>2. <<b, expiries[b][x]>> \notin paid[e]
    BY <1>0, <1>5 DEF FreshInv, FreshAt
  <2>3. paid'[e] = paid[e] \cup {<<b, expiries[b][x]>>}
    BY <1>5 DEF TypeOK
  <2>4. IsFiniteSet(Paying(e)') /\ Cardinality(Paying(e)') = Cardinality(Paying(e)) + 1
    BY <1>2, <2>1, FS_AddElement DEF CopiesOf
  <2>5. IsFiniteSet(paid'[e]) /\ Cardinality(paid'[e]) = Cardinality(paid[e]) + 1
    BY <1>2, <2>2, <2>3, FS_AddElement DEF CopiesOf
  <2>6. Cardinality(Paying(e)) \in Nat /\ Cardinality(paid[e]) \in Nat
    BY <1>2, FS_CardinalityType DEF CopiesOf
  <2>7. ASSUME NEW c \in Brokers
        PROVE  enqueued'[c][e] + Owed(c, e)' + Cardinality(Paying(e)') <= Cardinality(paid'[e])
    <3>1. enqueued[c][e] \in Nat /\ Owed(c, e) \in Nat
      BY DEF TypeOK, Owed
    <3>2. enqueued[c][e] + Owed(c, e) + Cardinality(Paying(e)) <= Cardinality(paid[e])
      BY <1>2 DEF CopiesOf
    <3> QED
      BY <1>0, <1>3, <2>4, <2>5, <2>6, <3>1, <3>2
  <2> QED
    BY <2>4, <2>5, <2>7 DEF CopiesOf
<1>6. \/ (work' = [work EXCEPT ![b][x] = "refused"] /\ paid' = paid)
      \/ /\ work' = [work EXCEPT ![b][x] = "paid"]
         /\ paid' = [paid EXCEPT ![x] = @ \cup {<<b, expiries[b][x]>>}]
  BY DEF SpendCredit
<1> QED
  BY <1>4, <1>5, <1>6

\* The worker that held the approval gives it up for one copy on its own queue and at
\* most one for every sibling (mission_processor.go:70-74).
LEMMA CopiesApprove ==
  ASSUME NEW b \in Brokers, NEW x \in Events, TypeOK, TypeOK', CopiesInv, Approve(b, x)
  PROVE  CopiesInv'
<1>0. /\ work[b][x] = "paid" /\ work' = [work EXCEPT ![b][x] = "none"]
      /\ enqueued' = [enqueued EXCEPT ![b][x] = @ + 1]
      /\ gossip' = gossip \cup {Ack(c, x) : c \in view[b] \ {b}}
      /\ UNCHANGED <<shadow, paid>>
  BY DEF Approve, Enqueue, Broadcast, GetAllMembers, Ack
<1>1. SUFFICES ASSUME NEW e \in Events PROVE CopiesOf(e)'
  BY DEF CopiesInv
<1>2. CopiesOf(e)
  BY DEF CopiesInv
<1>3. CASE e # x
  <2>1. \A c \in Brokers : work'[c][e] = "paid" => work[c][e] = "paid"
    BY <1>0 DEF TypeOK
  <2>2. \A c \in Brokers : enqueued'[c][e] = enqueued[c][e]
    BY <1>0, <1>3 DEF TypeOK
  <2>3. \A c, d \in Brokers : Ack(c, e) # Ack(d, x)
    BY <1>3 DEF Ack
  <2>4. \A c \in Brokers : Ack(c, e) \in gossip' <=> Ack(c, e) \in gossip
    BY <1>0, <2>3 DEF TypeOK
  <2>5. \A c \in Brokers : Owed(c, e)' = Owed(c, e)
    BY <1>0, <2>4 DEF Owed, Ack
  <2>6. \A c \in Brokers : enqueued'[c][e] + Owed(c, e)' <= enqueued[c][e] + Owed(c, e)
    BY <2>2, <2>5 DEF TypeOK, Owed
  <2> QED
    BY <1>0, <1>2, <2>1, <2>6, CopiesKept
<1>4. CASE e = x
  <2>1. b \in Paying(e) /\ Paying(e)' = Paying(e) \ {b}
    BY <1>0, <1>4 DEF Paying, TypeOK
  <2>2. IsFiniteSet(Paying(e)') /\ Cardinality(Paying(e)') = Cardinality(Paying(e)) - 1
    BY <1>2, <2>1, FS_RemoveElement DEF CopiesOf
  <2>3. Cardinality(Paying(e)) \in Nat /\ Cardinality(paid[e]) \in Nat
    BY <1>2, FS_CardinalityType DEF CopiesOf
  <2>4. ASSUME NEW c \in Brokers
        PROVE  enqueued'[c][e] + Owed(c, e)' + Cardinality(Paying(e)') <= Cardinality(paid'[e])
    <3>1. enqueued[c][e] \in Nat /\ Owed(c, e) \in Nat
      BY DEF TypeOK, Owed
    <3>2. enqueued[c][e] + Owed(c, e) + Cardinality(Paying(e)) <= Cardinality(paid[e])
      BY <1>2 DEF CopiesOf
    <3>3. enqueued'[c][e] + Owed(c, e)' <= enqueued[c][e] + Owed(c, e) + 1
      <4>1. CASE c = b
        <5>1. \A d \in Brokers \ {b} : Ack(b, e) # Ack(d, x)
          BY DEF Ack
        <5>2. Ack(b, e) \in gossip' <=> Ack(b, e) \in gossip
          BY <1>0, <5>1 DEF TypeOK
        <5>3. Owed(b, e)' = Owed(b, e)
          BY <1>0, <5>2 DEF Owed, Ack
        <5>4. enqueued'[b][e] = enqueued[b][e] + 1
          BY <1>0, <1>4 DEF TypeOK
        <5> QED
          BY <4>1, <3>1, <5>3, <5>4
      <4>2. CASE c # b
        <5>1. enqueued'[c][e] = enqueued[c][e]
          BY <1>0, <4>2 DEF TypeOK
        <5>2. Owed(c, e)' <= Owed(c, e) + 1
          BY <1>0 DEF Owed
        <5>3. Owed(c, e)' \in Nat
          BY DEF Owed
        <5> QED
          BY <3>1, <5>1, <5>2, <5>3
      <4> QED
        BY <4>1, <4>2
    <3>4. enqueued'[c][e] \in Nat /\ Owed(c, e)' \in Nat
      BY DEF TypeOK, Owed
    <3> QED
      BY <1>0, <2>2, <2>3, <3>1, <3>2, <3>3, <3>4
  <2> QED
    BY <1>0, <1>2, <2>2, <2>4 DEF CopiesOf
<1> QED
  BY <1>3, <1>4

\* A rescued mission leaves the shadow buffer when it gets onto the queue
\* (shadowbuffer.go:33-42).
LEMMA CopiesRescue ==
  ASSUME NEW b \in Brokers, NEW x \in Events, TypeOK, TypeOK', CopiesInv, RescueVisit(b, x)
  PROVE  CopiesInv'
<1>0. UNCHANGED <<work, gossip, paid>>
  BY DEF RescueVisit, network
<1>1. SUFFICES ASSUME NEW e \in Events PROVE CopiesOf(e)'
  BY DEF CopiesInv
<1>2. CopiesOf(e)
  BY DEF CopiesInv
<1>3. \A c \in Brokers : enqueued'[c][e] + Owed(c, e)' <= enqueued[c][e] + Owed(c, e)
  <2>1. CASE x \in shadow[b] /\ Owns(b, x)
    <3>1. /\ enqueued' = [enqueued EXCEPT ![b][x] = @ + 1]
          /\ shadow' = [shadow EXCEPT ![b] = @ \ {x}]
      BY <2>1 DEF RescueVisit, Enqueue
    <3>2. ASSUME NEW c \in Brokers
          PROVE  enqueued'[c][e] + Owed(c, e)' <= enqueued[c][e] + Owed(c, e)
      <4>1. CASE c = b /\ e = x
        BY <1>0, <2>1, <3>1, <4>1 DEF Owed, TypeOK
      <4>2. CASE ~(c = b /\ e = x)
        <5>1. enqueued'[c][e] = enqueued[c][e]
          BY <3>1, <4>2 DEF TypeOK
        <5>2. e \in shadow'[c] <=> e \in shadow[c]
          BY <3>1, <4>2 DEF TypeOK
        <5>3. Owed(c, e)' = Owed(c, e)
          BY <1>0, <5>2 DEF Owed
        <5> QED
          BY <5>1, <5>3 DEF TypeOK, Owed
      <4> QED
        BY <4>1, <4>2
    <3> QED
      BY <3>2
  <2>2. CASE ~(x \in shadow[b] /\ Owns(b, x))
    <3>1. enqueued' = enqueued /\ shadow' = shadow
      BY <2>2 DEF RescueVisit
    <3> QED
      BY <1>0, <3>1 DEF Owed, TypeOK
  <2> QED
    BY <2>1, <2>2
<1> QED
  BY <1>0, <1>2, <1>3, CopiesKept

\* An ACK becomes a backup, a NACK nothing (http_server.go:215-229).
LEMMA CopiesSync ==
  ASSUME NEW g \in gossip, TypeOK, TypeOK', CopiesInv, ShadowSync(g)
  PROVE  CopiesInv'
<1>0. /\ UNCHANGED <<work, paid, enqueued>> /\ gossip' = gossip \ {g}
      /\ shadow' = IF g.action = "ACK" THEN [shadow EXCEPT ![g.to] = @ \cup {g.event}]
                   ELSE shadow
  BY DEF ShadowSync, history
<1>1. SUFFICES ASSUME NEW e \in Events PROVE CopiesOf(e)'
  BY DEF CopiesInv
<1>2. CopiesOf(e)
  BY DEF CopiesInv
<1>3. g \in Gossip
  BY DEF TypeOK
<1>4. ASSUME NEW c \in Brokers PROVE Owed(c, e)' <= Owed(c, e)
  <2>1. CASE g = Ack(c, e)
    <3>1. Ack(c, e) \in gossip /\ Ack(c, e) \notin gossip'
      BY <1>0, <2>1
    <3> QED
      BY <3>1 DEF Owed, Ack
  <2>2. CASE g # Ack(c, e)
    <3>1. ~(g.to = c /\ g.event = e /\ g.action = "ACK")
      BY <1>3, <2>2 DEF Ack, Gossip
    <3>2. e \in shadow'[c] => e \in shadow[c]
      BY <1>0, <1>3, <3>1 DEF TypeOK, Gossip
    <3>3. Ack(c, e) \in gossip' => Ack(c, e) \in gossip
      BY <1>0
    <3> QED
      BY <3>2, <3>3 DEF Owed, Ack
  <2> QED
    BY <2>1, <2>2
<1>5. \A c \in Brokers : enqueued'[c][e] + Owed(c, e)' <= enqueued[c][e] + Owed(c, e)
  BY <1>0, <1>4 DEF TypeOK, Owed
<1> QED
  BY <1>0, <1>2, <1>5, CopiesKept

\* A step that takes workers on or off, loses gossip, sends NACKs or loses a broker
\* approves nothing and queues nothing.
LEMMA CopiesElse ==
  ASSUME TypeOK, TypeOK', CopiesInv, UNCHANGED <<paid, enqueued>>,
         \A c \in Brokers, e \in Events : work'[c][e] = "paid" => work[c][e] = "paid",
         \A c \in Brokers : shadow'[c] \subseteq shadow[c],
         \A g \in gossip' : g \in gossip \/ g.action = "NACK"
  PROVE  CopiesInv'
<1>1. SUFFICES ASSUME NEW e \in Events PROVE CopiesOf(e)'
  BY DEF CopiesInv
<1>2. CopiesOf(e)
  BY DEF CopiesInv
<1>3. \A c \in Brokers : Ack(c, e) \in gossip' => Ack(c, e) \in gossip
  BY DEF Ack
<1>4. \A c \in Brokers : Owed(c, e)' <= Owed(c, e)
  BY <1>3 DEF Owed, Ack
<1>5. \A c \in Brokers : enqueued'[c][e] + Owed(c, e)' <= enqueued[c][e] + Owed(c, e)
  BY <1>4 DEF TypeOK, Owed
<1> QED
  BY <1>2, <1>5, CopiesKept

\* The approvals bound the copies: one step per operation
\* (mission_processor.go:38-80, http_server.go:215-229, shadowbuffer.go:22-48).
LEMMA CopiesStep ==
  TypeOK /\ FreshInv /\ CopiesInv /\ [Next]_vars => FreshInv' /\ CopiesInv'
<1> SUFFICES ASSUME TypeOK, TypeOK', FreshInv, CopiesInv, [Next]_vars
             PROVE  FreshInv' /\ CopiesInv'
  BY TypeStep
<1> DEFINE Silent == \A c \in Brokers, e \in Events : work'[c][e] = "paid" => work[c][e] = "paid"
<1>1. ASSUME NEW x \in Events, Sense(x) PROVE FreshInv' /\ CopiesInv'
  <2>1. UNCHANGED core
    BY <1>1 DEF Sense, core, topology
  <2> QED
    BY <2>1, StillCore
<1>2. ASSUME NEW p \in packets, PacketLost(p) PROVE FreshInv' /\ CopiesInv'
  <2>1. UNCHANGED core
    BY <1>2 DEF PacketLost, core, topology, history
  <2> QED
    BY <2>1, StillCore
<1>3. ASSUME NEW g \in gossip, GossipLost(g) PROVE FreshInv' /\ CopiesInv'
  <2>1. UNCHANGED <<crashed, filter, work, shadow, expiries, paid, enqueued>> /\ gossip' \subseteq gossip
    BY <1>3 DEF GossipLost, topology, history
  <2>2. FreshInv'
    BY <2>1 DEF FreshInv, FreshAt
  <2> QED
    BY <2>1, <2>2, CopiesElse
<1>4. ASSUME NEW g \in gossip, ShadowSync(g) PROVE FreshInv' /\ CopiesInv'
  <2>1. UNCHANGED <<crashed, work, expiries, paid>> /\ filter' = [filter EXCEPT ![g.to] = @ \cup {g.event}]
    BY <1>4 DEF ShadowSync, CheckAndAdd, topology, history
  <2>2. \A c \in Brokers, e \in Events : e \in filter[c] => e \in filter'[c]
    BY <2>1 DEF TypeOK
  <2>3. FreshInv'
    BY <2>1, <2>2 DEF FreshInv, FreshAt
  <2> QED
    BY <1>4, <2>3, CopiesSync
<1>5. ASSUME NEW b \in Brokers, NEW x \in Events, Take(b, x) PROVE FreshInv' /\ CopiesInv'
  <2>1. /\ UNCHANGED <<crashed, shadow, gossip, expiries, paid, enqueued>>
        /\ filter' = [filter EXCEPT ![b] = @ \cup {x}]
        /\ work' = IF x \in filter[b] THEN work ELSE [work EXCEPT ![b][x] = "taken"]
        /\ b \in up /\ work[b][x] = "none"
    BY <1>5 DEF Take, CheckAndAdd, topology, history
  <2>2. \A c \in Brokers, e \in Events : e \in filter[c] => e \in filter'[c]
    BY <2>1 DEF TypeOK
  <2>3. ASSUME NEW c \in Brokers, NEW e \in Events PROVE FreshAt(c, e)'
    <3>0. FreshAt(c, e)
      BY DEF FreshInv
    <3>1. CASE c = b /\ e = x /\ x \notin filter[b]
      <4>1. work'[b][x] = "taken" /\ x \in filter'[b] /\ b \notin crashed
        BY <2>1, <3>1 DEF TypeOK
      <4>2. <<b, expiries[b][x]>> \notin paid[x]
        BY <3>0, <3>1, <4>1 DEF FreshAt
      <4> QED
        BY <2>1, <3>0, <3>1, <4>1, <4>2 DEF FreshAt
    <3>2. CASE ~(c = b /\ e = x /\ x \notin filter[b])
      <4>1. work'[c][e] = work[c][e]
        BY <2>1, <3>2 DEF TypeOK
      <4> QED
        BY <2>1, <2>2, <3>0, <4>1 DEF FreshAt
    <3> QED
      BY <3>1, <3>2
  <2>4. Silent
    BY <2>1 DEF TypeOK
  <2>5. CopiesInv'
    BY <2>1, <2>4, CopiesElse
  <2> QED
    BY <2>3, <2>5 DEF FreshInv
<1>6. ASSUME NEW b \in Brokers, NEW x \in Events, Forward(b, x) PROVE FreshInv' /\ CopiesInv'
  <2>1. /\ UNCHANGED <<crashed, filter, shadow, gossip, expiries, paid, enqueued>>
        /\ work' = [work EXCEPT ![b][x] = "none"] /\ work[b][x] = "taken"
    BY <1>6 DEF Forward, topology, history
  <2>2. FreshInv'
    BY <2>1 DEF FreshInv, FreshAt, TypeOK
  <2>3. Silent
    BY <2>1 DEF TypeOK
  <2> QED
    BY <2>1, <2>2, <2>3, CopiesElse
<1>7. ASSUME NEW b \in Brokers, NEW x \in Events, Charge(b, x) PROVE FreshInv' /\ CopiesInv'
  <2>1. /\ UNCHANGED <<crashed, filter, shadow, gossip, expiries, paid, enqueued>>
        /\ work' = [work EXCEPT ![b][x] = "charging"] /\ work[b][x] = "taken"
    BY <1>7 DEF Charge, topology, network, history
  <2>2. FreshInv'
    BY <2>1 DEF FreshInv, FreshAt, TypeOK
  <2>3. Silent
    BY <2>1 DEF TypeOK
  <2> QED
    BY <2>1, <2>2, <2>3, CopiesElse
<1>8. ASSUME NEW b \in Brokers, NEW x \in Events, SpendCredit(b, x) PROVE FreshInv' /\ CopiesInv'
  <2>1. UNCHANGED <<crashed, filter, expiries>> /\ work[b][x] = "charging"
    BY <1>8 DEF SpendCredit, topology
  <2>2. ASSUME NEW c \in Brokers, NEW e \in Events PROVE FreshAt(c, e)'
    <3>0. FreshAt(c, e) /\ FreshAt(b, x)
      BY DEF FreshInv
    <3>1. CASE work' = [work EXCEPT ![b][x] = "refused"] /\ paid' = paid
      BY <2>1, <3>0, <3>1 DEF FreshAt, TypeOK
    <3>2. CASE work' = [work EXCEPT ![b][x] = "paid"]
               /\ paid' = [paid EXCEPT ![x] = @ \cup {<<b, expiries[b][x]>>}]
      <4>1. CASE c = b /\ e = x
        <5>1. work'[b][x] = "paid" /\ x \in filter[b] /\ b \notin crashed
          BY <2>1, <3>0, <3>2 DEF FreshAt, TypeOK
        <5>2. paid'[x] = paid[x] \cup {<<b, expiries[b][x]>>}
          BY <3>2 DEF TypeOK
        <5>3. \A y \in 0 .. MaxExpiries : <<b, y>> \in paid'[x] => y <= expiries[b][x]
          BY <3>0, <5>2, ClusterAssumption DEF FreshAt, TypeOK
        <5> QED
          BY <2>1, <4>1, <5>1, <5>3 DEF FreshAt
      <4>2. CASE ~(c = b /\ e = x)
        <5>1. work'[c][e] = work[c][e]
          BY <3>2, <4>2 DEF TypeOK
        <5>2. \A y : <<c, y>> \in paid'[e] => <<c, y>> \in paid[e]
          BY <3>2, <4>2 DEF TypeOK
        <5> QED
          BY <2>1, <3>0, <5>1, <5>2 DEF FreshAt
      <4> QED
        BY <4>1, <4>2
    <3> QED
      BY <1>8, <3>1, <3>2 DEF SpendCredit
  <2> QED
    BY <1>8, <2>2, CopiesSpend DEF FreshInv
<1>9. ASSUME NEW b \in Brokers, NEW x \in Events, Approve(b, x) PROVE FreshInv' /\ CopiesInv'
  <2>1. /\ UNCHANGED <<crashed, filter, expiries, paid>>
        /\ work' = [work EXCEPT ![b][x] = "none"] /\ work[b][x] = "paid"
    BY <1>9 DEF Approve, topology
  <2>2. FreshInv'
    BY <2>1 DEF FreshInv, FreshAt, TypeOK
  <2> QED
    BY <1>9, <2>2, CopiesApprove
<1>10. ASSUME NEW b \in Brokers, NEW x \in Events, Reject(b, x) PROVE FreshInv' /\ CopiesInv'
  <2>1. /\ UNCHANGED <<crashed, filter, shadow, expiries, paid, enqueued>>
        /\ work' = [work EXCEPT ![b][x] = "none"] /\ work[b][x] = "refused"
    BY <1>10 DEF Reject, topology, history
  <2>2. FreshInv'
    BY <2>1 DEF FreshInv, FreshAt, TypeOK
  <2>3. \A g \in gossip' : g \in gossip \/ g.action = "NACK"
    BY <1>10 DEF Reject, Broadcast
  <2>4. Silent
    BY <2>1 DEF TypeOK
  <2> QED
    BY <2>1, <2>2, <2>3, <2>4, CopiesElse
<1>11. ASSUME NEW b \in Brokers, NEW x \in Events, UnverifiedExpire(b, x) PROVE FreshInv' /\ CopiesInv'
  <2>1. UNCHANGED core
    BY <1>11 DEF UnverifiedExpire, core, topology, network, history
  <2> QED
    BY <2>1, StillCore
<1>12. ASSUME NEW b \in Brokers, NEW x \in Events, FilterExpire(b, x) PROVE FreshInv' /\ CopiesInv'
  <2>1. /\ UNCHANGED <<crashed, work, shadow, gossip, paid, enqueued>>
        /\ filter' = [filter EXCEPT ![b] = @ \ {x}]
        /\ expiries' = [expiries EXCEPT ![b][x] = @ + 1]
        /\ work[b][x] = "none"
    BY <1>12 DEF FilterExpire, topology, network
  <2>2. ASSUME NEW c \in Brokers, NEW e \in Events PROVE FreshAt(c, e)'
    <3>0. FreshAt(c, e)
      BY DEF FreshInv
    <3>1. CASE c = b /\ e = x
      <4>1. expiries'[b][x] = expiries[b][x] + 1 /\ expiries'[b][x] \in 0 .. MaxExpiries
            /\ expiries[b][x] \in 0 .. MaxExpiries
        BY <2>1 DEF TypeOK
      <4>2. \A y \in 0 .. MaxExpiries : <<b, y>> \in paid[x] => y < expiries'[b][x]
        BY <3>0, <3>1, <4>1, ClusterAssumption DEF FreshAt
      <4>3. <<b, expiries'[b][x]>> \notin paid[x]
        BY <4>1, <4>2, ClusterAssumption
      <4> QED
        BY <2>1, <3>1, <4>1, <4>2, <4>3, ClusterAssumption DEF FreshAt
    <3>2. CASE ~(c = b /\ e = x)
      <4>1. expiries'[c][e] = expiries[c][e] /\ (e \in filter[c] => e \in filter'[c])
        BY <2>1, <3>2 DEF TypeOK
      <4> QED
        BY <2>1, <3>0, <4>1 DEF FreshAt
    <3> QED
      BY <3>1, <3>2
  <2>3. CopiesInv'
    BY <2>1, CopiesElse
  <2> QED
    BY <2>2, <2>3 DEF FreshInv
<1>13. ASSUME NEW b \in Brokers, NEW x \in Events, QueuePop(b, x) PROVE FreshInv' /\ CopiesInv'
  <2>1. UNCHANGED core
    BY <1>13 DEF QueuePop, core, topology, network
  <2> QED
    BY <2>1, StillCore
<1>14. ASSUME NEW b \in Brokers, NEW x \in Events, RescueVisit(b, x) PROVE FreshInv' /\ CopiesInv'
  <2>1. UNCHANGED <<crashed, filter, work, expiries, paid>>
    BY <1>14 DEF RescueVisit, topology
  <2>2. FreshInv'
    BY <2>1 DEF FreshInv, FreshAt
  <2> QED
    BY <1>14, <2>2, CopiesRescue
<1>15. ASSUME NEW b \in Brokers, WatchTopology(b) PROVE FreshInv' /\ CopiesInv'
  <2>1. UNCHANGED core
    BY <1>15 DEF WatchTopology, core, topology, network, history
  <2> QED
    BY <2>1, StillCore
<1>16. ASSUME NEW b \in Brokers, Start(b) PROVE FreshInv' /\ CopiesInv'
  <2>1. UNCHANGED core
    BY <1>16 DEF Start, core, network, history
  <2> QED
    BY <2>1, StillCore
<1>17. ASSUME NEW b \in Brokers, Crash(b) PROVE FreshInv' /\ CopiesInv'
  <2>1. /\ UNCHANGED <<gossip, expiries, paid, enqueued>>
        /\ crashed' = crashed \cup {b}
        /\ filter' = [filter EXCEPT ![b] = {}]
        /\ work' = [work EXCEPT ![b] = [e \in Events |-> "none"]]
        /\ shadow' = [shadow EXCEPT ![b] = {}]
    BY <1>17 DEF Crash, network, history
  <2>2. ASSUME NEW c \in Brokers, NEW e \in Events PROVE FreshAt(c, e)'
    <3>0. FreshAt(c, e)
      BY DEF FreshInv
    <3>1. CASE c = b
      <4>1. work'[c][e] = "none" /\ c \in crashed'
        BY <2>1, <3>1 DEF TypeOK
      <4> QED
        BY <2>1, <3>0, <4>1 DEF FreshAt
    <3>2. CASE c # b
      <4>1. work'[c][e] = work[c][e] /\ filter'[c] = filter[c] /\ (c \in crashed' <=> c \in crashed)
        BY <2>1, <3>2 DEF TypeOK
      <4> QED
        BY <2>1, <3>0, <4>1 DEF FreshAt
    <3> QED
      BY <3>1, <3>2
  <2>3. Silent
    BY <2>1 DEF TypeOK
  <2>4. \A c \in Brokers : shadow'[c] \subseteq shadow[c]
    BY <2>1 DEF TypeOK
  <2>5. CopiesInv'
    BY <2>1, <2>3, <2>4, CopiesElse
  <2> QED
    BY <2>2, <2>5 DEF FreshInv
<1>18. ASSUME DnsUpdate PROVE FreshInv' /\ CopiesInv'
  <2>1. UNCHANGED core
    BY <1>18 DEF DnsUpdate, core, network, history
  <2> QED
    BY <2>1, StillCore
<1>19. ASSUME UNCHANGED vars PROVE FreshInv' /\ CopiesInv'
  <2>1. UNCHANGED core
    BY <1>19 DEF vars, core, topology, network, history
  <2> QED
    BY <2>1, StillCore
<1> QED
  BY <1>1, <1>2, <1>3, <1>4, <1>5, <1>6, <1>7, <1>8, <1>9, <1>10, <1>11, <1>12, <1>13, <1>14, <1>15, <1>16, <1>17, <1>18, <1>19 DEF Next

\* Nothing is approved or queued at first.
LEMMA CopiesInit == Init => FreshInv /\ CopiesInv
<1> SUFFICES ASSUME Init PROVE FreshInv /\ CopiesInv
  OBVIOUS
<1>1. FreshInv
  BY DEF Init, FreshInv, FreshAt
<1>2. ASSUME NEW e \in Events PROVE CopiesOf(e)
  <2>1. paid[e] = {} /\ Paying(e) = {}
    BY DEF Init, Paying
  <2>2. \A b \in Brokers : enqueued[b][e] = 0 /\ Owed(b, e) = 0
    BY DEF Init, Owed
  <2>3. IsFiniteSet({}) /\ Cardinality({}) = 0
    BY FS_EmptySet
  <2> QED
    BY <2>1, <2>2, <2>3 DEF CopiesOf
<1> QED
  BY <1>1, <1>2 DEF CopiesInv

-----------------------------------------------------------------------------

\* A cluster starts with nothing in memory (cmd/broker/main.go:22-31).
LEMMA ClusterInit == Init => ClusterInv
<1> SUFFICES ASSUME Init PROVE VerdictInv /\ FliesOnlyIfApproved
  BY TypeInit DEF ClusterInv
<1> QED
  BY DEF Init, VerdictInv, FliesOnlyIfApproved

\* The inductive invariant: types, and that an approval is under way, as a worker's
\* result or as gossip, only if SpendCredit gave it.
THEOREM ClusterInvariant == Spec => []ClusterInv
<1>1. ClusterInv /\ [Next]_vars => ClusterInv'
  BY TypeStep, VerdictStep, PaymentStep DEF ClusterInv
<1> QED
  BY <1>1, ClusterInit, PTL DEF Spec

\* Every reachable state of a cluster has its type (cmd/broker/main.go:16-61).
THEOREM ClusterTypes == Spec => []TypeOK
BY ClusterInvariant, PTL DEF ClusterInv

\* For any brokers, events, placement of sectors, crashes and losses: no mission is
\* queued, backed up or handed to a station unless SpendCredit returned true for it
\* (mission_processor.go:68-80, http_server.go:215-229, shadowbuffer.go:22-48).
THEOREM NothingFliesUnapproved == Spec => []FliesOnlyIfApproved
BY ClusterInvariant, PTL DEF ClusterInv

\* For any brokers, events, crashes and losses: a broker queues a mission at most once
\* for every approval SpendCredit gave, and each of them is a broker's only one for as
\* long as its filter remembers the event; duplicated packets, gossip and rescues
\* multiply nothing (mission_processor.go:38-80, shadowbuffer.go:22-48).
THEOREM NoCopyUnpaid == Spec => []CopiesBounded
<1>1. TypeOK /\ FreshInv /\ CopiesInv => CopiesBounded
  <2> SUFFICES ASSUME TypeOK, CopiesInv, NEW b \in Brokers, NEW e \in Events
               PROVE  enqueued[b][e] <= Cardinality(paid[e])
    BY DEF CopiesBounded
  <2>1. CopiesOf(e)
    BY DEF CopiesInv
  <2>2. Cardinality(Paying(e)) \in Nat /\ Cardinality(paid[e]) \in Nat
    BY <2>1, FS_CardinalityType DEF CopiesOf
  <2>3. enqueued[b][e] \in Nat /\ Owed(b, e) \in Nat
    BY DEF TypeOK, Owed
  <2> QED
    BY <2>1, <2>2, <2>3 DEF CopiesOf
<1> QED
  BY <1>1, TypeInit, TypeStep, CopiesInit, CopiesStep, PTL DEF Spec

=============================================================================
