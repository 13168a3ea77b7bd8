-------------------------------- MODULE Intake --------------------------------
(***************************************************************************)
(* From the load generator to the workers of the brokers: the engine and   *)
(* its bounded channel (internal/sensor/load_generator.go), the discovery  *)
(* of the brokers and the multicast (cmd/sensor/main.go), the UDP          *)
(* listener with its bounded channel (cmd/broker/main.go) and the workers  *)
(* that empty it (cmd/broker/mission_processor.go).  A worker whose broker *)
(* does not own the sector sends the requisition on to the owner's UDP     *)
(* port, so the channels have two producers: the sensor and the workers of *)
(* the other brokers.                                                      *)
(*                                                                         *)
(* Both channels are sent to without blocking: what finds them full is     *)
(* dropped without a trace.  Which broker owns a sector and what becomes   *)
(* of an approved requisition is the subject of BrokerCluster; here any    *)
(* worker may find its broker the owner or not, and SpendCredit is the     *)
(* time until process returns.                                             *)
(***************************************************************************)
EXTENDS Integers, FiniteSets, Sequences, SequencesExt

CONSTANTS
    Brokers,        \* addresses of broker containers
    Initial,        \* the ones that run at first; others may start later
    Requisitions,   \* telemetry the engine marks as a threat
    Noise,          \* all other telemetry
    Workers,        \* workers of one broker: 10 in the code
    TelemetryCap,   \* capacity of telemetryChan: 500 in the code
    PacketCap,      \* capacity of rawPacketsChan: 5000 in the code
    MaxExpiries,    \* bound: an event some filter forgot this often is kept
    Idle            \* a worker without a packet

Events == Requisitions \cup Noise

\* A datagram: the event and the brokers that sent it on, the sensor's has none.
\* No two datagrams are the same, for a broker sends one on at most once.
Packets == Events \X Seq(Brokers)
FromSensor(E) == {<<e, <<>>>> : e \in E}
SentOn(p, b) == <<p[1], Append(p[2], b)>>

ASSUME IntakeAssumption ==
    /\ Initial \subseteq Brokers
    /\ Requisitions \cap Noise = {} /\ Idle \notin Packets
    /\ TelemetryCap \in Nat \ {0} /\ PacketCap \in Nat \ {0}
    /\ MaxExpiries \in Nat

VARIABLES
    up, gone,    \* brokers running, brokers that crashed
    running,     \* the sensor process has not been told to stop
    known,       \* brokerList of the sensor
    telemetry,   \* telemetryChan
    fired,       \* history: events the engine generated
    \* of each broker
    wire,        \* datagrams under way to it
    channel,     \* rawPacketsChan
    hand,        \* worker -> the packet process runs on, or Idle
    passed,      \* workers whose packet is past the filter
    filter,      \* events the IdempotencyFilter remembers
    expiries,    \* event -> times the filter forgot it
    \* history of each broker: packets
    forwarded,   \* sent to it by other brokers
    done,        \* its workers returned from
    lost,        \* that will never reach a worker
    overrun      \* its full channel turned away

sensorVars == <<running, known, telemetry, fired>>
filterVars == <<passed, filter, expiries>>
vars == <<up, gone, sensorVars, wire, channel, hand, filterVars, forwarded, done,
          lost, overrun>>

-----------------------------------------------------------------------------
(* Sensor *)

\* Packets P never reach the brokers B.
Lose(B, P) == lost' = [b \in Brokers |-> IF b \in B THEN lost[b] \cup P ELSE lost[b]]

\* Mutant of Fire: the channel has no capacity.
FireUnbounded(e) ==
    /\ running /\ e \notin fired
    /\ fired' = fired \cup {e}
    /\ telemetry' = Append(telemetry, e)
    /\ UNCHANGED <<up, gone, running, known, wire, channel, hand, filterVars,
                   forwarded, done, lost, overrun>>

\* fire: one event on every tick, thrown away when telemetryChan is full.
Fire(e) ==
    /\ running /\ e \notin fired
    /\ fired' = fired \cup {e}
    /\ \/ /\ Len(telemetry) < TelemetryCap
          /\ telemetry' = Append(telemetry, e)
          /\ UNCHANGED lost
       \/ /\ Len(telemetry) = TelemetryCap
          /\ Lose(Brokers, FromSensor({e}))
          /\ UNCHANGED telemetry
    /\ UNCHANGED <<up, gone, running, known, wire, channel, hand, filterVars,
                   forwarded, done, overrun>>

\* Mutant of watchBrokerDNS: the list is resolved once and kept.
WatchBrokerDNSOnce ==
    /\ running /\ up # {} /\ known = {}
    /\ known' = up
    /\ UNCHANGED <<up, gone, running, telemetry, fired, wire, channel, hand,
                   filterVars, forwarded, done, lost, overrun>>

\* A tick of watchBrokerDNS that finds a change.  A failed or empty lookup leaves
\* the list as it is.
WatchBrokerDNS ==
    /\ running /\ up # {} /\ up # known
    /\ known' = up
    /\ UNCHANGED <<up, gone, running, telemetry, fired, wire, channel, hand,
                   filterVars, forwarded, done, lost, overrun>>

\* The multicast goroutine: a datagram for every broker on the list of the moment.
Multicast ==
    /\ running /\ telemetry # <<>>
    /\ LET P == FromSensor({Head(telemetry)}) IN
         /\ wire' = [b \in Brokers |-> IF b \in known THEN wire[b] \cup P ELSE wire[b]]
         /\ Lose(Brokers \ known, P)
    /\ telemetry' = Tail(telemetry)
    /\ UNCHANGED <<up, gone, running, known, fired, channel, hand, filterVars,
                   forwarded, done, overrun>>

\* SIGTERM: the goroutines return and what is left in telemetryChan is gone.
Shutdown ==
    /\ running
    /\ running' = FALSE
    /\ telemetry' = <<>>
    /\ Lose(Brokers, FromSensor(ToSet(telemetry)))
    /\ UNCHANGED <<up, gone, known, fired, wire, channel, hand, filterVars,
                   forwarded, done, overrun>>

-----------------------------------------------------------------------------
(* UDP listener *)

\* A datagram nobody reads.
PacketLost(b, p) ==
    /\ p \in wire[b]
    /\ wire' = [wire EXCEPT ![b] = @ \ {p}]
    /\ lost' = [lost EXCEPT ![b] = @ \cup {p}]
    /\ UNCHANGED <<up, gone, sensorVars, channel, hand, filterVars, forwarded, done,
                   overrun>>

Read(b, p) ==
    /\ b \in up /\ p \in wire[b]
    /\ wire' = [wire EXCEPT ![b] = @ \ {p}]
    /\ UNCHANGED <<up, gone, sensorVars, hand, filterVars, forwarded, done>>

Queued(b, p) ==
    /\ channel' = [channel EXCEPT ![b] = Append(@, p)]
    /\ UNCHANGED <<lost, overrun>>

TurnedAway(b, p) ==
    /\ lost' = [lost EXCEPT ![b] = @ \cup {p}]
    /\ overrun' = [overrun EXCEPT ![b] = @ \cup {p}]
    /\ UNCHANGED channel

\* Mutants of Ingest: a full channel loses its oldest packet instead; one place
\* stays empty.
IngestOverwrites(b, p) ==
    /\ Read(b, p)
    /\ channel' = [channel EXCEPT ![b] =
                     Append(IF Len(@) < PacketCap THEN @ ELSE Tail(@), p)]
    /\ UNCHANGED <<lost, overrun>>
IngestOffByOne(b, p) ==
    /\ Read(b, p)
    /\ \/ Len(channel[b]) < PacketCap - 1 /\ Queued(b, p)
       \/ Len(channel[b]) >= PacketCap - 1 /\ TurnedAway(b, p)

\* startUDPIngestion: the packet is queued, or dropped when the channel is full.
Ingest(b, p) ==
    /\ Read(b, p)
    /\ \/ Len(channel[b]) < PacketCap /\ Queued(b, p)
       \/ Len(channel[b]) = PacketCap /\ TurnedAway(b, p)

-----------------------------------------------------------------------------
(* Workers *)

InHand(b) == {hand[b][w] : w \in Workers} \ {Idle}

\* A worker takes the next packet, whatever it is.
Take(b, w) ==
    /\ b \in up /\ hand[b][w] = Idle /\ channel[b] # <<>>
    /\ hand' = [hand EXCEPT ![b][w] = Head(channel[b])]
    /\ channel' = [channel EXCEPT ![b] = Tail(@)]
    /\ UNCHANGED <<up, gone, sensorVars, wire, filterVars, forwarded, done, lost,
                   overrun>>

\* process returns and the worker turns to the channel again.
Finish(b, w) ==
    /\ done' = [done EXCEPT ![b] = @ \cup {hand[b][w]}]
    /\ hand' = [hand EXCEPT ![b][w] = Idle]
    /\ passed' = [passed EXCEPT ![b] = @ \ {w}]
    /\ UNCHANGED <<up, gone, sensorVars, channel, filter, expiries, lost, overrun>>

Passes(b, p) == p[1] \in Requisitions /\ p[1] \notin filter[b]

\* Mutant of Drop: a worker does not come back from noise.
DropLast(b, w) ==
    /\ hand[b][w] # Idle /\ w \notin passed[b] /\ ~Passes(b, hand[b][w])
    /\ hand[b][w][1] \in filter[b]
    /\ Finish(b, w)
    /\ UNCHANGED <<wire, forwarded>>

\* process, early returns: noise, or an event the filter knows.
Drop(b, w) ==
    /\ hand[b][w] # Idle /\ w \notin passed[b] /\ ~Passes(b, hand[b][w])
    /\ Finish(b, w)
    /\ UNCHANGED <<wire, forwarded>>

\* Mutant of CheckAndAdd: known events pass as well.
CheckAndAddAlways(b, w) ==
    /\ hand[b][w] # Idle /\ w \notin passed[b] /\ hand[b][w][1] \in Requisitions
    /\ filter' = [filter EXCEPT ![b] = @ \cup {hand[b][w][1]}]
    /\ passed' = [passed EXCEPT ![b] = @ \cup {w}]
    /\ UNCHANGED <<up, gone, sensorVars, wire, channel, hand, expiries, forwarded,
                   done, lost, overrun>>

\* process of a new requisition: LoadOrStore of the filter.
CheckAndAdd(b, w) ==
    /\ hand[b][w] # Idle /\ w \notin passed[b] /\ Passes(b, hand[b][w])
    /\ filter' = [filter EXCEPT ![b] = @ \cup {hand[b][w][1]}]
    /\ passed' = [passed EXCEPT ![b] = @ \cup {w}]
    /\ UNCHANGED <<up, gone, sensorVars, wire, channel, hand, expiries, forwarded,
                   done, lost, overrun>>

\* process of the owner: SpendCredit answers after 8.5 s at most.
Return(b, w) ==
    /\ w \in passed[b]
    /\ Finish(b, w)
    /\ UNCHANGED <<wire, forwarded>>

\* process of another broker: forwardPacket sends the event to the owner o its ring
\* names, which may have crashed since.
Forward(b, w, o) ==
    /\ w \in passed[b] /\ o \in (up \cup gone) \ {b}
    /\ wire' = [wire EXCEPT ![o] = @ \cup {SentOn(hand[b][w], b)}]
    /\ forwarded' = [forwarded EXCEPT ![o] = @ \cup {SentOn(hand[b][w], b)}]
    /\ Finish(b, w)

Process(b, w) ==
    \/ Drop(b, w) \/ CheckAndAdd(b, w) \/ Return(b, w)
    \/ \E o \in Brokers : Forward(b, w, o)

\* handleShadowSync: the verdict of another broker, once it is done with the event,
\* marks the event as seen.
HandleShadowSync(b, e) ==
    /\ b \in up /\ e \notin filter[b]
    /\ \E c \in Brokers \ {b} : \E p \in done[c] : p[1] = e
    /\ filter' = [filter EXCEPT ![b] = @ \cup {e}]
    /\ UNCHANGED <<up, gone, sensorVars, wire, channel, hand, passed, expiries,
                   forwarded, done, lost, overrun>>

\* cleanupWorker of the filter: 60 s, longer than process takes.
FilterExpire(b, e) ==
    /\ e \in filter[b] /\ \A c \in Brokers : expiries[c][e] < MaxExpiries
    /\ \A w \in passed[b] : hand[b][w][1] # e
    /\ filter' = [filter EXCEPT ![b] = @ \ {e}]
    /\ expiries' = [expiries EXCEPT ![b][e] = @ + 1]
    /\ UNCHANGED <<up, gone, sensorVars, wire, channel, hand, passed, forwarded,
                   done, lost, overrun>>

-----------------------------------------------------------------------------
(* Containers *)

\* A broker container dies with everything it holds; a new one has a new address.
Crash(b) ==
    /\ b \in up
    /\ up' = up \ {b} /\ gone' = gone \cup {b}
    /\ Lose({b}, InHand(b) \cup ToSet(channel[b]))
    /\ channel' = [channel EXCEPT ![b] = <<>>]
    /\ hand' = [hand EXCEPT ![b] = [w \in Workers |-> Idle]]
    /\ passed' = [passed EXCEPT ![b] = {}]
    /\ filter' = [filter EXCEPT ![b] = {}]
    /\ UNCHANGED <<sensorVars, wire, expiries, forwarded, done, overrun>>

Start(b) ==
    /\ b \notin up \cup gone
    /\ up' = up \cup {b}
    /\ UNCHANGED <<gone, sensorVars, wire, channel, hand, filterVars, forwarded, done,
                   lost, overrun>>

-----------------------------------------------------------------------------

Init ==
    /\ up = Initial /\ gone = {}
    /\ running = TRUE /\ known = {}
    /\ telemetry = <<>> /\ fired = {}
    /\ channel = [b \in Brokers |-> <<>>]
    /\ hand = [b \in Brokers |-> [w \in Workers |-> Idle]]
    /\ passed = [b \in Brokers |-> {}]
    /\ filter = [b \in Brokers |-> {}]
    /\ expiries = [b \in Brokers |-> [e \in Requisitions |-> 0]]
    /\ wire = [b \in Brokers |-> {}]
    /\ forwarded = [b \in Brokers |-> {}]
    /\ done = [b \in Brokers |-> {}]
    /\ lost = [b \in Brokers |-> {}]
    /\ overrun = [b \in Brokers |-> {}]

Next ==
    \/ \E e \in Events : Fire(e)
    \/ WatchBrokerDNS
    \/ Multicast
    \/ Shutdown
    \/ \E b \in Brokers :
        \/ \E p \in wire[b] : PacketLost(b, p) \/ Ingest(b, p)
        \/ \E w \in Workers : Take(b, w) \/ Process(b, w)
        \/ \E e \in Requisitions : HandleShadowSync(b, e) \/ FilterExpire(b, e)
        \/ Crash(b)
        \/ Start(b)

Spec == Init /\ [][Next]_vars

\* The goroutines run, the ticker of the discovery fires, a datagram arrives or
\* does not, and process returns because SpendCredit has timeouts.  The engine, the
\* shutdown, the gossip, the expiry and the containers are left to chance.
FairSpec ==
    /\ Spec
    /\ WF_vars(WatchBrokerDNS) /\ WF_vars(Multicast)
    /\ \A b \in Brokers :
          /\ WF_vars(\E p \in wire[b] : PacketLost(b, p) \/ Ingest(b, p))
          /\ WF_vars(\E w \in Workers : Take(b, w))
          /\ \A w \in Workers : WF_vars(Process(b, w))

-----------------------------------------------------------------------------
(* Properties *)

TypeOK ==
    /\ up \subseteq Brokers /\ gone \subseteq Brokers /\ running \in BOOLEAN
    /\ known \subseteq Brokers /\ fired \subseteq Events
    /\ telemetry \in Seq(Events) /\ Len(telemetry) <= TelemetryCap
    /\ channel \in [Brokers -> Seq(Packets)]
    /\ \A b \in Brokers : Len(channel[b]) <= PacketCap
    /\ hand \in [Brokers -> [Workers -> Packets \cup {Idle}]]
    /\ passed \in [Brokers -> SUBSET Workers]
    /\ \A b \in Brokers : \A w \in passed[b] : hand[b][w] # Idle
    /\ filter \in [Brokers -> SUBSET Requisitions]
    /\ expiries \in [Brokers -> [Requisitions -> 0 .. MaxExpiries]]
    /\ wire \in [Brokers -> SUBSET Packets]
    /\ forwarded \in [Brokers -> SUBSET Packets]
    /\ done \in [Brokers -> SUBSET Packets]
    /\ lost \in [Brokers -> SUBSET Packets]
    /\ overrun \in [Brokers -> SUBSET Packets]

\* The packets meant for broker b: one of the sensor for every event, and those
\* other brokers sent on.
Sent(b) == FromSensor(fired) \cup forwarded[b]

\* The places a packet for broker b can be in.
Stages(b) ==
    <<FromSensor(ToSet(telemetry)), wire[b], ToSet(channel[b]), InHand(b), done[b],
      lost[b]>>

\* The packets the listener of a running broker has read.
Reached(b) == done[b] \cup InHand(b) \cup ToSet(channel[b]) \cup overrun[b]

\* Nothing is doubled and nothing vanishes unnoticed between the engine, the workers
\* that send packets on and the workers that take them: a packet for a broker is in
\* exactly one place, and two workers never hold the same one
\* (load_generator.go:71-77, sensor/main.go:126-147, broker/main.go:75-89,
\* mission_processor.go:57-65, 114-116).
IntakeConserved ==
    /\ \A b \in Brokers :
          /\ Sent(b) = UNION {Stages(b)[i] : i \in 1 .. 6}
          /\ \A i, j \in 1 .. 6 : i # j => Stages(b)[i] \cap Stages(b)[j] = {}
    /\ \A b \in Brokers, v, w \in Workers :
          hand[b][v] = hand[b][w] /\ hand[b][v] # Idle => v = w

\* A broker whose workers are all stuck in SpendCredit still takes a burst as
\* large as its channel: it has dropped a packet only if more than PacketCap, sent
\* by the sensor or by other brokers, reached it (broker/main.go:57, 84-88).
BurstAbsorbed ==
    \A b \in up : overrun[b] # {} => Cardinality(Reached(b)) > PacketCap

\* Packets of requisition e that broker b sent on.
SentOnBy(b, e) ==
    UNION {{<<o, p>> : p \in {q \in forwarded[o] : q[1] = e /\ Last(q[2]) = b}} :
             o \in Brokers}

\* Brokers do not feed each other's channels for ever: however many copies of a
\* requisition reach a broker and however its workers race for them, it sends the
\* requisition on once, and once more each time its filter forgot it
\* (mission_processor.go:38-42, 57-65, idempotency_table.go:26-54).
ForwardsBounded ==
    \A b \in Brokers, e \in Requisitions :
        Cardinality(SentOnBy(b, e)) <= 1 + expiries[b][e]

\* Every generated event comes to rest at every broker, with all its copies: a
\* worker is done with the packet or it was lost on the way.  No packet, noise
\* included, blocks the ones behind it for ever, and the brokers stop sending an
\* event around (mission_processor.go:28-42, 57-65, 110-120).
EveryEventSettles ==
    <>[](\A b \in Brokers : Sent(b) = done[b] \cup lost[b])

\* The sensor follows the brokers: after the last change the list is what the name
\* resolves to, if it resolves at all (sensor/main.go:37-68).
DiscoveryFollows == <>[](running /\ up # {} => known = up)

=============================================================================
