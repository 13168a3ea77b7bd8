----------------------------- MODULE IntakeProofs -----------------------------
(***************************************************************************)
(* No packet is doubled or vanishes between the engine, the brokers that   *)
(* send packets on and the workers, and a listener drops a packet only     *)
(* when more of them reached it than its channel holds, for any number of  *)
(* brokers and workers and any capacity.                                   *)
(***************************************************************************)
EXTENDS Intake, FiniteSetTheorems, TLAPS

Unique(s) == \A i, j \in 1 .. Len(s) : s[i] = s[j] => i = j

\* A channel holds a packet once, so a packet that is taken is no longer in it.
NoCopies ==
    /\ Unique(telemetry) /\ ToSet(telemetry) \subseteq fired
    /\ \A b \in Brokers : Unique(channel[b])

\* What a broker sent on it is done with, so it never sends a packet on twice, and
\* no such packet looks like one of the sensor.
Traced ==
    /\ \A o \in Brokers : forwarded[o] \cap FromSensor(Events) = {}
    /\ \A o, b \in Brokers, p \in Packets :
          SentOn(p, b) \in forwarded[o] => p \in done[b]

IntakeInv == TypeOK /\ NoCopies /\ Traced /\ IntakeConserved

\* What a full channel turned away is among the lost, and a container that was
\* never started turned nothing away.
BurstInv ==
    /\ \A b \in Brokers : IsFiniteSet(Sent(b))
    /\ \A b \in Brokers : overrun[b] \subseteq lost[b]
    /\ \A b \in Brokers \ (up \cup gone) : overrun[b] = {}
    /\ BurstAbsorbed

\* Requisition e was sent on by b at most as often as it passed the filter of b and
\* is not on its way to it in the hands of the one worker that has it.
Sender(b, e) ==
    /\ IsFiniteSet(SentOnBy(b, e))
    /\ Cardinality(SentOnBy(b, e)) <= 1 + expiries[b][e]
    /\ b \notin gone /\ e \notin filter[b] => Cardinality(SentOnBy(b, e)) <= expiries[b][e]
    /\ \A w \in passed[b] : hand[b][w][1] = e =>
          /\ e \in filter[b] /\ Cardinality(SentOnBy(b, e)) <= expiries[b][e]
          /\ \A v \in passed[b] : hand[b][v][1] = e => v = w

ForwardInv ==
    /\ up \cap gone = {}
    /\ \A b \in gone : \A w \in Workers : hand[b][w] = Idle
    /\ \A b \in Brokers, e \in Requisitions : Sender(b, e)

-----------------------------------------------------------------------------
(* Channels *)

\* What is in a channel, by index.
LEMMA InChannel ==
    ASSUME NEW S, NEW s \in Seq(S), NEW x
    PROVE  x \in ToSet(s) <=> \E i \in 1 .. Len(s) : s[i] = x
  BY DEF ToSet

\* A send adds the packet.
LEMMA SendSet ==
    ASSUME NEW S, NEW s \in Seq(S), NEW x \in S
    PROVE  /\ Append(s, x) \in Seq(S) /\ Len(Append(s, x)) = Len(s) + 1
           /\ ToSet(Append(s, x)) = ToSet(s) \cup {x}
           /\ Unique(s) /\ x \notin ToSet(s) => Unique(Append(s, x))
  <1> DEFINE t == Append(s, x)
  <1>1. /\ t \in Seq(S) /\ Len(t) = Len(s) + 1
        /\ \A i \in 1 .. Len(s) : t[i] = s[i]
        /\ t[Len(s) + 1] = x
    OBVIOUS
  <1> HIDE DEF t
  <1>2. ASSUME NEW y PROVE y \in ToSet(t) <=> y \in ToSet(s) \cup {x}
    <2>1. y \in ToSet(t) <=> \E i \in 1 .. Len(t) : t[i] = y
      BY <1>1, InChannel
    <2>2. y \in ToSet(s) <=> \E i \in 1 .. Len(s) : s[i] = y
      BY InChannel
    <2> QED  BY <1>1, <2>1, <2>2
  <1>3. ASSUME Unique(s), x \notin ToSet(s) PROVE Unique(t)
    <2>1. \A i \in 1 .. Len(s) : s[i] # x
      BY <1>3, InChannel
    <2> QED  BY <1>1, <1>3, <2>1 DEF Unique
  <1> QED  BY <1>1, <1>2, <1>3 DEF t

\* A receive takes the first packet away.
LEMMA ReceiveSet ==
    ASSUME NEW S, NEW s \in Seq(S), s # <<>>, Unique(s)
    PROVE  /\ Head(s) \in S /\ Head(s) \in ToSet(s)
           /\ Tail(s) \in Seq(S) /\ Len(Tail(s)) = Len(s) - 1
           /\ ToSet(Tail(s)) = ToSet(s) \ {Head(s)}
           /\ Unique(Tail(s))
  <1> DEFINE t == Tail(s)
  <1>1. /\ t \in Seq(S) /\ Len(t) = Len(s) - 1 /\ Len(s) \in Nat \ {0}
        /\ \A i \in 1 .. Len(t) : t[i] = s[i + 1]
        /\ Head(s) = s[1] /\ Head(s) \in S
    OBVIOUS
  <1> HIDE DEF t
  <1>2. Head(s) \in ToSet(s)
    BY <1>1, InChannel
  <1>3. Unique(t)
    BY <1>1 DEF Unique
  <1>4. ASSUME NEW y PROVE y \in ToSet(t) <=> y \in ToSet(s) \ {Head(s)}
    <2>1. y \in ToSet(t) <=> \E i \in 1 .. Len(t) : t[i] = y
      BY <1>1, InChannel
    <2>2. y \in ToSet(s) <=> \E i \in 1 .. Len(s) : s[i] = y
      BY InChannel
    <2>3. ASSUME NEW i \in 1 .. Len(s), s[i] = y, y # Head(s)
          PROVE  y \in ToSet(t)
      <3>1. i - 1 \in 1 .. Len(t) /\ t[i - 1] = y
        BY <1>1, <2>3
      <3> QED  BY <2>1, <3>1
    <2>4. ASSUME NEW i \in 1 .. Len(t), t[i] = y
          PROVE  y \in ToSet(s) /\ y # Head(s)
      <3>1. i + 1 \in 1 .. Len(s) /\ s[i + 1] = y /\ i + 1 # 1 /\ 1 \in 1 .. Len(s)
        BY <1>1, <2>4
      <3> QED  BY <1>1, <2>2, <3>1 DEF Unique
    <2> QED  BY <2>1, <2>2, <2>3, <2>4
  <1> QED  BY <1>1, <1>2, <1>3, <1>4 DEF t

LEMMA EmptyChannel ==
    ASSUME NEW S
    PROVE  <<>> \in Seq(S) /\ Len(<<>>) = 0 /\ ToSet(<<>>) = {} /\ Unique(<<>>)
  BY DEF ToSet, Unique

\* What was sent last is the last of the channel.
LEMMA LastAppended ==
    ASSUME NEW S, NEW s \in Seq(S), NEW t \in Seq(S), NEW x \in S, NEW y \in S,
           Append(s, x) = Append(t, y)
    PROVE  s = t /\ x = y
  <1>1. /\ Len(Append(s, x)) = Len(s) + 1 /\ Len(Append(t, y)) = Len(t) + 1
        /\ Len(s) \in Nat /\ Len(t) \in Nat
    OBVIOUS
  <1>2. Len(s) = Len(t)
    BY <1>1
  <1>3. \A i \in 1 .. Len(s) : s[i] = Append(s, x)[i] /\ t[i] = Append(t, y)[i]
    BY <1>2
  <1>4. x = Append(s, x)[Len(s) + 1] /\ y = Append(t, y)[Len(t) + 1]
    OBVIOUS
  <1> QED  BY <1>2, <1>3, <1>4

-----------------------------------------------------------------------------
(* Stages *)

\* Six sets that cover F and have nothing in common.
Parted(F, s, t, u, v, w, x) ==
    /\ F = s \cup t \cup u \cup v \cup w \cup x
    /\ s \cap t = {} /\ s \cap u = {} /\ s \cap v = {} /\ s \cap w = {}
    /\ s \cap x = {} /\ t \cap u = {} /\ t \cap v = {} /\ t \cap w = {}
    /\ t \cap x = {} /\ u \cap v = {} /\ u \cap w = {} /\ u \cap x = {}
    /\ v \cap w = {} /\ v \cap x = {} /\ w \cap x = {}

LEMMA PartedStages ==
    ASSUME NEW F, NEW s, NEW t, NEW u, NEW v, NEW w, NEW x
    PROVE  (/\ F = UNION {<<s, t, u, v, w, x>>[i] : i \in 1 .. 6}
            /\ \A i, j \in 1 .. 6 : i # j =>
                  <<s, t, u, v, w, x>>[i] \cap <<s, t, u, v, w, x>>[j] = {})
           <=> Parted(F, s, t, u, v, w, x)
  <1> DEFINE q == <<s, t, u, v, w, x>>
  <1>1. q[1] = s /\ q[2] = t /\ q[3] = u /\ q[4] = v /\ q[5] = w /\ q[6] = x
    OBVIOUS
  <1> HIDE DEF q
  <1>2. 1 .. 6 = {1, 2, 3, 4, 5, 6}
    OBVIOUS
  <1>3. {q[i] : i \in 1 .. 6} = {s, t, u, v, w, x}
    BY <1>1, <1>2
  <1>4. UNION {q[i] : i \in 1 .. 6} = s \cup t \cup u \cup v \cup w \cup x
    BY <1>3
  <1>5. (\A i, j \in 1 .. 6 : i # j => q[i] \cap q[j] = {})
        => Parted(s \cup t \cup u \cup v \cup w \cup x, s, t, u, v, w, x)
    BY <1>1 DEF Parted
  <1>6. ASSUME NEW i \in 1 .. 6, NEW j \in 1 .. 6, i # j,
               Parted(F, s, t, u, v, w, x)
        PROVE  q[i] \cap q[j] = {}
    BY <1>1, <1>2, <1>6 DEF Parted
  <1> QED  BY <1>4, <1>5, <1>6 DEF q, Parted

View(b) == Parted(Sent(b), FromSensor(ToSet(telemetry)), wire[b], ToSet(channel[b]),
                  InHand(b), done[b], lost[b])

OneHand == \A b \in Brokers, v, w \in Workers :
              hand[b][v] = hand[b][w] /\ hand[b][v] # Idle => v = w

LEMMA Views == IntakeConserved <=> (\A b \in Brokers : View(b)) /\ OneHand
  BY PartedStages DEF IntakeConserved, OneHand, View, Stages

LEMMA ViewsNext == IntakeConserved' <=> (\A b \in Brokers : View(b)') /\ OneHand'
  BY PartedStages DEF IntakeConserved, OneHand, View, Stages

-----------------------------------------------------------------------------
(* Packets *)

LEMMA SensorPackets ==
    ASSUME NEW E
    PROVE  /\ E \subseteq Events => FromSensor(E) \subseteq Packets
           /\ \A e : <<e, <<>>>> \in FromSensor(E) <=> e \in E
           /\ \A p \in FromSensor(E) : \E e \in E : p = <<e, <<>>>>
           /\ \A e : FromSensor(E \cup {e}) = FromSensor(E) \cup {<<e, <<>>>>}
           /\ \A e : FromSensor(E \ {e}) = FromSensor(E) \ {<<e, <<>>>>}
  <1>1. E \subseteq Events => FromSensor(E) \subseteq Packets
    <2> DEFINE nobody == <<>>
    <2>1. nobody \in Seq(Brokers)
      BY EmptyChannel
    <2>2. FromSensor(E) = {<<e, nobody>> : e \in E}
      BY DEF FromSensor
    <2> HIDE DEF nobody
    <2> QED  BY <2>1, <2>2 DEF Packets
  <1>2. \A e : <<e, <<>>>> \in FromSensor(E) <=> e \in E
    BY DEF FromSensor
  <1>3. \A p \in FromSensor(E) : \E e \in E : p = <<e, <<>>>>
    BY DEF FromSensor
  <1>4. \A e : FromSensor(E \cup {e}) = FromSensor(E) \cup {<<e, <<>>>>}
    BY DEF FromSensor
  <1>5. \A e : FromSensor(E \ {e}) = FromSensor(E) \ {<<e, <<>>>>}
    BY DEF FromSensor
  <1> QED  BY <1>1, <1>2, <1>3, <1>4, <1>5

\* A packet that is sent on tells what was sent on, and by whom.
LEMMA SentOnPackets ==
    ASSUME NEW p \in Packets, NEW b \in Brokers
    PROVE  /\ SentOn(p, b) \in Packets
           /\ SentOn(p, b) \notin FromSensor(Events)
           /\ \A q \in Packets, c \in Brokers :
                 SentOn(p, b) = SentOn(q, c) => p = q /\ b = c
  <1>1. p[1] \in Events /\ p[2] \in Seq(Brokers) /\ p = <<p[1], p[2]>>
    BY DEF Packets
  <1>2. /\ Append(p[2], b) \in Seq(Brokers)
        /\ Len(Append(p[2], b)) = Len(p[2]) + 1 /\ Len(p[2]) \in Nat
    BY <1>1
  <1>3. SentOn(p, b) \in Packets
    BY <1>1, <1>2 DEF SentOn, Packets
  <1>4. SentOn(p, b) \notin FromSensor(Events)
    <2>1. Append(p[2], b) # <<>>
      BY <1>1, <1>2
    <2> QED  BY <2>1 DEF SentOn, FromSensor
  <1>5. ASSUME NEW q \in Packets, NEW c \in Brokers, SentOn(p, b) = SentOn(q, c)
        PROVE  p = q /\ b = c
    <2>1. q[1] \in Events /\ q[2] \in Seq(Brokers) /\ q = <<q[1], q[2]>>
      BY DEF Packets
    <2>2. p[1] = q[1] /\ Append(p[2], b) = Append(q[2], c)
      BY <1>5 DEF SentOn
    <2>3. p[2] = q[2] /\ b = c
      BY <1>1, <2>1, <2>2, LastAppended
    <2> QED  BY <1>1, <2>1, <2>2, <2>3
  <1> QED  BY <1>3, <1>4, <1>5

-----------------------------------------------------------------------------
(* Steps *)

LEMMA IntakeInit == Init => IntakeInv
  <1> SUFFICES ASSUME Init PROVE IntakeInv
    OBVIOUS
  <1> USE IntakeAssumption
  <1>1. TypeOK
    <2>1. /\ channel \in [Brokers -> Seq(Packets)]
          /\ \A b \in Brokers : Len(channel[b]) <= PacketCap
      BY EmptyChannel DEF Init
    <2>2. telemetry \in Seq(Events) /\ Len(telemetry) <= TelemetryCap
      BY EmptyChannel DEF Init
    <2>3. expiries \in [Brokers -> [Requisitions -> 0 .. MaxExpiries]]
      BY DEF Init
    <2>4. hand \in [Brokers -> [Workers -> Packets \cup {Idle}]]
      BY DEF Init
    <2> QED  BY <2>1, <2>2, <2>3, <2>4 DEF Init, TypeOK
  <1>2. NoCopies /\ Traced
    BY EmptyChannel DEF Init, NoCopies, Traced
  <1>3. ASSUME NEW b \in Brokers PROVE View(b)
    <2>1. /\ Sent(b) = {} /\ FromSensor(ToSet(telemetry)) = {}
          /\ ToSet(channel[b]) = {} /\ InHand(b) = {}
          /\ done[b] = {} /\ wire[b] = {} /\ lost[b] = {}
      BY EmptyChannel DEF Init, InHand, Sent, FromSensor
    <2> QED  BY <2>1 DEF View, Parted
  <1>4. OneHand
    BY DEF Init, OneHand
  <1> QED  BY <1>1, <1>2, <1>3, <1>4, Views DEF IntakeInv

\* The sets of View stay when the variables do.
LEMMA SameView ==
    ASSUME NEW b \in Brokers, View(b), UNCHANGED <<fired, telemetry>>,
           wire'[b] = wire[b], lost'[b] = lost[b], channel'[b] = channel[b],
           InHand(b)' = InHand(b), done'[b] = done[b], forwarded'[b] = forwarded[b]
    PROVE  View(b)'
  BY DEF View, Sent

\* An event that was not generated yet is in no channel.
LEMMA FireStep ==
    ASSUME IntakeInv, NEW e \in Events, Fire(e)
    PROVE  IntakeInv'
  <1> USE DEF IntakeInv
  <1> DEFINE q == <<e, <<>>>>
  <1>1. (\A b \in Brokers : View(b)) /\ OneHand
    BY Views
  <1>2. /\ UNCHANGED <<up, gone, running, known, wire, channel, hand, passed, filter,
                       expiries, forwarded, done, overrun>>
        /\ fired' = fired \cup {e} /\ e \notin fired
    BY DEF Fire, filterVars
  <1>3. OneHand' /\ Traced' /\ \A b \in Brokers : InHand(b)' = InHand(b)
    BY <1>1, <1>2 DEF OneHand, Traced, InHand
  <1>4. q \in Packets
    BY SensorPackets DEF FromSensor, Packets
  <1>5. ASSUME NEW b \in Brokers PROVE Sent(b)' = Sent(b) \cup {q} /\ q \notin Sent(b)
    <2>1. q \in FromSensor(Events) /\ q \notin FromSensor(fired)
      BY <1>2, SensorPackets
    <2>2. FromSensor(fired') = FromSensor(fired) \cup {q}
      BY <1>2, SensorPackets
    <2> QED  BY <1>2, <2>1, <2>2 DEF Sent, Traced
  <1>6. CASE Len(telemetry) < TelemetryCap /\ telemetry' = Append(telemetry, e)
             /\ UNCHANGED lost
    <2>1. /\ telemetry' \in Seq(Events) /\ Len(telemetry') = Len(telemetry) + 1
          /\ ToSet(telemetry') = ToSet(telemetry) \cup {e} /\ Unique(telemetry')
      BY <1>2, <1>6, SendSet DEF TypeOK, NoCopies
    <2>2. TypeOK'
      BY <1>2, <1>6, <2>1, IntakeAssumption DEF TypeOK
    <2>3. NoCopies'
      BY <1>2, <2>1 DEF NoCopies
    <2>4. FromSensor(ToSet(telemetry')) = FromSensor(ToSet(telemetry)) \cup {q}
      BY <2>1, SensorPackets
    <2>5. ASSUME NEW b \in Brokers PROVE View(b)'
      <3> HIDE DEF q
      <3> QED  BY <1>1, <1>2, <1>3, <1>5, <1>6, <2>4 DEF View, Parted
    <2> QED  BY <1>3, <2>2, <2>3, <2>5, ViewsNext
  <1>7. CASE Lose(Brokers, FromSensor({e})) /\ UNCHANGED telemetry
    <2>1. FromSensor({e}) = {q}
      BY DEF FromSensor
    <2>2. lost' = [b \in Brokers |-> lost[b] \cup {q}]
      BY <1>7, <2>1 DEF Lose
    <2>3. TypeOK'
      BY <1>2, <1>4, <1>7, <2>2 DEF TypeOK
    <2>4. NoCopies'
      BY <1>2, <1>7 DEF NoCopies
    <2>5. ASSUME NEW b \in Brokers PROVE View(b)'
      <3>1. lost'[b] = lost[b] \cup {q}
        BY <2>2
      <3> HIDE DEF q
      <3> QED  BY <1>1, <1>2, <1>3, <1>5, <1>7, <3>1 DEF View, Parted
    <2> QED  BY <1>3, <2>3, <2>4, <2>5, ViewsNext
  <1> QED  BY <1>6, <1>7 DEF Fire

\* Discovery, new containers and the filter move no packet.
LEMMA QuietStep ==
    ASSUME IntakeInv, TypeOK',
           UNCHANGED <<telemetry, fired, wire, channel, hand, forwarded, done, lost>>
    PROVE  IntakeInv'
  <1> USE DEF IntakeInv
  <1>1. NoCopies' /\ Traced'
    BY DEF NoCopies, Traced
  <1>2. IntakeConserved'
    <2>1. (\A b \in Brokers : View(b)) /\ OneHand
      BY Views
    <2>2. OneHand' /\ \A b \in Brokers : InHand(b)' = InHand(b)
      BY <2>1 DEF OneHand, InHand
    <2>3. \A b \in Brokers : View(b)'
      BY <2>1, <2>2, SameView
    <2> QED  BY <2>2, <2>3, ViewsNext
  <1> QED  BY <1>1, <1>2

LEMMA QuietTypes ==
    ASSUME TypeOK,
           \/ WatchBrokerDNS \/ UNCHANGED vars \/ \E b \in Brokers : Start(b)
           \/ \E b \in Brokers, w \in Workers : CheckAndAdd(b, w)
           \/ \E b \in Brokers, e \in Requisitions :
                 HandleShadowSync(b, e) \/ FilterExpire(b, e)
    PROVE  /\ TypeOK'
           /\ UNCHANGED <<telemetry, fired, wire, channel, hand, forwarded, done, lost,
                          overrun>>
  <1>1. CASE WatchBrokerDNS \/ UNCHANGED vars \/ \E b \in Brokers : Start(b)
    BY <1>1 DEF TypeOK, WatchBrokerDNS, Start, vars, sensorVars, filterVars
  <1>2. ASSUME NEW b \in Brokers, NEW w \in Workers, CheckAndAdd(b, w)
        PROVE  /\ TypeOK'
               /\ UNCHANGED <<telemetry, fired, wire, channel, hand, forwarded, done,
                              lost, overrun>>
    <2>1. /\ UNCHANGED <<up, gone, running, known, telemetry, fired, wire, channel, hand,
                         expiries, forwarded, done, lost, overrun>>
          /\ hand[b][w] # Idle /\ hand[b][w][1] \in Requisitions
          /\ filter' = [filter EXCEPT ![b] = @ \cup {hand[b][w][1]}]
          /\ passed' = [passed EXCEPT ![b] = @ \cup {w}]
      BY <1>2 DEF CheckAndAdd, Passes, sensorVars
    <2>2. filter' \in [Brokers -> SUBSET Requisitions]
      BY <2>1 DEF TypeOK
    <2>3. /\ passed' \in [Brokers -> SUBSET Workers]
          /\ \A c \in Brokers : \A v \in passed'[c] : hand'[c][v] # Idle
      BY <2>1 DEF TypeOK
    <2> QED  BY <2>1, <2>2, <2>3 DEF TypeOK
  <1>3. ASSUME NEW b \in Brokers, NEW e \in Requisitions,
               HandleShadowSync(b, e) \/ FilterExpire(b, e)
        PROVE  /\ TypeOK'
               /\ UNCHANGED <<telemetry, fired, wire, channel, hand, forwarded, done,
                              lost, overrun>>
    <2>1. /\ UNCHANGED <<up, gone, running, known, telemetry, fired, wire, channel, hand,
                         passed, forwarded, done, lost, overrun>>
          /\ \/ filter' = [filter EXCEPT ![b] = @ \cup {e}]
             \/ filter' = [filter EXCEPT ![b] = @ \ {e}]
      BY <1>3 DEF HandleShadowSync, FilterExpire, sensorVars
    <2>0. filter' \in [Brokers -> SUBSET Requisitions]
      <3>1. /\ [filter EXCEPT ![b] = @ \cup {e}] \in [Brokers -> SUBSET Requisitions]
            /\ [filter EXCEPT ![b] = @ \ {e}] \in [Brokers -> SUBSET Requisitions]
        BY DEF TypeOK
      <3> QED  BY <2>1, <3>1
    <2>2. expiries' \in [Brokers -> [Requisitions -> 0 .. MaxExpiries]]
      <3>1. CASE UNCHANGED expiries
        BY <3>1 DEF TypeOK
      <3>2. CASE expiries' = [expiries EXCEPT ![b][e] = @ + 1]
                 /\ expiries[b][e] < MaxExpiries
        <4>1. expiries[b][e] + 1 \in 0 .. MaxExpiries
          BY <3>2, IntakeAssumption DEF TypeOK
        <4> QED  BY <3>2, <4>1 DEF TypeOK
      <3> QED  BY <1>3, <3>1, <3>2 DEF HandleShadowSync, FilterExpire
    <2> QED  BY <2>0, <2>1, <2>2 DEF TypeOK
  <1> QED  BY <1>1, <1>2, <1>3

\* The head of telemetryChan is sent to some brokers and lost to the others.
LEMMA MulticastStep ==
    ASSUME IntakeInv, Multicast
    PROVE  IntakeInv'
  <1> USE DEF IntakeInv
  <1> DEFINE e == Head(telemetry)
             q == <<e, <<>>>>
  <1>1. (\A b \in Brokers : View(b)) /\ OneHand
    BY Views
  <1>2. /\ e \in Events /\ e \in ToSet(telemetry)
        /\ telemetry' \in Seq(Events) /\ Len(telemetry') = Len(telemetry) - 1
        /\ ToSet(telemetry') = ToSet(telemetry) \ {e} /\ Unique(telemetry')
    BY ReceiveSet DEF TypeOK, NoCopies, Multicast
  <1>3. FromSensor({e}) = {q}
    BY DEF FromSensor
  <1>4. /\ wire' = [b \in Brokers |-> IF b \in known THEN wire[b] \cup {q} ELSE wire[b]]
        /\ lost' = [b \in Brokers |->
                      IF b \in Brokers \ known THEN lost[b] \cup {q} ELSE lost[b]]
        /\ UNCHANGED <<up, gone, running, known, fired, channel, hand, passed, filter,
                       expiries, forwarded, done, overrun>>
    BY <1>3 DEF Multicast, Lose, filterVars
  <1> HIDE DEF e
  <1>5. /\ q \in Packets /\ q \in FromSensor(ToSet(telemetry))
        /\ FromSensor(ToSet(telemetry')) = FromSensor(ToSet(telemetry)) \ {q}
    <2>1. q \in Packets
      BY <1>2, SensorPackets
    <2> QED  BY <1>2, <2>1, SensorPackets
  <1> HIDE DEF q
  <1>6. TypeOK'
    <2>1. telemetry' \in Seq(Events) /\ Len(telemetry') <= TelemetryCap
      BY <1>2, IntakeAssumption DEF TypeOK
    <2>2. wire' \in [Brokers -> SUBSET Packets] /\ lost' \in [Brokers -> SUBSET Packets]
      BY <1>4, <1>5 DEF TypeOK
    <2> QED  BY <1>4, <2>1, <2>2 DEF TypeOK
  <1>7. NoCopies' /\ Traced'
    BY <1>2, <1>4 DEF NoCopies, Traced
  <1>8. ASSUME NEW b \in Brokers PROVE View(b)'
    <2>1. /\ b \in known => wire'[b] = wire[b] \cup {q} /\ lost'[b] = lost[b]
          /\ b \notin known => wire'[b] = wire[b] /\ lost'[b] = lost[b] \cup {q}
      BY <1>4
    <2>2. InHand(b)' = InHand(b) /\ Sent(b)' = Sent(b)
      BY <1>4 DEF InHand, Sent
    <2> QED  BY <1>1, <1>4, <1>5, <2>1, <2>2 DEF View, Parted
  <1>9. OneHand'
    BY <1>1, <1>4 DEF OneHand
  <1> QED  BY <1>6, <1>7, <1>8, <1>9, ViewsNext

LEMMA ShutdownStep ==
    ASSUME IntakeInv, Shutdown
    PROVE  IntakeInv'
  <1> USE DEF IntakeInv
  <1> DEFINE Q == FromSensor(ToSet(telemetry))
  <1>1. (\A b \in Brokers : View(b)) /\ OneHand
    BY Views
  <1>2. /\ UNCHANGED <<up, gone, known, fired, wire, channel, hand, passed, filter,
                       expiries, forwarded, done, overrun>>
        /\ running' = FALSE /\ telemetry' = <<>>
        /\ ToSet(telemetry') = {} /\ Len(telemetry') = 0
        /\ telemetry' \in Seq(Events) /\ Unique(telemetry')
    BY EmptyChannel DEF Shutdown, filterVars
  <1>3. Q \subseteq Packets
    <2>1. ToSet(telemetry) \subseteq Events
      BY InChannel DEF TypeOK
    <2> QED  BY <2>1, SensorPackets
  <1>4. lost' = [b \in Brokers |-> lost[b] \cup Q]
    BY DEF Shutdown, Lose
  <1>5. FromSensor(ToSet(telemetry')) = {}
    BY <1>2 DEF FromSensor
  <1> HIDE DEF Q
  <1>6. TypeOK'
    <2>1. lost' \in [Brokers -> SUBSET Packets]
      BY <1>3, <1>4 DEF TypeOK
    <2>2. Len(telemetry') <= TelemetryCap
      BY <1>2, IntakeAssumption
    <2>3. running' \in BOOLEAN
      BY <1>2
    <2> QED  BY <1>2, <2>1, <2>2, <2>3 DEF TypeOK
  <1>7. NoCopies' /\ Traced'
    BY <1>2 DEF NoCopies, Traced
  <1>8. ASSUME NEW b \in Brokers PROVE View(b)'
    <2>1. lost'[b] = lost[b] \cup Q
      BY <1>4
    <2>2. InHand(b)' = InHand(b) /\ Sent(b)' = Sent(b)
      BY <1>2 DEF InHand, Sent
    <2> QED  BY <1>1, <1>2, <1>5, <2>1, <2>2 DEF View, Parted, Q
  <1>9. OneHand'
    BY <1>1, <1>2 DEF OneHand
  <1> QED  BY <1>6, <1>7, <1>8, <1>9, ViewsNext

LEMMA PacketLostStep ==
    ASSUME IntakeInv, NEW b \in Brokers, NEW p \in wire[b], PacketLost(b, p)
    PROVE  IntakeInv'
  <1> USE DEF IntakeInv
  <1>1. (\A c \in Brokers : View(c)) /\ OneHand
    BY Views
  <1>2. /\ UNCHANGED <<up, gone, running, known, telemetry, fired, channel, hand, passed,
                       filter, expiries, forwarded, done, overrun>>
        /\ wire' = [wire EXCEPT ![b] = @ \ {p}] /\ lost' = [lost EXCEPT ![b] = @ \cup {p}]
    BY DEF PacketLost, filterVars, sensorVars
  <1>3. TypeOK' /\ NoCopies' /\ Traced'
    BY <1>2 DEF TypeOK, NoCopies, Traced
  <1>4. ASSUME NEW c \in Brokers PROVE View(c)'
    <2>1. /\ c = b => /\ p \in wire[c] /\ wire'[c] = wire[c] \ {p}
                      /\ lost'[c] = lost[c] \cup {p}
          /\ c # b => wire'[c] = wire[c] /\ lost'[c] = lost[c]
      BY <1>2 DEF TypeOK
    <2>2. InHand(c)' = InHand(c) /\ Sent(c)' = Sent(c)
      BY <1>2 DEF InHand, Sent
    <2> QED  BY <1>1, <1>2, <2>1, <2>2 DEF View, Parted
  <1>5. OneHand'
    BY <1>1, <1>2 DEF OneHand
  <1> QED  BY <1>3, <1>4, <1>5, ViewsNext

\* A packet leaves the wire for the channel or, if that is full, is lost.
LEMMA IngestStep ==
    ASSUME IntakeInv, NEW b \in Brokers, NEW p \in wire[b], Ingest(b, p)
    PROVE  IntakeInv'
  <1> USE DEF IntakeInv
  <1>1. (\A c \in Brokers : View(c)) /\ OneHand
    BY Views
  <1>2. /\ UNCHANGED <<up, gone, running, known, telemetry, fired, hand, passed, filter,
                       expiries, forwarded, done>>
        /\ wire' = [wire EXCEPT ![b] = @ \ {p}] /\ p \in Packets
    BY DEF Ingest, Read, sensorVars, filterVars, TypeOK
  <1>3. ASSUME NEW c \in Brokers
        PROVE  /\ c = b => p \in wire[c] /\ wire'[c] = wire[c] \ {p}
               /\ c # b => wire'[c] = wire[c]
               /\ InHand(c)' = InHand(c) /\ Sent(c)' = Sent(c)
    BY <1>2 DEF InHand, Sent, TypeOK
  <1>4. OneHand' /\ Traced' /\ wire' \in [Brokers -> SUBSET Packets]
    BY <1>1, <1>2 DEF OneHand, Traced, TypeOK
  <1>5. CASE Len(channel[b]) < PacketCap /\ Queued(b, p)
    <2>0. channel' = [channel EXCEPT ![b] = Append(@, p)] /\ UNCHANGED <<lost, overrun>>
      BY <1>5 DEF Queued
    <2>1. p \notin ToSet(channel[b])
      BY <1>1, <1>3 DEF View, Parted
    <2>2. /\ Append(channel[b], p) \in Seq(Packets)
          /\ Len(Append(channel[b], p)) = Len(channel[b]) + 1
          /\ ToSet(Append(channel[b], p)) = ToSet(channel[b]) \cup {p}
          /\ Unique(Append(channel[b], p))
      BY <1>2, <2>1, SendSet DEF TypeOK, NoCopies
    <2>3. /\ channel' \in [Brokers -> Seq(Packets)]
          /\ channel'[b] = Append(channel[b], p)
          /\ \A c \in Brokers \ {b} : channel'[c] = channel[c]
      BY <2>0, <2>2 DEF TypeOK
    <2>4. \A c \in Brokers : Len(channel'[c]) <= PacketCap
      <3>1. Len(channel[b]) + 1 <= PacketCap
        BY <1>5, IntakeAssumption DEF TypeOK
      <3> QED  BY <2>2, <2>3, <3>1 DEF TypeOK
    <2>5. TypeOK'
      BY <1>2, <1>4, <2>0, <2>3, <2>4 DEF TypeOK
    <2>6. NoCopies'
      BY <1>2, <2>2, <2>3 DEF NoCopies
    <2>7. ASSUME NEW c \in Brokers PROVE View(c)'
      <3>1. CASE c = b
        <4>1. ToSet(channel'[c]) = ToSet(channel[c]) \cup {p}
          BY <2>2, <2>3, <3>1
        <4>2. p \in wire[c] /\ wire'[c] = wire[c] \ {p}
          BY <1>3, <3>1
        <4> QED  BY <1>1, <1>2, <1>3, <2>0, <4>1, <4>2 DEF View, Parted
      <3>2. CASE c # b
        BY <1>1, <1>2, <1>3, <2>0, <2>3, <3>2, SameView
      <3> QED  BY <3>1, <3>2
    <2> QED  BY <1>4, <2>5, <2>6, <2>7, ViewsNext
  <1>6. CASE TurnedAway(b, p)
    <2>0. /\ lost' = [lost EXCEPT ![b] = @ \cup {p}]
          /\ overrun' = [overrun EXCEPT ![b] = @ \cup {p}]
          /\ UNCHANGED channel
      BY <1>6 DEF TurnedAway
    <2>1. TypeOK' /\ NoCopies'
      BY <1>2, <1>4, <2>0 DEF TypeOK, NoCopies
    <2>2. ASSUME NEW c \in Brokers PROVE View(c)'
      <3>1. /\ c = b => lost'[c] = lost[c] \cup {p}
            /\ c # b => lost'[c] = lost[c]
        BY <2>0 DEF TypeOK
      <3> QED  BY <1>1, <1>2, <1>3, <2>0, <3>1 DEF View, Parted
    <2> QED  BY <1>4, <2>1, <2>2, ViewsNext
  <1> QED  BY <1>5, <1>6 DEF Ingest

\* A packet leaves the channel for the hands of a worker.
LEMMA TakeStep ==
    ASSUME IntakeInv, NEW b \in Brokers, NEW w \in Workers, Take(b, w)
    PROVE  IntakeInv'
  <1> USE DEF IntakeInv
  <1> DEFINE p == Head(channel[b])
  <1>1. (\A c \in Brokers : View(c)) /\ OneHand
    BY Views
  <1>2. /\ p \in Packets /\ p \in ToSet(channel[b])
        /\ Tail(channel[b]) \in Seq(Packets)
        /\ Len(Tail(channel[b])) = Len(channel[b]) - 1
        /\ ToSet(Tail(channel[b])) = ToSet(channel[b]) \ {p}
        /\ Unique(Tail(channel[b]))
    BY ReceiveSet DEF TypeOK, NoCopies, Take
  <1>3. /\ UNCHANGED <<up, gone, running, known, telemetry, fired, wire, passed, filter,
                       expiries, forwarded, done, lost, overrun>>
        /\ hand' = [hand EXCEPT ![b][w] = p] /\ hand[b][w] = Idle
        /\ channel' = [channel EXCEPT ![b] = Tail(@)]
    BY DEF Take, sensorVars, filterVars
  <1> HIDE DEF p
  <1>4. /\ channel' \in [Brokers -> Seq(Packets)]
        /\ channel'[b] = Tail(channel[b])
        /\ \A c \in Brokers \ {b} : channel'[c] = channel[c]
    BY <1>2, <1>3 DEF TypeOK
  <1>5. /\ hand' \in [Brokers -> [Workers -> Packets \cup {Idle}]]
        /\ hand'[b][w] = p /\ \A v \in Workers \ {w} : hand'[b][v] = hand[b][v]
        /\ \A c \in Brokers \ {b} : hand'[c] = hand[c]
    BY <1>2, <1>3 DEF TypeOK
  <1>6. p # Idle
    BY <1>2, IntakeAssumption
  <1>7. \A c \in Brokers : Len(channel'[c]) <= PacketCap
    <2>1. Len(channel[b]) \in Nat /\ Len(channel[b]) <= PacketCap
      BY DEF TypeOK
    <2>2. Len(Tail(channel[b])) <= PacketCap
      BY <1>2, <2>1, IntakeAssumption
    <2> QED  BY <1>4, <2>2 DEF TypeOK
  <1>8. TypeOK'
    <2>1. ASSUME NEW c \in Brokers, NEW v \in passed'[c] PROVE hand'[c][v] # Idle
      <3>1. v \in passed[c] /\ v \in Workers /\ hand[c][v] # Idle
        BY <1>3 DEF TypeOK
      <3> QED  BY <1>3, <1>5, <3>1
    <2> QED  BY <1>3, <1>4, <1>5, <1>7, <2>1 DEF TypeOK
  <1>9. NoCopies' /\ Traced'
    BY <1>2, <1>3, <1>4 DEF NoCopies, Traced
  <1>10. InHand(b)' = InHand(b) \cup {p}
    BY <1>3, <1>5, <1>6 DEF InHand
  <1>11. p \notin InHand(b)
    BY <1>1, <1>2 DEF View, Parted
  <1>12. ASSUME NEW c \in Brokers PROVE View(c)'
    <2>1. CASE c = b
      <3>1. Sent(c)' = Sent(c)
        BY <1>3 DEF Sent
      <3> QED  BY <1>1, <1>2, <1>3, <1>4, <1>10, <1>11, <2>1, <3>1 DEF View, Parted
    <2>2. CASE c # b
      <3>1. InHand(c)' = InHand(c)
        BY <1>5, <2>2 DEF InHand
      <3> QED  BY <1>1, <1>3, <1>4, <2>2, <3>1, SameView
    <2> QED  BY <2>1, <2>2
  <1>13. OneHand'
    <2>1. \A v \in Workers : hand[b][v] # p
      BY <1>6, <1>11 DEF InHand
    <2> QED  BY <1>1, <1>5, <2>1 DEF OneHand
  <1> QED  BY <1>8, <1>9, <1>12, <1>13, ViewsNext

\* The end of process: the packet goes from the hand of its only worker to the ones
\* the broker is done with.
LEMMA FinishFacts ==
    ASSUME IntakeInv, NEW b \in Brokers, NEW w \in Workers, hand[b][w] # Idle,
           Finish(b, w)
    PROVE  /\ UNCHANGED <<up, gone, running, known, telemetry, fired, channel, filter,
                          expiries, lost, overrun>>
           /\ hand[b][w] \in Packets /\ hand[b][w] \in InHand(b)
           /\ hand' \in [Brokers -> [Workers -> Packets \cup {Idle}]]
           /\ passed' \in [Brokers -> SUBSET Workers]
           /\ \A c \in Brokers : \A v \in passed'[c] : hand'[c][v] # Idle
           /\ done' \in [Brokers -> SUBSET Packets]
           /\ done'[b] = done[b] \cup {hand[b][w]}
           /\ InHand(b)' = InHand(b) \ {hand[b][w]}
           /\ \A c \in Brokers \ {b} : done'[c] = done[c] /\ InHand(c)' = InHand(c)
           /\ OneHand'
  <1> USE DEF IntakeInv
  <1> DEFINE p == hand[b][w]
  <1>1. (\A c \in Brokers : View(c)) /\ OneHand
    BY Views
  <1>2. /\ UNCHANGED <<up, gone, running, known, telemetry, fired, channel, filter,
                       expiries, lost, overrun>>
        /\ done' = [done EXCEPT ![b] = @ \cup {p}]
        /\ hand' = [hand EXCEPT ![b][w] = Idle] /\ p # Idle
        /\ passed' = [passed EXCEPT ![b] = @ \ {w}]
    BY DEF Finish, sensorVars
  <1>3. p \in Packets /\ p \in InHand(b)
    BY <1>2 DEF TypeOK, InHand
  <1>4. \A v \in Workers \ {w} : hand[b][v] # p
    BY <1>1, <1>2 DEF OneHand
  <1>5. hand[b][w] = p
    OBVIOUS
  <1> HIDE DEF p
  <1>6. /\ hand' \in [Brokers -> [Workers -> Packets \cup {Idle}]]
        /\ hand'[b][w] = Idle /\ \A v \in Workers \ {w} : hand'[b][v] = hand[b][v]
        /\ \A c \in Brokers \ {b} : hand'[c] = hand[c]
    BY <1>2 DEF TypeOK
  <1>7. /\ done' \in [Brokers -> SUBSET Packets] /\ done'[b] = done[b] \cup {p}
        /\ \A c \in Brokers \ {b} : done'[c] = done[c]
    BY <1>2, <1>3 DEF TypeOK
  <1>8. /\ passed' \in [Brokers -> SUBSET Workers] /\ passed'[b] = passed[b] \ {w}
        /\ \A c \in Brokers \ {b} : passed'[c] = passed[c]
    BY <1>2 DEF TypeOK
  <1>9. \A c \in Brokers : \A v \in passed'[c] : hand'[c][v] # Idle
    <2>1. ASSUME NEW c \in Brokers, NEW v \in passed'[c] PROVE hand'[c][v] # Idle
      <3>1. v \in passed[c] /\ v \in Workers /\ hand[c][v] # Idle
        BY <1>8 DEF TypeOK
      <3>2. hand'[c][v] = hand[c][v]
        BY <1>6, <1>8, <3>1
      <3> QED  BY <3>1, <3>2
    <2> QED  BY <2>1
  <1>10. InHand(b)' = InHand(b) \ {p}
    <2>1. ASSUME NEW y PROVE y \in InHand(b)' <=> y \in InHand(b) \ {p}
      BY <1>4, <1>5, <1>6 DEF InHand
    <2> QED  BY <2>1
  <1>11. \A c \in Brokers \ {b} : InHand(c)' = InHand(c)
    BY <1>6 DEF InHand
  <1>12. OneHand'
    BY <1>1, <1>6 DEF OneHand
  <1> QED  BY <1>2, <1>3, <1>5, <1>6, <1>7, <1>8, <1>9, <1>10, <1>11, <1>12

\* process returns without sending the packet on.
LEMMA ReturnStep ==
    ASSUME IntakeInv, NEW b \in Brokers, NEW w \in Workers, hand[b][w] # Idle,
           Finish(b, w), UNCHANGED <<wire, forwarded>>
    PROVE  IntakeInv'
  <1> USE DEF IntakeInv
  <1> DEFINE p == hand[b][w]
  <1>1. (\A c \in Brokers : View(c)) /\ OneHand
    BY Views
  <1>2. TypeOK' /\ NoCopies'
    BY FinishFacts DEF TypeOK, NoCopies
  <1>3. Traced'
    <2>1. \A c \in Brokers : done[c] \subseteq done'[c]
      BY FinishFacts
    <2> QED  BY <2>1 DEF Traced
  <1>4. ASSUME NEW c \in Brokers PROVE View(c)'
    <2>1. CASE c = b
      <3>1. Sent(c)' = Sent(c) /\ UNCHANGED <<telemetry, wire, channel, lost>>
        BY FinishFacts DEF Sent
      <3>2. /\ p \in InHand(c) /\ InHand(c)' = InHand(c) \ {p}
            /\ done'[c] = done[c] \cup {p}
        BY <2>1, FinishFacts
      <3> HIDE DEF p
      <3> QED  BY <1>1, <3>1, <3>2 DEF View, Parted
    <2>2. CASE c # b
      BY <1>1, <2>2, FinishFacts, SameView
    <2> QED  BY <2>1, <2>2
  <1> QED  BY <1>2, <1>3, <1>4, FinishFacts, ViewsNext

\* A packet that is sent on is a new one: its sender was not done with the old one.
LEMMA ForwardStep ==
    ASSUME IntakeInv, NEW b \in Brokers, NEW w \in Workers, NEW o \in Brokers,
           Forward(b, w, o)
    PROVE  IntakeInv'
  <1> USE DEF IntakeInv
  <1> DEFINE p == hand[b][w]
             q == SentOn(p, b)
  <1>1. (\A c \in Brokers : View(c)) /\ OneHand
    BY Views
  <1>2. /\ hand[b][w] # Idle /\ o # b /\ Finish(b, w)
        /\ wire' = [wire EXCEPT ![o] = @ \cup {q}]
        /\ forwarded' = [forwarded EXCEPT ![o] = @ \cup {q}]
    BY DEF Forward, TypeOK
  <1>3. /\ UNCHANGED <<telemetry, fired, channel, lost>>
        /\ p \in Packets /\ p \in InHand(b)
        /\ done'[b] = done[b] \cup {p} /\ InHand(b)' = InHand(b) \ {p}
        /\ \A c \in Brokers \ {b} : done'[c] = done[c] /\ InHand(c)' = InHand(c)
    BY <1>2, FinishFacts
  <1>4. /\ q \in Packets /\ q \notin FromSensor(Events)
        /\ \A r \in Packets, c \in Brokers : SentOn(r, c) = q => r = p /\ c = b
    BY <1>3, SentOnPackets
  <1>5. \A c \in Brokers : q \notin forwarded[c]
    <2>1. p \notin done[b]
      BY <1>1, <1>3 DEF View, Parted
    <2> QED  BY <1>3, <2>1 DEF Traced
  <1> HIDE DEF p, q
  <1>6. /\ wire' \in [Brokers -> SUBSET Packets]
        /\ forwarded' \in [Brokers -> SUBSET Packets]
        /\ wire'[o] = wire[o] \cup {q} /\ forwarded'[o] = forwarded[o] \cup {q}
        /\ \A c \in Brokers \ {o} : wire'[c] = wire[c] /\ forwarded'[c] = forwarded[c]
    BY <1>2, <1>4 DEF TypeOK
  <1>7. TypeOK' /\ NoCopies'
    BY <1>2, <1>6, FinishFacts DEF TypeOK, NoCopies
  <1>8. Traced'
    <2>1. \A c \in Brokers : forwarded'[c] \cap FromSensor(Events) = {}
      BY <1>4, <1>6 DEF Traced
    <2>2. ASSUME NEW d \in Brokers, NEW c \in Brokers, NEW r \in Packets,
                 SentOn(r, c) \in forwarded'[d]
          PROVE  r \in done'[c]
      <3>1. CASE SentOn(r, c) = q
        BY <1>3, <1>4, <3>1
      <3>2. CASE SentOn(r, c) # q
        <4>1. SentOn(r, c) \in forwarded[d]
          BY <1>6, <2>2, <3>2
        <4> QED  BY <1>3, <4>1 DEF Traced
      <3> QED  BY <3>1, <3>2
    <2> QED  BY <2>1, <2>2 DEF Traced
  <1>9. ASSUME NEW c \in Brokers PROVE View(c)'
    <2>1. CASE c = b
      <3>1. Sent(c)' = Sent(c) /\ wire'[c] = wire[c]
        BY <1>2, <1>3, <1>6, <2>1 DEF Sent
      <3> QED  BY <1>1, <1>3, <2>1, <3>1 DEF View, Parted
    <2>2. CASE c = o
      <3>1. Sent(c)' = Sent(c) \cup {q}
        BY <1>3, <1>6, <2>2 DEF Sent
      <3>2. q \notin Sent(c)
        <4>1. FromSensor(fired) \subseteq FromSensor(Events)
          BY DEF FromSensor, TypeOK
        <4> QED  BY <1>4, <1>5, <4>1 DEF Sent
      <3>3. done'[c] = done[c] /\ InHand(c)' = InHand(c)
        BY <1>2, <1>3, <2>2
      <3> QED  BY <1>1, <1>3, <1>6, <2>2, <3>1, <3>2, <3>3 DEF View, Parted
    <2>3. CASE c # b /\ c # o
      BY <1>1, <1>3, <1>6, <2>3, SameView
    <2> QED  BY <2>1, <2>2, <2>3
  <1> QED  BY <1>2, <1>7, <1>8, <1>9, FinishFacts, ViewsNext

\* What a dead broker held is lost to it.
LEMMA CrashStep ==
    ASSUME IntakeInv, NEW b \in Brokers, Crash(b)
    PROVE  IntakeInv'
  <1> USE DEF IntakeInv
  <1> DEFINE Held == InHand(b) \cup ToSet(channel[b])
  <1>1. (\A c \in Brokers : View(c)) /\ OneHand
    BY Views
  <1>2. /\ UNCHANGED <<running, known, telemetry, fired, wire, expiries, forwarded, done,
                       overrun>>
        /\ up' \subseteq up /\ gone' = gone \cup {b}
        /\ lost' = [c \in Brokers |-> IF c \in {b} THEN lost[c] \cup Held ELSE lost[c]]
        /\ channel' = [channel EXCEPT ![b] = <<>>]
        /\ hand' = [hand EXCEPT ![b] = [w \in Workers |-> Idle]]
        /\ passed' = [passed EXCEPT ![b] = {}]
        /\ filter' = [filter EXCEPT ![b] = {}]
    BY DEF Crash, Lose, sensorVars
  <1>3. Held \subseteq Packets
    <2>1. ToSet(channel[b]) \subseteq Packets
      <3>1. channel[b] \in Seq(Packets)
        BY DEF TypeOK
      <3>2. \A i \in 1 .. Len(channel[b]) : channel[b][i] \in Packets
        BY <3>1
      <3> QED  BY <3>1, <3>2, InChannel
    <2>2. InHand(b) \subseteq Packets
      BY DEF TypeOK, InHand
    <2> QED  BY <2>1, <2>2
  <1> HIDE DEF Held
  <1>4. /\ channel' \in [Brokers -> Seq(Packets)] /\ channel'[b] = <<>>
        /\ \A c \in Brokers \ {b} : channel'[c] = channel[c]
    BY <1>2, EmptyChannel DEF TypeOK
  <1>5. /\ hand' \in [Brokers -> [Workers -> Packets \cup {Idle}]]
        /\ \A w \in Workers : hand'[b][w] = Idle
        /\ \A c \in Brokers \ {b} : hand'[c] = hand[c]
    BY <1>2 DEF TypeOK
  <1>6. TypeOK'
    <2>1. ASSUME NEW c \in Brokers PROVE Len(channel'[c]) <= PacketCap
      <3>1. CASE c = b
        BY <1>4, <3>1, EmptyChannel, IntakeAssumption
      <3>2. CASE c # b
        BY <1>4, <3>2 DEF TypeOK
      <3> QED  BY <3>1, <3>2
    <2>2. lost' \in [Brokers -> SUBSET Packets]
      BY <1>2, <1>3 DEF TypeOK
    <2>3. up' \subseteq Brokers /\ gone' \subseteq Brokers
      BY <1>2 DEF TypeOK
    <2>4. /\ passed' \in [Brokers -> SUBSET Workers]
          /\ filter' \in [Brokers -> SUBSET Requisitions]
          /\ passed'[b] = {} /\ \A c \in Brokers \ {b} : passed'[c] = passed[c]
      BY <1>2 DEF TypeOK
    <2>5. \A c \in Brokers : \A v \in passed'[c] : hand'[c][v] # Idle
      BY <1>5, <2>4 DEF TypeOK
    <2> QED  BY <1>2, <1>4, <1>5, <2>1, <2>2, <2>3, <2>4, <2>5 DEF TypeOK
  <1>7. NoCopies' /\ Traced'
    BY <1>2, <1>4, EmptyChannel DEF NoCopies, Traced
  <1>8. ASSUME NEW c \in Brokers PROVE View(c)'
    <2>1. CASE c = b
      <3>1. lost'[c] = lost[c] \cup Held
        BY <1>2, <2>1
      <3>2. InHand(c)' = {}
        BY <1>5, <2>1 DEF InHand
      <3>3. ToSet(channel'[c]) = {}
        BY <1>4, <2>1, EmptyChannel
      <3>4. Held = InHand(c) \cup ToSet(channel[c]) /\ Sent(c)' = Sent(c)
        BY <1>2, <2>1 DEF Held, Sent
      <3> QED  BY <1>1, <1>2, <3>1, <3>2, <3>3, <3>4 DEF View, Parted
    <2>2. CASE c # b
      <3>1. InHand(c)' = InHand(c)
        BY <1>5, <2>2 DEF InHand
      <3>2. lost'[c] = lost[c]
        BY <1>2, <2>2
      <3> QED  BY <1>1, <1>2, <1>4, <2>2, <3>1, <3>2, SameView
    <2> QED  BY <2>1, <2>2
  <1>9. OneHand'
    BY <1>1, <1>5 DEF OneHand
  <1> QED  BY <1>6, <1>7, <1>8, <1>9, ViewsNext

-----------------------------------------------------------------------------
(* Bursts *)

\* A channel without copies holds as many packets as it is long.
LEMMA ChannelSize ==
    ASSUME NEW S, NEW s \in Seq(S), Unique(s)
    PROVE  IsFiniteSet(ToSet(s)) /\ Cardinality(ToSet(s)) = Len(s)
  <1> DEFINE f == [i \in 1 .. Len(s) |-> s[i]]
  <1>1. Len(s) \in Nat /\ \A x : x \in ToSet(s) <=> \E i \in 1 .. Len(s) : s[i] = x
    BY InChannel
  <1>2. f \in Bijection(1 .. Len(s), ToSet(s))
    <2>1. f \in [1 .. Len(s) -> ToSet(s)]
      BY <1>1
    <2>2. \A i, j \in 1 .. Len(s) : f[i] = f[j] => i = j
      BY DEF Unique
    <2>3. \A x \in ToSet(s) : \E i \in 1 .. Len(s) : f[i] = x
      BY <1>1
    <2> HIDE DEF f
    <2>4. f \in Injection(1 .. Len(s), ToSet(s))
      BY <2>1, <2>2 DEF Injection, IsInjective
    <2>5. f \in Surjection(1 .. Len(s), ToSet(s))
      BY <2>1, <2>3 DEF Surjection
    <2> QED  BY <2>4, <2>5 DEF Bijection
  <1>3. IsFiniteSet(1 .. Len(s)) /\ Cardinality(1 .. Len(s)) = Len(s)
    BY <1>1, FS_Interval
  <1> HIDE DEF f
  <1> QED  BY <1>2, <1>3, FS_Bijection DEF ExistsBijection

\* A broker that drops nothing in a step has not been reached by fewer packets.
LEMMA StillAbsorbed ==
    ASSUME IntakeInv, IntakeInv', BurstInv, NEW b \in Brokers, b \in up,
           IsFiniteSet(Sent(b)'), overrun'[b] \subseteq lost'[b],
           Reached(b) \subseteq Reached(b)', overrun'[b] = overrun[b]
    PROVE  overrun'[b] # {} => Cardinality(Reached(b)') > PacketCap
  <1>1. View(b)'
    BY ViewsNext DEF IntakeInv
  <1>2. Reached(b)' \subseteq Sent(b)'
    BY <1>1 DEF View, Parted, Reached
  <1>3. IsFiniteSet(Reached(b)')
    BY <1>2, FS_Subset
  <1>4. /\ Cardinality(Reached(b)) <= Cardinality(Reached(b)')
        /\ Cardinality(Reached(b)) \in Nat /\ Cardinality(Reached(b)') \in Nat
    BY <1>3, FS_Subset, FS_CardinalityType
  <1>5. overrun[b] # {} => Cardinality(Reached(b)) > PacketCap
    BY DEF BurstInv, BurstAbsorbed
  <1> QED  BY <1>4, <1>5, IntakeAssumption

\* A packet that finds the channel full is one more than the channel holds.
LEMMA OverrunAbsorbed ==
    ASSUME IntakeInv, IntakeInv', BurstInv, NEW b \in Brokers, NEW p \in wire[b],
           Read(b, p), TurnedAway(b, p), Len(channel[b]) = PacketCap
    PROVE  Cardinality(Reached(b)') > PacketCap
  <1> DEFINE C == ToSet(channel[b])
  <1>1. IsFiniteSet(C) /\ Cardinality(C) = PacketCap
    <2>1. channel[b] \in Seq(Packets) /\ Unique(channel[b])
      BY DEF IntakeInv, TypeOK, NoCopies
    <2> QED  BY <2>1, ChannelSize
  <1>2. p \notin C
    <2>1. View(b)
      BY Views DEF IntakeInv
    <2> QED  BY <2>1 DEF View, Parted
  <1>3. IsFiniteSet(C \cup {p}) /\ Cardinality(C \cup {p}) = PacketCap + 1
    BY <1>1, <1>2, FS_AddElement
  <1>4. /\ View(b)' /\ UNCHANGED channel
        /\ overrun'[b] = overrun[b] \cup {p} /\ lost'[b] = lost[b] \cup {p}
    BY ViewsNext DEF IntakeInv, TypeOK, TurnedAway
  <1>5. overrun'[b] \subseteq lost'[b]
    BY <1>4 DEF BurstInv
  <1>6. IsFiniteSet(Reached(b)')
    <2>1. Reached(b)' \subseteq Sent(b)'
      BY <1>4, <1>5 DEF View, Parted, Reached
    <2>2. Sent(b)' = Sent(b)
      BY DEF Read, sensorVars, Sent
    <2> QED  BY <2>1, <2>2, FS_Subset DEF BurstInv
  <1>7. C \cup {p} \subseteq Reached(b)'
    BY <1>4 DEF Reached
  <1> HIDE DEF C
  <1>8. PacketCap + 1 <= Cardinality(Reached(b)') /\ Cardinality(Reached(b)') \in Nat
    BY <1>3, <1>6, <1>7, FS_Subset, FS_CardinalityType
  <1> QED  BY <1>8, IntakeAssumption

\* A step that turns nothing away keeps the invariant if it takes nothing back from
\* a listener that runs on.
LEMMA BurstKept ==
    ASSUME IntakeInv, IntakeInv', BurstInv, \A b \in Brokers : IsFiniteSet(Sent(b)'),
           overrun' = overrun, \A b \in Brokers : lost[b] \subseteq lost'[b],
           up' \cup gone' = up \cup gone, up' \subseteq up,
           \A b \in up' : Reached(b) \subseteq Reached(b)'
    PROVE  BurstInv'
  <1>1. \A b \in Brokers : overrun'[b] \subseteq lost'[b]
    BY DEF BurstInv
  <1>2. \A b \in Brokers \ (up' \cup gone') : overrun'[b] = {}
    BY DEF BurstInv
  <1>3. ASSUME NEW b \in up'
        PROVE  overrun'[b] # {} => Cardinality(Reached(b)') > PacketCap
    <2>1. b \in Brokers /\ b \in up
      BY DEF IntakeInv, TypeOK
    <2> QED  BY <1>1, <2>1, StillAbsorbed
  <1> QED  BY <1>1, <1>2, <1>3 DEF BurstInv, BurstAbsorbed

\* A worker that ends process takes nothing back from its listener.
LEMMA FinishReached ==
    ASSUME IntakeInv, NEW b \in Brokers, NEW w \in Workers, hand[b][w] # Idle,
           Finish(b, w)
    PROVE  /\ UNCHANGED <<up, gone, fired, lost, overrun>>
           /\ \A c \in Brokers : Reached(c) \subseteq Reached(c)'
  <1>1. /\ UNCHANGED <<up, gone, fired, channel, lost, overrun>>
        /\ done'[b] = done[b] \cup {hand[b][w]}
        /\ InHand(b)' = InHand(b) \ {hand[b][w]}
        /\ \A c \in Brokers \ {b} : done'[c] = done[c] /\ InHand(c)' = InHand(c)
    BY FinishFacts
  <1> QED  BY <1>1 DEF Reached

LEMMA BurstStep == IntakeInv /\ IntakeInv' /\ BurstInv /\ [Next]_vars => BurstInv'
  <1> SUFFICES ASSUME IntakeInv, IntakeInv', BurstInv, [Next]_vars PROVE BurstInv'
    OBVIOUS
  <1>0. \A b \in Brokers : IsFiniteSet(Sent(b))
    BY DEF BurstInv
  <1>1. ASSUME NEW e \in Events, Fire(e) PROVE BurstInv'
    <2>1. /\ UNCHANGED <<up, gone, channel, hand, done, overrun, forwarded>>
          /\ UNCHANGED lost \/ Lose(Brokers, FromSensor({e}))
      BY <1>1 DEF Fire
    <2>2. ASSUME NEW b \in Brokers PROVE IsFiniteSet(Sent(b)')
      <3>1. FromSensor(fired') = FromSensor(fired) \cup {<<e, <<>>>>}
        BY <1>1, SensorPackets DEF Fire
      <3>2. Sent(b)' = Sent(b) \cup {<<e, <<>>>>}
        BY <2>1, <3>1 DEF Sent
      <3> QED  BY <1>0, <3>2, FS_AddElement
    <2>3. \A b \in up' : Reached(b)' = Reached(b)
      BY <2>1 DEF Reached, InHand
    <2>4. \A b \in Brokers : lost[b] \subseteq lost'[b]
      BY <2>1 DEF Lose
    <2> QED  BY <2>1, <2>2, <2>3, <2>4, BurstKept
  <1>2. CASE WatchBrokerDNS \/ Multicast \/ Shutdown \/ UNCHANGED vars
    <2>1. /\ UNCHANGED <<up, gone, fired, channel, hand, done, overrun, forwarded>>
          /\ UNCHANGED lost \/ \E B, P : Lose(B, P)
      BY <1>2 DEF WatchBrokerDNS, Multicast, Shutdown, vars, sensorVars
    <2>2. \A b \in up' : Reached(b)' = Reached(b)
      BY <2>1 DEF Reached, InHand
    <2>3. \A b \in Brokers : lost[b] \subseteq lost'[b]
      BY <2>1 DEF Lose
    <2>4. \A b \in Brokers : IsFiniteSet(Sent(b)')
      BY <1>0, <2>1 DEF Sent
    <2> QED  BY <2>1, <2>2, <2>3, <2>4, BurstKept
  <1>3. ASSUME NEW b \in Brokers, NEW p \in wire[b], PacketLost(b, p) PROVE BurstInv'
    <2>1. /\ UNCHANGED <<up, gone, fired, channel, hand, done, overrun, forwarded>>
          /\ lost' = [lost EXCEPT ![b] = @ \cup {p}]
      BY <1>3 DEF PacketLost, sensorVars
    <2>2. \A c \in up' : Reached(c)' = Reached(c)
      BY <2>1 DEF Reached, InHand
    <2>3. \A c \in Brokers : lost[c] \subseteq lost'[c]
      BY <2>1 DEF IntakeInv, TypeOK
    <2>4. \A c \in Brokers : IsFiniteSet(Sent(c)')
      BY <1>0, <2>1 DEF Sent
    <2> QED  BY <2>1, <2>2, <2>3, <2>4, BurstKept
  <1>4. ASSUME NEW b \in Brokers, NEW p \in wire[b], Ingest(b, p) PROVE BurstInv'
    <2>1. /\ UNCHANGED <<up, gone, fired, hand, done, forwarded>> /\ b \in up
          /\ p \in Packets /\ Read(b, p)
      BY <1>4 DEF Ingest, Read, sensorVars, IntakeInv, TypeOK
    <2>0. \A c \in Brokers : IsFiniteSet(Sent(c)')
      BY <1>0, <2>1 DEF Sent
    <2>2. CASE Queued(b, p)
      <3>0. channel' = [channel EXCEPT ![b] = Append(@, p)] /\ UNCHANGED <<lost, overrun>>
        BY <2>2 DEF Queued
      <3>1. /\ ToSet(channel'[b]) = ToSet(channel[b]) \cup {p}
            /\ \A c \in Brokers \ {b} : channel'[c] = channel[c]
        <4>1. channel[b] \in Seq(Packets) /\ channel'[b] = Append(channel[b], p)
          BY <3>0 DEF IntakeInv, TypeOK
        <4>2. \A c \in Brokers \ {b} : channel'[c] = channel[c]
          BY <3>0 DEF IntakeInv, TypeOK
        <4> QED  BY <2>1, <4>1, <4>2, SendSet
      <3>2. \A c \in Brokers : ToSet(channel[c]) \subseteq ToSet(channel'[c])
        BY <3>1
      <3>3. \A c \in up' : Reached(c) \subseteq Reached(c)'
        BY <2>1, <3>0, <3>2 DEF Reached, InHand, IntakeInv, TypeOK
      <3> QED  BY <2>0, <2>1, <3>0, <3>3, BurstKept
    <2>3. CASE Len(channel[b]) = PacketCap /\ TurnedAway(b, p)
      <3>1. /\ overrun'[b] = overrun[b] \cup {p} /\ lost'[b] = lost[b] \cup {p}
            /\ \A c \in Brokers \ {b} : overrun'[c] = overrun[c] /\ lost'[c] = lost[c]
            /\ UNCHANGED channel
        BY <2>3 DEF IntakeInv, TypeOK, TurnedAway
      <3>2. \A c \in Brokers : overrun'[c] \subseteq lost'[c]
        BY <3>1 DEF BurstInv
      <3>3. \A c \in Brokers \ (up' \cup gone') : overrun'[c] = {}
        BY <2>1, <3>1 DEF BurstInv
      <3>4. ASSUME NEW c \in up'
            PROVE  overrun'[c] # {} => Cardinality(Reached(c)') > PacketCap
        <4>1. CASE c = b
          BY <2>1, <2>3, <4>1, OverrunAbsorbed
        <4>2. CASE c # b
          <5>1. c \in Brokers /\ c \in up
            BY <2>1 DEF IntakeInv, TypeOK
          <5>2. overrun'[c] = overrun[c] /\ Reached(c)' = Reached(c)
            BY <2>1, <3>1, <4>2, <5>1 DEF Reached, InHand
          <5> QED  BY <2>0, <3>2, <5>1, <5>2, StillAbsorbed
        <4> QED  BY <4>1, <4>2
      <3> QED  BY <2>0, <3>2, <3>3, <3>4 DEF BurstInv, BurstAbsorbed
    <2> QED  BY <1>4, <2>2, <2>3 DEF Ingest
  <1>5. ASSUME NEW b \in Brokers, NEW w \in Workers, Take(b, w) PROVE BurstInv'
    <2> DEFINE p == Head(channel[b])
    <2>1. /\ UNCHANGED <<up, gone, fired, lost, done, overrun, forwarded>>
          /\ hand' = [hand EXCEPT ![b][w] = p] /\ hand[b][w] = Idle
          /\ channel' = [channel EXCEPT ![b] = Tail(@)]
      BY <1>5 DEF Take, sensorVars
    <2>2. /\ p \in Packets
          /\ ToSet(Tail(channel[b])) = ToSet(channel[b]) \ {p}
      <3>1. channel[b] \in Seq(Packets) /\ channel[b] # <<>> /\ Unique(channel[b])
        BY <1>5 DEF IntakeInv, TypeOK, NoCopies, Take
      <3> QED  BY <3>1, ReceiveSet
    <2> HIDE DEF p
    <2>3. /\ ToSet(channel[b]) \subseteq ToSet(channel'[b]) \cup {p}
          /\ \A c \in Brokers \ {b} : channel'[c] = channel[c]
      BY <2>1, <2>2 DEF IntakeInv, TypeOK
    <2>4. /\ hand'[b][w] = p /\ \A v \in Workers \ {w} : hand'[b][v] = hand[b][v]
          /\ \A c \in Brokers \ {b} : hand'[c] = hand[c]
      BY <2>1 DEF IntakeInv, TypeOK
    <2>5. InHand(b) \cup {p} \subseteq InHand(b)'
      BY <2>1, <2>2, <2>4, IntakeAssumption DEF InHand
    <2>6. \A c \in Brokers \ {b} : InHand(c)' = InHand(c)
      BY <2>4 DEF InHand
    <2>7. \A c \in Brokers : Reached(c) \subseteq Reached(c)'
      BY <2>1, <2>3, <2>5, <2>6 DEF Reached
    <2>8. \A c \in Brokers : IsFiniteSet(Sent(c)')
      BY <1>0, <2>1 DEF Sent
    <2> QED  BY <2>1, <2>7, <2>8, BurstKept DEF IntakeInv, TypeOK
  <1>6. ASSUME NEW b \in Brokers, NEW w \in Workers, Drop(b, w) \/ Return(b, w)
        PROVE  BurstInv'
    <2>1. hand[b][w] # Idle /\ Finish(b, w) /\ UNCHANGED forwarded
      BY <1>6 DEF Drop, Return, IntakeInv, TypeOK
    <2>2. /\ UNCHANGED <<up, gone, fired, lost, overrun>>
          /\ \A c \in Brokers : Reached(c) \subseteq Reached(c)'
      BY <2>1, FinishReached
    <2>3. \A c \in Brokers : IsFiniteSet(Sent(c)')
      BY <1>0, <2>1, <2>2 DEF Sent
    <2> QED  BY <2>2, <2>3, BurstKept DEF IntakeInv, TypeOK
  <1>7. ASSUME NEW b \in Brokers, NEW w \in Workers, NEW o \in Brokers, Forward(b, w, o)
        PROVE  BurstInv'
    <2>1. /\ hand[b][w] # Idle /\ Finish(b, w)
          /\ forwarded' = [forwarded EXCEPT ![o] = @ \cup {SentOn(hand[b][w], b)}]
      BY <1>7 DEF Forward, IntakeInv, TypeOK
    <2>2. /\ UNCHANGED <<up, gone, fired, lost, overrun>>
          /\ \A c \in Brokers : Reached(c) \subseteq Reached(c)'
      BY <2>1, FinishReached
    <2>3. ASSUME NEW c \in Brokers PROVE IsFiniteSet(Sent(c)')
      <3>1. /\ c = o => Sent(c)' = Sent(c) \cup {SentOn(hand[b][w], b)}
            /\ c # o => Sent(c)' = Sent(c)
        BY <2>1, <2>2 DEF Sent, IntakeInv, TypeOK
      <3> QED  BY <1>0, <3>1, FS_AddElement
    <2> QED  BY <2>2, <2>3, BurstKept DEF IntakeInv, TypeOK
  <1>8. CASE \/ \E b \in Brokers, w \in Workers : CheckAndAdd(b, w)
             \/ \E b \in Brokers, e \in Requisitions :
                   HandleShadowSync(b, e) \/ FilterExpire(b, e)
    <2>1. UNCHANGED <<up, gone, fired, channel, hand, forwarded, done, lost, overrun>>
      BY <1>8 DEF CheckAndAdd, HandleShadowSync, FilterExpire, sensorVars
    <2>2. \A c \in up' : Reached(c)' = Reached(c)
      BY <2>1 DEF Reached, InHand
    <2>3. \A c \in Brokers : IsFiniteSet(Sent(c)')
      BY <1>0, <2>1 DEF Sent
    <2> QED  BY <2>1, <2>2, <2>3, BurstKept
  <1>9. ASSUME NEW b \in Brokers, Crash(b) PROVE BurstInv'
    <2>1. /\ UNCHANGED <<fired, done, overrun, forwarded>>
          /\ Lose({b}, InHand(b) \cup ToSet(channel[b]))
          /\ b \in up /\ up' = up \ {b} /\ gone' = gone \cup {b}
          /\ channel' = [channel EXCEPT ![b] = <<>>]
          /\ hand' = [hand EXCEPT ![b] = [w \in Workers |-> Idle]]
      BY <1>9 DEF Crash, sensorVars
    <2>2. \A c \in Brokers \ {b} : channel'[c] = channel[c] /\ hand'[c] = hand[c]
      BY <2>1 DEF IntakeInv, TypeOK
    <2>3. \A c \in up' : Reached(c)' = Reached(c)
      BY <2>1, <2>2 DEF Reached, InHand, IntakeInv, TypeOK
    <2>4. up' \cup gone' = up \cup gone /\ up' \subseteq up
      BY <2>1
    <2>5. \A c \in Brokers : lost[c] \subseteq lost'[c]
      BY <2>1 DEF Lose
    <2>6. \A c \in Brokers : IsFiniteSet(Sent(c)')
      BY <1>0, <2>1 DEF Sent
    <2> QED  BY <2>1, <2>3, <2>4, <2>5, <2>6, BurstKept
  <1>10. ASSUME NEW b \in Brokers, Start(b) PROVE BurstInv'
    <2>1. /\ UNCHANGED <<gone, fired, lost, channel, hand, done, overrun, forwarded>>
          /\ up' = up \cup {b} /\ b \notin up \cup gone
      BY <1>10 DEF Start, sensorVars
    <2>2. ASSUME NEW c \in up'
          PROVE  overrun'[c] # {} => Cardinality(Reached(c)') > PacketCap
      <3>1. CASE c = b
        BY <2>1, <3>1 DEF BurstInv
      <3>2. CASE c # b
        <4>1. Reached(c)' = Reached(c) /\ c \in up /\ overrun' = overrun
          BY <2>1, <3>2 DEF Reached, InHand
        <4> QED  BY <4>1 DEF BurstInv, BurstAbsorbed
      <3> QED  BY <3>1, <3>2
    <2>3. \A c \in Brokers : IsFiniteSet(Sent(c)')
      BY <1>0, <2>1 DEF Sent
    <2> QED  BY <2>1, <2>2, <2>3 DEF BurstInv, BurstAbsorbed
  <1> QED  BY <1>1, <1>2, <1>3, <1>4, <1>5, <1>6, <1>7, <1>8, <1>9, <1>10
           DEF Next, Process

LEMMA BurstInit == Init => BurstInv
  <1> SUFFICES ASSUME Init PROVE BurstInv
    OBVIOUS
  <1>1. \A b \in Brokers : Sent(b) = {}
    BY DEF Init, Sent, FromSensor
  <1> QED  BY <1>1, FS_EmptySet, IntakeAssumption DEF Init, BurstInv, BurstAbsorbed

-----------------------------------------------------------------------------
(* Packets sent on *)

LEMMA SentOnByMember ==
    ASSUME NEW b, NEW e, NEW x
    PROVE  x \in SentOnBy(b, e) <=>
             \E o \in Brokers : \E q \in forwarded[o] :
                x = <<o, q>> /\ q[1] = e /\ Last(q[2]) = b
  BY DEF SentOnBy

LEMMA SentOnByMemberNext ==
    ASSUME NEW b, NEW e, NEW x
    PROVE  x \in SentOnBy(b, e)' <=>
             \E o \in Brokers : \E q \in forwarded'[o] :
                x = <<o, q>> /\ q[1] = e /\ Last(q[2]) = b
  BY DEF SentOnBy

\* The packet that b sends on counts for b and its event alone.
LEMMA SentOnByForward ==
    ASSUME NEW b \in Brokers, NEW p \in Packets, NEW o \in Brokers,
           forwarded'[o] = forwarded[o] \cup {SentOn(p, b)},
           \A d \in Brokers \ {o} : forwarded'[d] = forwarded[d],
           NEW c \in Brokers, NEW f \in Requisitions
    PROVE  /\ c = b /\ f = p[1] =>
                 SentOnBy(c, f)' = SentOnBy(c, f) \cup {<<o, SentOn(p, b)>>}
           /\ c # b \/ f # p[1] => SentOnBy(c, f)' = SentOnBy(c, f)
  <1> DEFINE q == SentOn(p, b)
  <1>1. q[1] = p[1] /\ Last(q[2]) = b
    <2>1. p[2] \in Seq(Brokers)
      BY DEF Packets
    <2>2. /\ Len(Append(p[2], b)) = Len(p[2]) + 1
          /\ Append(p[2], b)[Len(p[2]) + 1] = b
      BY <2>1
    <2> QED  BY <2>2 DEF SentOn, Last
  <1> HIDE DEF q
  <1>2. /\ forwarded'[o] = forwarded[o] \cup {q}
        /\ \A d \in Brokers \ {o} : forwarded'[d] = forwarded[d]
    BY DEF q
  <1>3. ASSUME NEW x
        PROVE  x \in SentOnBy(c, f)' <=>
                 x \in SentOnBy(c, f) \/ (x = <<o, q>> /\ c = b /\ f = p[1])
    <2>1. x \in SentOnBy(c, f) <=>
            \E d \in Brokers : \E r \in forwarded[d] :
               x = <<d, r>> /\ r[1] = f /\ Last(r[2]) = c
      BY SentOnByMember
    <2>2. x \in SentOnBy(c, f)' <=>
            \E d \in Brokers : \E r \in forwarded'[d] :
               x = <<d, r>> /\ r[1] = f /\ Last(r[2]) = c
      BY SentOnByMemberNext
    <2> QED  BY <1>1, <1>2, <2>1, <2>2
  <1>4. CASE c = b /\ f = p[1]
    BY <1>3, <1>4 DEF q
  <1>5. CASE ~(c = b /\ f = p[1])
    BY <1>3, <1>5 DEF q
  <1> QED  BY <1>4, <1>5

\* A step that sends nothing on and lets no worker past the filter.
LEMMA SenderKept ==
    ASSUME NEW b \in Brokers, NEW e \in Requisitions, Sender(b, e),
           UNCHANGED <<forwarded, expiries>>, b \notin gone' => b \notin gone,
           filter[b] \subseteq filter'[b] \/ (b \in gone' /\ passed'[b] = {}),
           \A w \in passed'[b] : w \in passed[b] /\ hand'[b][w] = hand[b][w]
    PROVE  Sender(b, e)'
  <1>1. SentOnBy(b, e)' = SentOnBy(b, e)
    BY DEF SentOnBy
  <1> QED  BY <1>1 DEF Sender

LEMMA ForwardInit == Init => ForwardInv
  <1> SUFFICES ASSUME Init PROVE ForwardInv
    OBVIOUS
  <1>1. ASSUME NEW b \in Brokers, NEW e \in Requisitions PROVE Sender(b, e)
    <2>1. SentOnBy(b, e) = {}
      BY DEF Init, SentOnBy
    <2>2. IsFiniteSet({}) /\ Cardinality({}) = 0
      BY FS_EmptySet
    <2> QED  BY <2>1, <2>2 DEF Init, Sender
  <1> QED  BY <1>1 DEF Init, ForwardInv

\* The filter lets one worker past and remembers the event until it forgets it.
LEMMA CheckAndAddSender ==
    ASSUME IntakeInv, ForwardInv, NEW b \in Brokers, NEW w \in Workers, CheckAndAdd(b, w),
           NEW c \in Brokers, NEW f \in Requisitions
    PROVE  Sender(c, f)'
  <1> DEFINE e == hand[b][w][1]
  <1>1. /\ UNCHANGED <<gone, hand, expiries, forwarded>>
        /\ hand[b][w] # Idle /\ w \notin passed[b] /\ e \notin filter[b]
        /\ filter' = [filter EXCEPT ![b] = @ \cup {e}]
        /\ passed' = [passed EXCEPT ![b] = @ \cup {w}]
    BY DEF CheckAndAdd, Passes
  <1>2. Sender(c, f) /\ SentOnBy(c, f)' = SentOnBy(c, f)
    BY <1>1 DEF ForwardInv, SentOnBy
  <1>3. CASE c # b
    BY <1>1, <1>2, <1>3, SenderKept DEF IntakeInv, TypeOK
  <1>4. CASE c = b
    <2>1. filter'[b] = filter[b] \cup {e} /\ passed'[b] = passed[b] \cup {w}
      BY <1>1 DEF IntakeInv, TypeOK
    <2>2. b \notin gone
      BY <1>1 DEF ForwardInv
    <2>3. CASE f = e
      <3>1. \A v \in passed[b] : hand[b][v][1] # e
        BY <1>1, <1>2, <1>4, <2>3 DEF Sender
      <3> QED  BY <1>1, <1>2, <1>4, <2>1, <2>2, <2>3, <3>1 DEF Sender
    <2>4. CASE f # e
      BY <1>1, <1>2, <1>4, <2>1, <2>4 DEF Sender
    <2> QED  BY <2>3, <2>4
  <1> QED  BY <1>3, <1>4

LEMMA FilterExpireSender ==
    ASSUME IntakeInv, ForwardInv, NEW b \in Brokers, NEW e \in Requisitions,
           FilterExpire(b, e), NEW c \in Brokers, NEW f \in Requisitions
    PROVE  Sender(c, f)'
  <1>1. /\ UNCHANGED <<gone, hand, passed, forwarded>>
        /\ \A w \in passed[b] : hand[b][w][1] # e
        /\ filter' = [filter EXCEPT ![b] = @ \ {e}]
        /\ expiries' = [expiries EXCEPT ![b][e] = @ + 1]
    BY DEF FilterExpire
  <1>2. Sender(c, f) /\ SentOnBy(c, f)' = SentOnBy(c, f)
    BY <1>1 DEF ForwardInv, SentOnBy
  <1>3. CASE c = b /\ f = e
    <2>1. expiries'[c][f] = expiries[c][f] + 1 /\ expiries[c][f] \in Nat
      BY <1>1, <1>3 DEF IntakeInv, TypeOK
    <2>2. Cardinality(SentOnBy(c, f)) \in Nat
      BY <1>2, FS_CardinalityType DEF Sender
    <2>3. \A w \in passed[c] : hand[c][w][1] # f
      BY <1>1, <1>3
    <2> QED  BY <1>1, <1>2, <2>1, <2>2, <2>3 DEF Sender
  <1>4. CASE ~(c = b /\ f = e)
    <2>1. expiries'[c][f] = expiries[c][f] /\ (f \in filter'[c] <=> f \in filter[c])
      BY <1>1, <1>4 DEF IntakeInv, TypeOK
    <2> QED  BY <1>1, <1>2, <2>1 DEF Sender
  <1> QED  BY <1>3, <1>4

\* The worker that sends the packet on is the only one past the filter with it.
LEMMA ForwardSender ==
    ASSUME IntakeInv, ForwardInv, NEW b \in Brokers, NEW w \in Workers, NEW o \in Brokers,
           Forward(b, w, o), NEW c \in Brokers, NEW f \in Requisitions
    PROVE  Sender(c, f)'
  <1> DEFINE p == hand[b][w]
  <1>1. /\ UNCHANGED <<gone, filter, expiries>>
        /\ w \in passed[b] /\ p # Idle
        /\ forwarded' = [forwarded EXCEPT ![o] = @ \cup {SentOn(p, b)}]
        /\ hand' = [hand EXCEPT ![b][w] = Idle]
        /\ passed' = [passed EXCEPT ![b] = @ \ {w}]
    BY DEF Forward, Finish, IntakeInv, TypeOK
  <1>2. p \in Packets
    BY <1>1 DEF IntakeInv, TypeOK
  <1>3. Sender(c, f)
    BY DEF ForwardInv
  <1>4. /\ c = b /\ f = p[1] =>
              SentOnBy(c, f)' = SentOnBy(c, f) \cup {<<o, SentOn(p, b)>>}
        /\ c # b \/ f # p[1] => SentOnBy(c, f)' = SentOnBy(c, f)
    <2>1. /\ forwarded'[o] = forwarded[o] \cup {SentOn(p, b)}
          /\ \A d \in Brokers \ {o} : forwarded'[d] = forwarded[d]
      BY <1>1 DEF IntakeInv, TypeOK
    <2> HIDE DEF p
    <2> QED  BY <1>2, <2>1, SentOnByForward
  <1>5. \A v \in passed'[c] : v \in passed[c] /\ hand'[c][v] = hand[c][v]
                              /\ (c = b => v # w)
    BY <1>1 DEF IntakeInv, TypeOK
  <1>6. CASE c = b /\ f = p[1]
    <2> DEFINE S == SentOnBy(c, f)
               T == SentOnBy(c, f)'
    <2>1. /\ f \in filter[c] /\ Cardinality(S) <= expiries[c][f] /\ IsFiniteSet(S)
          /\ \A v \in passed[c] : hand[c][v][1] = f => v = w
      BY <1>1, <1>3, <1>6 DEF Sender
    <2>2. T = S \cup {<<o, SentOn(p, b)>>}
      BY <1>4, <1>6
    <2>3. IsFiniteSet(T) /\ Cardinality(S) \in Nat
          /\ (Cardinality(T) = Cardinality(S) \/ Cardinality(T) = Cardinality(S) + 1)
      <3> DEFINE x == <<o, SentOn(p, b)>>
      <3> HIDE DEF S, T, x
      <3>1. T = S \cup {x}
        BY <2>2 DEF x
      <3>2. IsFiniteSet(S) /\ Cardinality(S) \in Nat
        BY <2>1, FS_CardinalityType
      <3>3. CASE x \in S
        <4>1. T = S
          BY <3>1, <3>3
        <4> QED  BY <3>2, <4>1
      <3>4. CASE x \notin S
        BY <3>1, <3>2, <3>4, FS_AddElement
      <3> QED  BY <3>3, <3>4
    <2>4. expiries[c][f] \in Nat
      BY DEF IntakeInv, TypeOK
    <2>5. Cardinality(T) <= 1 + expiries[c][f]
      <3> HIDE DEF S, T
      <3> QED  BY <2>1, <2>3, <2>4
    <2>6. \A v \in passed'[c] : hand'[c][v][1] # f
      BY <1>5, <1>6, <2>1
    <2> QED  BY <1>1, <2>1, <2>3, <2>5, <2>6 DEF Sender
  <1>7. CASE ~(c = b /\ f = p[1])
    <2>1. SentOnBy(c, f)' = SentOnBy(c, f)
      BY <1>4, <1>7
    <2> QED  BY <1>1, <1>3, <1>5, <2>1 DEF Sender
  <1> QED  BY <1>6, <1>7

\* All other steps: no packet is sent on, no event is forgotten by a running broker,
\* and no worker passes.
LEMMA QuietSender ==
    ASSUME IntakeInv, ForwardInv, NEW c \in Brokers, NEW f \in Requisitions,
           UNCHANGED <<forwarded, expiries>>, gone \subseteq gone',
           filter[c] \subseteq filter'[c] \/ (c \in gone' /\ passed'[c] = {}),
           \A w \in passed'[c] : w \in passed[c] /\ hand'[c][w] = hand[c][w]
    PROVE  Sender(c, f)'
  BY SenderKept DEF ForwardInv

LEMMA ForwardInvStep == IntakeInv /\ ForwardInv /\ [Next]_vars => ForwardInv'
  <1> SUFFICES ASSUME IntakeInv, ForwardInv, [Next]_vars PROVE ForwardInv'
    OBVIOUS
  <1>1. CASE \/ \E e \in Events : Fire(e)
             \/ WatchBrokerDNS \/ Multicast \/ Shutdown \/ UNCHANGED vars
             \/ \E b \in Brokers : \E p \in wire[b] : PacketLost(b, p) \/ Ingest(b, p)
    <2>1. UNCHANGED <<up, gone, hand, passed, filter, expiries, forwarded>>
      BY <1>1 DEF Fire, WatchBrokerDNS, Multicast, Shutdown, PacketLost, Ingest, Read,
                  vars, filterVars, sensorVars
    <2>2. \A c \in Brokers, f \in Requisitions : Sender(c, f)'
      BY <2>1, QuietSender
    <2> QED  BY <2>1, <2>2 DEF ForwardInv
  <1>2. ASSUME NEW b \in Brokers, NEW w \in Workers, Take(b, w) PROVE ForwardInv'
    <2>1. /\ UNCHANGED <<up, gone, passed, filter, expiries, forwarded>> /\ b \in up
          /\ hand' = [hand EXCEPT ![b][w] = Head(channel[b])] /\ hand[b][w] = Idle
      BY <1>2 DEF Take, filterVars
    <2>2. /\ w \notin passed[b] /\ \A v \in Workers \ {w} : hand'[b][v] = hand[b][v]
          /\ \A c \in Brokers \ {b} : hand'[c] = hand[c]
      BY <2>1 DEF IntakeInv, TypeOK
    <2>3. \A c \in Brokers : \A v \in passed'[c] :
             v \in passed[c] /\ hand'[c][v] = hand[c][v]
      BY <2>1, <2>2 DEF IntakeInv, TypeOK
    <2>4. \A c \in Brokers, f \in Requisitions : Sender(c, f)'
      BY <2>1, <2>3, QuietSender
    <2> QED  BY <2>1, <2>2, <2>4 DEF ForwardInv, IntakeInv, TypeOK
  <1>3. ASSUME NEW b \in Brokers, NEW w \in Workers, Finish(b, w)
        PROVE  /\ UNCHANGED <<up, gone, filter, expiries>>
               /\ \A c \in Brokers : \A v \in passed'[c] :
                     v \in passed[c] /\ hand'[c][v] = hand[c][v]
               /\ \A c \in gone' : \A v \in Workers : hand'[c][v] = Idle
    <2>1. /\ UNCHANGED <<up, gone, filter, expiries>>
          /\ hand' = [hand EXCEPT ![b][w] = Idle]
          /\ passed' = [passed EXCEPT ![b] = @ \ {w}]
      BY <1>3 DEF Finish
    <2>2. /\ hand'[b][w] = Idle /\ \A v \in Workers \ {w} : hand'[b][v] = hand[b][v]
          /\ \A c \in Brokers \ {b} : hand'[c] = hand[c]
      BY <2>1 DEF IntakeInv, TypeOK
    <2>3. /\ passed'[b] = passed[b] \ {w} /\ passed[b] \subseteq Workers
          /\ \A c \in Brokers \ {b} : passed'[c] = passed[c]
      BY <2>1 DEF IntakeInv, TypeOK
    <2> QED  BY <2>1, <2>2, <2>3 DEF ForwardInv, IntakeInv, TypeOK
  <1>4. ASSUME NEW b \in Brokers, NEW w \in Workers, Drop(b, w) \/ Return(b, w)
        PROVE  ForwardInv'
    <2>1. Finish(b, w) /\ UNCHANGED forwarded
      BY <1>4 DEF Drop, Return
    <2>2. \A c \in Brokers, f \in Requisitions : Sender(c, f)'
      BY <1>3, <2>1, QuietSender
    <2> QED  BY <1>3, <2>1, <2>2 DEF ForwardInv
  <1>5. ASSUME NEW b \in Brokers, NEW w \in Workers, NEW o \in Brokers, Forward(b, w, o)
        PROVE  ForwardInv'
    <2>1. \A c \in Brokers, f \in Requisitions : Sender(c, f)'
      BY <1>5, ForwardSender
    <2>2. Finish(b, w)
      BY <1>5 DEF Forward
    <2> QED  BY <1>3, <2>1, <2>2 DEF ForwardInv
  <1>6. ASSUME NEW b \in Brokers, NEW w \in Workers, CheckAndAdd(b, w) PROVE ForwardInv'
    <2>1. \A c \in Brokers, f \in Requisitions : Sender(c, f)'
      BY <1>6, CheckAndAddSender
    <2> QED  BY <1>6, <2>1 DEF ForwardInv, CheckAndAdd
  <1>7. ASSUME NEW b \in Brokers, NEW e \in Requisitions, HandleShadowSync(b, e)
        PROVE  ForwardInv'
    <2>1. /\ UNCHANGED <<up, gone, hand, passed, expiries, forwarded>>
          /\ filter' = [filter EXCEPT ![b] = @ \cup {e}]
      BY <1>7 DEF HandleShadowSync
    <2>2. \A c \in Brokers : filter[c] \subseteq filter'[c]
      BY <2>1 DEF IntakeInv, TypeOK
    <2>3. \A c \in Brokers, f \in Requisitions : Sender(c, f)'
      BY <2>1, <2>2, QuietSender
    <2> QED  BY <2>1, <2>3 DEF ForwardInv
  <1>8. ASSUME NEW b \in Brokers, NEW e \in Requisitions, FilterExpire(b, e)
        PROVE  ForwardInv'
    <2>1. \A c \in Brokers, f \in Requisitions : Sender(c, f)'
      BY <1>8, FilterExpireSender
    <2> QED  BY <1>8, <2>1 DEF ForwardInv, FilterExpire
  <1>9. ASSUME NEW b \in Brokers, Crash(b) PROVE ForwardInv'
    <2>1. /\ UNCHANGED <<expiries, forwarded>>
          /\ up' = up \ {b} /\ gone' = gone \cup {b}
          /\ hand' = [hand EXCEPT ![b] = [w \in Workers |-> Idle]]
          /\ passed' = [passed EXCEPT ![b] = {}]
          /\ filter' = [filter EXCEPT ![b] = {}]
      BY <1>9 DEF Crash
    <2>2. /\ passed'[b] = {} /\ \A w \in Workers : hand'[b][w] = Idle
          /\ \A c \in Brokers \ {b} : /\ passed'[c] = passed[c] /\ hand'[c] = hand[c]
                                      /\ filter'[c] = filter[c]
      BY <2>1 DEF IntakeInv, TypeOK
    <2>3. \A c \in Brokers, f \in Requisitions : Sender(c, f)'
      BY <2>1, <2>2, QuietSender
    <2> QED  BY <2>1, <2>2, <2>3 DEF ForwardInv, IntakeInv, TypeOK
  <1>10. ASSUME NEW b \in Brokers, Start(b) PROVE ForwardInv'
    <2>1. /\ UNCHANGED <<gone, hand, passed, filter, expiries, forwarded>>
          /\ up' = up \cup {b} /\ b \notin gone
      BY <1>10 DEF Start, filterVars
    <2>2. \A c \in Brokers, f \in Requisitions : Sender(c, f)'
      BY <2>1, QuietSender
    <2> QED  BY <2>1, <2>2 DEF ForwardInv
  <1> QED  BY <1>1, <1>2, <1>4, <1>5, <1>6, <1>7, <1>8, <1>9, <1>10 DEF Next, Process

-----------------------------------------------------------------------------

\* The inductive invariant: the channels hold nothing twice, a broker is done with
\* what it sent on, and the places a packet can be in part the packets sent to each
\* broker.
THEOREM IntakeInvariant == Spec => []IntakeInv
  <1>1. Init => IntakeInv
    BY IntakeInit
  <1>2. IntakeInv /\ [Next]_vars => IntakeInv'
    <2> SUFFICES ASSUME IntakeInv, [Next]_vars PROVE IntakeInv'
      OBVIOUS
    <2>1. ASSUME NEW e \in Events, Fire(e) PROVE IntakeInv'
      BY <2>1, FireStep
    <2>2. CASE Multicast
      BY <2>2, MulticastStep
    <2>3. CASE Shutdown
      BY <2>3, ShutdownStep
    <2>4. ASSUME NEW b \in Brokers, NEW p \in wire[b], PacketLost(b, p) \/ Ingest(b, p)
          PROVE  IntakeInv'
      BY <2>4, PacketLostStep, IngestStep
    <2>5. ASSUME NEW b \in Brokers, NEW w \in Workers, Take(b, w) PROVE IntakeInv'
      BY <2>5, TakeStep
    <2>6. ASSUME NEW b \in Brokers, NEW w \in Workers, Drop(b, w) \/ Return(b, w)
          PROVE  IntakeInv'
      <3>1. hand[b][w] # Idle /\ Finish(b, w) /\ UNCHANGED <<wire, forwarded>>
        BY <2>6 DEF Drop, Return, IntakeInv, TypeOK
      <3> QED  BY <3>1, ReturnStep
    <2>7. ASSUME NEW b \in Brokers, NEW w \in Workers, NEW o \in Brokers,
                 Forward(b, w, o)
          PROVE  IntakeInv'
      BY <2>7, ForwardStep
    <2>8. ASSUME NEW b \in Brokers, Crash(b) PROVE IntakeInv'
      BY <2>8, CrashStep
    <2>9. CASE \/ WatchBrokerDNS \/ UNCHANGED vars \/ \E b \in Brokers : Start(b)
               \/ \E b \in Brokers, w \in Workers : CheckAndAdd(b, w)
               \/ \E b \in Brokers, e \in Requisitions :
                     HandleShadowSync(b, e) \/ FilterExpire(b, e)
      <3>1. /\ TypeOK'
            /\ UNCHANGED <<telemetry, fired, wire, channel, hand, forwarded, done, lost>>
        BY <2>9, QuietTypes DEF IntakeInv
      <3> QED  BY <3>1, QuietStep
    <2> QED  BY <2>1, <2>2, <2>3, <2>4, <2>5, <2>6, <2>7, <2>8, <2>9 DEF Next, Process
  <1> QED  BY <1>1, <1>2, PTL DEF Spec

\* Both channels stay within their capacity and all state has its type, for any
\* brokers, workers, events and capacities (load_generator.go:71-77,
\* broker/main.go:84-88).
THEOREM IntakeTypes == Spec => []TypeOK
  BY IntakeInvariant, PTL DEF IntakeInv

\* Between the engine, the brokers that send packets on and the workers no packet
\* is doubled and none vanishes without being counted as lost, whatever is full,
\* slow or crashes and however often the filters forget (load_generator.go:71-77,
\* sensor/main.go:126-147, broker/main.go:75-89, mission_processor.go:57-65).
THEOREM PacketsAreConserved == Spec => []IntakeConserved
  BY IntakeInvariant, PTL DEF IntakeInv

\* For any capacity and any number of stuck workers: a listener has dropped a packet
\* only if more than PacketCap, from the sensor or from other brokers, reached it; a
\* crash, a late start of the container or packets in the hands of workers do not
\* change that (broker/main.go:57, 84-88).
THEOREM BurstsAreAbsorbed == Spec => []BurstAbsorbed
  <1>1. BurstInv => BurstAbsorbed
    BY DEF BurstInv
  <1> QED  BY <1>1, BurstInit, BurstStep, IntakeInvariant, PTL DEF Spec

\* For any number of brokers and workers, and rings that disagree in any way: a
\* broker sends a requisition on once, and once more each time its filter forgot it
\* (mission_processor.go:38-42, 57-65, idempotency_table.go:26-54).
THEOREM ForwardsAreBounded == Spec => []ForwardsBounded
  <1>1. ForwardInv => ForwardsBounded
    BY DEF ForwardInv, Sender, ForwardsBounded
  <1> QED  BY <1>1, ForwardInit, ForwardInvStep, IntakeInvariant, PTL DEF Spec

=============================================================================
