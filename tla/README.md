# Verification of ormuz-ledger

TLA+ models of the ormuz-ledger services, the TLC configurations that check
them on small instances, and TLAPS proofs of the properties that matter most.
Paths below are relative to the repository (`src/`). `PROJECT.json` lists every
run, mutant, hazard, finding and theorem, and for each definition the source
lines it models.

## 1. The system

Sensors of several nations watch a sea area and multicast events over UDP.
Replicated brokers take them up; the broker that owns an event's sector charges
the nation one credit on a CometBFT ledger and, if that succeeds, queues a
mission. Stations fetch missions from the brokers and hand them to drones, which
fly, hold a lease with heartbeats, acknowledge, and file a report on the ledger.

| Component | State | Operations | Talks to |
|---|---|---|---|
| Ledger app (`internal/ledger/app.go`) | LevelDB: balances, duplicate locks, reports | `CheckTx`, `FinalizeBlock` (one Put after another), `Commit`, `Query`, start | CometBFT (ABCI) |
| CometBFT (external) | mempool, chain, block store | submit, decide, replay after a restart | ledger app |
| Mission processor (`cmd/broker/mission_processor.go`) | worker states, idempotency filter | filter, stamp, forward or charge, enqueue, gossip | ring, ledger client, queue, siblings |
| Sector router (`cmd/broker/routing.go`) | consistent ring of member IPs | `WatchTopology`, `GetOwnerIP`, forward | DNS, shadow buffer (callback) |
| Shadow buffer, waiting room (`shadowbuffer.go`, `unverified_buffer.go`) | backups of approved missions, events awaiting a verdict | `Store`, rescue, janitor | queue |
| Queue API (`cmd/broker/http_server.go`) | `pendingMissions` | pop, resolve, janitor (60 s), shadow sync | stations, siblings |
| Priority queue (`pkg/queue`) | heap of missions | `Enqueue`, `Dequeue`, anti-starvation pass | Lamport clock |
| Lamport clock (`pkg/clock`) | one `uint64` | `Tick`, `Get`, `Sync` | workers |
| Station (`cmd/station`) | registered drones, leases, expired missions | register, pull, renew, ack, fallback loop | brokers, drones |
| Flight radar (`pkg/radar`) | lease records | mark, renew, acknowledge, sweep | station |
| Drone (`cmd/drone`) | two goroutines and two unbuffered channels | pull, fly, heartbeat, ack, report | station, ledger |
| Ledger client (`cmd/broker/ledger_client.go`) | - | `SpendCredit`: sign, submit with retries, read the answer | CometBFT |
| HTTP client (`pkg/server`) | - | calls with up to 4 attempts and backoff | all of them |
| Sensors (`cmd/sensor`, `internal/sensor`) | `telemetryChan` (500), list of brokers | generate, resolve the brokers, multicast, shut down | brokers |
| UDP listener and workers (`cmd/broker/main.go`, `mission_processor.go`) | `rawPacketsChan` (5000), 10 workers | read, queue or drop, process | sensors, mission processor |
| Grid geometry (`pkg/routing`) | - | pure functions, called by no service | - |

What is hard here:

- **Crashes between writes.** The ledger writes LevelDB Put by Put, has no
  `Info`, and so replays the whole chain on a half-written database.
- **At-least-once and at-most-once calls mixed.** `PostJSON` repeats, UDP and
  gossip do not; the brokers share one DNS name, so a call may reach a replica
  that does not know what it is about.
- **Time-outs that race late answers.** The broker takes a mission back after
  60 s, the station after a lapsed lease, the drone may still be flying.
- **Stale views.** Ownership is read from a ring refreshed every 5 s; the credit
  `CheckTx` reads is old when the block executes.
- **Limits.** Two channels that are sent to without blocking drop what does not fit;
  brokers send packets on into each other's channels; a full mempool answers with an
  error that reads as an approval.
- **Two views of one session.** A drone decides by itself that it is registered; its
  station may have forgotten it.
- **Goroutines.** Handlers that release a lock between two halves, two channels
  that block each other, compare-and-swap on a shared clock, a heap edited in
  place under a lock.

What makes each part correct:

- *Ledger*: one credit per spend, reports never replaced, validators agree, every
  block is executed.
- *Charge*: no charge is in the chain twice, a refusal is final, what a mempool took is
  paid unless the nation runs out of credit.
- *Intake*: no packet is doubled or vanishes uncounted, a burst fits the channel, brokers
  do not feed each other for ever, every packet comes to rest, the sensor follows the
  brokers.
- *Broker cluster*: no mission without an approval, no more copies than
  approvals, backups survive the owner's crash.
- *Dispatch*: a mission is neither lost nor multiplied, it is done only when it was
  flown, it never stays checked out for ever.
- *Fleet*: register and pull alone never strand a drone, an aborted drone is adopted
  again, every mission succeeds while a drone is left that neither hangs nor asks a
  station that forgot it.
- *Flight*: no heartbeat after the flight, no abort without three misses, the
  lease holds while pings are answered, every flight ends.
- *Queue and clock*: priority order, no starvation, unique and causal stamps, no swap
  lost without a winner.

## 2. Modules

Each component module has its proofs, where there are any, in `<Module>Proofs`
and its instances for TLC in `MC<Module>`. The way of an event through the modules is
`Intake` (sensor to worker), `BrokerCluster` (worker to queue, with the outcome of a
charge as a choice), `Charge` composed with `Ledger` (the charge itself), `Dispatch`
(queue to drone and back), `Fleet` (drones and stations that lose each other) and
`Flight` (one mission in time).

### Ledger

State: per validator the LevelDB (`balance`, `processed`, `reports`) and where
`FinalizeBlock` is (`height`, `pos`, `stage`); CometBFT's `chain`, `mempool`,
`stored`, external. A transaction is a record of what the code distinguishes:
does it parse, type, nation, event, what signature verification finds, payload.

`FinalizeBlock` is split at its Puts: `DebitTx` (balance), `LockTx`
(`processed:`), `FileTx` (`report:`), and `RejectTx` for every error code. ABCI calls are
serial, so only a crash (`Restart`) sees the middle of a transaction: the Puts
made so far stay, and since `Info` reports height 0, the whole chain is replayed.
`torn` counts the crashes that fell between two Puts of one transaction. `Decide`
puts any duplicate-free choice of one mempool's transactions in a block, and
the mempools are rechecked, as CometBFT does after a commit.

`short` says that an event id has fewer than eight characters. `CheckTx` looks at
neither signature nor event id, so such a transaction can be in a block, and the log
line for an invalid signature slices `EventID[:8]` (`Panics`): `FinalizeBlock` stops there, in
this run and in every replay. Identifiers that were signed are UUIDs of the sensor, so
the other log lines are in range. An event and the nation that pays for it are drawn
together by the sensor; `TxsAssumption` says so.

### Charge

`Charge` EXTENDS `Ledger` and composes it with its clients: calls of `SpendCredit` by
any worker of any broker (`attempts`, `verdict`, and `asked`, the validator whose answer a
call waits for), and of CometBFT's mempool what `Ledger` leaves abstract: the `cache` of
known transactions, the calls of `CheckTx` under way (`checking`), the limit `MaxPool`,
gossip, and requests that arrive after their caller stopped waiting (`late`).

- A transaction enters the cache first (`BeginCheck`) and is checked later (`EndCheck`). If
  the application refuses it, or the pool has filled up meanwhile, the cache forgets it
  again (`Forget`). In between a second submission is turned away as known.
- `CheckTx` may be answered between `FinalizeBlock` and the update of the mempool, from the
  balance the block left behind. `UpdateMempool` waits for such answers (CometBFT's
  `FlushAppConn`), ends the block and rechecks: what was committed stays in the cache,
  what was dropped does not and may be submitted again.
- An attempt may reach any validator: `Ask` if its mempool takes it up, `RpcError` if the
  answer is a JSON-RPC error. That comes for a full mempool, a known transaction, a node
  that is catching up or has lost its application, so the model lets it come at any
  time. It has no `result`, comes with HTTP 200 and is read as code 0, an approval.
- `Lost` and `TimedOut` are attempts without an answer, before and after the mempool took
  them up; a lost request may arrive later (`LateArrival`). `MaxTries` is `maxRetries + 1`.
- Ed25519 is deterministic and a spend carries no payload, so all brokers that charge
  one event submit the same bytes; this is why a call is mapped to a transaction
  (`TxOf`).
- Of CometBFT, as configured in `deployments/config`: recheck on, invalid transactions
  not kept in the cache, 5000 transactions per mempool. The cache of 10000 is taken as
  never full, and validators do not restart here (`Ledger` has the restarts).

### Intake

From the engine to the workers: `Fire` (drops when `telemetryChan` is full),
`WatchBrokerDNS`, `Multicast` (one datagram for each broker on the list of the moment),
`Shutdown`, `PacketLost`, `Ingest` (drops when `rawPacketsChan` is full), `Take`, and `process`
in its parts: `Drop` (noise, or an event the filter knows), `CheckAndAdd`, `Return` (the owner,
after `SpendCredit`) and `Forward` (`forwardPacket` to the owner's UDP port). A forwarded
packet goes into the same channel as the sensor's, so `rawPacketsChan` has two kinds of
producers and one event can be in a broker several times.

A packet is therefore an event with the brokers that sent it on; the sensor's has none.
`HandleShadowSync` and `FilterExpire` are in the module because they decide what passes the
filter a second time. Brokers `Crash` and `Start` under a new address. `fired`, `forwarded`,
`done`, `lost` and `overrun` are history. Which broker owns a sector is the subject of
`BrokerCluster`; here any worker may find its broker the owner or another one, which
covers rings that disagree in any way.

### BrokerCluster

From a sensor's packet to the queue: `Take` (filter), `Forward` (to the owner, and
a copy in the waiting room), `Charge`, `SpendCredit` with its outcomes, `Approve` and
`Reject` (enqueue, gossip), `ShadowSync` (ACK or NACK), `UnverifiedExpire`,
`FilterExpire`; then topology: `DnsUpdate`, `WatchTopology`, `RescueVisit` (one key of
the shadow buffer at a time), `Start`, `Crash`; and `QueuePop` by a station.

- A broker is an IP address. All its state is in memory and a restarted container
  gets a new address, so a crashed broker never returns; a `Start` is a new one.
- The ring is abstracted to a strict order of the brokers for each event
  (`Rank`): the owner is the first member of the view. That is what a consistent
  ring gives, and it makes ownership move exactly when membership does.
- `SpendCredit` takes at most 8.5 s and the filter remembers 60 s, so
  `FilterExpire` happens only when no worker has the event. Other times are abstract:
  the waiting room may expire whenever it holds something.
- `SpendCredit` is a choice among its outcomes; `Charge` shows how each comes about.
- Rescues are 5 s apart and short, so two never overlap in one broker.

### Dispatch

From the queue to a drone and back. Handlers with two critical sections are two
actions: `QueuePop` and `QueueCheckout`, `QueueResolve` or `PendingTimeout` and
`QueueReturn`. HTTP calls in progress are records with their attempt; they are
executed by any broker, lost before or after execution, and repeated up to `MaxTries`
times. Stations crash and forget; drones abort or land. Time is abstract: a lease
or a checkout may expire whenever it exists, which covers every real timing.
`checkout` numbers in calls and leases are history: the code sends the event id
only, and no guard reads the number.

### Fleet

The main loop of the drones against stations that crash and come back. A drone is
off, free, in a pull with its attempt, flying a mission or hung, with the station it
believes to belong to; a station has its list of drones and its leases (`radar`), the
broker its `queue` and `pending` missions. `Register`, `PullStart`, `PullRefused` (401 or 204,
which the code treats alike), `PullServed`, `PopLost` and `PullLate` (a repeated GET that has
already taken a mission), `PullUnanswered`; `LeaseExpires`, `PendingTimeout`, `Crash`, `Recover`.

A flight ends in every way module `Flight` has: it lands (`LandReported`, `LandUnreported` when
the station asks a replica that does not hold the checkout, `LandUnheard`), three failed
pings abort it (`Abort`), or they come as it ends and the drone hangs (`Hang`, the finding
`flight_hang`). A lease can run out in flight; the pings then fail, and a SUCCESS that
comes nevertheless finds nothing pending. Leases that lapse in flight and reports at
the wrong replica are not bounded; crashes and calls that get lost are (`MaxFaults`).
`forsaken` is history: drones whose station lost its memory.

### Flight

One mission in one drone, in half seconds: main goroutine, heartbeat goroutine,
ticker with its buffer of one, `abortChan`, `doneChan`, and the station's lease
record with its sweep. `MaxCall` is 17: four attempts of 2 s and 0.475 s of
backoff. Time passes only when no goroutine can act at once. `LeaseHeld` says when
the lease is safe: pings that are all answered within the lease less one tick.
A flight (at most 9 s) is shorter than its first lease (10 s); the renewals matter
because main waits for the heartbeat, whose last ping may outlast the flight by
8.5 s. A ping that is answered but takes longer can find the lease gone.

### LamportClock

Every atomic instruction of `Tick` and `Sync` is a step of one of the workers that
share the clock. `log` records the stamps in the order in which they were given; `misses`
and `beaten` count, since a worker took its packet, the swaps it lost and the changes of
the clock by others. The loop of `Sync` is lock-free and not wait-free: one worker may
lose any number of swaps, but each loss is another's progress (`LostToWinners`).

### PriorityBag and PriorityQueue

`PriorityBag` is the abstract queue: a set from which a first element is taken and
in which old missions become critical. `PriorityQueue` is the slice with the order
`Less`, and the loops of `container/heap` (external) swap by swap: `Up` for a push, `Down`
for a pop and for `heap.Init`, whose outer loop is `Heapify`. `Dequeue` and `Pop` are the
first and the last step of `heap.Pop`. `holder` is the operation that has the mutex; it
keeps the others out while a loop runs, and `at` and `top` are the loop's positions.
`AntiStarvation` is one scan of the worker, with its unsigned subtraction (`Word`); it
leaves the mutex held when `heap.Init` has to follow. The refinement of `PriorityBag` maps
`items <- ToSet(heap)`: a mission counts as taken when `Pop` cuts it off.

## 3. Runs

Each passing run ends within two and a half minutes on two workers.

| Run | Instance | Checks |
|---|---|---|
| `ledger_replay` | 2 validators, 2 blocks of at most 2 transactions, a spend and two rival reports, 1 restart each | `TypeOK`, `TornWritesBounded`, `Agreement`, `ReportsImmutable` |
| `ledger_blocks` | 1 validator, 2 blocks of 2, three spends on one credit; malformed, forged, corrupt and foreign transactions, one forged with a short event id; fair | `TornWritesBounded`, `DebtBounded`, `EventuallyCaughtUp` |
| `cluster_missions` | 1 broker, a second starts and inherits the sector; 1 crash, 1 expiry of each filter; fair | `TypeOK`, `FliesOnlyIfApproved`, `CopiesBounded`, `FailoverRescues` |
| `charge_retries` | 3 calls for a nation with two credits, 2 validators, mempools of 1, 2 attempts, 2 blocks of at most 2, unanswered attempts of one call (`Unlucky`); fair | `NothingRejected`, `RefusalIsFinal`, `ApprovedPaidOrBroke` |
| `intake_packets` | 2 brokers, one of them running at first, 2 workers each, 1 requisition and 1 other event, channels of 1, 1 expiry; fair | `TypeOK`, `IntakeConserved`, `BurstAbsorbed`, `ForwardsBounded`, `EveryEventSettles`, `DiscoveryFollows` |
| `fleet_service` | 2 drones, 2 stations, 2 missions, 2 attempts, 2 faults (crashes or losses); fair | `StrandedOnlyByCrash`, `AbortedReadopted`, `ServedUnlessStranded` |
| `dispatch_missions` | 2 brokers, 1 station, 2 drones, 1 mission, 2 attempts per call, 2 checkouts, 2 timeouts, 1 crash; fair broker goroutines | `TypeOK`, `MissionConserved`, `ResolvedMeansFlown`, `RedispatchesBounded`, `NoMissionStuck` |
| `flight_code` | the code's own timings; fair | `TypeOK`, `NoStrayHeartbeat`, `AbortNeedsMisses`, `LeaseHeld`, `FlightEnds` |
| `lamport_clock` | 3 workers, 3 stamps, received clocks 0, 1, 3 | `StampsIncrease`, `StampsCausal`, `LostToWinners` |
| `priority_queue` | 5 missions of 2 sensors, 2 stamps, clock up to 2, limit 1, words of 16 | `TypeOK`, `HeapOrdered`, `ImplementsBag`, `AgedNotOvertaken` |

What they show:

- `ledger_replay`: restarts and replays in any order, torn or not. Each torn
  transaction costs at most one credit or one report; validators that were never
  torn agree; the first report on an event stays.
- `ledger_blocks`: a nation can be debited below zero, but only within the block
  that its last credit let in, because CometBFT rechecks what is left. A rejected
  transaction changes nothing, and none but a forged one with a short event id
  (`AtForgedShort`) holds a validator up.
- `cluster_missions`: in spite of stale rings, forwarded and gossiped copies, late
  verdicts, forgetful filters and crashes nothing flies without an approval and
  nothing is queued by one broker more often than it was approved; a backup that
  exists when the owner crashes is rescued.
- `charge_retries`: whatever retries, late requests, gossip and other brokers submit,
  the chain holds a charge once, and no block decided after some `CheckTx` refused an
  event holds it. A mission is queued before it is paid; if a mempool ever took the
  charge, then in the end each validator has debited it or the nation has nothing left.
- `intake_packets`: a packet is in exactly one place at any time, lost included, although
  brokers send copies of an event on; a broker whose workers are all busy drops packets
  only after more than a channel of them reached it; a broker sends an event on once
  and once more for each time its filter forgot it; no packet blocks the ones behind it
  and all of them come to rest.
- `fleet_service`: lost and repeated calls of register and pull alone never strand a
  drone, and missions taken by a repeated pull, given up, hung on or reported to the
  wrong replica come back. All missions succeed unless in the end every drone hangs or
  asks a station that does not know it.
- `dispatch_missions`: lost, repeated, late and misdirected calls neither lose nor
  multiply a mission, and each further checkout has a cause.
- `flight_code`: heartbeat, abort and lease for every duration of every ping.
- `lamport_clock`, `priority_queue`: stamps are unique and causal, and `Sync` loses a swap
  only to another worker; the heap implements the abstract queue and old missions are
  served.

Why the bounds are enough for what they show:

- A torn write needs one restart, a duplicate needs two blocks. Debt beyond the bound
  would need a spend admitted at zero after a block: two blocks and three spends of
  one nation. Two rival reports suffice for replacement. Heights beyond two repeat
  the same replay; the proofs of the ledger cover every bound.
- In the cluster, events do not interact (every table is keyed by event), so one
  event shows everything. Two brokers suffice for a takeover by a newcomer, the
  failover back, duplicate charges and forgetful filters.
- In the charge, three calls are two more than a mempool holds and one more than the
  credits; two attempts show a retry that meets what the first attempt left behind, a
  check under way included. Two blocks of two are enough to exhaust the nation, and for
  a refusal from the balance that a block just left. Only one call has unanswered
  attempts (`Unlucky`): a late request matters only against the same transaction's other
  submissions and another call's debit.
- In the intake, channels of one are full after one packet; the second event, and the
  copies the other broker sends on, find a worker, the channel and the next packet in
  every combination. Requisitions do not interact in the filter. One expiry lets a
  broker send an event on a second time, and back to where it came from. The second
  broker starts late and either may crash, so the list is stale in both directions.
- In the fleet, two faults are two crashes, which take both stations' memories, a
  registration or pull executed without an answer and a crash after it, or two losses.
  Two drones compete for two missions, so a mission whose lease lapsed is flown by the
  other drone while the first still flies it.
- In dispatch, missions do not interact either. A repeated call needs two attempts;
  the code's four multiply the same case. Two checkouts let an old call meet a
  new checkout.
- In flight, `MaxNow` 36 is the longest flight (18) with the longest call (17) in
  its last moment.
- The heap of five has two levels below the root, nodes with one child and with two,
  sifts in both directions and a `heap.Init` with two roots. Stamps 0 and 2 against a
  clock up to 2 give stamps behind, at and ahead of the clock, old enough and not. The
  proofs cover every length.
- Runs that say `CHECK_DEADLOCK FALSE` end because the bounded inputs are used up
  (in flight also because a mission ends). The queue never ends.

Symmetry is used for the validators of `ledger_replay`, which checks no liveness.

### Fairness

- *Ledger*: weak fairness of `FinalizeBlock` on each validator: CometBFT delivers
  decided blocks and the process runs; restarts are bounded.
- *Dispatch*: only the broker's own goroutines (second halves of handlers, the
  janitor's ticker). Stations, drones and calls are not fair.
- *Flight*: time passes, the sweep ticks, goroutines that can run do. A step
  offered together with others in one `select` (`Done` of the heartbeat) gets
  strong fairness: Go chooses among ready cases at random.
- *Charge*: a call makes its attempts, because each has a timeout; the application
  answers `CheckTx`; a validator executes what was decided. `Decide` of each validator gets strong fairness: proposers take
  turns, and a proposer's mempool may be empty in between. Gossip and late requests
  are not fair.
- *Intake*: goroutines run, the ticker of the discovery fires, a datagram is read or
  lost, and `process` returns because `SpendCredit` has timeouts. The engine, the
  shutdown, the gossip, the filters' expiry and the containers are not fair.
- *Fleet*: the drones' loops go on, calls return, the tickers of station and broker
  fire. A flight ends in some way, the hang included, and nothing makes it land rather
  than abort or hang, except that the network is not always bad: a drone that again and
  again could land with its mission pending and its station up does so some time
  (strong fairness of `LandReported` with an effect). Only a lease that no drone flies
  under has to expire. Nobody has to restart a station.
- *BrokerCluster*: DNS follows, `WatchTopology` looks every 5 s, a rescue ends.
  Packets, gossip and charges are not fair.

## 4. Proofs

For every value of the constants that satisfies the module's `ASSUME`s: any
number of nodes, transactions, brokers, stations, drones, retries, crashes.

| Theorem | States |
|---|---|
| `LedgerProofs!TornWritesAreBounded` | `Spec => []TornWritesBounded` |
| `LedgerProofs!ReportsAreImmutable` | `Spec => ReportsImmutable` |
| `LedgerProofs!TypeCorrect` | `Spec => []TypeOK` |
| `LedgerProofs!ValidatorsAgree` | `Spec => []Agreement` |
| `LedgerProofs!DebtIsBounded` | `Spec => []DebtBounded` |
| `LedgerProofs!ChargeImplementsLedger` | `ChargeSpec => Spec`, the specification of `Ledger` |
| `LedgerProofs!RefusalsAreFinal` | `ChargeSpec => RefusalIsFinal` |
| `LedgerProofs!ChargesAreExecuted` | `ChargeSpec => []NothingRejected`: no charge is in the chain twice |
| `IntakeProofs!IntakeTypes` | `Spec => []TypeOK` |
| `IntakeProofs!PacketsAreConserved` | `Spec => []IntakeConserved` |
| `IntakeProofs!BurstsAreAbsorbed` | `Spec => []BurstAbsorbed` |
| `IntakeProofs!ForwardsAreBounded` | `Spec => []ForwardsBounded` |
| `DispatchProofs!DispatchTypes` | `Spec => []TypeOK` |
| `DispatchProofs!MissionsAreConserved` | `Spec => []MissionConserved` |
| `DispatchProofs!SuccessIsFlown` | `Spec => []ResolvedMeansFlown` |
| `DispatchProofs!NoRedispatchUnpaid` | `Spec => []RedispatchesBounded` |
| `FleetProofs!FleetTypes` | `Spec => []TypeOK` |
| `FleetProofs!OnlyCrashesStrand` | `Spec => []StrandedOnlyByCrash` |
| `FlightProofs!FlightTypes` | `Spec => []TypeOK` |
| `FlightProofs!HeartbeatEnds` | `Spec => []NoStrayHeartbeat` |
| `FlightProofs!AbortsAreEarned` | `Spec => []AbortNeedsMisses` |
| `FlightProofs!LeasesAreHeld` | `Spec => []LeaseHeld` |
| `BrokerClusterProofs!ClusterTypes` | `Spec => []TypeOK` |
| `BrokerClusterProofs!NothingFliesUnapproved` | `Spec => []FliesOnlyIfApproved` |
| `BrokerClusterProofs!NoCopyUnpaid` | `Spec => []CopiesBounded` |
| `LamportClockProofs!StampsAreUnique` | `Spec => []StampsIncrease` |
| `LamportClockProofs!StampsAreCausal` | `Spec => []StampsCausal` |
| `LamportClockProofs!LossesHaveWinners` | `Spec => []LostToWinners` |
| `PriorityQueueProofs!QueueTypes` | `Spec => []TypeOK` |
| `PriorityQueueProofs!SliceIsHeap` | `Spec => []HeapOrdered` |
| `PriorityQueueProofs!HeapImplementsBag` | `Spec => ImplementsBag`, the specification of `PriorityBag` |
| `PriorityQueueProofs!AgedAreNotOvertaken` | `Spec => AgedNotOvertaken` |

The inductive invariants and why the property alone is not inductive:

- `LedgerInv == TypeOK /\ CursorInv /\ LocksInv /\ TornWritesBounded`. A step of
  `FinalizeBlock` counts on a cursor inside the chain (`CursorInv`) and on what its
  stage implies: a transaction at stage "lock" is a spend that is signed and not
  locked yet, one at "file" is locked and has no report (`LocksInv`). With that each
  Put moves both sides of the bound together, and a crash moves what was in hand
  to `torn`. The cardinality steps use the finiteness of `Txs`.
- `Agreement` compares two databases, each of which is the result of a different
  number of replays. `ReplayInv` says of one database what it owes to the chain alone,
  so no induction over the blocks is needed: a node has locked what it is past and
  nothing that is not in the chain, and the report it filed under a key is the first
  of the chain with that key (`First`). Two nodes past the whole chain have then the
  same locks and reports, and with `TornWritesBounded` the same balances.
- `DebtBounded` needs two more parts. `MempoolInv`: a spend stays in a mempool only if its
  nation had credit in the node's database after its last block, which is what the
  recheck does (`CheckTxCode` is 0 for all it holds). `SpendsInv`: the chain holds at most `InitialCredits + MaxBlockTxs - 1`
  spends of a nation, since the block that exhausts it was decided while one credit was
  left. `MaxBlockTxs` is at least 1: a block has room for a transaction.
- `DispatchInv == TypeOK /\ MissionConserved /\ Announced /\ ResolvedMeansFlown`.
  `MissionConserved` is inductive with the types. `ResolvedMeansFlown` needs
  `Announced`: a SUCCESS call or an acknowledging drone exists only for a flown
  mission. `RedispatchesBounded` is an account (`BudgetInv`): checkouts and the copy that may
  still be checked out, the attempts left to REQUEUE calls under way and `MaxTries` for
  each lapsed lease that has no call yet are covered by `1 + timeouts + MaxTries * sweeps`.
  It needs that a station has one REQUEUE under way at a time (`OneRequeue`).
- `ClusterInv == TypeOK /\ VerdictInv /\ FliesOnlyIfApproved`. `VerdictInv`: a worker
  at "paid" or an ACK under way exists only for an approved event. Type
  correctness needs that the owner of a non-empty ring is a member of it, which
  rests on the least element of a set of naturals (`LeastNat`, from the
  well-foundedness theorems) and on the strictness of `Rank`. `CopiesBounded` is an account
  as well (`CopiesOf`): what a broker has queued, the backup or ACK it may still queue and
  the workers that hold an approval are covered by the approvals. `FreshAt` says why each
  approval is a new one: the filter knows the event while a worker is at it.
- `ClockInv == TypeOK /\ Past /\ StampsIncrease /\ StampsCausal`. `Past`: no stamp, snapshot
  or floor lies beyond the clock. `LostToWinners` needs that a worker whose snapshot is
  old has been beaten once more than it has missed.

- `FlightInv == TypeOK /\ Control /\ Renewals`. `Control` says where the heartbeat can be
  when main is where, and that the code's counter is the number of misses in a row.
  `LeaseHeld` needs `Renewals`: the last renewal was at `expires - Lease`; while the
  heartbeat waits no tick has gone by unnoticed since, and during a ping the lease lasts
  at least `Lease - PingEvery` from its start. The argument counts multiples of
  `PingEvery` (`DivMod`, `UniqueDivMod`) and assumes `PingEvery <= Lease`, 2 s and 10 s in
  the code.
- `FleetInv == TypeOK /\ Listed`. `Listed` extends the property to drones in flight: they
  become free again without a call to the station that would register them.
- `ChargeImplementsLedger` needs no invariant: each step of the composition, with its
  caches and checks under way, is a step of `Ledger` or leaves its variables alone.
  `ChargedLedger` carries the invariants of the ledger over.
- `RefusalIsFinal` relates an answer in the past to every block to come. `RefusedInv` keeps
  with each refusal a height at which the nation was exhausted. `LastInv`: no block spends
  what an earlier one exhausted. `CacheInv`: a mempool remembers every transaction its
  node executed, holds none of them and has no check of one under way. `AheadInv`: a node
  has locked nothing that is still ahead of it (`Charge` has no restarts). The module
  assumes that calls for one event submit the same transaction (`ChargeAssumption`): a
  spend has no payload, and an Ed25519 signature is a function of the key and the signed
  fields.
- `ChargesAreExecuted` shows that `Charge` loses nothing by leaving `RejectTx` out. It needs
  `OnceInv`: mempools and blocks hold charges only, and the chain holds each of them once.
- `IntakeInv == TypeOK /\ NoCopies /\ Traced /\ IntakeConserved`. That a packet which is
  taken is no longer in the channel needs `NoCopies`; that it can be queued without making
  a copy needs that the places exclude each other. `Traced`: a broker is done with what it
  sent on, so it never sends the same packet on twice and what it sends is new.
  `BurstInv` adds that a drop stays counted among the lost: at the drop the channel, which
  holds nothing twice, and the packet in hand are `PacketCap + 1` packets that reached the
  broker, and none of them ever leaves what reached it. `ForwardInv` is an account per
  broker and event (`Sender`): the copies sent on, and one more while the filter does not
  know the event or a worker is past it, are covered by one and the expiries; it needs
  that only one worker at a time is past the filter with the event.
- `QueueInv == SliceInv /\ LoopInv /\ AgedInv`. `HeapOrdered` holds with the mutex free; `LoopInv`
  says what holds while a loop runs. A mission that rises may go before its parent,
  but its children do not go before that parent (`RiseOK`); of a mission that sinks the
  children may go before it, but not before its parent, and nothing is said yet of the
  roots `heap.Init` has still to visit (`SinkOK`). During `heap.Pop` none goes before the
  last element: it was the root of a heap, which none goes before (`RootIsFirst`, by the
  least position that would refute it). `AgedInv`: a mission found too old is critical
  for as long as it is queued, so no mission with a later stamp goes before it. The
  test on words is the one on numbers because the clock stays below `Word`.

Every invariant and action property that a passing run checks is proved. Only
model-checked: the liveness properties, since fairness is out of the prover's reach. The types of `Fleet` are only proved.

## 5. Findings

Each is a run that TLC refutes; the properties state what the code's comments or
the documentation promise.

| Run | Property | What happens |
|---|---|---|
| `ledger_torn_debit` | `NoDoubleDebit` | crash between balance and lock Put: the replay debits again, and the node that has caught up is one credit short |
| `flight_hang` | `LandedReports` | third miss and end of flight: both goroutines send, neither receives |

The passing properties are stated to hold in spite of these: `TornWritesBounded`
says how much a torn write can cost, `DebtBounded` how far a balance can fall below
zero, `CopiesBounded` how many copies a stale ring can make, `RedispatchesBounded`
how often a ghost can strike, `FlightEnds` names the one way a flight hangs.

Further behaviours that the modules show and a maintainer should know, without a
run of their own:

- a crash between the lock and the report Put (`LockTx`, `Restart`) loses the
  report: the replay takes the transaction for a duplicate. `Unfiled` counts it;
- a SUCCESS or REQUEUE that reaches the other replica (`QueueResolve`) is turned
  away while its checkout is pending, and the janitor takes the mission back later;
- a repeated REQUEUE of an old checkout cancels the new one of the same mission
  (`QueueResolve`, http_server.go:161-167): the call names the mission only.
  `RedispatchesBounded` counts it;
- an answer of the ledger that is lost is reported to the siblings as a refusal
  although the nation may have paid (`Reject`, ledger_client.go:88);
- an ACK that arrives after the rescue of its sector stays in the shadow buffer
  until the membership changes again (`ShadowSync`, http_server.go:219-221);
- a JSON-RPC error reads as an approval (`RpcError`), so a mission can be queued that no
  mempool took and no block ever charges: a full mempool turned it away, its node could
  not ask the application, or the charge was being checked for another caller and then
  refused;
- a refusal can meet a charge that the block just executed debits: the retry is checked
  against the balance its own debit left behind (`EndCheck`);
- `CheckTx` lets a forged transaction with an event id of fewer than eight characters
  pass, and the log line at app.go:128 stops `FinalizeBlock` on every validator and in
  every replay (`Panics`);
- brokers with different rings send one event on into each other's channels, where it
  takes a place each time although the filter drops it (`Forward`, `Drop`);
- the loop of `Sync` has no bound for one worker (`SyncRetry`);
- an approved spend that the recheck drops is never debited: `ApprovedPaidOrBroke` has
  `Broke` for it, where README.md:65 says that the balance is reduced and the mission
  released in one step;
- a drone whose station restarted while it was idle is stranded: its pulls are
  answered with 401, which the drone takes for an empty queue, and only an aborted
  flight makes it register again (`PullRefused`);
- a pull is a GET that the client repeats at both hops; each repetition may take
  another mission off the queue, which then waits for a lease or the broker's
  janitor (`PopLost`, `PullLate`);
- backups are never cleared, so a fetched mission is queued again when its sector
  moves (`RescueVisit`);
- three failed pings abort a flight (`Missed`), although the documentation says
  that loss of the network does not cancel it.

## 6. Not modelled

- CometBFT's consensus (external), the explorer page, `QueryGlobalState`,
  `topologySync`, health checks and logs: they change no state.
- Ed25519 and JSON: a signature is valid, forged or corrupt; a transaction parses
  or does not. The content of a report is one value per drone.
- A second copy of a mission in one broker: `Dispatch` follows one copy at its home.
  `CopiesBounded` says when there are more; two in one broker would share an entry of
  `pendingMissions` (http_server.go:128).
- Probabilities: sector, nation, kind of event and flight time are choices.
- Code that nothing calls: `AddMember`, `RemoveMember`, `ClearMission`, `SaveReport`
  of the broker, `Nack` of the radar.
- `pkg/routing` (grid geometry): pure functions on floating point that no service
  calls and no test covers, so there is nothing to relate a model to.
- `pkg/model` (record types), deployment files.

## 7. Plan

Done, in this order: Ledger; Dispatch; Flight; LamportClock; PriorityBag and
PriorityQueue; BrokerCluster; Charge on top of Ledger; Intake; Fleet; and the proofs
above.

Next: every safety property of the runs is proved, so what is left is to say more.
Candidates are the steps on which the liveness arguments rest (what a goroutine that
waits is waiting for, and that it is still there) as invariants of their own, and
the one way in which a flight hangs (`FlightEnds`) as a statement about states.
