-------------------------------- MODULE Ledger --------------------------------
(***************************************************************************)
(* The credit ledger of the consortium: OrmuzLedgerApp                     *)
(* (internal/ledger/app.go) on every validator, with its LevelDB, driven   *)
(* by CometBFT.                                                            *)
(*                                                                         *)
(* CometBFT itself (mempool, order of blocks, replay after a restart) is   *)
(* external: it is modelled only as far as the application meets it.  The  *)
(* ABCI socket server runs one application call at a time, so CheckTx and  *)
(* Query never see the middle of FinalizeBlock.  A process crash does: the *)
(* application writes LevelDB with separate Puts and no batch, and every   *)
(* Put survives the crash of the process.                                  *)
(***************************************************************************)
EXTENDS Integers, FiniteSets, Sequences

CONSTANTS
    Nodes,           \* validators, each one application process and one LevelDB
    Nations,         \* the consortium: domain of AuthorizedKeys and of the balances
    Txs,             \* the transactions clients may submit
    None,            \* the value of an explorer key that was never written
    InitialCredits,  \* 1000 in the code
    MaxHeight,       \* bound: blocks decided
    MaxBlockTxs,     \* bound: transactions in one block
    MaxBoots         \* bound: restarts of one node

SPEND == "SPEND_CREDIT"
REPORT == "SAVE_REPORT"

\* The transaction that FinalizeBlock lets through to the duplicate check.
WellSigned(tx) == tx.parses /\ tx.nation \in Nations /\ tx.sig = "valid"

(***************************************************************************)
(* Transaction (internal/domain/ledger/payload.go).  "parses" tells        *)
(* whether json.Unmarshal accepts the bytes, "sig" what verification finds,*)
(* "short" whether the event identifier has fewer than eight bytes.  The   *)
(* holders of the keys sign only the identifier of an event: a fresh UUID  *)
(* that the sensor draws together with the nation that pays, so what they  *)
(* sign is never short and names one nation for each event.  Any other     *)
(* client puts what it likes into the field.                               *)
(***************************************************************************)
ASSUME TxsAssumption ==
    /\ IsFiniteSet(Txs) /\ None \notin Txs
    /\ \A tx \in Txs : /\ tx.parses \in BOOLEAN
                       /\ tx.sig \in {"valid", "forged", "corrupt"}
                       /\ tx.short \in BOOLEAN
                       /\ WellSigned(tx) => ~tx.short
    /\ \A t, u \in Txs : WellSigned(t) /\ WellSigned(u) /\ t.event = u.event
                            => t.nation = u.nation

ASSUME BoundsAssumption ==
    /\ InitialCredits \in Nat
    /\ MaxHeight \in Nat /\ MaxBlockTxs \in Nat \ {0} /\ MaxBoots \in Nat

\* processed:<type>_<event> and report:<type>_<event> share their suffix.
Key(tx) == <<tx.type, tx.event>>
Keys == {Key(tx) : tx \in Txs}

VARIABLES
    \* CometBFT (external)
    chain,      \* the blocks decided, in order, each a sequence of transactions
    mempool,    \* node -> transactions waiting in its mempool
    stored,     \* node -> height of its block store: what a restart replays
    \* LevelDB of each node
    balance,    \* node -> nation -> credits        (balance:<nation>)
    processed,  \* node -> keys already executed    (processed:<type>_<event>)
    reports,    \* node -> key -> transaction filed (report:<type>_<event>)
    \* the run of FinalizeBlock on each node
    height,     \* blocks finalised since the process started
    pos,        \* transaction of block height + 1 in execution, 0 between blocks
    stage,      \* the next Put of that transaction: "exec", "lock" or "file"
    \* history
    boots,      \* restarts of each node
    torn        \* restarts that hit a node between two Puts of one transaction

db == <<balance, processed, reports>>
comet == <<chain, mempool, stored>>
run == <<height, pos, stage>>
history == <<boots, torn>>
vars == <<comet, db, run, history>>

-----------------------------------------------------------------------------
(* CheckTx and mempool *)

\* Mutants of CheckTxCode: a nation with no credit left may still spend; the last
\* credit may not be spent.
CheckTxCodeZeroSpends(bal, tx) ==
    IF ~tx.parses THEN 1
    ELSE IF tx.type # SPEND THEN 0
    ELSE IF tx.nation \notin DOMAIN bal THEN 2
    ELSE IF bal[tx.nation] < 0 THEN 3
    ELSE 0

CheckTxCodeKeepsOne(bal, tx) ==
    IF ~tx.parses THEN 1
    ELSE IF tx.type # SPEND THEN 0
    ELSE IF tx.nation \notin DOMAIN bal THEN 2
    ELSE IF bal[tx.nation] <= 1 THEN 3
    ELSE 0

\* The code CheckTx answers: neither signature nor duplicates are looked at.
CheckTxCode(bal, tx) ==
    IF ~tx.parses THEN 1
    ELSE IF tx.type # SPEND THEN 0
    ELSE IF tx.nation \notin DOMAIN bal THEN 2
    ELSE IF bal[tx.nation] <= 0 THEN 3
    ELSE 0

Idle(n) == pos[n] = 0
\* After a restart CometBFT replays its stored blocks before it serves anyone.
Serving(n) == Idle(n) /\ height[n] = stored[n]
CaughtUp(n) == Idle(n) /\ height[n] = Len(chain)

\* A transaction reaches n over RPC or gossip and passes CheckTx.  Its bytes
\* may come back after they were committed, once the mempool cache forgot them.
SubmitTx(n, tx) ==
    /\ Serving(n)
    /\ tx \notin mempool[n]
    /\ CheckTxCode(balance[n], tx) = 0
    /\ mempool' = [mempool EXCEPT ![n] = @ \cup {tx}]
    /\ UNCHANGED <<chain, stored, db, run, history>>

\* Blocks a proposer may cut from its mempool.
BlocksFrom(pool) ==
    {blk \in UNION {[1 .. k -> pool] : k \in 1 .. MaxBlockTxs} :
        \A i, j \in DOMAIN blk : blk[i] = blk[j] => i = j}

\* Consensus decides the next block, cut from the mempool of a validator that
\* executed all earlier ones.
Decide(n) ==
    /\ Serving(n) /\ CaughtUp(n)
    /\ Len(chain) < MaxHeight
    /\ \E blk \in BlocksFrom(mempool[n]) : chain' = Append(chain, blk)
    /\ UNCHANGED <<mempool, stored, db, run, history>>

-----------------------------------------------------------------------------
(* FinalizeBlock *)

Block(n) == chain[height[n] + 1]
Tx(n) == Block(n)[pos[n]]
Executing(n) == pos[n] > 0 /\ pos[n] <= Len(Block(n))

\* Mutants of ExecCode: no duplicate check; a signature of the right size is
\* trusted without verifying it.
ExecCodeNoDuplicateCheck(done, tx) ==
    IF ~tx.parses THEN 1
    ELSE IF tx.nation \notin Nations THEN 2
    ELSE IF tx.sig = "corrupt" THEN 3
    ELSE IF tx.sig = "forged" THEN 4
    ELSE 0
ExecCodeNoVerify(done, tx) ==
    IF ~tx.parses THEN 1
    ELSE IF tx.nation \notin Nations THEN 2
    ELSE IF tx.sig = "corrupt" THEN 3
    ELSE IF Key(tx) \in done THEN 5
    ELSE 0

\* The code of the ExecTxResult: identity, signature, then the duplicate check.
ExecCode(done, tx) ==
    IF ~tx.parses THEN 1
    ELSE IF tx.nation \notin Nations THEN 2
    ELSE IF tx.sig = "corrupt" THEN 3
    ELSE IF tx.sig = "forged" THEN 4
    ELSE IF Key(tx) \in done THEN 5
    ELSE 0

BeginBlock(n) ==
    /\ Idle(n) /\ height[n] < Len(chain)
    /\ pos' = [pos EXCEPT ![n] = 1]
    /\ stored' = [stored EXCEPT ![n] = IF @ > height[n] THEN @ ELSE height[n] + 1]
    /\ UNCHANGED <<chain, mempool, db, height, stage, history>>

\* The log line of code 4 slices EventID[:8], which panics on a shorter one.  The
\* ABCI server recovers and closes the connection, and CometBFT halts the node.
\* The block is in its store, so every replay meets the transaction again.
Panics(code, tx) == code = 4 /\ tx.short

\* Mutant of RejectTx: for a nation it does not know FinalizeBlock returns an
\* error in place of a result, which halts the node as well.
RejectTxReturnsError(n) ==
    /\ Executing(n) /\ stage[n] = "exec"
    /\ ExecCode(processed[n], Tx(n)) \notin {0, 2}
    /\ ~Panics(ExecCode(processed[n], Tx(n)), Tx(n))
    /\ pos' = [pos EXCEPT ![n] = @ + 1]
    /\ UNCHANGED <<comet, db, height, stage, history>>

\* A transaction with a non-zero code is skipped and changes nothing.
RejectTx(n) ==
    /\ Executing(n) /\ stage[n] = "exec"
    /\ ExecCode(processed[n], Tx(n)) # 0
    /\ ~Panics(ExecCode(processed[n], Tx(n)), Tx(n))
    /\ pos' = [pos EXCEPT ![n] = @ + 1]
    /\ UNCHANGED <<comet, db, height, stage, history>>

\* First Put of SPEND_CREDIT: the balance, with no check that it is positive.
DebitTx(n) ==
    /\ Executing(n) /\ stage[n] = "exec"
    /\ ExecCode(processed[n], Tx(n)) = 0
    /\ Tx(n).type = SPEND
    /\ balance' = [balance EXCEPT ![n][Tx(n).nation] = @ - 1]
    /\ stage' = [stage EXCEPT ![n] = "lock"]
    /\ UNCHANGED <<comet, processed, reports, height, pos, history>>

\* Mutant of LockTx: the key is the event alone, as it was before spends and
\* reports were told apart.
LockTxByEvent(n) ==
    /\ Executing(n)
    /\ \/ stage[n] = "lock"
       \/ /\ stage[n] = "exec"
          /\ ExecCode(processed[n], Tx(n)) = 0
          /\ Tx(n).type # SPEND
    /\ processed' = [processed EXCEPT ![n] = @ \cup {Tx(n).event}]
    /\ stage' = [stage EXCEPT ![n] = "file"]
    /\ UNCHANGED <<comet, balance, reports, height, pos, history>>

\* The Put of the processed key: the second of SPEND_CREDIT, the first of any
\* other type.
LockTx(n) ==
    /\ Executing(n)
    /\ \/ stage[n] = "lock"
       \/ /\ stage[n] = "exec"
          /\ ExecCode(processed[n], Tx(n)) = 0
          /\ Tx(n).type # SPEND
    /\ processed' = [processed EXCEPT ![n] = @ \cup {Key(Tx(n))}]
    /\ stage' = [stage EXCEPT ![n] = "file"]
    /\ UNCHANGED <<comet, balance, reports, height, pos, history>>

\* The last Put: the raw transaction under its explorer key.
FileTx(n) ==
    /\ Executing(n) /\ stage[n] = "file"
    /\ reports' = [reports EXCEPT ![n][Key(Tx(n))] = Tx(n)]
    /\ stage' = [stage EXCEPT ![n] = "exec"]
    /\ pos' = [pos EXCEPT ![n] = @ + 1]
    /\ UNCHANGED <<comet, balance, processed, height, history>>

\* FinalizeBlock returns and Commit does nothing; CometBFT then drops the
\* committed transactions and rechecks the others (recheck = true).
EndBlock(n) ==
    /\ pos[n] > 0 /\ pos[n] > Len(Block(n))
    /\ height' = [height EXCEPT ![n] = @ + 1]
    /\ pos' = [pos EXCEPT ![n] = 0]
    /\ mempool' = [mempool EXCEPT ![n] =
                     {tx \in @ : /\ \A i \in DOMAIN Block(n) : Block(n)[i] # tx
                                 /\ CheckTxCode(balance[n], tx) = 0}]
    /\ UNCHANGED <<chain, stored, db, stage, history>>

FinalizeBlock(n) ==
    BeginBlock(n) \/ RejectTx(n) \/ DebitTx(n) \/ LockTx(n) \/ FileTx(n) \/ EndBlock(n)

-----------------------------------------------------------------------------
(* Restart *)

\* Mutant of OpenDB: every start grants the initial credits again.
OpenDBAlwaysCredits(bal) == [m \in Nations |-> InitialCredits]

\* NewOrmuzLedgerApp credits only the nations that have no balance yet.
OpenDB(bal) ==
    [m \in Nations |-> IF m \in DOMAIN bal THEN bal[m] ELSE InitialCredits]

\* The process dies wherever it is and comes back on the same LevelDB.  Info is
\* not implemented, so it reports height 0 and CometBFT replays every block.
Restart(n) ==
    /\ boots[n] < MaxBoots
    /\ boots' = [boots EXCEPT ![n] = @ + 1]
    /\ torn' = [torn EXCEPT ![n] = IF stage[n] = "exec" THEN @ ELSE @ + 1]
    /\ balance' = [balance EXCEPT ![n] = OpenDB(@)]
    /\ mempool' = [mempool EXCEPT ![n] = {}]
    /\ height' = [height EXCEPT ![n] = 0]
    /\ pos' = [pos EXCEPT ![n] = 0]
    /\ stage' = [stage EXCEPT ![n] = "exec"]
    /\ UNCHANGED <<chain, stored, processed, reports>>

-----------------------------------------------------------------------------

Init ==
    /\ chain = <<>>
    /\ mempool = [n \in Nodes |-> {}]
    /\ stored = [n \in Nodes |-> 0]
    /\ balance = [n \in Nodes |-> [m \in Nations |-> InitialCredits]]
    /\ processed = [n \in Nodes |-> {}]
    /\ reports = [n \in Nodes |-> [k \in Keys |-> None]]
    /\ height = [n \in Nodes |-> 0]
    /\ pos = [n \in Nodes |-> 0]
    /\ stage = [n \in Nodes |-> "exec"]
    /\ boots = [n \in Nodes |-> 0]
    /\ torn = [n \in Nodes |-> 0]

Next ==
    \E n \in Nodes :
        \/ \E tx \in Txs : SubmitTx(n, tx)
        \/ Decide(n)
        \/ BeginBlock(n)
        \/ RejectTx(n)
        \/ DebitTx(n)
        \/ LockTx(n)
        \/ FileTx(n)
        \/ EndBlock(n)
        \/ Restart(n)

Spec == Init /\ [][Next]_vars

\* CometBFT keeps calling FinalizeBlock and the application goes on with it,
\* unless it panicked: then no step of FinalizeBlock is enabled.
FairSpec == Spec /\ \A n \in Nodes : WF_vars(FinalizeBlock(n))

-----------------------------------------------------------------------------
(* Properties *)

\* What Query("state") shows on the explorer of node n.
QueryState(n) ==
    [balances |-> balance[n],
     reports |-> [k \in {k \in Keys : reports[n][k] # None} |-> reports[n][k]]]

TypeOK ==
    /\ chain \in Seq(Seq(Txs))
    /\ mempool \in [Nodes -> SUBSET Txs]
    /\ stored \in [Nodes -> Nat]
    /\ balance \in [Nodes -> [Nations -> Int]]
    /\ processed \in [Nodes -> SUBSET Keys]
    /\ reports \in [Nodes -> [Keys -> Txs \cup {None}]]
    /\ height \in [Nodes -> Nat]
    /\ pos \in [Nodes -> Nat]
    /\ stage \in [Nodes -> {"exec", "lock", "file"}]
    /\ boots \in [Nodes -> Nat]
    /\ torn \in [Nodes -> Nat]

\* Spends of nation m that node n has locked against a second execution.
SpentBy(n, m) ==
    {k \in processed[n] : \E tx \in Txs : /\ WellSigned(tx) /\ Key(tx) = k
                                          /\ tx.type = SPEND /\ tx.nation = m}

\* The credit node n took from m for the transaction it has not locked yet.
InHand(n, m) == IF stage[n] = "lock" /\ Tx(n).nation = m THEN 1 ELSE 0

\* Credits taken from m on node n beyond one for each of its locked spends.
CreditGap(n, m) ==
    InitialCredits - balance[n][m] - Cardinality(SpentBy(n, m)) - InHand(n, m)

\* Executed keys with no report, the one being filed left out.
Unfiled(n) ==
    {k \in processed[n] : reports[n][k] = None
                          /\ ~(stage[n] = "file" /\ k = Key(Tx(n)))}

\* Every nation pays exactly one credit for each spend and every executed
\* transaction is on the explorer, whatever is duplicated, replayed or
\* restarted, except that a crash between two Puts of one transaction
\* (app.go:153, 162, 166) costs at most one extra credit or one report.
TornWritesBounded ==
    \A n \in Nodes, m \in Nations :
        /\ CreditGap(n, m) >= 0
        /\ CreditGap(n, m) + Cardinality(Unfiled(n)) <= torn[n]

\* Validators that executed the whole chain and were never torn show the same
\* explorer and hold the same duplicate locks, however often they were
\* restarted and replayed from block 1 (app.go:94-175, no Info).
Agreement ==
    \A a, b \in Nodes :
        CaughtUp(a) /\ CaughtUp(b) /\ torn[a] = 0 /\ torn[b] = 0
            => QueryState(a) = QueryState(b) /\ processed[a] = processed[b]

\* A filed report is never replaced or removed, not by a second drone's report
\* on the same event and not by a replay (app.go:134-166).
ReportsImmutable ==
    [][\A n \in Nodes : \A k \in Keys :
          reports[n][k] # None => reports'[n][k] = reports[n][k]]_vars

\* FinalizeBlock of n stands at a forged transaction with a short event.
AtForgedShort(n) ==
    Executing(n) /\ stage[n] = "exec" /\ Tx(n).sig = "forged" /\ Tx(n).short

\* Once restarts stop, every validator executes every block, whatever else was
\* rejected on the way, and nothing stops one for good but a forged transaction
\* whose event identifier is shorter than the log line slices (app.go:97-169,
\* the panic at 128; CheckTx, 71-91, lets it into a block).
EventuallyCaughtUp == <>[](\A n \in Nodes : CaughtUp(n) \/ AtForgedShort(n))

\* FinalizeBlock debits without looking at the balance, and spends of one block
\* were all checked against the balance before it.  Still a nation never owes more
\* than the rest of one block, and one credit for each torn transaction: what is
\* left in a mempool is checked again after every block (app.go:77-88, 150-156).
DebtBounded ==
    \A n \in Nodes, m \in Nations : balance[n][m] >= 1 - MaxBlockTxs - torn[n]

\* Stated by the code, refuted by the run of the finding.

\* "Prevention of duplication" (app.go:134): on a validator that has executed, or
\* executed again, every block each nation has paid one credit for each of its
\* spends and no more.
NoDoubleDebit ==
    \A n \in Nodes, m \in Nations : CaughtUp(n) => CreditGap(n, m) = 0

=============================================================================
