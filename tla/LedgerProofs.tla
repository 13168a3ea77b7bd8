----------------------------- MODULE LedgerProofs -----------------------------
(***************************************************************************)
(* Proofs about Ledger, for any number of validators, nations,             *)
(* transactions, blocks and restarts, and about Charge, for any calls,     *)
(* attempts and mempool sizes.  Of Charge: the clients and the mempools    *)
(* drive the ledger only through its own steps, so every theorem about     *)
(* Ledger holds of the composition; an approved call rests on an admitted  *)
(* transaction or a full mempool; a refused one is never debited; and no   *)
(* block holds a charge twice.                                             *)
(***************************************************************************)
EXTENDS Charge, FiniteSetTheorems, TLAPS

\* A node executes a position of a block that exists, and stays between two
\* Puts only of a transaction that passed every check of FinalizeBlock.
CursorOK(n) ==
    /\ height[n] <= Len(chain)
    /\ pos[n] > 0 => height[n] < Len(chain)
    /\ stage[n] # "exec" => Executing(n) /\ WellSigned(Tx(n))

\* What the Puts of one transaction have already written at each stage.
LocksOK(n) ==
    /\ stage[n] = "lock" => Tx(n).type = SPEND /\ Key(Tx(n)) \notin processed[n]
    /\ stage[n] = "file" => /\ Key(Tx(n)) \in processed[n]
                            /\ reports[n][Key(Tx(n))] = None
    /\ \A k \in Keys : reports[n][k] # None => k \in processed[n]

TornOK(n) ==
    \A m \in Nations :
        /\ CreditGap(n, m) >= 0
        /\ CreditGap(n, m) + Cardinality(Unfiled(n)) <= torn[n]

CursorInv == \A n \in Nodes : CursorOK(n)
LocksInv == \A n \in Nodes : LocksOK(n)
LedgerInv == TypeOK /\ CursorInv /\ LocksInv /\ TornWritesBounded

-----------------------------------------------------------------------------
(* Facts about transactions, blocks and keys *)

\* The keys of a finite set of transactions are finitely many.
LEMMA KeysFinite == IsFiniteSet(Keys)
<1> DEFINE f == [tx \in Txs |-> Key(tx)]
<1>1. f \in Surjection(Txs, Keys)
  BY DEF Surjection, Keys
<1> QED
  BY <1>1, TxsAssumption, FS_Surjection

\* FinalizeBlock executes exactly the well-signed transactions whose key is new
\* (app.go:100-142).
LEMMA ExecCodeZero ==
  ASSUME NEW done, NEW tx \in Txs, ExecCode(done, tx) = 0
  PROVE  WellSigned(tx) /\ Key(tx) \notin done
BY TxsAssumption DEF ExecCode, WellSigned

\* The block and the transaction under a valid cursor.
LEMMA CursorTypes ==
  ASSUME TypeOK, NEW n \in Nodes, CursorOK(n)
  PROVE  /\ pos[n] > 0 => Block(n) \in Seq(Txs) /\ Len(Block(n)) \in Nat
         /\ Executing(n) => Tx(n) \in Txs /\ Key(Tx(n)) \in Keys
<1>1. ASSUME pos[n] > 0 PROVE Block(n) \in Seq(Txs) /\ Len(Block(n)) \in Nat
  <2>1. height[n] + 1 \in 1 .. Len(chain)
    BY <1>1 DEF TypeOK, CursorOK
  <2> QED
    BY <2>1 DEF TypeOK, Block
<1>2. ASSUME Executing(n) PROVE Tx(n) \in Txs /\ Key(Tx(n)) \in Keys
  <2>1. pos[n] \in 1 .. Len(Block(n))
    BY <1>1, <1>2 DEF TypeOK, Executing
  <2> QED
    BY <1>1, <1>2, <2>1 DEF Tx, Keys, Executing
<1> QED
  BY <1>1, <1>2

\* Blocks cut by a proposer are sequences of transactions.
LEMMA BlocksFromType ==
  ASSUME NEW pool \in SUBSET Txs, NEW blk \in BlocksFrom(pool)
  PROVE  blk \in Seq(Txs)
<1>1. PICK k \in 1 .. MaxBlockTxs : blk \in [1 .. k -> pool]
  BY DEF BlocksFrom
<1>2. k \in Nat
  BY BoundsAssumption
<1> QED
  BY <1>1, <1>2

-----------------------------------------------------------------------------
(* Type correctness *)

\* NewOrmuzLedgerApp on an empty database starts in a typed state.
LEMMA InitType == Init => TypeOK
BY BoundsAssumption DEF Init, TypeOK

\* Every step keeps the types, given that cursors point into the chain.
LEMMA NextType ==
  ASSUME TypeOK, CursorInv, Next
  PROVE  TypeOK'
<1> PICK n \in Nodes :
        \/ \E tx \in Txs : SubmitTx(n, tx)
        \/ Decide(n) \/ BeginBlock(n) \/ RejectTx(n) \/ DebitTx(n)
        \/ LockTx(n) \/ FileTx(n) \/ EndBlock(n) \/ Restart(n)
  BY DEF Next
<1> CursorOK(n)
  BY DEF CursorInv
<1>1. ASSUME NEW tx \in Txs, SubmitTx(n, tx) PROVE TypeOK'
  BY <1>1 DEF TypeOK, SubmitTx, db, run, history
<1>2. CASE Decide(n)
  <2>1. PICK blk \in BlocksFrom(mempool[n]) : chain' = Append(chain, blk)
    BY <1>2 DEF Decide
  <2>2. blk \in Seq(Txs)
    BY <2>1, BlocksFromType DEF TypeOK
  <2> QED
    BY <1>2, <2>1, <2>2 DEF TypeOK, Decide, db, run, history
<1>3. CASE BeginBlock(n)
  BY <1>3 DEF TypeOK, BeginBlock, db, history
<1>4. CASE RejectTx(n)
  BY <1>4 DEF TypeOK, RejectTx, comet, db, history
<1>5. CASE DebitTx(n)
  <2>1. Tx(n) \in Txs
    BY <1>5, CursorTypes DEF DebitTx
  <2>2. Tx(n).nation \in Nations
    BY <1>5, <2>1, ExecCodeZero DEF DebitTx, WellSigned
  <2> QED
    BY <1>5, <2>2 DEF TypeOK, DebitTx, comet, history
<1>6. CASE LockTx(n)
  <2>1. Key(Tx(n)) \in Keys
    BY <1>6, CursorTypes DEF LockTx
  <2> QED
    BY <1>6, <2>1 DEF TypeOK, LockTx, comet, history
<1>7. CASE FileTx(n)
  <2>1. Tx(n) \in Txs /\ Key(Tx(n)) \in Keys
    BY <1>7, CursorTypes DEF FileTx
  <2> QED
    BY <1>7, <2>1 DEF TypeOK, FileTx, comet, history
<1>8. CASE EndBlock(n)
  BY <1>8 DEF TypeOK, EndBlock, db, history
<1>9. CASE Restart(n)
  BY <1>9, BoundsAssumption DEF TypeOK, Restart, OpenDB
<1> QED
  BY <1>1, <1>2, <1>3, <1>4, <1>5, <1>6, <1>7, <1>8, <1>9

-----------------------------------------------------------------------------
(* One step of one node *)

NodeOK(n) == CursorOK(n) /\ LocksOK(n) /\ TornOK(n)

\* The variables of node p that NodeOK reads.
SameNode(p) ==
    /\ balance'[p] = balance[p] /\ processed'[p] = processed[p]
    /\ reports'[p] = reports[p] /\ torn'[p] = torn[p]
    /\ height'[p] = height[p] /\ pos'[p] = pos[p] /\ stage'[p] = stage[p]

\* The sets whose cardinality TornOK compares are finite.
LEMMA FiniteParts ==
  ASSUME TypeOK, NEW n \in Nodes, NEW m
  PROVE  /\ IsFiniteSet(SpentBy(n, m)) /\ Cardinality(SpentBy(n, m)) \in Nat
         /\ IsFiniteSet(Unfiled(n)) /\ Cardinality(Unfiled(n)) \in Nat
         /\ InHand(n, m) \in {0, 1}
<1>1. SpentBy(n, m) \in SUBSET Keys /\ Unfiled(n) \in SUBSET Keys
  BY DEF TypeOK, SpentBy, Unfiled
<1>2. IsFiniteSet(SpentBy(n, m)) /\ IsFiniteSet(Unfiled(n))
  BY <1>1, KeysFinite, FS_Subset
<1> QED
  BY <1>2, FS_CardinalityType DEF InHand

\* A node that does not move keeps its invariant, also when consensus decides
\* one more block.
LEMMA StillNode ==
  ASSUME TypeOK, NEW p \in Nodes, NodeOK(p), SameNode(p),
         chain' = chain \/ \E blk \in Seq(Txs) : chain' = Append(chain, blk)
  PROVE  NodeOK(p)'
<1>1. Len(chain') >= Len(chain) /\ Len(chain) \in Nat /\ Len(chain') \in Nat
  BY DEF TypeOK
<1>2. ASSUME pos[p] > 0 PROVE Block(p)' = Block(p)
  <2>1. height[p] + 1 \in 1 .. Len(chain)
    BY <1>2 DEF TypeOK, NodeOK, CursorOK
  <2>2. chain'[height[p] + 1] = chain[height[p] + 1]
    BY <2>1 DEF TypeOK
  <2> QED
    BY <2>2 DEF SameNode, Block
<1>3. stage[p] # "exec" => Tx(p)' = Tx(p)
  BY <1>2 DEF NodeOK, CursorOK, SameNode, Executing, Tx
<1>4. CursorOK(p)'
  <2>1. height'[p] <= Len(chain') /\ (pos'[p] > 0 => height'[p] < Len(chain'))
    BY <1>1 DEF TypeOK, NodeOK, CursorOK, SameNode
  <2>2. Executing(p) => Executing(p)'
    BY <1>2 DEF Executing, SameNode
  <2> QED
    BY <1>3, <2>1, <2>2 DEF NodeOK, CursorOK, SameNode
<1>5. LocksOK(p)'
  BY <1>3 DEF NodeOK, LocksOK, SameNode
<1>6. TornOK(p)'
  <2>1. Unfiled(p)' = Unfiled(p)
    BY <1>3 DEF Unfiled, SameNode
  <2>2. ASSUME NEW m \in Nations PROVE CreditGap(p, m)' = CreditGap(p, m)
    <3>1. SpentBy(p, m)' = SpentBy(p, m)
      BY DEF SpentBy, SameNode
    <3>2. InHand(p, m)' = InHand(p, m)
      BY <1>3 DEF InHand, SameNode
    <3> QED
      BY <3>1, <3>2 DEF CreditGap, SameNode
  <2> QED
    BY <2>1, <2>2 DEF NodeOK, TornOK, SameNode
<1> QED
  BY <1>4, <1>5, <1>6 DEF NodeOK

\* Steps between the Puts of two transactions move the cursor and nothing else.
LEMMA CursorStep ==
  ASSUME TypeOK, NEW n \in Nodes, NodeOK(n),
         BeginBlock(n) \/ RejectTx(n) \/ EndBlock(n)
  PROVE  NodeOK(n)'
<1>1. stage[n] = "exec" /\ stage'[n] = "exec"
  BY DEF TypeOK, NodeOK, CursorOK, BeginBlock, RejectTx, EndBlock, Idle, Executing
<1>2. /\ chain' = chain /\ balance' = balance /\ processed' = processed
      /\ reports' = reports /\ torn' = torn
  BY DEF BeginBlock, RejectTx, EndBlock, comet, db, history
<1>3. CursorOK(n)'
  BY <1>1, <1>2
     DEF TypeOK, NodeOK, CursorOK, BeginBlock, RejectTx, EndBlock, Idle, Executing
<1>4. LocksOK(n)'
  BY <1>1, <1>2 DEF NodeOK, LocksOK
<1>5. TornOK(n)'
  <2>1. Unfiled(n)' = Unfiled(n)
    BY <1>1, <1>2 DEF Unfiled
  <2>2. ASSUME NEW m \in Nations PROVE CreditGap(n, m)' = CreditGap(n, m)
    <3>1. SpentBy(n, m)' = SpentBy(n, m) /\ InHand(n, m)' = InHand(n, m)
      BY <1>1, <1>2 DEF SpentBy, InHand
    <3> QED
      BY <1>2, <3>1 DEF CreditGap
  <2> QED
    BY <1>2, <2>1, <2>2 DEF NodeOK, TornOK
<1> QED
  BY <1>3, <1>4, <1>5 DEF NodeOK

\* DebitTx takes the credit that LockTx will account for.
LEMMA DebitStep ==
  ASSUME TypeOK, NEW n \in Nodes, NodeOK(n), DebitTx(n)
  PROVE  NodeOK(n)'
<1>1. /\ Executing(n) /\ Tx(n) \in Txs /\ Tx(n).type = SPEND
      /\ WellSigned(Tx(n)) /\ Key(Tx(n)) \notin processed[n]
  BY CursorTypes, ExecCodeZero DEF NodeOK, DebitTx
<1>2. /\ chain' = chain /\ height' = height /\ pos' = pos /\ torn' = torn
      /\ processed' = processed /\ reports' = reports
      /\ stage[n] = "exec" /\ stage'[n] = "lock"
      /\ balance' = [balance EXCEPT ![n][Tx(n).nation] = @ - 1]
  BY DEF DebitTx, comet, history, TypeOK
<1>3. Tx(n)' = Tx(n) /\ Executing(n)'
  BY <1>1, <1>2 DEF Tx, Block, Executing
<1>4. CursorOK(n)' /\ LocksOK(n)'
  BY <1>1, <1>2, <1>3 DEF NodeOK, CursorOK, LocksOK
<1>5. Unfiled(n)' = Unfiled(n)
  BY <1>2 DEF Unfiled
<1>6. ASSUME NEW m \in Nations PROVE CreditGap(n, m)' = CreditGap(n, m)
  <2>1. SpentBy(n, m)' = SpentBy(n, m) /\ Cardinality(SpentBy(n, m)) \in Nat
    BY <1>2, FiniteParts DEF SpentBy
  <2>2. InHand(n, m) = 0 /\ InHand(n, m)' = IF Tx(n).nation = m THEN 1 ELSE 0
    BY <1>2, <1>3 DEF InHand
  <2>3. /\ balance[n][m] \in Int
        /\ balance'[n][m] = IF Tx(n).nation = m THEN balance[n][m] - 1
                            ELSE balance[n][m]
    BY <1>1, <1>2 DEF TypeOK, WellSigned
  <2> QED
    BY <2>1, <2>2, <2>3, BoundsAssumption DEF CreditGap
<1> QED
  BY <1>2, <1>4, <1>5, <1>6 DEF NodeOK, TornOK

\* A new duplicate lock counts one spend of the nation that signed it, and no
\* spend of any other.
LEMMA SpentByAfterLock ==
  ASSUME TypeOK, NEW n \in Nodes, NEW m \in Nations,
         NEW tx \in Txs, WellSigned(tx), Key(tx) \notin processed[n],
         processed'[n] = processed[n] \cup {Key(tx)}
  PROVE  Cardinality(SpentBy(n, m)') =
            Cardinality(SpentBy(n, m))
              + (IF tx.type = SPEND /\ tx.nation = m THEN 1 ELSE 0)
<1>1. CASE tx.type = SPEND /\ tx.nation = m
  <2>1. SpentBy(n, m)' = SpentBy(n, m) \cup {Key(tx)}
    BY <1>1 DEF SpentBy
  <2>2. Key(tx) \notin SpentBy(n, m)
    BY DEF SpentBy
  <2> QED
    BY <1>1, <2>1, <2>2, FiniteParts, FS_AddElement
<1>2. CASE ~(tx.type = SPEND /\ tx.nation = m)
  <2>1. ASSUME NEW u \in Txs, WellSigned(u), Key(u) = Key(tx),
               u.type = SPEND, u.nation = m
        PROVE  FALSE
    <3>1. u.type = tx.type /\ u.event = tx.event
      BY <2>1 DEF Key
    <3> QED
      BY <1>2, <2>1, <3>1, TxsAssumption
  <2>2. SpentBy(n, m)' = SpentBy(n, m)
    BY <2>1 DEF SpentBy
  <2> QED
    BY <1>2, <2>2, FiniteParts
<1> QED
  BY <1>1, <1>2

\* LockTx turns the credit in hand into a locked spend, and announces the
\* report that FileTx writes next.
LEMMA LockStep ==
  ASSUME TypeOK, NEW n \in Nodes, NodeOK(n), LockTx(n)
  PROVE  NodeOK(n)'
<1>1. /\ Executing(n) /\ Tx(n) \in Txs /\ Key(Tx(n)) \in Keys
      /\ WellSigned(Tx(n)) /\ Key(Tx(n)) \notin processed[n]
      /\ stage[n] \in {"exec", "lock"}
      /\ stage[n] = "lock" <=> Tx(n).type = SPEND
  BY CursorTypes, ExecCodeZero DEF NodeOK, CursorOK, LocksOK, LockTx
<1>2. /\ chain' = chain /\ height' = height /\ pos' = pos /\ torn' = torn
      /\ balance' = balance /\ reports' = reports /\ stage'[n] = "file"
      /\ processed'[n] = processed[n] \cup {Key(Tx(n))}
  BY DEF LockTx, comet, history, TypeOK
<1>3. Tx(n)' = Tx(n) /\ Executing(n)'
  BY <1>1, <1>2 DEF Tx, Block, Executing
<1>4. CursorOK(n)'
  BY <1>1, <1>2, <1>3 DEF NodeOK, CursorOK
<1>5. LocksOK(n)'
  BY <1>1, <1>2, <1>3 DEF NodeOK, LocksOK
<1>6. Unfiled(n)' = Unfiled(n)
  BY <1>1, <1>2, <1>3 DEF Unfiled
<1>7. ASSUME NEW m \in Nations PROVE CreditGap(n, m)' = CreditGap(n, m)
  <2>1. Cardinality(SpentBy(n, m)') =
            Cardinality(SpentBy(n, m))
              + (IF Tx(n).type = SPEND /\ Tx(n).nation = m THEN 1 ELSE 0)
    BY <1>1, <1>2, SpentByAfterLock
  <2>2. /\ InHand(n, m) = IF Tx(n).type = SPEND /\ Tx(n).nation = m THEN 1 ELSE 0
        /\ InHand(n, m)' = 0
    BY <1>1, <1>2 DEF InHand
  <2>3. Cardinality(SpentBy(n, m)) \in Nat /\ balance[n][m] \in Int
    BY FiniteParts DEF TypeOK
  <2> QED
    BY <1>2, <2>1, <2>2, <2>3, BoundsAssumption DEF CreditGap
<1> QED
  BY <1>2, <1>4, <1>5, <1>6, <1>7 DEF NodeOK, TornOK

\* FileTx files the report that was announced.
LEMMA FileStep ==
  ASSUME TypeOK, NEW n \in Nodes, NodeOK(n), FileTx(n)
  PROVE  NodeOK(n)'
<1>1. /\ Executing(n) /\ Tx(n) \in Txs /\ Key(Tx(n)) \in Keys /\ Tx(n) # None
      /\ Key(Tx(n)) \in processed[n] /\ stage[n] = "file"
  BY CursorTypes, TxsAssumption DEF NodeOK, LocksOK, FileTx
<1>2. /\ chain' = chain /\ height' = height /\ torn' = torn
      /\ balance' = balance /\ processed' = processed /\ stage'[n] = "exec"
      /\ \A k \in Keys : reports'[n][k] = IF k = Key(Tx(n)) THEN Tx(n)
                                           ELSE reports[n][k]
  BY DEF FileTx, comet, history, TypeOK
<1>3. CursorOK(n)' /\ LocksOK(n)'
  BY <1>1, <1>2 DEF NodeOK, CursorOK, LocksOK, Executing
<1>4. Unfiled(n)' = Unfiled(n)
  BY <1>1, <1>2 DEF Unfiled, TypeOK
<1>5. ASSUME NEW m \in Nations PROVE CreditGap(n, m)' = CreditGap(n, m)
  BY <1>1, <1>2 DEF CreditGap, SpentBy, InHand
<1> QED
  BY <1>2, <1>3, <1>4, <1>5 DEF NodeOK, TornOK

\* A crash after the first Put of a transaction leaves one credit too many
\* taken or one report unfiled, and torn counts it.
LEMMA RestartStep ==
  ASSUME TypeOK, NEW n \in Nodes, NodeOK(n), Restart(n)
  PROVE  NodeOK(n)'
<1>1. /\ chain' = chain /\ processed' = processed /\ reports' = reports
      /\ height'[n] = 0 /\ pos'[n] = 0 /\ stage'[n] = "exec"
      /\ torn'[n] = IF stage[n] = "exec" THEN torn[n] ELSE torn[n] + 1
      /\ torn[n] \in Nat /\ stage[n] \in {"exec", "lock", "file"}
  BY DEF Restart, TypeOK
<1>2. ASSUME NEW m \in Nations
      PROVE  balance'[n][m] = balance[n][m] /\ balance[n][m] \in Int
  BY DEF Restart, OpenDB, TypeOK
<1>3. CursorOK(n)' /\ LocksOK(n)'
  BY <1>1 DEF NodeOK, CursorOK, LocksOK, TypeOK
<1>4. Cardinality(Unfiled(n)') =
         Cardinality(Unfiled(n)) + (IF stage[n] = "file" THEN 1 ELSE 0)
  <2>1. CASE stage[n] = "file"
    <3>1. Unfiled(n)' = Unfiled(n) \cup {Key(Tx(n))} /\ Key(Tx(n)) \notin Unfiled(n)
      BY <1>1, <2>1 DEF Unfiled, NodeOK, LocksOK
    <3> QED
      BY <2>1, <3>1, FiniteParts, FS_AddElement
  <2>2. CASE stage[n] # "file"
    <3>1. Unfiled(n)' = Unfiled(n)
      BY <1>1, <2>2 DEF Unfiled
    <3> QED
      BY <2>2, <3>1, FiniteParts
  <2> QED
    BY <2>1, <2>2
<1>5. ASSUME NEW m \in Nations
      PROVE  CreditGap(n, m)' = CreditGap(n, m) + InHand(n, m)
  <2>1. SpentBy(n, m)' = SpentBy(n, m) /\ InHand(n, m)' = 0
    BY <1>1 DEF SpentBy, InHand
  <2>2. Cardinality(SpentBy(n, m)) \in Nat /\ InHand(n, m) \in {0, 1}
    BY FiniteParts
  <2> QED
    BY <1>2, <2>1, <2>2, BoundsAssumption DEF CreditGap
<1>6. TornOK(n)'
  <2> SUFFICES ASSUME NEW m \in Nations
               PROVE  (/\ CreditGap(n, m) >= 0
                       /\ CreditGap(n, m) + Cardinality(Unfiled(n)) <= torn[n])'
    BY DEF TornOK
  <2>1. /\ CreditGap(n, m) >= 0
        /\ CreditGap(n, m) + Cardinality(Unfiled(n)) <= torn[n]
    BY DEF NodeOK, TornOK
  <2>2. /\ InHand(n, m) \in {0, 1} /\ (stage[n] # "lock" => InHand(n, m) = 0)
        /\ Cardinality(Unfiled(n)) \in Nat /\ CreditGap(n, m) \in Int
    BY <1>2, FiniteParts, BoundsAssumption DEF InHand, CreditGap
  <2> QED
    BY <1>1, <1>4, <1>5, <2>1, <2>2
<1> QED
  BY <1>3, <1>6 DEF NodeOK

-----------------------------------------------------------------------------
(* What the chain determines *)

\* Position i of block h holds a well-signed transaction with key k.
At(k, h, i) ==
    /\ h \in 1 .. Len(chain) /\ i \in 1 .. Len(chain[h])
    /\ WellSigned(chain[h][i]) /\ Key(chain[h][i]) = k

\* It is the first of the chain that does: the one whose transaction is filed.
First(k, h, i) ==
    /\ At(k, h, i)
    /\ \A g, j \in Nat : At(k, g, j) => h < g \/ (h = g /\ i <= j)

\* Node n is past position i of block h, since its last restart.
Seen(n, h, i) == h <= height[n] \/ (h = height[n] + 1 /\ i < pos[n])

\* A node has locked what it is past, has locked nothing that is not in the chain,
\* and has filed, or is about to, the first transaction of the chain with that key.
ReplayOK(n) ==
    /\ \A k \in Keys, h, i \in Nat : At(k, h, i) /\ Seen(n, h, i) => k \in processed[n]
    /\ \A k \in processed[n] : \E h, i \in Nat : At(k, h, i)
    /\ \A k \in Keys : reports[n][k] # None =>
          \E h, i \in Nat : First(k, h, i) /\ reports[n][k] = chain[h][i]
    /\ stage[n] # "exec" => First(Key(Tx(n)), height[n] + 1, pos[n])

ReplayInv == \A n \in Nodes : ReplayOK(n)

\* The blocks that were decided stay, and what is decided comes after them.
LEMMA AtAfterAppend ==
  ASSUME TypeOK, NEW blk \in Seq(Txs), chain' = Append(chain, blk), NEW k,
         NEW h \in Nat, NEW i \in Nat
  PROVE  /\ At(k, h, i) => At(k, h, i)' /\ h <= Len(chain)
         /\ At(k, h, i)' => At(k, h, i) \/ h = Len(chain) + 1
         /\ First(k, h, i) => First(k, h, i)'
         /\ h \in 1 .. Len(chain) => chain'[h] = chain[h]
<1>1. /\ Len(chain) \in Nat /\ Len(chain') = Len(chain) + 1
      /\ \A g \in 1 .. Len(chain) : chain'[g] = chain[g]
  BY DEF TypeOK
<1>2. \A g, j \in Nat : At(k, g, j) => At(k, g, j)' /\ g <= Len(chain)
  BY <1>1 DEF At
<1>3. \A g, j \in Nat : At(k, g, j)' => At(k, g, j) \/ g = Len(chain) + 1
  BY <1>1 DEF At
<1>4. First(k, h, i) => First(k, h, i)'
  <2> SUFFICES ASSUME First(k, h, i) PROVE First(k, h, i)'
    OBVIOUS
  <2>1. At(k, h, i)' /\ h <= Len(chain)
    BY <1>2 DEF First
  <2>2. ASSUME NEW g \in Nat, NEW j \in Nat, At(k, g, j)' PROVE h < g \/ (h = g /\ i <= j)
    <3>1. CASE At(k, g, j)
      BY <3>1 DEF First
    <3>2. CASE g = Len(chain) + 1
      BY <1>1, <2>1, <3>2
    <3> QED
      BY <1>3, <2>2, <3>1, <3>2
  <2> QED
    BY <2>1, <2>2 DEF First
<1> QED
  BY <1>1, <1>2, <1>3, <1>4

\* A node that does not move, also when consensus decides one more block.
LEMMA StillReplay ==
  ASSUME TypeOK, NEW p \in Nodes, CursorOK(p), ReplayOK(p), SameNode(p),
         chain' = chain \/ \E blk \in Seq(Txs) : chain' = Append(chain, blk)
  PROVE  ReplayOK(p)'
<1>0. /\ height[p] \in Nat /\ pos[p] \in Nat /\ Len(chain) \in Nat
      /\ height[p] <= Len(chain) /\ (pos[p] > 0 => height[p] < Len(chain))
  BY DEF TypeOK, CursorOK
<1>1. CASE chain' = chain
  BY <1>1 DEF ReplayOK, SameNode, At, First, Seen, Tx, Block
<1>2. ASSUME NEW blk \in Seq(Txs), chain' = Append(chain, blk) PROVE ReplayOK(p)'
  <2>1. \A h, i \in Nat : Seen(p, h, i)' = Seen(p, h, i)
    BY DEF Seen, SameNode
  <2>2. ASSUME NEW k \in Keys, NEW h \in Nat, NEW i \in Nat, At(k, h, i)', Seen(p, h, i)'
        PROVE  k \in processed'[p]
    <3>1. Seen(p, h, i)
      BY <2>1, <2>2
    <3>2. h # Len(chain) + 1
      BY <1>0, <3>1 DEF Seen
    <3>3. At(k, h, i)
      BY <1>2, <2>2, <3>2, AtAfterAppend
    <3> QED
      BY <3>1, <3>3 DEF ReplayOK, SameNode
  <2>3. ASSUME NEW k \in processed'[p] PROVE \E h, i \in Nat : At(k, h, i)'
    <3>1. PICK h, i \in Nat : At(k, h, i)
      BY DEF ReplayOK, SameNode
    <3> QED
      BY <1>2, <3>1, AtAfterAppend
  <2>4. ASSUME NEW k \in Keys, reports'[p][k] # None
        PROVE  \E h, i \in Nat : First(k, h, i)' /\ reports'[p][k] = chain'[h][i]
    <3>1. PICK h, i \in Nat : First(k, h, i) /\ reports[p][k] = chain[h][i]
      BY <2>4 DEF ReplayOK, SameNode
    <3>2. h \in 1 .. Len(chain)
      BY <3>1 DEF First, At
    <3>3. First(k, h, i)' /\ chain'[h] = chain[h]
      BY <1>2, <3>1, <3>2, AtAfterAppend
    <3> QED
      BY <3>1, <3>3 DEF SameNode
  <2>5. ASSUME stage'[p] # "exec" PROVE First(Key(Tx(p)), height[p] + 1, pos[p])'
    <3>1. stage[p] # "exec" /\ pos[p] > 0
      BY <2>5 DEF SameNode, CursorOK, Executing
    <3>2. First(Key(Tx(p)), height[p] + 1, pos[p]) /\ height[p] + 1 \in 1 .. Len(chain)
      BY <1>0, <3>1 DEF ReplayOK
    <3>3. chain'[height[p] + 1] = chain[height[p] + 1]
      BY <1>0, <1>2, <3>2, AtAfterAppend
    <3>4. Tx(p)' = Tx(p)
      BY <3>3 DEF Tx, Block, SameNode
    <3>5. PICK k, h, i : k = Key(Tx(p)) /\ h = height[p] + 1 /\ i = pos[p]
      OBVIOUS
    <3>6. h \in Nat /\ i \in Nat /\ First(k, h, i)
      BY <1>0, <3>2, <3>5
    <3>7. First(k, h, i)'
      BY <1>2, <3>6, AtAfterAppend
    <3>8. Key(Tx(p)') = k /\ height'[p] + 1 = h /\ pos'[p] = i
      BY <3>4, <3>5 DEF SameNode
    <3> QED
      BY <3>7, <3>8 DEF First, At, Key
  <2> QED
    BY <2>2, <2>3, <2>4, <2>5 DEF ReplayOK
<1> QED
  BY <1>1, <1>2

\* A position no earlier one of which has the same key, because the node is past all of
\* those and has not locked it.
LEMMA NewKeyIsFirst ==
  ASSUME TypeOK, NEW n \in Nodes, CursorOK(n), ReplayOK(n), Executing(n), Tx(n) \in Txs,
         WellSigned(Tx(n)), Key(Tx(n)) \notin processed[n]
  PROVE  First(Key(Tx(n)), height[n] + 1, pos[n])
<1>0. height[n] \in Nat /\ pos[n] \in Nat /\ height[n] + 1 \in 1 .. Len(chain)
  BY DEF TypeOK, CursorOK, Executing
<1>1. pos[n] \in 1 .. Len(chain[height[n] + 1])
  BY <1>0, CursorTypes DEF Executing, Block
<1>2. At(Key(Tx(n)), height[n] + 1, pos[n])
  BY <1>0, <1>1 DEF At, Tx, Block
<1>3. Key(Tx(n)) \in Keys
  BY DEF Keys
<1>4. ASSUME NEW g \in Nat, NEW j \in Nat, At(Key(Tx(n)), g, j)
      PROVE  height[n] + 1 < g \/ (height[n] + 1 = g /\ pos[n] <= j)
  <2>1. ~Seen(n, g, j)
    BY <1>3, <1>4 DEF ReplayOK
  <2> QED
    BY <1>0, <2>1 DEF Seen
<1> QED
  BY <1>2, <1>4 DEF First

\* A well-signed transaction is refused only for its key (app.go:134-142).
LEMMA RefusedIsLocked ==
  ASSUME NEW done, NEW tx \in Txs, WellSigned(tx), ExecCode(done, tx) # 0
  PROVE  Key(tx) \in done
BY DEF ExecCode, WellSigned

\* What is at one position has one key.
LEMMA AtCursor ==
  ASSUME TypeOK, NEW n \in Nodes, NEW k, NEW h \in Nat, NEW i \in Nat, At(k, h, i),
         h = height[n] + 1, i = pos[n]
  PROVE  k = Key(Tx(n)) /\ WellSigned(Tx(n))
BY DEF At, Tx, Block

\* A step of a node that leaves its database alone and only moves its cursor.
LEMMA ReplayCursor ==
  ASSUME TypeOK, NEW n \in Nodes, ReplayOK(n), chain' = chain,
         processed'[n] = processed[n], reports'[n] = reports[n], stage'[n] = "exec",
         \A k \in Keys, h, i \in Nat :
            At(k, h, i) /\ Seen(n, h, i)' => Seen(n, h, i) \/ k \in processed[n]
  PROVE  ReplayOK(n)'
<1>1. \A k, h, i : (At(k, h, i)' <=> At(k, h, i)) /\ (First(k, h, i)' <=> First(k, h, i))
  BY DEF At, First
<1> QED
  BY <1>1 DEF ReplayOK

\* Every step of a node keeps what it holds tied to the chain.
LEMMA ReplayStep ==
  ASSUME TypeOK, TypeOK', NEW n \in Nodes, NodeOK(n), ReplayOK(n),
         \/ BeginBlock(n) \/ RejectTx(n) \/ DebitTx(n) \/ LockTx(n)
         \/ FileTx(n) \/ EndBlock(n) \/ Restart(n)
  PROVE  ReplayOK(n)'
<1> USE DEF NodeOK
<1>0. /\ height[n] \in Nat /\ pos[n] \in Nat /\ Len(chain) \in Nat
      /\ height[n] <= Len(chain) /\ (pos[n] > 0 => height[n] < Len(chain))
  BY DEF TypeOK, CursorOK
<1>1. CASE BeginBlock(n)
  <2>1. /\ chain' = chain /\ processed' = processed /\ reports' = reports
        /\ height' = height /\ pos[n] = 0 /\ pos'[n] = 1 /\ stage' = stage
    BY <1>1 DEF BeginBlock, db, Idle, TypeOK
  <2>2. stage'[n] = "exec"
    BY <1>0, <2>1 DEF CursorOK, Executing
  <2>3. \A k \in Keys, h, i \in Nat : At(k, h, i) /\ Seen(n, h, i)' => Seen(n, h, i)
    BY <1>0, <2>1 DEF Seen, At
  <2> QED
    BY <2>1, <2>2, <2>3, ReplayCursor
<1>2. CASE RejectTx(n)
  <2>1. /\ chain' = chain /\ processed' = processed /\ reports' = reports
        /\ height' = height /\ pos'[n] = pos[n] + 1 /\ stage'[n] = "exec"
        /\ Executing(n) /\ ExecCode(processed[n], Tx(n)) # 0
    BY <1>2 DEF RejectTx, comet, db, TypeOK
  <2>2. Tx(n) \in Txs
    BY <2>1, CursorTypes
  <2>3. \A h, i \in Nat : Seen(n, h, i)' => Seen(n, h, i) \/ (h = height[n] + 1 /\ i = pos[n])
    BY <1>0, <2>1 DEF Seen
  <2>4. \A k \in Keys, h, i \in Nat :
           At(k, h, i) /\ Seen(n, h, i)' => Seen(n, h, i) \/ k \in processed[n]
    BY <2>1, <2>2, <2>3, AtCursor, RefusedIsLocked
  <2> QED
    BY <2>1, <2>4, ReplayCursor
<1>3. CASE DebitTx(n)
  <2>1. /\ chain' = chain /\ processed' = processed /\ reports' = reports
        /\ height' = height /\ pos' = pos
        /\ Executing(n) /\ ExecCode(processed[n], Tx(n)) = 0
    BY <1>3 DEF DebitTx, comet
  <2>2. First(Key(Tx(n)), height[n] + 1, pos[n])
    BY <2>1, CursorTypes, ExecCodeZero, NewKeyIsFirst
  <2>3. \A k, h, i : /\ At(k, h, i)' <=> At(k, h, i)
                     /\ First(k, h, i)' <=> First(k, h, i)
                     /\ Seen(n, h, i)' <=> Seen(n, h, i)
    BY <2>1 DEF At, First, Seen
  <2>4. First(Key(Tx(n)), height[n] + 1, pos[n])'
    BY <2>1, <2>2 DEF First, At, Tx, Block
  <2> QED
    BY <2>1, <2>3, <2>4 DEF ReplayOK
<1>4. CASE LockTx(n)
  <2>1. /\ chain' = chain /\ reports' = reports /\ height' = height /\ pos' = pos
        /\ processed'[n] = processed[n] \cup {Key(Tx(n))}
        /\ Executing(n)
        /\ stage[n] = "lock" \/ ExecCode(processed[n], Tx(n)) = 0
    BY <1>4 DEF LockTx, comet, TypeOK
  <2>2. First(Key(Tx(n)), height[n] + 1, pos[n])
    <3>1. CASE stage[n] = "lock"
      BY <3>1 DEF ReplayOK
    <3>2. CASE ExecCode(processed[n], Tx(n)) = 0
      BY <2>1, <3>2, CursorTypes, ExecCodeZero, NewKeyIsFirst
    <3> QED
      BY <2>1, <3>1, <3>2
  <2>3. \E h, i \in Nat : At(Key(Tx(n)), h, i)
    <3>1. height[n] + 1 \in Nat /\ pos[n] \in Nat
      BY <1>0
    <3>2. At(Key(Tx(n)), height[n] + 1, pos[n])
      BY <2>2 DEF First
    <3> QED
      BY <3>1, <3>2
  <2>4. \A k \in processed'[n] : \E h, i \in Nat : At(k, h, i)
    BY <2>1, <2>3 DEF ReplayOK
  <2>5. \A k, h, i : /\ At(k, h, i)' <=> At(k, h, i)
                     /\ First(k, h, i)' <=> First(k, h, i)
                     /\ Seen(n, h, i)' <=> Seen(n, h, i)
    BY <2>1 DEF At, First, Seen
  <2>6. First(Key(Tx(n)), height[n] + 1, pos[n])'
    BY <2>1, <2>2 DEF First, At, Tx, Block
  <2> QED
    BY <2>1, <2>4, <2>5, <2>6 DEF ReplayOK
<1>5. CASE FileTx(n)
  <2>1. /\ chain' = chain /\ processed' = processed /\ height' = height
        /\ pos'[n] = pos[n] + 1 /\ stage'[n] = "exec" /\ stage[n] = "file"
        /\ \A k \in Keys : reports'[n][k] = IF k = Key(Tx(n)) THEN Tx(n) ELSE reports[n][k]
    BY <1>5 DEF FileTx, comet, TypeOK
  <2>2. First(Key(Tx(n)), height[n] + 1, pos[n]) /\ Key(Tx(n)) \in processed[n]
    BY <2>1 DEF ReplayOK, LocksOK
  <2>3. \A h, i \in Nat : Seen(n, h, i)' => Seen(n, h, i) \/ (h = height[n] + 1 /\ i = pos[n])
    BY <1>0, <2>1 DEF Seen
  <2>4. \A k \in Keys, h, i \in Nat : At(k, h, i) /\ Seen(n, h, i)' => k \in processed[n]
    BY <2>2, <2>3, AtCursor DEF ReplayOK
  <2>5. ASSUME NEW k \in Keys, reports'[n][k] # None
        PROVE  \E h, i \in Nat : First(k, h, i) /\ reports'[n][k] = chain[h][i]
    <3>1. CASE k = Key(Tx(n))
      <4>1. reports'[n][k] = chain[height[n] + 1][pos[n]]
        BY <2>1, <3>1 DEF Tx, Block
      <4> QED
        BY <1>0, <2>2, <3>1, <4>1
    <3>2. CASE k # Key(Tx(n))
      BY <2>1, <2>5, <3>2 DEF ReplayOK
    <3> QED
      BY <3>1, <3>2
  <2>6. \A k, h, i : (At(k, h, i)' <=> At(k, h, i)) /\ (First(k, h, i)' <=> First(k, h, i))
    BY <2>1 DEF At, First
  <2> QED
    BY <2>1, <2>4, <2>5, <2>6 DEF ReplayOK
<1>6. CASE EndBlock(n)
  <2>1. /\ chain' = chain /\ processed' = processed /\ reports' = reports
        /\ height'[n] = height[n] + 1 /\ pos'[n] = 0 /\ stage' = stage
        /\ pos[n] > 0 /\ pos[n] > Len(Block(n))
    BY <1>6 DEF EndBlock, db, TypeOK
  <2>2. Len(Block(n)) \in Nat
    BY <2>1, CursorTypes
  <2>3. stage'[n] = "exec"
    BY <1>0, <2>1, <2>2 DEF CursorOK, Executing
  <2>4. ASSUME NEW k \in Keys, NEW h \in Nat, NEW i \in Nat, At(k, h, i), Seen(n, h, i)'
        PROVE  Seen(n, h, i)
    <3>1. h <= height[n] + 1
      BY <1>0, <2>1, <2>4 DEF Seen
    <3>2. h = height[n] + 1 => i < pos[n]
      BY <1>0, <2>1, <2>2, <2>4 DEF At, Block
    <3> QED
      BY <1>0, <3>1, <3>2 DEF Seen
  <2> QED
    BY <2>1, <2>3, <2>4, ReplayCursor
<1>7. CASE Restart(n)
  <2>1. /\ chain' = chain /\ processed' = processed /\ reports' = reports
        /\ height'[n] = 0 /\ pos'[n] = 0 /\ stage'[n] = "exec"
    BY <1>7 DEF Restart, TypeOK
  <2>2. \A k \in Keys, h, i \in Nat : At(k, h, i) => ~Seen(n, h, i)'
    BY <2>1 DEF Seen, At
  <2> QED
    BY <2>1, <2>2, ReplayCursor
<1> QED
  BY <1>1, <1>2, <1>3, <1>4, <1>5, <1>6, <1>7

\* So does every step of the ledger.
LEMMA ReplayNext == LedgerInv /\ LedgerInv' /\ ReplayInv /\ [Next]_vars => ReplayInv'
<1> SUFFICES ASSUME LedgerInv, LedgerInv', ReplayInv, [Next]_vars, NEW p \in Nodes
             PROVE  ReplayOK(p)'
  BY DEF ReplayInv
<1>1. /\ TypeOK /\ TypeOK' /\ CursorOK(p) /\ ReplayOK(p)
      /\ \A n \in Nodes : NodeOK(n) /\ ReplayOK(n)
  BY DEF LedgerInv, CursorInv, LocksInv, TornWritesBounded, NodeOK, TornOK, ReplayInv
<1>2. CASE UNCHANGED vars
  BY <1>1, <1>2, StillReplay DEF SameNode, vars, comet, db, run, history
<1>3. ASSUME NEW n \in Nodes, NEW tx \in Txs, SubmitTx(n, tx) PROVE ReplayOK(p)'
  BY <1>1, <1>3, StillReplay DEF SubmitTx, SameNode, db, run, history
<1>4. ASSUME NEW n \in Nodes, Decide(n) PROVE ReplayOK(p)'
  <2>1. \E blk \in Seq(Txs) : chain' = Append(chain, blk)
    BY <1>1, <1>4, BlocksFromType DEF Decide, TypeOK
  <2> QED
    BY <1>1, <1>4, <2>1, StillReplay DEF Decide, SameNode, db, run, history
<1>5. ASSUME NEW n \in Nodes,
             \/ BeginBlock(n) \/ RejectTx(n) \/ DebitTx(n) \/ LockTx(n)
             \/ FileTx(n) \/ EndBlock(n) \/ Restart(n)
      PROVE  ReplayOK(p)'
  <2>1. CASE p = n
    BY <1>1, <1>5, <2>1, ReplayStep
  <2>2. CASE p # n
    <3>1. SameNode(p) /\ chain' = chain
      <4>1. CASE BeginBlock(n) \/ RejectTx(n) \/ EndBlock(n)
        BY <1>1, <2>2, <4>1
           DEF BeginBlock, RejectTx, EndBlock, SameNode, comet, db, history, TypeOK
      <4>2. CASE DebitTx(n)
        BY <1>1, <2>2, <4>2 DEF DebitTx, SameNode, comet, history, TypeOK
      <4>3. CASE LockTx(n)
        BY <1>1, <2>2, <4>3 DEF LockTx, SameNode, comet, history, TypeOK
      <4>4. CASE FileTx(n)
        BY <1>1, <2>2, <4>4 DEF FileTx, SameNode, comet, history, TypeOK
      <4>5. CASE Restart(n)
        BY <1>1, <2>2, <4>5 DEF Restart, SameNode, TypeOK
      <4> QED
        BY <1>5, <4>1, <4>2, <4>3, <4>4, <4>5
    <3> QED
      BY <1>1, <3>1, StillReplay
  <2> QED
    BY <2>1, <2>2
<1> QED
  BY <1>2, <1>3, <1>4, <1>5 DEF Next

\* Two nodes at the end of the chain hold the same locks.
LEMMA SameLocks ==
  ASSUME LedgerInv, ReplayInv, NEW a \in Nodes, NEW b \in Nodes, CaughtUp(b)
  PROVE  processed[a] \subseteq processed[b]
<1> SUFFICES ASSUME NEW k \in processed[a] PROVE k \in processed[b]
  OBVIOUS
<1>1. PICK h, i \in Nat : At(k, h, i)
  BY DEF ReplayInv, ReplayOK
<1>2. h <= height[b] /\ k \in Keys
  BY <1>1 DEF At, CaughtUp, LedgerInv, TypeOK
<1> QED
  BY <1>1, <1>2 DEF ReplayInv, ReplayOK, Seen

\* A node that is between blocks and was never torn has filed all it has locked, and
\* its balances are what its locks say.
LEMMA UntornNode ==
  ASSUME LedgerInv, ReplayInv, NEW n \in Nodes, Idle(n), torn[n] = 0
  PROVE  /\ \A k \in Keys : reports[n][k] # None <=> k \in processed[n]
         /\ \A m \in Nations : balance[n][m] = InitialCredits - Cardinality(SpentBy(n, m))
<1>0. TypeOK /\ NodeOK(n) /\ ReplayOK(n)
  BY DEF LedgerInv, CursorInv, LocksInv, TornWritesBounded, NodeOK, TornOK, ReplayInv
<1>1. stage[n] = "exec"
  BY <1>0 DEF NodeOK, CursorOK, Executing, Idle
<1>2. ASSUME NEW m \in Nations
      PROVE  CreditGap(n, m) = 0 /\ Cardinality(Unfiled(n)) = 0 /\ InHand(n, m) = 0
  <2>1. /\ CreditGap(n, m) >= 0 /\ CreditGap(n, m) + Cardinality(Unfiled(n)) <= 0
    BY <1>0 DEF NodeOK, TornOK
  <2>2. /\ Cardinality(Unfiled(n)) \in Nat /\ Cardinality(SpentBy(n, m)) \in Nat
        /\ InHand(n, m) \in {0, 1} /\ balance[n][m] \in Int
    BY <1>0, FiniteParts DEF TypeOK
  <2>3. CreditGap(n, m) \in Int
    BY <2>2, BoundsAssumption DEF CreditGap
  <2> QED
    BY <1>1, <2>1, <2>2, <2>3 DEF InHand
<1>3. ASSUME NEW m \in Nations
      PROVE  balance[n][m] = InitialCredits - Cardinality(SpentBy(n, m))
  <2>1. Cardinality(SpentBy(n, m)) \in Nat /\ balance[n][m] \in Int
    BY <1>0, FiniteParts DEF TypeOK
  <2>2. InitialCredits - balance[n][m] - Cardinality(SpentBy(n, m)) - 0 = 0
    BY <1>2 DEF CreditGap
  <2>3. InitialCredits \in Nat
    BY BoundsAssumption
  <2> QED
    BY <2>1, <2>2, <2>3
<1>4. ASSUME NEW k \in processed[n] PROVE reports[n][k] # None
  <2>1. PICK h, i \in Nat : At(k, h, i)
    BY <1>0 DEF ReplayOK
  <2>2. chain[h][i].nation \in Nations
    BY <2>1 DEF At, WellSigned
  <2>3. Cardinality(Unfiled(n)) = 0 /\ IsFiniteSet(Unfiled(n))
    BY <1>0, <1>2, <2>2, FiniteParts
  <2>4. Unfiled(n) = {}
    BY <2>3, FS_EmptySet
  <2> QED
    BY <1>1, <2>4 DEF Unfiled
<1> QED
  BY <1>0, <1>3, <1>4 DEF NodeOK, LocksOK

\* They therefore show the same explorer.
LEMMA SameExplorer == LedgerInv /\ ReplayInv => Agreement
<1> SUFFICES ASSUME LedgerInv, ReplayInv, NEW a \in Nodes, NEW b \in Nodes,
                    CaughtUp(a), CaughtUp(b), torn[a] = 0, torn[b] = 0
             PROVE  QueryState(a) = QueryState(b) /\ processed[a] = processed[b]
  BY DEF Agreement
<1>0. TypeOK /\ Idle(a) /\ Idle(b)
  BY DEF LedgerInv, CaughtUp
<1>1. processed[a] = processed[b]
  BY SameLocks
<1>2. \A m \in Nations : SpentBy(a, m) = SpentBy(b, m)
  BY <1>1 DEF SpentBy
<1>3. balance[a] = balance[b]
  <2>1. balance[a] \in [Nations -> Int] /\ balance[b] \in [Nations -> Int]
    BY <1>0 DEF TypeOK
  <2>2. \A m \in Nations : balance[a][m] = balance[b][m]
    BY <1>0, <1>2, UntornNode
  <2> QED
    BY <2>1, <2>2
<1>4. reports[a] = reports[b]
  <2>1. reports[a] \in [Keys -> Txs \cup {None}] /\ reports[b] \in [Keys -> Txs \cup {None}]
    BY <1>0 DEF TypeOK
  <2>2. ASSUME NEW k \in Keys PROVE reports[a][k] = reports[b][k]
    <3>1. reports[a][k] # None <=> reports[b][k] # None
      BY <1>0, <1>1, UntornNode
    <3>2. CASE reports[a][k] # None
      <4>1. PICK h, i \in Nat : First(k, h, i) /\ reports[a][k] = chain[h][i]
        BY <3>2 DEF ReplayInv, ReplayOK
      <4>2. PICK g, j \in Nat : First(k, g, j) /\ reports[b][k] = chain[g][j]
        BY <3>1, <3>2 DEF ReplayInv, ReplayOK
      <4>3. h = g /\ i = j
        BY <4>1, <4>2 DEF First
      <4> QED
        BY <4>1, <4>2, <4>3
    <3> QED
      BY <3>1, <3>2
  <2> QED
    BY <2>1, <2>2
<1> QED
  BY <1>1, <1>3, <1>4 DEF QueryState

-----------------------------------------------------------------------------
(* Debt *)

\* The spends of m in the chain, on whichever node they were executed.
Spends(m) ==
    {k \in Keys : /\ \E h, i \in Nat : At(k, h, i)
                  /\ \E tx \in Txs : /\ WellSigned(tx) /\ Key(tx) = k
                                     /\ tx.type = SPEND /\ tx.nation = m}

\* Between blocks a mempool holds only what CheckTx would let in now.
MempoolOK(n) == Idle(n) => \A tx \in mempool[n] : CheckTxCode(balance[n], tx) = 0

MempoolInv == \A n \in Nodes : MempoolOK(n)

\* The chain spends what a nation has, and after that the rest of one block.
SpendsInv ==
    \A m \in Nations : Cardinality(Spends(m)) <= InitialCredits + MaxBlockTxs - 1

\* What is left of a mempool is checked again after every block, and a restart empties it
\* (app.go:70-92).
LEMMA MempoolNext == LedgerInv /\ MempoolInv /\ [Next]_vars => MempoolInv'
<1> SUFFICES ASSUME TypeOK, MempoolInv, [Next]_vars, NEW p \in Nodes
             PROVE  MempoolOK(p)'
  BY DEF LedgerInv, MempoolInv
<1>0. MempoolOK(p)
  BY DEF MempoolInv
<1>1. CASE UNCHANGED vars
  BY <1>0, <1>1 DEF MempoolOK, Idle, vars, comet, db, run
<1>2. ASSUME NEW n \in Nodes, NEW tx \in Txs, SubmitTx(n, tx) PROVE MempoolOK(p)'
  BY <1>0, <1>2 DEF MempoolOK, Idle, SubmitTx, db, run, TypeOK
<1>3. ASSUME NEW n \in Nodes, Decide(n) PROVE MempoolOK(p)'
  BY <1>0, <1>3 DEF MempoolOK, Idle, Decide, db, run
<1>4. ASSUME NEW n \in Nodes,
             \/ BeginBlock(n) \/ RejectTx(n) \/ DebitTx(n) \/ LockTx(n) \/ FileTx(n)
      PROVE  MempoolOK(p)'
  <2>1. CASE p = n
    <3>1. pos'[n] # 0
      BY <1>4 DEF BeginBlock, RejectTx, DebitTx, LockTx, FileTx, Executing, TypeOK
    <3> QED
      BY <2>1, <3>1 DEF MempoolOK, Idle
  <2>2. CASE p # n
    <3>1. mempool' = mempool
      BY <1>4 DEF BeginBlock, RejectTx, DebitTx, LockTx, FileTx, comet
    <3>2. balance'[p] = balance[p]
      BY <1>4, <2>2 DEF BeginBlock, RejectTx, DebitTx, LockTx, FileTx, db, TypeOK
    <3>3. pos'[p] = pos[p]
      BY <1>4, <2>2 DEF BeginBlock, RejectTx, DebitTx, LockTx, FileTx, TypeOK
    <3> QED
      BY <1>0, <3>1, <3>2, <3>3 DEF MempoolOK, Idle
  <2> QED
    BY <2>1, <2>2
<1>5. ASSUME NEW n \in Nodes, EndBlock(n) PROVE MempoolOK(p)'
  <2>1. balance' = balance
    BY <1>5 DEF EndBlock, db
  <2>2. CASE p = n
    BY <1>5, <2>1, <2>2 DEF MempoolOK, EndBlock, TypeOK
  <2>3. CASE p # n
    <3>1. mempool'[p] = mempool[p] /\ pos'[p] = pos[p]
      BY <1>5, <2>3 DEF EndBlock, TypeOK
    <3> QED
      BY <1>0, <2>1, <3>1 DEF MempoolOK, Idle
  <2> QED
    BY <2>2, <2>3
<1>6. ASSUME NEW n \in Nodes, Restart(n) PROVE MempoolOK(p)'
  <2>1. CASE p = n
    BY <1>6, <2>1 DEF MempoolOK, Restart, TypeOK
  <2>2. CASE p # n
    <3>1. mempool'[p] = mempool[p] /\ pos'[p] = pos[p] /\ balance'[p] = balance[p]
      BY <1>6, <2>2 DEF Restart, TypeOK
    <3> QED
      BY <1>0, <3>1 DEF MempoolOK, Idle
  <2> QED
    BY <2>1, <2>2
<1> QED
  BY <1>1, <1>2, <1>3, <1>4, <1>5, <1>6 DEF Next

\* A block holds at most MaxBlockTxs keys.
LEMMA BlockKeys ==
  ASSUME NEW pool \in SUBSET Txs, NEW blk \in BlocksFrom(pool)
  PROVE  LET K == {Key(blk[i]) : i \in DOMAIN blk}
         IN  IsFiniteSet(K) /\ Cardinality(K) <= MaxBlockTxs /\ Cardinality(K) \in Nat
<1> DEFINE K == {Key(blk[i]) : i \in DOMAIN blk}
<1>1. PICK l \in 1 .. MaxBlockTxs : blk \in [1 .. l -> pool]
  BY DEF BlocksFrom
<1>2. l \in Nat /\ MaxBlockTxs \in Nat /\ l <= MaxBlockTxs /\ l >= 1
  BY BoundsAssumption
<1> DEFINE f == [i \in 1 .. l |-> Key(blk[i])]
<1>3. f \in Surjection(1 .. l, K)
  BY <1>1 DEF Surjection
<1>4. IsFiniteSet(1 .. l) /\ Cardinality(1 .. l) = l
  BY <1>2, FS_Interval
<1> HIDE DEF K, f
<1>5. IsFiniteSet(K) /\ Cardinality(K) <= l
  BY <1>3, <1>4, FS_Surjection
<1>6. Cardinality(K) \in Nat
  BY <1>5, FS_CardinalityType
<1> QED
  BY <1>2, <1>5, <1>6 DEF K

\* The spends a node has locked, and the one it has debited, are in the chain.
LEMMA SpentInChain ==
  ASSUME LedgerInv, ReplayInv, NEW n \in Nodes, NEW m \in Nations
  PROVE  /\ SpentBy(n, m) \subseteq Spends(m) /\ IsFiniteSet(Spends(m))
         /\ Cardinality(Spends(m)) \in Nat
         /\ Cardinality(SpentBy(n, m)) + InHand(n, m) <= Cardinality(Spends(m))
<1>0. TypeOK /\ CursorOK(n) /\ LocksOK(n) /\ ReplayOK(n)
  BY DEF LedgerInv, CursorInv, LocksInv, ReplayInv
<1>1. SpentBy(n, m) \subseteq Spends(m)
  BY <1>0 DEF SpentBy, Spends, ReplayOK, TypeOK
<1>2. IsFiniteSet(Spends(m)) /\ Cardinality(Spends(m)) \in Nat
  <2>1. Spends(m) \in SUBSET Keys
    BY DEF Spends
  <2> QED
    BY <2>1, KeysFinite, FS_Subset, FS_CardinalityType
<1>3. Cardinality(SpentBy(n, m)) <= Cardinality(Spends(m)) /\ Cardinality(SpentBy(n, m)) \in Nat
  BY <1>0, <1>1, <1>2, FS_Subset, FiniteParts
<1>4. CASE stage[n] = "lock" /\ Tx(n).nation = m
  <2> DEFINE k == Key(Tx(n))
  <2>1. /\ Executing(n) /\ WellSigned(Tx(n)) /\ Tx(n).type = SPEND /\ k \notin processed[n]
        /\ First(k, height[n] + 1, pos[n])
    BY <1>0, <1>4 DEF CursorOK, LocksOK, ReplayOK
  <2>2. Tx(n) \in Txs /\ k \in Keys
    BY <1>0, <2>1, CursorTypes
  <2>3. k \in Spends(m) /\ k \notin SpentBy(n, m)
    <3>1. height[n] + 1 \in Nat /\ pos[n] \in Nat /\ At(k, height[n] + 1, pos[n])
      BY <1>0, <2>1 DEF TypeOK, First
    <3>2. \E h, i \in Nat : At(k, h, i)
      BY <3>1
    <3> QED
      BY <1>4, <2>1, <2>2, <3>2 DEF Spends, SpentBy
  <2> HIDE DEF k
  <2>4. SpentBy(n, m) \cup {k} \subseteq Spends(m)
    BY <1>1, <2>3
  <2>5. Cardinality(SpentBy(n, m) \cup {k}) <= Cardinality(Spends(m))
    BY <1>2, <2>4, FS_Subset
  <2>6. Cardinality(SpentBy(n, m) \cup {k}) = Cardinality(SpentBy(n, m)) + 1
    BY <1>0, <2>3, FiniteParts, FS_AddElement
  <2> QED
    BY <1>1, <1>2, <1>4, <2>5, <2>6 DEF InHand
<1>5. CASE ~(stage[n] = "lock" /\ Tx(n).nation = m)
  BY <1>1, <1>2, <1>3, <1>5 DEF InHand
<1> QED
  BY <1>4, <1>5

\* The proposer still had a credit when it took the last block's spends into its mempool,
\* and the block adds at most MaxBlockTxs of them (app.go:77-88, 150-156).
LEMMA SpendsDecide ==
  ASSUME LedgerInv, ReplayInv, MempoolInv, SpendsInv, NEW n \in Nodes, Decide(n)
  PROVE  SpendsInv'
<1>0. /\ TypeOK /\ CaughtUp(n) /\ Idle(n) /\ CursorOK(n) /\ mempool[n] \in SUBSET Txs
      /\ MempoolOK(n) /\ ReplayOK(n)
  BY DEF LedgerInv, CursorInv, Decide, CaughtUp, TypeOK, MempoolInv, ReplayInv
<1>1. PICK blk \in BlocksFrom(mempool[n]) : chain' = Append(chain, blk)
  BY DEF Decide
<1>2. blk \in Seq(Txs)
  BY <1>0, <1>1, BlocksFromType
<1>3. /\ Len(chain) \in Nat /\ Len(chain') = Len(chain) + 1
      /\ chain'[Len(chain) + 1] = blk
      /\ \A h \in 1 .. Len(chain) : chain'[h] = chain[h]
  BY <1>0, <1>1, <1>2 DEF TypeOK
<1>4. \A i \in DOMAIN blk : blk[i] \in mempool[n]
  <2>1. PICK l \in 1 .. MaxBlockTxs : blk \in [1 .. l -> mempool[n]]
    BY <1>1 DEF BlocksFrom
  <2> QED
    BY <2>1
<1> DEFINE K == {Key(blk[i]) : i \in DOMAIN blk}
<1>5. IsFiniteSet(K) /\ Cardinality(K) <= MaxBlockTxs /\ Cardinality(K) \in Nat
  BY <1>0, <1>1, BlockKeys
<1> SUFFICES ASSUME NEW m \in Nations
             PROVE  Cardinality(Spends(m)') <= InitialCredits + MaxBlockTxs - 1
  BY DEF SpendsInv
<1>6. ASSUME NEW k \in Spends(m)', k \notin Spends(m)
      PROVE  \E i \in DOMAIN blk : /\ WellSigned(blk[i]) /\ Key(blk[i]) = k
                                   /\ blk[i].type = SPEND /\ blk[i].nation = m
  <2>1. PICK h, i \in Nat : At(k, h, i)'
    BY <1>6 DEF Spends
  <2>2. PICK u \in Txs : WellSigned(u) /\ Key(u) = k /\ u.type = SPEND /\ u.nation = m
    BY <1>6 DEF Spends
  <2>3. k \in Keys /\ ~ \E g, j \in Nat : At(k, g, j)
    BY <1>6, <2>2 DEF Spends
  <2>4. h = Len(chain) + 1
    BY <1>0, <1>1, <1>2, <2>1, <2>3, AtAfterAppend
  <2>5. i \in 1 .. Len(blk) /\ WellSigned(blk[i]) /\ Key(blk[i]) = k
    BY <1>3, <2>1, <2>4 DEF At
  <2>6. i \in DOMAIN blk /\ blk[i] \in Txs
    BY <1>2, <2>5
  <2>7. blk[i].type = u.type /\ blk[i].event = u.event
    BY <2>2, <2>5 DEF Key
  <2>8. blk[i].nation = m
    BY <2>2, <2>5, <2>6, <2>7, TxsAssumption
  <2> QED
    BY <2>2, <2>5, <2>6, <2>7, <2>8
<1>7. /\ IsFiniteSet(Spends(m)) /\ Cardinality(Spends(m)) \in Nat
      /\ SpentBy(n, m) \subseteq Spends(m)
      /\ Cardinality(Spends(m)) <= InitialCredits + MaxBlockTxs - 1
  BY SpentInChain DEF SpendsInv
<1>8. CASE Spends(m)' \subseteq Spends(m)
  <2>1. IsFiniteSet(Spends(m)') /\ Cardinality(Spends(m)') <= Cardinality(Spends(m))
    BY <1>7, <1>8, FS_Subset
  <2>2. Cardinality(Spends(m)') \in Nat
    BY <2>1, FS_CardinalityType
  <2> QED
    BY <1>7, <2>1, <2>2, BoundsAssumption
<1>9. ASSUME NEW k \in Spends(m)', k \notin Spends(m)
      PROVE  Cardinality(Spends(m)') <= InitialCredits + MaxBlockTxs - 1
  <2>1. PICK i \in DOMAIN blk : blk[i].type = SPEND /\ blk[i].nation = m
    BY <1>6, <1>9
  <2>2. CheckTxCode(balance[n], blk[i]) = 0
    BY <1>0, <1>4 DEF MempoolOK
  <2>3. balance[n][m] > 0 /\ balance[n][m] \in Int
    <3>1. balance[n] \in [Nations -> Int]
      BY <1>0 DEF TypeOK
    <3>2. ~(balance[n][m] <= 0)
      BY <2>1, <2>2, <3>1 DEF CheckTxCode, SPEND
    <3> QED
      BY <3>1, <3>2
  <2>4. Spends(m) = SpentBy(n, m)
    <3> SUFFICES ASSUME NEW x \in Spends(m) PROVE x \in SpentBy(n, m)
      BY <1>7
    <3>1. PICK h, j \in Nat : At(x, h, j)
      BY DEF Spends
    <3>2. Seen(n, h, j)
      BY <1>0, <3>1 DEF At, Seen, CaughtUp, TypeOK
    <3>3. x \in processed[n]
      BY <1>0, <3>1, <3>2 DEF ReplayOK, Spends
    <3> QED
      BY <3>3 DEF Spends, SpentBy
  <2>5. Cardinality(Spends(m)) <= InitialCredits - 1
    <3>1. CreditGap(n, m) >= 0
      BY DEF LedgerInv, TornWritesBounded
    <3>2. InHand(n, m) \in {0, 1} /\ Cardinality(SpentBy(n, m)) \in Nat
      BY <1>0, FiniteParts
    <3> QED
      BY <2>3, <2>4, <3>1, <3>2, BoundsAssumption DEF CreditGap
  <2>6. Spends(m)' \subseteq Spends(m) \cup K
    BY <1>6
  <2> HIDE DEF K
  <2>7. /\ IsFiniteSet(Spends(m) \cup K)
        /\ Cardinality(Spends(m) \cup K) =
              Cardinality(Spends(m)) + Cardinality(K) - Cardinality(Spends(m) \cap K)
    BY <1>5, <1>7, FS_Union
  <2>8. Cardinality(Spends(m) \cap K) \in Nat
    BY <1>7, FS_Intersection, FS_CardinalityType
  <2>9. /\ IsFiniteSet(Spends(m)')
        /\ Cardinality(Spends(m)') <= Cardinality(Spends(m) \cup K)
    BY <2>6, <2>7, FS_Subset
  <2>10. Cardinality(Spends(m)') \in Nat
    BY <2>9, FS_CardinalityType
  <2> QED
    BY <1>5, <1>7, <2>5, <2>7, <2>8, <2>9, <2>10, BoundsAssumption
<1> QED
  BY <1>8, <1>9

\* No other step adds a spend.
LEMMA SpendsNext ==
  LedgerInv /\ ReplayInv /\ MempoolInv /\ SpendsInv /\ [Next]_vars => SpendsInv'
<1> SUFFICES ASSUME LedgerInv, ReplayInv, MempoolInv, SpendsInv, [Next]_vars
             PROVE  SpendsInv'
  OBVIOUS
<1>1. ASSUME NEW n \in Nodes, Decide(n) PROVE SpendsInv'
  BY <1>1, SpendsDecide
<1>2. CASE chain' = chain
  BY <1>2 DEF SpendsInv, Spends, At
<1> QED
  BY <1>1, <1>2 DEF Next, SubmitTx, BeginBlock, RejectTx, DebitTx, LockTx, FileTx, EndBlock,
                    Restart, comet, vars

\* A balance is what is left of the initial credits after the locked spends, the one in
\* hand and the ones torn.
LEMMA DebtOfSpends == LedgerInv /\ ReplayInv /\ SpendsInv => DebtBounded
<1> SUFFICES ASSUME LedgerInv, ReplayInv, SpendsInv, NEW n \in Nodes, NEW m \in Nations
             PROVE  balance[n][m] >= 1 - MaxBlockTxs - torn[n]
  BY DEF DebtBounded
<1>1. /\ Cardinality(SpentBy(n, m)) + InHand(n, m) <= Cardinality(Spends(m))
      /\ Cardinality(Spends(m)) \in Nat
  BY SpentInChain
<1>2. Cardinality(Spends(m)) <= InitialCredits + MaxBlockTxs - 1
  BY DEF SpendsInv
<1>3. CreditGap(n, m) + Cardinality(Unfiled(n)) <= torn[n]
  BY DEF LedgerInv, TornWritesBounded
<1>4. TypeOK
  BY DEF LedgerInv
<1>5. /\ Cardinality(SpentBy(n, m)) \in Nat /\ Cardinality(Unfiled(n)) \in Nat
      /\ InHand(n, m) \in {0, 1} /\ balance[n][m] \in Int /\ torn[n] \in Nat
  BY <1>4, FiniteParts DEF TypeOK
<1> QED
  BY <1>1, <1>2, <1>3, <1>5, BoundsAssumption DEF CreditGap

\* An empty ledger has executed, admitted and spent nothing.
LEMMA InitReplay == Init => ReplayInv /\ MempoolInv /\ SpendsInv
<1> SUFFICES ASSUME Init PROVE ReplayInv /\ MempoolInv /\ SpendsInv
  OBVIOUS
<1>1. \A k, h, i : ~At(k, h, i)
  BY DEF Init, At
<1>2. ReplayInv
  BY <1>1 DEF Init, ReplayInv, ReplayOK
<1>3. MempoolInv
  BY DEF Init, MempoolInv, MempoolOK
<1>4. \A m \in Nations : Spends(m) = {}
  BY <1>1 DEF Spends
<1>5. SpendsInv
  BY <1>4, FS_EmptySet, BoundsAssumption DEF SpendsInv
<1> QED
  BY <1>2, <1>3, <1>5

-----------------------------------------------------------------------------
(* The theorems *)

\* An empty ledger satisfies the invariant.
LEMMA InitInv == Init => LedgerInv
<1> SUFFICES ASSUME Init PROVE LedgerInv
  OBVIOUS
<1>1. TypeOK
  BY InitType
<1>2. CursorInv /\ LocksInv
  BY DEF Init, CursorInv, CursorOK, LocksInv, LocksOK
<1>3. TornWritesBounded
  <2> SUFFICES ASSUME NEW n \in Nodes, NEW m \in Nations
               PROVE  /\ CreditGap(n, m) >= 0
                      /\ CreditGap(n, m) + Cardinality(Unfiled(n)) <= torn[n]
    BY DEF TornWritesBounded
  <2>1. SpentBy(n, m) = {} /\ Unfiled(n) = {} /\ InHand(n, m) = 0
    BY DEF Init, SpentBy, Unfiled, InHand
  <2> QED
    BY <2>1, FS_EmptySet, BoundsAssumption DEF Init, CreditGap
<1> QED
  BY <1>1, <1>2, <1>3 DEF LedgerInv

\* LedgerInv is inductive.
LEMMA NextInv == LedgerInv /\ [Next]_vars => LedgerInv'
<1> SUFFICES ASSUME LedgerInv, [Next]_vars PROVE LedgerInv'
  OBVIOUS
<1>1. TypeOK /\ \A p \in Nodes : NodeOK(p)
  BY DEF LedgerInv, CursorInv, LocksInv, TornWritesBounded, NodeOK, TornOK
<1>2. TypeOK'
  <2>1. CASE Next
    BY <2>1, NextType DEF LedgerInv
  <2>2. CASE UNCHANGED vars
    BY <1>1, <2>2 DEF TypeOK, vars, comet, db, run, history
  <2> QED
    BY <2>1, <2>2
<1>3. ASSUME NEW p \in Nodes PROVE NodeOK(p)'
  <2>1. CASE UNCHANGED vars
    BY <1>1, <2>1, StillNode DEF SameNode, vars, comet, db, run, history
  <2>2. CASE Next
    <3>1. PICK n \in Nodes :
            \/ \E tx \in Txs : SubmitTx(n, tx)
            \/ Decide(n) \/ BeginBlock(n) \/ RejectTx(n) \/ DebitTx(n)
            \/ LockTx(n) \/ FileTx(n) \/ EndBlock(n) \/ Restart(n)
      BY <2>2 DEF Next
    <3>2. ASSUME NEW tx \in Txs, SubmitTx(n, tx) PROVE NodeOK(p)'
      BY <1>1, <3>2, StillNode DEF SubmitTx, SameNode, db, run, history
    <3>3. CASE Decide(n)
      <4>1. \E blk \in Seq(Txs) : chain' = Append(chain, blk)
        BY <1>1, <3>3, BlocksFromType DEF Decide, TypeOK
      <4> QED
        BY <1>1, <3>3, <4>1, StillNode DEF Decide, SameNode, db, run, history
    <3>4. CASE BeginBlock(n) \/ RejectTx(n) \/ EndBlock(n)
      <4>1. CASE p = n
        BY <1>1, <3>4, <4>1, CursorStep
      <4>2. CASE p # n
        BY <1>1, <3>4, <4>2, StillNode
           DEF BeginBlock, RejectTx, EndBlock, SameNode, comet, db, history, TypeOK
      <4> QED
        BY <4>1, <4>2
    <3>5. CASE DebitTx(n)
      <4>1. p # n => SameNode(p) /\ chain' = chain
        BY <1>1, <3>5 DEF DebitTx, SameNode, comet, history, TypeOK
      <4> QED
        BY <1>1, <3>5, <4>1, DebitStep, StillNode
    <3>6. CASE LockTx(n)
      <4>1. p # n => SameNode(p) /\ chain' = chain
        BY <1>1, <3>6 DEF LockTx, SameNode, comet, history, TypeOK
      <4> QED
        BY <1>1, <3>6, <4>1, LockStep, StillNode
    <3>7. CASE FileTx(n)
      <4>1. p # n => SameNode(p) /\ chain' = chain
        BY <1>1, <3>7 DEF FileTx, SameNode, comet, history, TypeOK
      <4> QED
        BY <1>1, <3>7, <4>1, FileStep, StillNode
    <3>8. CASE Restart(n)
      <4>1. p # n => SameNode(p) /\ chain' = chain
        BY <1>1, <3>8 DEF Restart, SameNode, TypeOK
      <4> QED
        BY <1>1, <3>8, <4>1, RestartStep, StillNode
    <3> QED
      BY <3>1, <3>2, <3>3, <3>4, <3>5, <3>6, <3>7, <3>8
  <2> QED
    BY <2>1, <2>2
<1> QED
  BY <1>2, <1>3 DEF LedgerInv, CursorInv, LocksInv, TornWritesBounded, NodeOK, TornOK

\* The invariant holds in every reachable state of the ledger.
THEOREM LedgerInvariant == Spec => []LedgerInv
<1>1. Init => LedgerInv
  BY InitInv
<1>2. LedgerInv /\ [Next]_vars => LedgerInv'
  BY NextInv
<1> QED
  BY <1>1, <1>2, PTL DEF Spec

\* Type correctness of the ledger: cursors, locks, balances and reports keep
\* their shape through every Put, crash and replay (app.go:45-175).
THEOREM TypeCorrect == Spec => []TypeOK
<1>1. LedgerInv => TypeOK
  BY DEF LedgerInv
<1> QED
  BY <1>1, LedgerInvariant, PTL

\* For any validators, nations, transactions and crashes: every nation pays one
\* credit per spend and every executed transaction is filed, but for at most
\* one credit or one report for each crash between two Puts (app.go:146-166).
THEOREM TornWritesAreBounded == Spec => []TornWritesBounded
<1>1. LedgerInv => TornWritesBounded
  BY DEF LedgerInv
<1> QED
  BY <1>1, LedgerInvariant, PTL

\* A report on the explorer is never replaced or removed (app.go:134-166).
THEOREM ReportsAreImmutable == Spec => ReportsImmutable
<1> DEFINE Kept == \A n \in Nodes : \A k \in Keys :
                     reports[n][k] # None => reports'[n][k] = reports[n][k]
<1>1. LedgerInv /\ [Next]_vars => [Kept]_vars
  <2> SUFFICES ASSUME LedgerInv, Next PROVE Kept
    OBVIOUS
  <2>1. PICK n \in Nodes :
            \/ \E tx \in Txs : SubmitTx(n, tx)
            \/ Decide(n) \/ BeginBlock(n) \/ RejectTx(n) \/ DebitTx(n)
            \/ LockTx(n) \/ FileTx(n) \/ EndBlock(n) \/ Restart(n)
    BY DEF Next
  <2>2. CASE FileTx(n)
    <3>1. Executing(n) /\ Key(Tx(n)) \in Keys /\ reports[n][Key(Tx(n))] = None
      BY <2>2, CursorTypes DEF LedgerInv, CursorInv, LocksInv, LocksOK, FileTx
    <3> QED
      BY <2>2, <3>1 DEF FileTx, LedgerInv, TypeOK
  <2>3. CASE ~FileTx(n)
    <3>1. reports' = reports
      BY <2>1, <2>3 DEF SubmitTx, Decide, BeginBlock, RejectTx, DebitTx, LockTx,
                        EndBlock, Restart, db
    <3> QED
      BY <3>1
  <2> QED
    BY <2>2, <2>3
<1> QED
  BY <1>1, LedgerInvariant, PTL DEF Spec, ReportsImmutable

\* What the chain determines holds in every reachable state.
THEOREM LedgerReplays == Spec => [](LedgerInv /\ ReplayInv /\ MempoolInv /\ SpendsInv)
<1>1. Init => LedgerInv /\ ReplayInv /\ MempoolInv /\ SpendsInv
  BY InitInv, InitReplay
<1>2. LedgerInv /\ ReplayInv /\ MempoolInv /\ SpendsInv /\ [Next]_vars
        => (LedgerInv /\ ReplayInv /\ MempoolInv /\ SpendsInv)'
  BY NextInv, ReplayNext, MempoolNext, SpendsNext
<1> QED
  BY <1>1, <1>2, PTL DEF Spec

\* For any validators, transactions, crashes and replays: two validators that executed the
\* whole chain and were never torn show the same explorer and hold the same duplicate
\* locks, although every restart replays the chain from block 1 (app.go:94-175).
THEOREM ValidatorsAgree == Spec => []Agreement
BY LedgerReplays, SameExplorer, PTL

\* For any nations, blocks and crashes: a nation never owes more than the rest of one
\* block, and one credit for each torn transaction, although FinalizeBlock debits without
\* looking at the balance (app.go:77-88, 150-156).
THEOREM DebtIsBounded == Spec => []DebtBounded
BY LedgerReplays, DebtOfSpends, PTL

-----------------------------------------------------------------------------
(* The clients and the mempools (Charge) *)

ChargeTypes ==
    /\ verdict \in [Calls -> {"open", "approved", "rejected", "failed"}]
    /\ cache \in [Nodes -> SUBSET Txs]

-----------------------------------------------------------------------------
(* The composition implements the ledger *)

\* The steps of the ledger that the composition takes: no restart among them.
LEMMA ChargeMoves ==
  ASSUME [ChargeNext]_chargeVars
  PROVE  \/ UNCHANGED vars
         \/ \E n \in Nodes :
               \/ \E tx \in Txs : SubmitTx(n, tx)
               \/ Decide(n) \/ BeginBlock(n) \/ DebitTx(n) \/ LockTx(n) \/ FileTx(n)
               \/ EndBlock(n)
<1>1. ASSUME NEW c \in Calls, CallStep(c) PROVE UNCHANGED vars
  BY <1>1 DEF CallStep, Ask, RpcError, Lost, TimedOut
<1>2. ASSUME NEW n \in Nodes, NEW tx \in Txs, EndCheck(n, tx)
      PROVE  SubmitTx(n, tx) \/ UNCHANGED vars
  BY <1>2 DEF EndCheck, Admit, Forget
<1>3. ASSUME NEW n \in Nodes, NEW tx \in Txs,
             LateArrival(n, tx) \/ \E m \in Nodes : Gossip(n, m, tx)
      PROVE  UNCHANGED vars
  BY <1>3 DEF LateArrival, Gossip
<1>4. ASSUME NEW n \in Nodes, LedgerStep(n)
      PROVE  Decide(n) \/ BeginBlock(n) \/ DebitTx(n) \/ LockTx(n) \/ FileTx(n)
  BY <1>4 DEF LedgerStep
<1>5. ASSUME NEW n \in Nodes, UpdateMempool(n) PROVE EndBlock(n)
  BY <1>5 DEF UpdateMempool
<1>6. CASE UNCHANGED chargeVars
  BY <1>6 DEF chargeVars
<1>7. CASE ChargeNext
  BY <1>1, <1>2, <1>3, <1>4, <1>5, <1>7 DEF ChargeNext
<1> QED
  BY <1>6, <1>7

\* Retries, late requests, caches, gossip, checks under way and full mempools show the
\* application nothing but transactions that pass CheckTx, blocks and executions: the
\* composition implements Ledger (ledger_client.go:67-100, app.go:71-175).
THEOREM ChargeImplementsLedger == ChargeSpec => Spec
<1>1. ChargeInit => Init
  BY DEF ChargeInit
<1>2. [ChargeNext]_chargeVars => [Next]_vars
  BY ChargeMoves DEF Next
<1> QED
  BY <1>1, <1>2, PTL DEF ChargeSpec, Spec

\* So torn writes and debts are bounded, filed reports are final and validators agree
\* also under the brokers' calls.
THEOREM ChargedLedger == ChargeSpec => [](LedgerInv /\ ReplayInv /\ MempoolInv /\ SpendsInv)
BY ChargeImplementsLedger, LedgerReplays, PTL

-----------------------------------------------------------------------------
(* Verdicts and caches *)

\* Every step keeps the types of the verdicts and the caches.
LEMMA ChargeTypesNext ==
  LedgerInv /\ LedgerInv' /\ ChargeTypes /\ [ChargeNext]_chargeVars => ChargeTypes'
<1> SUFFICES ASSUME LedgerInv, LedgerInv', ChargeTypes, [ChargeNext]_chargeVars
             PROVE  ChargeTypes'
  OBVIOUS
<1>a. TypeOK /\ CursorInv
  BY DEF LedgerInv
<1> USE DEF ChargeTypes
<1>1. ASSUME NEW c \in Calls, CallStep(c) PROVE ChargeTypes'
  <2>1. TxOf[c] \in Txs
    BY ChargeAssumption
  <2>2. \A t : GaveUp(t) \in {"failed", "open"}
    BY DEF GaveUp
  <2>3. CASE RpcError(c) \/ TimedOut(c)
    BY <2>2, <2>3 DEF RpcError, TimedOut, pools
  <2>4. ASSUME NEW n \in Nodes, Ask(c, n) PROVE ChargeTypes'
    BY <2>1, <2>4 DEF Ask, BeginCheck
  <2>5. ASSUME NEW n \in Nodes, Lost(c, n) PROVE ChargeTypes'
    BY <2>2, <2>5 DEF Lost
  <2> QED
    BY <1>1, <2>3, <2>4, <2>5 DEF CallStep
<1>2. ASSUME NEW n \in Nodes, NEW tx \in Txs, EndCheck(n, tx) PROVE ChargeTypes'
  <2>1. Verdict(n, tx) \in {"approved", "rejected"}
    BY DEF Verdict
  <2>2. verdict' \in [Calls -> {"open", "approved", "rejected", "failed"}]
    BY <1>2, <2>1 DEF EndCheck, Answer
  <2>3. cache' \in [Nodes -> SUBSET Txs]
    BY <1>2 DEF EndCheck, Admit, Forget
  <2> QED
    BY <2>2, <2>3
<1>3. ASSUME NEW n \in Nodes, NEW m \in Nodes, NEW tx \in Txs,
             LateArrival(n, tx) \/ Gossip(n, m, tx)
      PROVE  ChargeTypes'
  BY <1>3 DEF LateArrival, Gossip, BeginCheck, calls
<1>4. ASSUME NEW n \in Nodes, LedgerStep(n) PROVE ChargeTypes'
  BY <1>4 DEF LedgerStep, calls, pools
<1>5. ASSUME NEW n \in Nodes, UpdateMempool(n) PROVE ChargeTypes'
  <2>1. verdict' = verdict /\ pos[n] > 0
    BY <1>5 DEF UpdateMempool, EndBlock, calls
  <2>2. Block(n) \in Seq(Txs)
    BY <1>a, <2>1, CursorTypes DEF CursorInv
  <2>3. InBlock(n) \subseteq Txs
    BY <2>2 DEF InBlock
  <2> QED
    BY <1>5, <2>1, <2>3 DEF UpdateMempool
<1>6. CASE UNCHANGED chargeVars
  BY <1>6 DEF chargeVars, calls, pools
<1> QED
  BY <1>1, <1>2, <1>3, <1>4, <1>5, <1>6 DEF ChargeNext

-----------------------------------------------------------------------------
(* Refusals *)

\* The node is past that position, or has it in hand with its key already locked.
Past(n, h, i) ==
    Seen(n, h, i) \/ (stage[n] = "file" /\ h = height[n] + 1 /\ i = pos[n])

\* Without restarts a node has locked nothing that is still ahead of it.
AheadOK(n) ==
    /\ torn[n] = 0
    /\ \A k \in processed[n] : \E h, i \in Nat : At(k, h, i) /\ Past(n, h, i)

\* A mempool remembers every transaction its node executed, holds none of them and has
\* no check of one under way.
CacheOK(n) ==
    \A h \in 1 .. Len(chain) : \A i \in DOMAIN chain[h] : h <= height[n] =>
        /\ chain[h][i] \in cache[n] /\ chain[h][i] \notin mempool[n]
        /\ <<n, chain[h][i]>> \notin checking

\* The keys of the spends of nation m.
SpendKeys(m) == {k \in Keys : \E tx \in Txs : /\ WellSigned(tx) /\ Key(tx) = k
                                              /\ tx.type = SPEND /\ tx.nation = m}

\* What m has spent in the first h blocks.
Debits(h, m) ==
    {k \in SpendKeys(m) : \E g, i \in Nat : g <= h /\ At(k, g, i)}

Exhausted(h, m) == Cardinality(Debits(h, m)) >= InitialCredits

\* No block spends what was exhausted by an earlier one.
LastInv ==
    \A m \in Nations : \A k \in SpendKeys(m) : \A g, h, i \in Nat :
        At(k, g, i) /\ h < g => ~Exhausted(h, m)

\* A refusal tells that some block has exhausted the nation.
RefusedInv ==
    \A c \in Calls : verdict[c] = "rejected" =>
        \E h \in 0 .. Len(chain) : Exhausted(h, TxOf[c].nation)

AheadInv == \A n \in Nodes : AheadOK(n)
CacheInv == \A n \in Nodes : CacheOK(n)

\* A node that does not move has nothing ahead locked, also when a block is decided.
LEMMA StillAhead ==
  ASSUME TypeOK, NEW p \in Nodes, AheadOK(p), SameNode(p),
         chain' = chain \/ \E blk \in Seq(Txs) : chain' = Append(chain, blk)
  PROVE  AheadOK(p)'
<1>1. \A k : \A h, i \in Nat : At(k, h, i) => At(k, h, i)'
  <2>1. CASE chain' = chain
    BY <2>1 DEF At
  <2>2. CASE \E blk \in Seq(Txs) : chain' = Append(chain, blk)
    BY <2>2, AtAfterAppend
  <2> QED
    BY <2>1, <2>2
<1>2. \A h, i \in Nat : Past(p, h, i)' <=> Past(p, h, i)
  BY DEF Past, Seen, SameNode
<1>3. torn'[p] = 0 /\ processed'[p] = processed[p]
  BY DEF AheadOK, SameNode
<1> QED
  BY <1>1, <1>2, <1>3 DEF AheadOK

\* A step of a node that locks nothing and only moves it forward.
LEMMA ForwardAhead ==
  ASSUME NEW n \in Nodes, AheadOK(n), chain' = chain, torn'[n] = torn[n],
         processed'[n] = processed[n],
         \A k \in processed[n], h, i \in Nat : At(k, h, i) /\ Past(n, h, i) => Past(n, h, i)'
  PROVE  AheadOK(n)'
<1>1. \A k, h, i : At(k, h, i)' <=> At(k, h, i)
  BY DEF At
<1> QED
  BY <1>1 DEF AheadOK

\* A step of a node's execution locks only what the node is then past.
LEMMA AheadStep ==
  ASSUME TypeOK, TypeOK', NEW n \in Nodes, NodeOK(n), ReplayOK(n), AheadOK(n),
         BeginBlock(n) \/ DebitTx(n) \/ LockTx(n) \/ FileTx(n) \/ EndBlock(n)
  PROVE  AheadOK(n)'
<1> USE DEF NodeOK
<1>0. /\ height[n] \in Nat /\ pos[n] \in Nat /\ Len(chain) \in Nat
      /\ height[n] <= Len(chain) /\ (pos[n] > 0 => height[n] < Len(chain))
  BY DEF TypeOK, CursorOK
<1>1. CASE BeginBlock(n)
  <2>1. /\ chain' = chain /\ processed' = processed /\ torn' = torn
        /\ height' = height /\ pos[n] = 0 /\ pos'[n] = 1 /\ stage' = stage
    BY <1>1 DEF BeginBlock, db, history, Idle, TypeOK
  <2>2. stage[n] = "exec"
    BY <1>0, <2>1 DEF CursorOK, Executing
  <2>3. \A h, i \in Nat : Past(n, h, i) => Past(n, h, i)'
    BY <1>0, <2>1, <2>2 DEF Past, Seen
  <2> QED
    BY <2>1, <2>3, ForwardAhead
<1>2. CASE DebitTx(n)
  <2>1. /\ chain' = chain /\ processed' = processed /\ torn' = torn
        /\ height' = height /\ pos' = pos /\ stage[n] = "exec"
    BY <1>2 DEF DebitTx, comet, history
  <2>2. \A h, i \in Nat : Past(n, h, i) => Past(n, h, i)'
    BY <2>1 DEF Past, Seen
  <2> QED
    BY <2>1, <2>2, ForwardAhead
<1>3. CASE LockTx(n)
  <2>1. /\ chain' = chain /\ torn' = torn /\ height' = height /\ pos' = pos
        /\ processed'[n] = processed[n] \cup {Key(Tx(n))} /\ stage'[n] = "file"
        /\ Executing(n) /\ stage[n] # "file"
        /\ stage[n] = "lock" \/ ExecCode(processed[n], Tx(n)) = 0
    BY <1>3 DEF LockTx, comet, history, TypeOK
  <2>2. First(Key(Tx(n)), height[n] + 1, pos[n])
    <3>1. CASE stage[n] = "lock"
      BY <3>1 DEF ReplayOK
    <3>2. CASE ExecCode(processed[n], Tx(n)) = 0
      BY <2>1, <3>2, CursorTypes, ExecCodeZero, NewKeyIsFirst
    <3> QED
      BY <2>1, <3>1, <3>2
  <2>3. \A k, h, i : At(k, h, i)' <=> At(k, h, i)
    BY <2>1 DEF At
  <2>4. \A h, i \in Nat : Past(n, h, i) => Past(n, h, i)'
    BY <2>1 DEF Past, Seen
  <2>5. PICK k, h, i : k = Key(Tx(n)) /\ h = height[n] + 1 /\ i = pos[n]
    OBVIOUS
  <2>6. h \in Nat /\ i \in Nat /\ At(k, h, i)
    BY <1>0, <2>2, <2>5 DEF First
  <2>7. At(k, h, i)' /\ Past(n, h, i)'
    BY <2>1, <2>3, <2>5, <2>6 DEF Past
  <2>8. ASSUME NEW j \in processed'[n] PROVE \E g, l \in Nat : At(j, g, l)' /\ Past(n, g, l)'
    <3>1. CASE j = k
      BY <2>6, <2>7, <3>1
    <3>2. CASE j \in processed[n]
      BY <2>3, <2>4, <3>2 DEF AheadOK
    <3> QED
      BY <2>1, <2>5, <3>1, <3>2
  <2> QED
    BY <2>1, <2>8 DEF AheadOK
<1>4. CASE FileTx(n)
  <2>1. /\ chain' = chain /\ processed' = processed /\ torn' = torn
        /\ height' = height /\ pos'[n] = pos[n] + 1
    BY <1>4 DEF FileTx, comet, history, TypeOK
  <2>2. \A h, i \in Nat : Past(n, h, i) => Past(n, h, i)'
    BY <1>0, <2>1 DEF Past, Seen
  <2> QED
    BY <2>1, <2>2, ForwardAhead
<1>5. CASE EndBlock(n)
  <2>1. /\ chain' = chain /\ processed' = processed /\ torn' = torn
        /\ height'[n] = height[n] + 1
    BY <1>5 DEF EndBlock, db, history, TypeOK
  <2>2. \A h, i \in Nat : Past(n, h, i) => Past(n, h, i)'
    BY <1>0, <2>1 DEF Past, Seen
  <2> QED
    BY <2>1, <2>2, ForwardAhead
<1> QED
  BY <1>1, <1>2, <1>3, <1>4, <1>5

\* So does every step of the composition, at every node.
LEMMA AheadNext ==
  LedgerInv /\ LedgerInv' /\ ReplayInv /\ AheadInv /\ [ChargeNext]_chargeVars => AheadInv'
<1> SUFFICES ASSUME LedgerInv, LedgerInv', ReplayInv, AheadInv, [ChargeNext]_chargeVars,
                    NEW p \in Nodes
             PROVE  AheadOK(p)'
  BY DEF AheadInv
<1>1. /\ TypeOK /\ TypeOK' /\ AheadOK(p)
      /\ \A n \in Nodes : NodeOK(n) /\ ReplayOK(n)
  BY DEF LedgerInv, CursorInv, LocksInv, TornWritesBounded, NodeOK, TornOK, ReplayInv,
         AheadInv
<1>2. CASE UNCHANGED vars
  BY <1>1, <1>2, StillAhead DEF SameNode, vars, comet, db, run, history
<1>3. ASSUME NEW n \in Nodes, NEW tx \in Txs, SubmitTx(n, tx) PROVE AheadOK(p)'
  BY <1>1, <1>3, StillAhead DEF SubmitTx, SameNode, db, run, history
<1>4. ASSUME NEW n \in Nodes, Decide(n) PROVE AheadOK(p)'
  <2>1. \E blk \in Seq(Txs) : chain' = Append(chain, blk)
    BY <1>1, <1>4, BlocksFromType DEF Decide, TypeOK
  <2> QED
    BY <1>1, <1>4, <2>1, StillAhead DEF Decide, SameNode, db, run, history
<1>5. ASSUME NEW n \in Nodes,
             BeginBlock(n) \/ DebitTx(n) \/ LockTx(n) \/ FileTx(n) \/ EndBlock(n)
      PROVE  AheadOK(p)'
  <2>1. CASE p = n
    BY <1>1, <1>5, <2>1, AheadStep
  <2>2. CASE p # n
    <3>1. SameNode(p) /\ chain' = chain
      <4>1. CASE BeginBlock(n) \/ EndBlock(n)
        BY <1>1, <2>2, <4>1 DEF BeginBlock, EndBlock, SameNode, db, history, TypeOK
      <4>2. CASE DebitTx(n)
        BY <1>1, <2>2, <4>2 DEF DebitTx, SameNode, comet, history, TypeOK
      <4>3. CASE LockTx(n)
        BY <1>1, <2>2, <4>3 DEF LockTx, SameNode, comet, history, TypeOK
      <4>4. CASE FileTx(n)
        BY <1>1, <2>2, <4>4 DEF FileTx, SameNode, comet, history, TypeOK
      <4> QED
        BY <1>5, <4>1, <4>2, <4>3, <4>4
    <3> QED
      BY <1>1, <3>1, StillAhead
  <2> QED
    BY <2>1, <2>2
<1> QED
  BY <1>2, <1>3, <1>4, <1>5, ChargeMoves

\* A check starts only of a transaction that the cache does not know.
LEMMA BeginCheckCache ==
  ASSUME TypeOK, ChargeTypes, CacheInv, NEW n \in Nodes, NEW tx \in Txs, BeginCheck(n, tx),
         UNCHANGED vars
  PROVE  CacheInv'
<1> USE DEF ChargeTypes
<1>1. /\ tx \notin cache[n] /\ cache' = [cache EXCEPT ![n] = @ \cup {tx}]
      /\ checking' = checking \cup {<<n, tx>>}
      /\ UNCHANGED <<mempool, chain, height>>
  BY DEF BeginCheck, TurnedAway, vars, comet, run
<1>2. \A p \in Nodes : cache[p] \subseteq cache'[p]
  BY <1>1
<1>3. \A p \in Nodes : \A t :
         <<p, t>> \in checking' => <<p, t>> \in checking \/ t \notin cache[p]
  BY <1>1
<1> QED
  BY <1>1, <1>2, <1>3 DEF CacheInv, CacheOK

\* The transaction of a check is not executed yet: it may enter the mempool and it may
\* leave the cache.
LEMMA EndCheckCache ==
  ASSUME TypeOK, ChargeTypes, CacheInv, NEW n \in Nodes, NEW tx \in Txs, EndCheck(n, tx)
  PROVE  CacheInv'
<1> USE DEF ChargeTypes
<1>1. <<n, tx>> \in checking /\ checking' \subseteq checking
  BY DEF EndCheck
<1>2. /\ UNCHANGED <<chain, height>>
      /\ mempool' = mempool \/ mempool' = [mempool EXCEPT ![n] = @ \cup {tx}]
      /\ cache' = cache \/ cache' = [cache EXCEPT ![n] = @ \ {tx}]
  BY DEF EndCheck, Admit, Forget, SubmitTx, vars, comet, run
<1>3. \A p \in Nodes : \A t :
         t \in cache[p] /\ <<p, t>> \notin checking => t \in cache'[p]
  BY <1>1, <1>2
<1>4. \A p \in Nodes : \A t :
         t \notin mempool[p] /\ <<p, t>> \notin checking => t \notin mempool'[p]
  <2>1. mempool \in [Nodes -> SUBSET Txs]
    BY DEF TypeOK
  <2> QED
    BY <1>1, <1>2, <2>1
<1> QED
  BY <1>1, <1>2, <1>3, <1>4 DEF CacheInv, CacheOK

\* What a block committed stays in the cache, and what earlier ones committed is not in
\* the mempool that the recheck goes through.
LEMMA UpdateCache ==
  ASSUME TypeOK, CursorInv, ChargeTypes, CacheInv, NEW n \in Nodes, UpdateMempool(n)
  PROVE  CacheInv'
<1> USE DEF ChargeTypes
<1>1. /\ chain' = chain /\ pos[n] > 0
      /\ height' = [height EXCEPT ![n] = @ + 1]
      /\ mempool' = [mempool EXCEPT ![n] =
                     {tx \in @ : /\ \A i \in DOMAIN Block(n) : Block(n)[i] # tx
                                 /\ CheckTxCode(balance[n], tx) = 0}]
      /\ cache' = [cache EXCEPT ![n] = (@ \ (mempool[n] \ mempool'[n])) \cup InBlock(n)]
      /\ checking' = checking /\ \A tx \in InBlock(n) : <<n, tx>> \notin checking
  BY DEF UpdateMempool, EndBlock
<1>2. ASSUME NEW p \in Nodes, p # n PROVE CacheOK(p)'
  <2>1. mempool'[p] = mempool[p] /\ cache'[p] = cache[p] /\ height'[p] = height[p]
    BY <1>1, <1>2 DEF TypeOK
  <2> QED
    BY <1>1, <2>1 DEF CacheInv, CacheOK
<1>3. CacheOK(n)'
  <2>1. /\ height'[n] = height[n] + 1 /\ height[n] \in Nat
        /\ mempool'[n] \subseteq mempool[n]
        /\ \A i \in DOMAIN Block(n) : Block(n)[i] \notin mempool'[n]
    BY <1>1 DEF TypeOK
  <2>2. cache'[n] = (cache[n] \ (mempool[n] \ mempool'[n]))
                      \cup InBlock(n)
    BY <1>1
  <2> SUFFICES ASSUME NEW h \in 1 .. Len(chain), NEW i \in DOMAIN chain[h],
                      h <= height[n] + 1
               PROVE  /\ chain[h][i] \in cache'[n] /\ chain[h][i] \notin mempool'[n]
                      /\ <<n, chain[h][i]>> \notin checking
    BY <1>1, <2>1 DEF CacheOK
  <2>3. CASE h = height[n] + 1
    BY <1>1, <2>1, <2>2, <2>3 DEF Block, InBlock
  <2>4. CASE h <= height[n]
    <3>1. /\ chain[h][i] \in cache[n] /\ chain[h][i] \notin mempool[n]
          /\ <<n, chain[h][i]>> \notin checking
      BY <2>4 DEF CacheInv, CacheOK
    <3> QED
      BY <2>1, <2>2, <3>1
  <2> QED
    BY <2>1, <2>3, <2>4 DEF TypeOK
<1> QED
  BY <1>2, <1>3 DEF CacheInv

\* Every step keeps executed transactions in the caches and out of the mempools.
LEMMA CacheNext ==
  LedgerInv /\ ChargeTypes /\ CacheInv /\ [ChargeNext]_chargeVars => CacheInv'
<1> SUFFICES ASSUME LedgerInv, ChargeTypes, CacheInv, [ChargeNext]_chargeVars PROVE CacheInv'
  OBVIOUS
<1>0. TypeOK /\ CursorInv /\ ChargeTypes
  BY DEF LedgerInv
<1>1. ASSUME NEW n \in Nodes, NEW tx \in Txs, EndCheck(n, tx) PROVE CacheInv'
  BY <1>0, <1>1, EndCheckCache
<1>2. ASSUME NEW n \in Nodes, UpdateMempool(n) PROVE CacheInv'
  BY <1>0, <1>2, UpdateCache
<1>3. ASSUME UNCHANGED <<chain, mempool, cache, checking, height>> PROVE CacheInv'
  BY <1>3 DEF CacheInv, CacheOK
<1>4. ASSUME NEW n \in Nodes, LedgerStep(n) PROVE CacheInv'
  <2>1. CASE Decide(n)
    <3>1. PICK blk \in Seq(Txs) : chain' = Append(chain, blk)
      BY <1>0, <2>1, BlocksFromType DEF Decide, TypeOK
    <3>2. UNCHANGED <<mempool, cache, checking, height>>
      BY <1>4, <2>1 DEF Decide, run, LedgerStep, pools
    <3>3. /\ Len(chain') = Len(chain) + 1 /\ Len(chain) \in Nat
          /\ \A h \in 1 .. Len(chain) : chain'[h] = chain[h]
          /\ \A p \in Nodes : height[p] \in Nat /\ height[p] <= Len(chain)
      BY <1>0, <3>1 DEF TypeOK, CursorInv, CursorOK
    <3> QED
      BY <3>2, <3>3 DEF CacheInv, CacheOK
  <2>2. CASE ~Decide(n)
    <3>1. UNCHANGED <<chain, mempool, cache, checking, height>>
      BY <1>4, <2>2 DEF LedgerStep, BeginBlock, DebitTx, LockTx, FileTx, comet, pools
    <3> QED
      BY <1>3, <3>1
  <2> QED
    BY <2>1, <2>2
<1>5. ASSUME NEW n \in Nodes, NEW tx \in Txs, BeginCheck(n, tx), UNCHANGED vars
      PROVE  CacheInv'
  BY <1>0, <1>5, BeginCheckCache
<1>6. ASSUME NEW c \in Calls, CallStep(c) PROVE CacheInv'
  <2>1. TxOf[c] \in Txs
    BY ChargeAssumption
  <2>2. ASSUME NEW n \in Nodes, Ask(c, n) PROVE CacheInv'
    BY <1>5, <2>1, <2>2 DEF Ask
  <2>3. ASSUME NEW n \in Nodes, Lost(c, n) PROVE CacheInv'
    BY <1>3, <2>3 DEF Lost, vars, comet, run
  <2>4. CASE RpcError(c) \/ TimedOut(c)
    BY <1>3, <2>4 DEF RpcError, TimedOut, vars, comet, run, pools
  <2> QED
    BY <1>6, <2>2, <2>3, <2>4 DEF CallStep
<1>7. ASSUME NEW n \in Nodes, NEW m \in Nodes, NEW tx \in Txs, Gossip(n, m, tx)
      PROVE  CacheInv'
  BY <1>5, <1>7 DEF Gossip
<1>8. ASSUME NEW n \in Nodes, NEW tx \in Txs, LateArrival(n, tx) PROVE CacheInv'
  <2>1. CASE BeginCheck(n, tx)
    BY <1>5, <1>8, <2>1 DEF LateArrival
  <2>2. CASE UNCHANGED <<cache, checking>>
    BY <1>3, <1>8, <2>2 DEF LateArrival, vars, comet, run
  <2> QED
    BY <1>8, <2>1, <2>2 DEF LateArrival
<1>9. CASE UNCHANGED chargeVars
  BY <1>3, <1>9 DEF chargeVars, vars, comet, run, pools
<1> QED
  BY <1>1, <1>2, <1>4, <1>6, <1>7, <1>8, <1>9 DEF ChargeNext

\* What was spent up to a height is settled once its block is decided.
LEMMA DebitsFinal ==
  ASSUME TypeOK, NEW m, NEW h \in Nat,
         \/ chain' = chain
         \/ h <= Len(chain) /\ \E blk \in Seq(Txs) : chain' = Append(chain, blk)
  PROVE  /\ Debits(h, m)' = Debits(h, m) /\ (Exhausted(h, m)' <=> Exhausted(h, m))
         /\ IsFiniteSet(Debits(h, m)) /\ Cardinality(Debits(h, m)) \in Nat
<1>1. \A k : \A g, i \in Nat : g <= h => (At(k, g, i)' <=> At(k, g, i))
  <2>1. CASE chain' = chain
    BY <2>1 DEF At
  <2>2. ASSUME NEW blk \in Seq(Txs), chain' = Append(chain, blk), h <= Len(chain)
        PROVE  \A k : \A g, i \in Nat : g <= h => (At(k, g, i)' <=> At(k, g, i))
    <3>1. Len(chain) \in Nat
      BY DEF TypeOK
    <3> SUFFICES ASSUME NEW k, NEW g \in Nat, NEW i \in Nat, g <= h
                 PROVE  At(k, g, i)' <=> At(k, g, i)
      OBVIOUS
    <3>2. g # Len(chain) + 1
      BY <2>2, <3>1
    <3> QED
      BY <2>2, <3>2, AtAfterAppend
  <2> QED
    BY <2>1, <2>2
<1>2. Debits(h, m)' = Debits(h, m)
  BY <1>1 DEF Debits, SpendKeys
<1>3. Debits(h, m) \in SUBSET Keys
  BY DEF Debits, SpendKeys
<1> QED
  BY <1>2, <1>3, KeysFinite, FS_Subset, FS_CardinalityType DEF Exhausted

\* A proposer has executed the whole chain and still has a credit of every nation whose
\* spend is in its mempool (app.go:77-88).
LEMMA LastDecide ==
  ASSUME LedgerInv, ReplayInv, MempoolInv, LastInv, NEW n \in Nodes, Decide(n)
  PROVE  LastInv'
<1>0. /\ TypeOK /\ CaughtUp(n) /\ Idle(n) /\ mempool[n] \in SUBSET Txs
      /\ MempoolOK(n) /\ ReplayOK(n)
  BY DEF LedgerInv, Decide, CaughtUp, TypeOK, MempoolInv, ReplayInv
<1>1. PICK blk \in BlocksFrom(mempool[n]) : chain' = Append(chain, blk)
  BY DEF Decide
<1>2. blk \in Seq(Txs) /\ \A i \in DOMAIN blk : blk[i] \in mempool[n]
  BY <1>0, <1>1, BlocksFromType DEF BlocksFrom
<1>3. /\ Len(chain) \in Nat /\ chain'[Len(chain) + 1] = blk
  BY <1>0, <1>1, <1>2 DEF TypeOK
<1> SUFFICES ASSUME NEW m \in Nations, NEW k \in SpendKeys(m), NEW g \in Nat,
                    NEW h \in Nat, NEW i \in Nat, At(k, g, i)', h < g
             PROVE  ~Exhausted(h, m)'
  BY DEF LastInv, SpendKeys
<1>4. g <= Len(chain) + 1
  BY <1>0, <1>1, <1>2 DEF At, TypeOK
<1>5. h <= Len(chain)
  BY <1>3, <1>4
<1>6. (Exhausted(h, m)' <=> Exhausted(h, m)) /\ Cardinality(Debits(h, m)) \in Nat
  BY <1>0, <1>1, <1>2, <1>5, DebitsFinal
<1>7. CASE At(k, g, i)
  BY <1>6, <1>7 DEF LastInv
<1>8. CASE g = Len(chain) + 1
  <2>1. i \in DOMAIN blk /\ WellSigned(blk[i]) /\ Key(blk[i]) = k /\ blk[i] \in Txs
    BY <1>2, <1>3, <1>8 DEF At
  <2>2. PICK u \in Txs : WellSigned(u) /\ Key(u) = k /\ u.type = SPEND /\ u.nation = m
    BY DEF SpendKeys
  <2>3. blk[i].type = SPEND /\ blk[i].nation = m
    BY <2>1, <2>2, TxsAssumption DEF Key
  <2>4. CheckTxCode(balance[n], blk[i]) = 0
    BY <1>0, <1>2, <2>1 DEF MempoolOK
  <2>5. balance[n][m] > 0 /\ balance[n][m] \in Int
    <3>1. balance[n] \in [Nations -> Int]
      BY <1>0 DEF TypeOK
    <3>2. ~(balance[n][m] <= 0)
      BY <2>3, <2>4, <3>1 DEF CheckTxCode, SPEND
    <3> QED
      BY <3>1, <3>2
  <2>6. /\ IsFiniteSet(SpentBy(n, m)) /\ Cardinality(SpentBy(n, m)) \in Nat
        /\ InHand(n, m) \in {0, 1}
    BY <1>0, FiniteParts
  <2>7. Cardinality(SpentBy(n, m)) < InitialCredits
    <3>1. CreditGap(n, m) >= 0
      BY DEF LedgerInv, TornWritesBounded
    <3> QED
      BY <2>5, <2>6, <3>1, BoundsAssumption DEF CreditGap
  <2>8. Debits(h, m) \subseteq SpentBy(n, m)
    <3> SUFFICES ASSUME NEW x \in Debits(h, m) PROVE x \in SpentBy(n, m)
      OBVIOUS
    <3>1. PICK f, j \in Nat : f <= h /\ At(x, f, j)
      BY DEF Debits
    <3>2. Seen(n, f, j) /\ x \in Keys
      BY <1>0, <3>1 DEF At, Seen, CaughtUp, TypeOK, Debits, SpendKeys
    <3>3. x \in processed[n]
      BY <1>0, <3>1, <3>2 DEF ReplayOK
    <3> QED
      BY <3>3 DEF Debits, SpendKeys, SpentBy
  <2>9. Cardinality(Debits(h, m)) <= Cardinality(SpentBy(n, m))
    BY <2>6, <2>8, FS_Subset
  <2> QED
    BY <1>6, <2>6, <2>7, <2>9, BoundsAssumption DEF Exhausted
<1> QED
  BY <1>0, <1>1, <1>2, <1>7, <1>8, AtAfterAppend

\* No step puts a spend into a block after the nation's credits are exhausted.
LEMMA LastNext ==
  LedgerInv /\ ReplayInv /\ MempoolInv /\ LastInv /\ [ChargeNext]_chargeVars => LastInv'
<1> SUFFICES ASSUME LedgerInv, ReplayInv, MempoolInv, LastInv, [ChargeNext]_chargeVars
             PROVE  LastInv'
  OBVIOUS
<1>1. ASSUME NEW n \in Nodes, Decide(n) PROVE LastInv'
  BY <1>1, LastDecide
<1>2. CASE chain' = chain
  <2>1. \A m : \A h \in Nat : Exhausted(h, m)' <=> Exhausted(h, m)
    BY <1>2, DebitsFinal DEF LedgerInv
  <2>2. \A k, g, i : At(k, g, i)' <=> At(k, g, i)
    BY <1>2 DEF At
  <2>3. \A m : SpendKeys(m)' = SpendKeys(m)
    BY DEF SpendKeys
  <2> QED
    BY <2>1, <2>2, <2>3 DEF LastInv
<1> QED
  BY <1>1, <1>2, ChargeMoves
     DEF SubmitTx, BeginBlock, DebitTx, LockTx, FileTx, EndBlock, comet, vars

\* A validator that refuses a charge has executed blocks that exhausted the nation.
LEMMA RefusalSeen ==
  ASSUME LedgerInv, AheadInv, NEW n \in Nodes, NEW c \in Calls, NEW m \in Nations,
         m = TxOf[c].nation, stage[n] = "exec", Verdict(n, TxOf[c]) = "rejected"
  PROVE  Exhausted(Len(chain), m)
<1>0. /\ TypeOK /\ CursorOK(n) /\ AheadOK(n) /\ Len(chain) \in Nat
      /\ TxOf[c] \in Txs /\ WellSigned(TxOf[c]) /\ TxOf[c].type = SPEND
  BY ChargeAssumption DEF LedgerInv, CursorInv, AheadInv, TypeOK
<1>1. CheckTxCode(balance[n], TxOf[c]) # 0
  BY DEF Verdict
<1>2. balance[n][m] <= 0 /\ balance[n][m] \in Int
  BY <1>0, <1>1 DEF CheckTxCode, WellSigned, TypeOK
<1>3. /\ Cardinality(SpentBy(n, m)) \in Nat /\ Cardinality(Unfiled(n)) \in Nat
      /\ InHand(n, m) = 0
  BY <1>0, FiniteParts DEF InHand
<1>4. Cardinality(SpentBy(n, m)) >= InitialCredits
  <2>1. CreditGap(n, m) + Cardinality(Unfiled(n)) <= 0
    BY <1>0 DEF LedgerInv, TornWritesBounded, AheadOK
  <2> QED
    BY <1>2, <1>3, <2>1, BoundsAssumption DEF CreditGap
<1>5. SpentBy(n, m) \subseteq Debits(Len(chain), m)
  <2> SUFFICES ASSUME NEW k \in SpentBy(n, m) PROVE k \in Debits(Len(chain), m)
    OBVIOUS
  <2>1. k \in processed[n] /\ k \in SpendKeys(m)
    BY <1>0 DEF SpentBy, SpendKeys, TypeOK
  <2>2. PICK h, i \in Nat : At(k, h, i) /\ Past(n, h, i)
    BY <1>0, <2>1 DEF AheadOK
  <2>3. h <= Len(chain)
    BY <1>0, <2>2 DEF At, TypeOK
  <2> QED
    BY <2>1, <2>2, <2>3 DEF Debits
<1>6. /\ IsFiniteSet(Debits(Len(chain), m)) /\ Cardinality(Debits(Len(chain), m)) \in Nat
  <2>1. Debits(Len(chain), m) \in SUBSET Keys
    BY DEF Debits, SpendKeys
  <2> QED
    BY <2>1, KeysFinite, FS_Subset, FS_CardinalityType
<1>7. Cardinality(SpentBy(n, m)) <= Cardinality(Debits(Len(chain), m))
  BY <1>5, <1>6, FS_Subset
<1> QED
  BY <1>3, <1>4, <1>6, <1>7, BoundsAssumption DEF Exhausted

\* What a refusal tells stays true when more blocks are decided.
LEMMA RefusedKept ==
  ASSUME TypeOK, NEW m,
         chain' = chain \/ \E blk \in Seq(Txs) : chain' = Append(chain, blk),
         NEW h \in 0 .. Len(chain), Exhausted(h, m)
  PROVE  h \in 0 .. Len(chain') /\ Exhausted(h, m)'
<1>1. Len(chain) \in Nat /\ h \in Nat /\ h <= Len(chain)
  BY DEF TypeOK
<1>2. Len(chain') >= Len(chain) /\ Len(chain') \in Nat
  BY <1>1 DEF TypeOK
<1>3. Exhausted(h, m)'
  BY <1>1, DebitsFinal
<1> QED
  BY <1>1, <1>2, <1>3

\* A step leaves the chain alone or adds a block.
LEMMA ChainGrows ==
  ASSUME TypeOK, [ChargeNext]_chargeVars
  PROVE  chain' = chain \/ \E blk \in Seq(Txs) : chain' = Append(chain, blk)
<1>1. ASSUME NEW n \in Nodes, Decide(n)
      PROVE  \E blk \in Seq(Txs) : chain' = Append(chain, blk)
  BY <1>1, BlocksFromType DEF Decide, TypeOK
<1> QED
  BY <1>1, ChargeMoves
     DEF SubmitTx, BeginBlock, DebitTx, LockTx, FileTx, EndBlock, comet, vars

\* A check is answered between two transactions.
LEMMA EndCheckStage ==
  ASSUME LedgerInv, NEW n \in Nodes, NEW tx \in Txs, EndCheck(n, tx)
  PROVE  stage[n] = "exec"
<1>1. TypeOK /\ CursorOK(n)
  BY DEF LedgerInv, CursorInv
<1>2. ~Executing(n)
  <2>1. Serving(n) \/ Returned(n)
    BY DEF EndCheck
  <2>2. pos[n] \in Nat
    BY <1>1 DEF TypeOK
  <2>3. CASE pos[n] = 0
    BY <2>3 DEF Executing
  <2>4. CASE pos[n] > 0
    <3>1. Block(n) \in Seq(Txs)
      BY <1>1, <2>4, CursorTypes
    <3> QED
      BY <2>1, <2>2, <2>4, <3>1 DEF Serving, Idle, Returned, Executing
  <2> QED
    BY <2>2, <2>3, <2>4
<1> QED
  BY <1>1, <1>2 DEF CursorOK, TypeOK

\* Every step leaves a refusal its height.
LEMMA RefusedNext ==
  ASSUME LedgerInv, ChargeTypes, AheadInv, RefusedInv, [ChargeNext]_chargeVars
  PROVE  RefusedInv'
<1>0. TypeOK
  BY DEF LedgerInv
<1>1. chain' = chain \/ \E blk \in Seq(Txs) : chain' = Append(chain, blk)
  BY <1>0, ChainGrows
<1> SUFFICES ASSUME NEW d \in Calls, verdict'[d] = "rejected"
             PROVE  \E h \in 0 .. Len(chain') : Exhausted(h, TxOf[d].nation)'
  BY DEF RefusedInv
<1> DEFINE m == TxOf[d].nation
<1>2. m \in Nations /\ TxOf[d] \in Txs
  BY ChargeAssumption DEF WellSigned
<1>3. ASSUME \E h \in 0 .. Len(chain) : Exhausted(h, m)
      PROVE  \E h \in 0 .. Len(chain') : Exhausted(h, m)'
  <2>1. PICK h \in 0 .. Len(chain) : Exhausted(h, m)
    BY <1>3
  <2>2. h \in 0 .. Len(chain') /\ Exhausted(h, m)'
    <3> HIDE DEF m
    <3> QED
      BY <1>0, <1>1, <2>1, RefusedKept
  <2> QED
    BY <2>2
<1>4. CASE verdict[d] = "rejected"
  BY <1>3, <1>4 DEF RefusedInv
<1>5. ASSUME NEW n \in Nodes, NEW tx \in Txs, EndCheck(n, tx), verdict[d] # "rejected"
      PROVE  \E h \in 0 .. Len(chain) : Exhausted(h, m)
  <2>1. Verdict(n, TxOf[d]) = "rejected"
    BY <1>5 DEF EndCheck, Answer
  <2>2. stage[n] = "exec"
    BY <1>5, EndCheckStage
  <2>3. Exhausted(Len(chain), m)
    BY <1>2, <2>1, <2>2, RefusalSeen
  <2>4. Len(chain) \in 0 .. Len(chain)
    BY <1>0 DEF TypeOK
  <2> QED
    BY <2>3, <2>4
<1>6. ASSUME NEW c \in Calls, CallStep(c) PROVE verdict[d] = "rejected"
  <2>1. \A t : GaveUp(t) # "rejected"
    BY DEF GaveUp
  <2> QED
    BY <1>6, <2>1 DEF CallStep, Ask, RpcError, Lost, TimedOut, ChargeTypes
<1>7. \/ \E n \in Nodes, tx \in Txs : EndCheck(n, tx)
      \/ \E c \in Calls : CallStep(c)
      \/ verdict' = verdict
  BY DEF ChargeNext, LedgerStep, UpdateMempool, Gossip, LateArrival, calls, chargeVars
<1> QED
  BY <1>3, <1>4, <1>5, <1>6, <1>7

-----------------------------------------------------------------------------

RefusalInv == AheadInv /\ CacheInv /\ LastInv /\ RefusedInv

\* At first there are no blocks and no refusals.
LEMMA RefusalInit == ChargeInit => RefusalInv
<1> SUFFICES ASSUME ChargeInit PROVE RefusalInv
  OBVIOUS
<1>1. /\ chain = <<>> /\ torn = [n \in Nodes |-> 0] /\ processed = [n \in Nodes |-> {}]
      /\ verdict = [c \in Calls |-> "open"]
  BY DEF ChargeInit, Init
<1>2. AheadInv /\ CacheInv
  BY <1>1 DEF AheadInv, AheadOK, CacheInv, CacheOK
<1>3. LastInv /\ RefusedInv
  BY <1>1 DEF LastInv, RefusedInv, At
<1> QED
  BY <1>2, <1>3 DEF RefusalInv

\* The inductive invariant of the composition, on top of the ledger's.
THEOREM RefusalInvariant == ChargeSpec => [](LedgerInv /\ ChargeTypes /\ RefusalInv)
<1> DEFINE Ledgers == LedgerInv /\ ReplayInv /\ MempoolInv /\ SpendsInv
           Inv == ChargeTypes /\ RefusalInv
<1>1. ChargeSpec => []Ledgers
  BY ChargedLedger
<1>2. ChargeInit => Inv
  BY RefusalInit DEF ChargeInit, ChargeTypes
<1>3. Ledgers /\ Ledgers' /\ Inv /\ [ChargeNext]_chargeVars => Inv'
  <2> SUFFICES ASSUME Ledgers, Ledgers', Inv, [ChargeNext]_chargeVars PROVE Inv'
    OBVIOUS
  <2> USE DEF RefusalInv
  <2>1. ChargeTypes'
    BY ChargeTypesNext
  <2>2. AheadInv'
    BY AheadNext
  <2>3. CacheInv'
    BY CacheNext
  <2>4. LastInv'
    BY LastNext
  <2>5. RefusedInv'
    BY RefusedNext
  <2> QED
    BY <2>1, <2>2, <2>3, <2>4, <2>5
<1>4. Ledgers /\ Inv => LedgerInv /\ ChargeTypes /\ RefusalInv
  OBVIOUS
<1> HIDE DEF Ledgers, Inv
<1> QED
  BY <1>1, <1>2, <1>3, <1>4, PTL DEF ChargeSpec

\* A block that pays a refused charge would come after the nation was exhausted.
LEMMA RefusalHolds ==
  ASSUME LedgerInv, LastInv', RefusedInv, [ChargeNext]_chargeVars, NEW c \in Calls,
         verdict[c] = "rejected", NEW h \in DOMAIN chain' \ DOMAIN chain,
         NEW i \in DOMAIN chain'[h], chain'[h][i] = TxOf[c]
  PROVE  FALSE
<1>0. TypeOK /\ chain \in Seq(Seq(Txs)) /\ Len(chain) \in Nat
  BY DEF LedgerInv, TypeOK
<1>1. PICK m \in Nations : m = TxOf[c].nation
  BY ChargeAssumption DEF WellSigned
<1>2. PICK g \in 0 .. Len(chain) : Exhausted(g, m)
  BY <1>1 DEF RefusedInv
<1>3. PICK blk \in Seq(Txs) : chain' = Append(chain, blk)
  <2>1. chain' # chain
    OBVIOUS
  <2> QED
    BY <1>0, <2>1, ChainGrows
<1>4. /\ h = Len(chain) + 1 /\ chain'[h] = blk /\ Len(chain') = Len(chain) + 1
      /\ h \in Nat /\ i \in Nat /\ i \in DOMAIN blk /\ g \in Nat /\ g < h
  BY <1>0, <1>3
<1>5. Exhausted(g, m)'
  BY <1>0, <1>2, <1>3, RefusedKept
<1>6. PICK k : k = Key(TxOf[c])
  OBVIOUS
<1>7. k \in SpendKeys(m) /\ TxOf[c] \in Txs /\ WellSigned(TxOf[c])
  BY <1>1, <1>6, ChargeAssumption DEF SpendKeys, Keys
<1>8. At(k, h, i)'
  BY <1>3, <1>4, <1>6, <1>7 DEF At
<1> QED
  BY <1>1, <1>4, <1>5, <1>7, <1>8 DEF LastInv, SpendKeys

\* For any validators, calls, retries, late requests and mempool sizes: no block that is
\* decided after CheckTx of any validator refused an event debits it, whatever was
\* submitted elsewhere (app.go:77-88, ledger_client.go:94-97).
THEOREM RefusalsAreFinal == ChargeSpec => RefusalIsFinal
<1> DEFINE Final == \A c \in Calls : verdict[c] = "rejected" =>
                      \A h \in DOMAIN chain' \ DOMAIN chain :
                          \A i \in DOMAIN chain'[h] : chain'[h][i] # TxOf[c]
           Inv == LedgerInv /\ ChargeTypes /\ RefusalInv
<1>1. Inv /\ Inv' /\ [ChargeNext]_chargeVars => [Final]_chargeVars
  BY RefusalHolds DEF RefusalInv
<1>2. ChargeSpec => []Inv
  BY RefusalInvariant
<1> QED
  BY <1>1, <1>2, PTL DEF ChargeSpec, RefusalIsFinal

-----------------------------------------------------------------------------
(* Blocks without duplicates *)

Submitted == {TxOf[c] : c \in Calls}

\* Requests, checks, mempools and blocks hold charges only, and the chain holds each of
\* them once.
OnceInv ==
    /\ \A n \in Nodes : mempool[n] \subseteq Submitted
    /\ \A n \in Nodes, tx \in Txs : <<n, tx>> \in late \/ <<n, tx>> \in checking => tx \in Submitted
    /\ \A h \in 1 .. Len(chain) : \A i \in DOMAIN chain[h] : chain[h][i] \in Submitted
    /\ \A g, h \in 1 .. Len(chain) : \A i \in DOMAIN chain[g], j \in DOMAIN chain[h] :
          chain[g][i] = chain[h][j] => g = h /\ i = j

\* A proposer holds nothing that is already in the chain, since it executed all of it.
LEMMA DecideOnce ==
  ASSUME LedgerInv, CacheInv, OnceInv, NEW n \in Nodes, Decide(n), late' = late, checking' = checking
  PROVE  OnceInv'
<1>0. /\ TypeOK /\ height[n] = Len(chain) /\ mempool[n] \in SUBSET Txs /\ mempool' = mempool
  BY DEF LedgerInv, Decide, CaughtUp, TypeOK
<1>1. PICK blk \in BlocksFrom(mempool[n]) : chain' = Append(chain, blk)
  BY DEF Decide
<1>2. /\ blk \in Seq(Txs) /\ \A i \in DOMAIN blk : blk[i] \in mempool[n]
      /\ \A i, j \in DOMAIN blk : blk[i] = blk[j] => i = j
  BY <1>0, <1>1, BlocksFromType DEF BlocksFrom
<1>3. /\ Len(chain) \in Nat /\ Len(chain') = Len(chain) + 1
      /\ chain'[Len(chain) + 1] = blk
      /\ \A h \in 1 .. Len(chain) : chain'[h] = chain[h]
  BY <1>0, <1>1, <1>2 DEF TypeOK
<1>4. \A h \in 1 .. Len(chain) : \A i \in DOMAIN chain[h], j \in DOMAIN blk :
         chain[h][i] # blk[j]
  <2>1. ASSUME NEW h \in 1 .. Len(chain), NEW i \in DOMAIN chain[h]
        PROVE  chain[h][i] \notin mempool[n]
    <3>1. CacheOK(n)
      BY DEF CacheInv
    <3>2. h <= height[n]
      BY <1>0, <1>3
    <3> QED
      BY <3>1, <3>2 DEF CacheOK
  <2> QED
    BY <1>2, <2>1
<1>5. 1 .. Len(chain') = (1 .. Len(chain)) \cup {Len(chain) + 1}
  BY <1>3
<1>6. ASSUME NEW h \in 1 .. Len(chain'), NEW i \in DOMAIN chain'[h]
      PROVE  chain'[h][i] \in Submitted
  BY <1>2, <1>3, <1>5, <1>6 DEF OnceInv
<1>7. ASSUME NEW g \in 1 .. Len(chain'), NEW h \in 1 .. Len(chain'),
             NEW i \in DOMAIN chain'[g], NEW j \in DOMAIN chain'[h],
             chain'[g][i] = chain'[h][j]
      PROVE  g = h /\ i = j
  <2>1. CASE g \in 1 .. Len(chain) /\ h \in 1 .. Len(chain)
    BY <1>3, <1>7, <2>1 DEF OnceInv
  <2>2. CASE g = Len(chain) + 1 /\ h = Len(chain) + 1
    BY <1>2, <1>3, <1>7, <2>2
  <2>3. CASE g = Len(chain) + 1 /\ h \in 1 .. Len(chain)
    BY <1>3, <1>4, <1>7, <2>3
  <2>4. CASE h = Len(chain) + 1 /\ g \in 1 .. Len(chain)
    BY <1>3, <1>4, <1>7, <2>4
  <2> QED
    BY <1>5, <2>1, <2>2, <2>3, <2>4
<1> QED
  BY <1>0, <1>6, <1>7 DEF OnceInv

\* No step puts a charge into the chain a second time.
LEMMA OnceNext ==
  ASSUME LedgerInv, CacheInv, OnceInv, [ChargeNext]_chargeVars
  PROVE  OnceInv'
<1>0. TypeOK
  BY DEF LedgerInv
<1>1. ASSUME chain' = chain, \A p \in Nodes : mempool'[p] \subseteq Submitted,
             \A n \in Nodes, tx \in Txs : 
                 <<n, tx>> \in late' \/ <<n, tx>> \in checking' => tx \in Submitted
      PROVE  OnceInv'
  BY <1>1 DEF OnceInv
<1>2. ASSUME NEW c \in Calls, CallStep(c) PROVE OnceInv'
  <2>1. UNCHANGED <<chain, mempool>>
    BY <1>2 DEF CallStep, RpcError, TimedOut, Ask, Lost, vars, comet
  <2>2. late' \cup checking' \subseteq late \cup checking \cup {<<n, TxOf[c]>> : n \in Nodes}
    BY <1>2 DEF CallStep, RpcError, TimedOut, Ask, Lost, BeginCheck, pools
  <2>3. TxOf[c] \in Submitted
    BY DEF Submitted
  <2> QED
    BY <1>1, <2>1, <2>2, <2>3 DEF OnceInv
<1>3. ASSUME NEW n \in Nodes, NEW m \in Nodes, NEW tx \in Txs, Gossip(n, m, tx)
      PROVE  OnceInv'
  <2>1. /\ UNCHANGED <<chain, mempool, late>> /\ tx \in Submitted
        /\ checking' = checking \cup {<<m, tx>>}
    BY <1>3 DEF Gossip, BeginCheck, vars, comet, OnceInv
  <2> QED
    BY <1>1, <2>1 DEF OnceInv
<1>4. ASSUME NEW n \in Nodes, NEW tx \in Txs, LateArrival(n, tx) PROVE OnceInv'
  <2>1. /\ UNCHANGED <<chain, mempool>> /\ tx \in Submitted
        /\ late' \cup checking' \subseteq late \cup checking \cup {<<n, tx>>}
    BY <1>4 DEF LateArrival, BeginCheck, vars, comet, OnceInv
  <2> QED
    BY <1>1, <2>1 DEF OnceInv
<1>5. ASSUME NEW n \in Nodes, NEW tx \in Txs, EndCheck(n, tx) PROVE OnceInv'
  <2>1. /\ <<n, tx>> \in checking /\ checking' \subseteq checking /\ late' = late
        /\ chain' = chain
        /\ mempool' = mempool \/ mempool' = [mempool EXCEPT ![n] = @ \cup {tx}]
    BY <1>5 DEF EndCheck, Answer, Admit, Forget, SubmitTx, vars, comet
  <2>2. tx \in Submitted
    BY <2>1 DEF OnceInv
  <2>3. \A p \in Nodes : mempool'[p] \subseteq Submitted
    <3>1. \A p \in Nodes : mempool[p] \subseteq Submitted
      BY DEF OnceInv
    <3>2. \A p \in Nodes : mempool'[p] \subseteq mempool[p] \cup {tx}
      BY <1>0, <2>1 DEF TypeOK
    <3> QED
      BY <2>2, <3>1, <3>2
  <2> QED
    BY <1>1, <2>1, <2>3 DEF OnceInv
<1>6. ASSUME NEW n \in Nodes, LedgerStep(n) PROVE OnceInv'
  <2>1. late' = late /\ checking' = checking
    BY <1>6 DEF LedgerStep, pools
  <2>2. CASE Decide(n)
    BY <2>1, <2>2, DecideOnce
  <2>3. CASE ~Decide(n)
    <3>1. UNCHANGED <<chain, mempool>>
      BY <1>6, <2>3 DEF LedgerStep, BeginBlock, DebitTx, LockTx, FileTx, comet
    <3> QED
      BY <1>1, <2>1, <3>1 DEF OnceInv
  <2> QED
    BY <2>2, <2>3
<1>7. ASSUME NEW n \in Nodes, UpdateMempool(n) PROVE OnceInv'
  <2>1. /\ UNCHANGED <<chain, late, checking>>
        /\ \A p \in Nodes : mempool'[p] \subseteq mempool[p]
    BY <1>0, <1>7 DEF UpdateMempool, EndBlock, TypeOK
  <2> QED
    BY <1>1, <2>1 DEF OnceInv
<1>8. CASE UNCHANGED chargeVars
  BY <1>8 DEF OnceInv, chargeVars, vars, comet, pools
<1> QED
  BY <1>2, <1>3, <1>4, <1>5, <1>6, <1>7, <1>8 DEF ChargeNext

\* A key that is locked belongs to an earlier position, which holds another charge.
LEMMA NothingToReject ==
  LedgerInv /\ AheadInv /\ OnceInv => NothingRejected
<1> SUFFICES ASSUME LedgerInv, AheadInv, OnceInv, NEW n \in Nodes, Executing(n),
                    stage[n] = "exec", ExecCode(processed[n], Tx(n)) # 0
             PROVE  FALSE
  BY DEF NothingRejected
<1>0. TypeOK /\ CursorOK(n) /\ AheadOK(n)
  BY DEF LedgerInv, CursorInv, AheadInv
<1>1. /\ height[n] \in Nat /\ pos[n] \in Nat /\ height[n] + 1 \in 1 .. Len(chain)
      /\ Tx(n) \in Txs /\ pos[n] \in DOMAIN chain[height[n] + 1]
  <2>1. height[n] \in Nat /\ pos[n] \in Nat /\ height[n] + 1 \in 1 .. Len(chain)
    BY <1>0 DEF TypeOK, CursorOK, Executing
  <2>2. Tx(n) \in Txs /\ Block(n) \in Seq(Txs)
    BY <1>0, CursorTypes DEF Executing
  <2>3. pos[n] \in 1 .. Len(Block(n))
    BY <2>1, <2>2 DEF Executing
  <2> QED
    BY <2>1, <2>2, <2>3 DEF Block
<1>2. PICK c \in Calls : Tx(n) = TxOf[c]
  BY <1>1 DEF OnceInv, Submitted, Tx, Block
<1>3. Key(Tx(n)) \in processed[n]
  BY <1>1, <1>2, RefusedIsLocked, ChargeAssumption
<1>4. PICK h, i \in Nat : At(Key(Tx(n)), h, i) /\ Past(n, h, i)
  BY <1>0, <1>3 DEF AheadOK
<1>5. h < height[n] + 1 \/ (h = height[n] + 1 /\ i < pos[n])
  BY <1>1, <1>4 DEF Past, Seen
<1>6. h \in 1 .. Len(chain) /\ i \in DOMAIN chain[h] /\ Key(chain[h][i]) = Key(Tx(n))
  BY <1>0, <1>4 DEF At, TypeOK
<1>7. PICK d \in Calls : chain[h][i] = TxOf[d]
  BY <1>6 DEF OnceInv, Submitted
<1>8. chain[h][i] = chain[height[n] + 1][pos[n]]
  <2>1. TxOf[d].event = TxOf[c].event
    BY <1>2, <1>6, <1>7 DEF Key
  <2>2. TxOf[d] = TxOf[c]
    BY <2>1, ChargeAssumption
  <2> QED
    BY <1>2, <1>7, <2>2 DEF Tx, Block
<1>9. h = height[n] + 1 /\ i = pos[n]
  BY <1>1, <1>6, <1>8 DEF OnceInv
<1> QED
  BY <1>1, <1>5, <1>9

\* However often a charge is retried, relayed or submitted by other brokers, no block
\* holds it twice, and FinalizeBlock executes every transaction of every block: the
\* duplicate check has nothing to do until a validator restarts (app.go:134-142,
\* ledger_client.go:67-83).
THEOREM ChargesAreExecuted == ChargeSpec => []NothingRejected
<1>1. ChargeInit => OnceInv
  BY DEF ChargeInit, Init, OnceInv
<1>2. (LedgerInv /\ ChargeTypes /\ RefusalInv) /\ OnceInv /\ [ChargeNext]_chargeVars => OnceInv'
  BY OnceNext DEF RefusalInv
<1>3. (LedgerInv /\ ChargeTypes /\ RefusalInv) /\ OnceInv => NothingRejected
  BY NothingToReject DEF RefusalInv
<1> QED
  BY <1>1, <1>2, <1>3, RefusalInvariant, PTL DEF ChargeSpec

=============================================================================
