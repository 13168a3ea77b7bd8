-------------------------------- MODULE Charge --------------------------------
(***************************************************************************)
(* How a broker charges a mission: SpendCredit (cmd/broker/                *)
(* ledger_client.go) with the retries of PostJSON (pkg/server/             *)
(* http_client.go) against the mempools of the validators, composed with   *)
(* the ledger they drive.                                                  *)
(*                                                                         *)
(* The name of the ledger resolves to every validator, so each attempt may *)
(* reach another one.  A call that timed out may still be executed later.  *)
(* Ed25519 signatures are deterministic and a spend has no payload: all    *)
(* brokers that charge one event submit the same bytes (ChargeAssumption). *)
(*                                                                         *)
(* The mempool of CometBFT is external; its settings are those of          *)
(* deployments/config: recheck on, invalid transactions not kept in the    *)
(* cache.  It remembers a transaction before it asks the application       *)
(* (CheckTx) and forgets it again when the answer is a refusal or the pool *)
(* has filled up meanwhile.  The cache of 10000 transactions is taken as   *)
(* never full and no validator restarts; module Ledger has the restarts.   *)
(***************************************************************************)
EXTENDS Ledger

CONSTANTS
    Calls,     \* calls of SpendCredit, by any worker of any broker
    TxOf,      \* call -> the transaction it submits
    MaxTries,  \* attempts of one PostJSON: maxRetries + 1, 4 in the code
    MaxPool,   \* transactions a mempool holds: 5000 in the configuration
    Unlucky    \* bound: calls whose attempts may go without an answer

ASSUME ChargeAssumption ==
    /\ TxOf \in [Calls -> Txs]
    /\ \A c \in Calls : WellSigned(TxOf[c]) /\ TxOf[c].type = SPEND
    /\ \A c, d \in Calls : TxOf[c].event = TxOf[d].event => TxOf[c] = TxOf[d]
    /\ MaxTries \in Nat \ {0} /\ MaxPool \in Nat
    /\ Unlucky \subseteq Calls /\ None \notin Nodes

VARIABLES
    \* clients
    attempts,  \* call -> attempts made
    verdict,   \* call -> "open", or what SpendCredit made of the last attempt:
               \*         "approved" (true), "rejected" or "failed" (false)
    asked,     \* call -> the validator whose answer it waits for, or None
    \* CometBFT (external)
    cache,     \* node -> transactions its mempool remembers
    checking,  \* CheckTx calls not answered yet: <<node, tx>>
    late,      \* requests under way whose caller stopped waiting: <<node, tx>>
    \* history
    admitted   \* transactions some mempool took

calls == <<attempts, verdict, asked>>
pools == <<cache, checking, late, admitted>>
chargeVars == <<vars, calls, pools>>

-----------------------------------------------------------------------------
(* The mempool *)

Full(n) == Cardinality(mempool[n]) >= MaxPool

\* The mempool turns tx away before CheckTx, with a JSON-RPC error.
TurnedAway(n, tx) == Full(n) \/ tx \in cache[n]

\* A transaction from a client or from a peer enters the cache; CheckTx is called.
BeginCheck(n, tx) ==
    /\ ~TurnedAway(n, tx)
    /\ cache' = [cache EXCEPT ![n] = @ \cup {tx}]
    /\ checking' = checking \cup {<<n, tx>>}

\* A peer relays a transaction of its mempool.
Gossip(n, m, tx) ==
    /\ n # m /\ tx \in mempool[n]
    /\ BeginCheck(m, tx)
    /\ UNCHANGED <<vars, calls, late, admitted>>

InBlock(n) == {Block(n)[i] : i \in DOMAIN Block(n)}
\* FinalizeBlock has returned, the mempool is not updated yet.
Returned(n) == pos[n] > 0 /\ pos[n] > Len(Block(n))

\* What SpendCredit makes of a CheckTx result.
Verdict(n, tx) == IF CheckTxCode(balance[n], tx) = 0 THEN "approved" ELSE "rejected"

\* The answer goes to the call that still waits for it, if one does.
Answer(n, tx) ==
    /\ verdict' = [c \in Calls |-> IF asked[c] = n /\ TxOf[c] = tx
                                   THEN Verdict(n, tx) ELSE verdict[c]]
    /\ asked' = [c \in Calls |-> IF TxOf[c] = tx /\ asked[c] = n THEN None ELSE asked[c]]
    /\ UNCHANGED <<attempts, late>>

\* The mempool takes a transaction that passed CheckTx.
Admit(n, tx) ==
    /\ ~Full(n) /\ SubmitTx(n, tx)
    /\ admitted' = admitted \cup {tx}
    /\ UNCHANGED cache

\* CheckTx refuses it, or the pool is full by now; the cache forgets it.
Forget(n, tx) ==
    /\ Full(n) \/ CheckTxCode(balance[n], tx) # 0
    /\ cache' = [cache EXCEPT ![n] = @ \ {tx}]
    /\ UNCHANGED <<vars, admitted>>

\* CheckTx is answered.  The application has a lock, so not amid FinalizeBlock; but
\* it may be between FinalizeBlock and the update of the mempool, which then takes
\* out again what the block holds.  (Of other transactions such an answer is the
\* same as one right after the update, and is left to it.)
EndCheck(n, tx) ==
    /\ <<n, tx>> \in checking
    /\ checking' = checking \ {<<n, tx>>}
    /\ Answer(n, tx)
    /\ \/ Serving(n) /\ (Admit(n, tx) \/ Forget(n, tx))
       \/ Returned(n) /\ tx \in InBlock(n) /\ UNCHANGED <<vars, cache, admitted>>

\* Mutant of UpdateMempool: the cache forgets what was committed.
UpdateMempoolForgets(n) ==
    /\ EndBlock(n)
    /\ \A tx \in InBlock(n) : <<n, tx>> \notin checking
    /\ cache' = [cache EXCEPT ![n] = @ \ (InBlock(n) \cup (mempool[n] \ mempool'[n]))]
    /\ UNCHANGED <<calls, checking, late, admitted>>

\* The mempool waits for the answers under way (FlushAppConn) and is updated: what
\* was committed stays in the cache, what the recheck dropped does not.
UpdateMempool(n) ==
    /\ EndBlock(n)
    /\ \A tx \in InBlock(n) : <<n, tx>> \notin checking
    /\ cache' = [cache EXCEPT ![n] = (@ \ (mempool[n] \ mempool'[n])) \cup InBlock(n)]
    /\ UNCHANGED <<calls, checking, late, admitted>>

-----------------------------------------------------------------------------
(* SpendCredit *)

Ready(c) == verdict[c] = "open" /\ asked[c] = None /\ attempts[c] < MaxTries

\* An attempt reaches the mempool of n, which asks the application.
Ask(c, n) ==
    /\ Ready(c)
    /\ BeginCheck(n, TxOf[c])
    /\ asked' = [asked EXCEPT ![c] = n]
    /\ attempts' = [attempts EXCEPT ![c] = @ + 1]
    /\ UNCHANGED <<vars, verdict, late, admitted>>

\* Mutant of RpcError: an answer without a result is taken for a refusal.
RpcErrorRefuses(c) ==
    /\ Ready(c)
    /\ verdict' = [verdict EXCEPT ![c] = "rejected"]
    /\ attempts' = [attempts EXCEPT ![c] = @ + 1]
    /\ UNCHANGED <<vars, asked, pools>>

\* An attempt is answered with a JSON-RPC error: the mempool turned it away, or the
\* node is catching up, has lost its application and so on.  Such an answer has no
\* result, its code decodes as 0 and SpendCredit takes it for an approval.
RpcError(c) ==
    /\ Ready(c)
    /\ verdict' = [verdict EXCEPT ![c] = "approved"]
    /\ attempts' = [attempts EXCEPT ![c] = @ + 1]
    /\ UNCHANGED <<vars, asked, pools>>

\* After an attempt without an answer PostJSON tries again or returns its error.
GaveUp(tries) == IF tries = MaxTries THEN "failed" ELSE "open"

\* An attempt without an answer: the request is lost or reaches n later.
Lost(c, n) ==
    /\ Ready(c) /\ c \in Unlucky
    /\ verdict' = [verdict EXCEPT ![c] = GaveUp(attempts[c] + 1)]
    /\ attempts' = [attempts EXCEPT ![c] = @ + 1]
    /\ late' \in {late, late \cup {<<n, TxOf[c]>>}}
    /\ UNCHANGED <<vars, asked, cache, checking, admitted>>

\* The answer does not come in time; the check goes on.
TimedOut(c) ==
    /\ asked[c] # None /\ c \in Unlucky
    /\ asked' = [asked EXCEPT ![c] = None]
    /\ verdict' = [verdict EXCEPT ![c] = GaveUp(attempts[c])]
    /\ UNCHANGED <<vars, attempts, pools>>

\* A request nobody waits for reaches its validator.
LateArrival(n, tx) ==
    /\ <<n, tx>> \in late
    /\ late' = late \ {<<n, tx>>}
    /\ BeginCheck(n, tx) \/ (TurnedAway(n, tx) /\ UNCHANGED <<cache, checking>>)
    /\ UNCHANGED <<vars, calls, admitted>>

-----------------------------------------------------------------------------

ChargeInit ==
    /\ Init
    /\ attempts = [c \in Calls |-> 0]
    /\ verdict = [c \in Calls |-> "open"]
    /\ asked = [c \in Calls |-> None]
    /\ cache = [n \in Nodes |-> {}]
    /\ checking = {} /\ late = {} /\ admitted = {}

\* What the ledger does while no mempool changes.  RejectTx is missing: SpendCredit
\* signs what it submits and the cache keeps a second copy out of the chain
\* (NothingRejected).
LedgerStep(n) ==
    /\ Decide(n) \/ BeginBlock(n) \/ DebitTx(n) \/ LockTx(n) \/ FileTx(n)
    /\ UNCHANGED <<calls, pools>>

CallStep(c) ==
    RpcError(c) \/ TimedOut(c) \/ \E n \in Nodes : Ask(c, n) \/ Lost(c, n)

ChargeNext ==
    \/ \E c \in Calls : CallStep(c)
    \/ \E n \in Nodes :
        \/ LedgerStep(n)
        \/ UpdateMempool(n)
        \/ \E m \in Nodes, tx \in Txs : Gossip(n, m, tx)
        \/ \E tx \in Txs : EndCheck(n, tx) \/ LateArrival(n, tx)

ChargeSpec == ChargeInit /\ [][ChargeNext]_chargeVars

\* PostJSON returns because every attempt has a timeout; the application answers
\* CheckTx, validators execute decided blocks, and the turn to propose comes to each
\* of them again and again.
ChargeFairSpec ==
    /\ ChargeSpec
    /\ \A c \in Calls : WF_chargeVars(CallStep(c))
    /\ \A n \in Nodes :
          /\ WF_chargeVars(LedgerStep(n) \/ UpdateMempool(n))
          /\ WF_chargeVars(\E tx \in Txs : EndCheck(n, tx))
          /\ SF_chargeVars(Decide(n) /\ UNCHANGED <<calls, pools>>)

-----------------------------------------------------------------------------
(* Properties *)

\* A refusal decides about the credit of a call for good: once CheckTx of any
\* validator refused an event, no later block debits it, whatever the retries and the
\* other brokers submitted elsewhere (app.go:77-88, ledger_client.go:94-97).  A block
\* decided before may: the refusal can come from the very balance it left behind.
\* A call that got no answer ("failed") has no such promise.
RefusalIsFinal ==
    [][\A c \in Calls : verdict[c] = "rejected" =>
          \A h \in DOMAIN chain' \ DOMAIN chain :
              \A i \in DOMAIN chain'[h] : chain'[h][i] # TxOf[c]]_chargeVars

\* However often a charge is retried, relayed, executed late or submitted by other
\* brokers, no block holds it twice and FinalizeBlock finds nothing to refuse: the
\* duplicate check has no work until a validator restarts (app.go:134-142,
\* ledger_client.go:67-83).
NothingRejected ==
    \A n \in Nodes : Executing(n) /\ stage[n] = "exec" => ExecCode(processed[n], Tx(n)) = 0

Paid(n, tx) == Key(tx) \in processed[n]
Broke(n, tx) == balance[n][tx.nation] <= 0

\* A mission is queued before its charge is in a block (mission_processor.go:69).
\* In the end each validator has debited it or its nation has nothing left, unless
\* no mempool ever took it: an answer without a result is an approval too.
ApprovedPaidOrBroke ==
    <>[](\A c \in Calls : verdict[c] = "approved" /\ TxOf[c] \in admitted =>
            \A n \in Nodes : Paid(n, TxOf[c]) \/ Broke(n, TxOf[c]))

=============================================================================
