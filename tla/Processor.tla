------------------------------ MODULE Processor ------------------------------
(***************************************************************************)
(* A running node: every way a transaction enters it and every step that   *)
(* changes its shared state.                                               *)
(*                                                                         *)
(*   - a client (an RPC handler or the P2P receiver) submits a transaction *)
(*     through AetherRpcImpl::process_transaction;                         *)
(*   - a solver (AetherRpcImpl::process_orphans, run by the periodic task  *)
(*     and by the P2P receiver) resubmits orphans whose parents arrived;   *)
(*   - both go through TransactionProcessor::process, one at a time, since *)
(*     the consensus write lock is held around it;                         *)
(*   - the mining loop pops the mempool, and staking moves balances, with  *)
(*     no regard to the consensus lock.                                    *)
(*                                                                         *)
(* A step between two lock operations is one action.                       *)
(***************************************************************************)
EXTENDS Ledger, Dag, FeeRules, Sequences, FiniteSets, SequencesExt

CONSTANTS
    Clients,            \* concurrent submitters
    Solvers,            \* concurrent runs of process_orphans
    RpcClients,         \* the clients that share the RPC server's fee oracle
    Miner,              \* miner_address, or NoMiner
    NoMiner,
    Threshold,          \* confirmation_threshold
    FeeLimit,           \* bound of the model: largest fee the oracle reaches
    Stakers,            \* the accounts that stake
    StakeAmounts,       \* the amounts they stake
    Interest,           \* bound of the model: all the interest one is paid
    GenesisBal          \* balances the node starts from

Workers == Clients \cup Solvers

ProcessorAssumption ==
    /\ Clients \cap Solvers = {}
    /\ RpcClients \subseteq Clients
    /\ Miner \in (Addr \ {Burn}) \cup {NoMiner}
    /\ NoMiner \notin Addr
    /\ Threshold \in Nat
    /\ FeeLimit \in Nat
    /\ Stakers \subseteq Addr \ {Burn}
    /\ StakeAmounts \subseteq Nat \ {0}
    /\ Interest \subseteq Nat
    /\ GenesisBal \in [Addr -> U64]
    /\ GenesisBal[Burn] = 0

ASSUME ProcessorAssumption

VARIABLES
    dag,        \* DAG: transactions and tips
    ledger,     \* Ledger: balances, nonces, burned fees, supply counter
    mempool,    \* Mempool queue, oldest first
    poolFee,    \* Mempool.min_fee, written by every submission
    oracle,     \* base_fee of the RPC server's FeeOracle
    cons,       \* ConsensusState: height, rewarded blocks, pending rewards
    orphans,    \* transactions waiting for a parent
    staked,     \* each account's staking position and the interest paid
    call,       \* what each worker is doing: [pc, tx, minFee]
    batch,      \* the orphans a solver has still to resubmit
    snap,       \* ledger_snapshot of the call that holds the write locks
    settling,   \* finalized rewards that call has still to settle
    mined       \* transaction the mining loop popped, or NoTx

vars == <<dag, ledger, mempool, poolFee, oracle, cons, orphans, staked,
          call, batch, snap, settling, mined>>

-----------------------------------------------------------------------------
(* State.                                                                  *)
Phases == {"idle",          \* waiting for a request
           "batch",         \* a solver between two orphans
           "orphan",        \* parents were missing, about to store the orphan
           "waiting",       \* fee quoted, waiting for the consensus lock
           "validated",     \* STEP 1 passed, consensus lock held
           "settle",        \* STEPs 2-6 done, write locks held, STEP 7 loop
           "save",          \* in the mempool, ledger to be saved (STEP 9)
           "putTx",         \* ledger saved, transaction to be put (STEP 9b)
           "putCons",       \* transaction put, consensus state to be put
           "publish"}       \* processed, still under the consensus lock

CallType == [pc : Phases, tx : Tx \cup {NoTx}, minFee : Nat]

Idle == [pc |-> "idle", tx |-> NoTx, minFee |-> 0]

InitLedger == [bal |-> GenesisBal, nonce |-> [a \in Addr |-> 0],
               burned |-> 0, supply |-> 0]

\* PendingReward: a block and the height its reward was queued at.
Pending == [block : Tx, height : Nat]

ConsType == [height : Nat, rewarded : SUBSET Tx, pending : SUBSET Pending]

InitCons == [height |-> 0, rewarded |-> {}, pending |-> {}]

Init ==
    /\ dag = EmptyDag
    /\ ledger = InitLedger
    /\ mempool = << >>
    /\ poolFee = 1
    /\ oracle = 1
    /\ cons = InitCons
    /\ orphans = {}
    /\ staked = [a \in Stakers |-> [amount |-> 0, paid |-> 0]]
    /\ call = [w \in Workers |-> Idle]
    /\ batch = [s \in Solvers |-> {}]
    /\ snap = InitLedger
    /\ settling = {}
    /\ mined = NoTx

-----------------------------------------------------------------------------
(* Locks.  The write locks on DAG, ledger and mempool are taken together   *)
(* and held until the call has persisted; the consensus lock outlives them.*)
WritePhases == {"settle", "save", "putTx", "putCons"}
ConsPhases  == WritePhases \cup {"validated", "publish"}

WriteLocked     == \E w \in Workers : call[w].pc \in WritePhases
ConsensusLocked == \E w \in Workers : call[w].pc \in ConsPhases

\* A call ends: a client is idle again, a solver turns to its next orphan.
Finish(w) ==
    call' = [call EXCEPT ![w] =
        IF w \in Solvers THEN [Idle EXCEPT !.pc = "batch"] ELSE Idle]

\* The solver drops the orphan it resubmitted when the outcome is final.
Resolve(w, final) ==
    orphans' = IF w \in Solvers /\ final THEN orphans \ {call[w].tx}
                                         ELSE orphans

Goto(w, phase) == call' = [call EXCEPT ![w].pc = phase]

DropSnapshot == snap' = InitLedger /\ settling' = {}

-----------------------------------------------------------------------------
(* Entering: process_transaction up to the consensus lock.                 *)

\* A worker picks a transaction up: a client any, a solver one of its batch.
Takes(w, t) ==
    \/ w \in Clients /\ call[w].pc = "idle"
    \/ w \in Solvers /\ call[w].pc = "batch" /\ t \in batch[w]

LeaveBatch(w, t) ==
    batch' = IF w \in Solvers THEN [batch EXCEPT ![w] = @ \ {t}] ELSE batch

SubmitMissing(w, t) ==
    /\ Takes(w, t)
    /\ ~WriteLocked
    /\ ~HasParents(dag, t)
    /\ call' = [call EXCEPT ![w] = [pc |-> "orphan", tx |-> t, minFee |-> 0]]
    /\ LeaveBatch(w, t)
    /\ UNCHANGED <<dag, ledger, mempool, poolFee, oracle, cons, orphans,
                   staked, snap, settling, mined>>

StoreOrphan(w) ==
    /\ call[w].pc = "orphan"
    /\ orphans' = orphans \cup {call[w].tx}
    /\ Finish(w)
    /\ UNCHANGED <<dag, ledger, mempool, poolFee, oracle, cons, staked,
                   batch, snap, settling, mined>>

\* Parents present: quote a minimum fee and write it into the mempool.  Only
\* the RPC server keeps its oracle; other callers build a new one each time.
\* (One step for four locks, rpc.rs:948-1028.  A quote that another call has
\* made stale is a fee some client outside RpcClients writes anyway; which locks
\* are held while another is awaited is in Locks.)
SubmitReady(w, t) ==
    /\ Takes(w, t)
    /\ ~WriteLocked
    /\ HasParents(dag, t)
    /\ LET base == IF w \in RpcClients THEN oracle ELSE 1 IN
       \E fee \in {base, Adjusted(base, Len(mempool))} :
          /\ fee <= FeeLimit
          /\ oracle' = IF w \in RpcClients THEN fee ELSE oracle
          /\ poolFee' = fee
          /\ call' = [call EXCEPT ![w] =
                         [pc |-> "waiting", tx |-> t, minFee |-> fee]]
    /\ LeaveBatch(w, t)
    /\ UNCHANGED <<dag, ledger, mempool, cons, orphans, staked, snap,
                   settling, mined>>

-----------------------------------------------------------------------------
(* STEP 1: validate_full under the read locks.                             *)
ValidLedger(l, t, minFee) ==
    /\ l.bal[Sender[t]] >= Cost(t)
    /\ NonceFits(l, t)
    /\ Fee[t] >= minFee

ValidFull(t, minFee) ==
    t \in PureValid /\ CanAdd(dag, t) /\ ValidLedger(ledger, t, minFee)

\* Mutants: any error is final; only a duplicate is.
PermanentAlways(t) == TRUE
PermanentDuplicate(t) == t \in dag.txs

\* The process_orphans test for an error that no retry can cure.
Permanent(t) == t \in PureValid /\ HasParents(dag, t) /\ Conflicts(dag, t)

Validate(w) ==
    /\ call[w].pc = "waiting"
    /\ ~ConsensusLocked
    /\ ValidFull(call[w].tx, call[w].minFee)
    /\ Goto(w, "validated")
    /\ UNCHANGED <<dag, ledger, mempool, poolFee, oracle, cons, orphans,
                   staked, batch, snap, settling, mined>>

Reject(w) ==
    /\ call[w].pc = "waiting"
    /\ ~ConsensusLocked
    /\ ~ValidFull(call[w].tx, call[w].minFee)
    /\ Resolve(w, Permanent(call[w].tx))
    /\ Finish(w)
    /\ UNCHANGED <<dag, ledger, mempool, poolFee, oracle, cons, staked,
                   batch, snap, settling, mined>>

-----------------------------------------------------------------------------
(* STEPs 2 to 6: write locks, ledger transfer, nonce, DAG.                 *)
Applicable(t) ==
    TransferFits(ledger, t) /\ NonceFits(ledger, t) /\ CanAdd(dag, t)

\* STEP 2: try_write fails as any reader may hold one of the locks.
LockBusy(w) ==
    /\ call[w].pc = "validated"
    /\ Finish(w)
    /\ UNCHANGED <<dag, ledger, mempool, poolFee, oracle, cons, orphans,
                   staked, batch, snap, settling, mined>>

\* STEPs 4 to 6 fail: the ledger snapshot is restored, nothing has changed.
ApplyFails(w) ==
    /\ call[w].pc = "validated"
    /\ ~Applicable(call[w].tx)
    /\ Resolve(w, Permanent(call[w].tx) /\ TransferFits(ledger, call[w].tx)
                                        /\ NonceFits(ledger, call[w].tx))
    /\ Finish(w)
    /\ UNCHANGED <<dag, ledger, mempool, poolFee, oracle, cons, staked,
                   batch, snap, settling, mined>>

QueuedBlocks(c) == {r.block : r \in c.pending}

\* Mutant: queue_pending_reward accepts any block.
CanQueueAlways(c, t) == TRUE

\* queue_pending_reward refuses a block already queued or already rewarded.
CanQueue(c, t) == t \notin QueuedBlocks(c) \cup c.rewarded

\* Mutant: the reward is queued at the height before.
QueueEarly(c, t) ==
    [c EXCEPT !.height = @ + 1,
              !.pending = @ \cup {[block |-> t, height |-> c.height]}]

\* increment_height, then queue_pending_reward at the new height.
Queue(c, t) ==
    [c EXCEPT !.height = @ + 1,
              !.pending = @ \cup {[block |-> t, height |-> c.height + 1]}]

Finalized(c, r) == c.height >= r.height + Threshold

FinalizedPending(c) == {r \in c.pending : Finalized(c, r)}

\* The transaction is on the ledger and in the DAG; its block's reward is
\* queued and the rewards that have reached finality are collected.  A block
\* that CanQueue refuses has to come from a boot: ApplyNotQueued of Durability.
Apply(w) ==
    LET t == call[w].tx IN
    /\ call[w].pc = "validated"
    /\ Applicable(t)
    /\ Miner # NoMiner => CanQueue(cons, t)
    /\ snap' = ledger
    /\ ledger' = CommitNonce(Transfer(ledger, t), t)
    /\ dag' = AddTx(dag, t)
    /\ cons' = IF Miner = NoMiner THEN cons ELSE Queue(cons, t)
    /\ settling' = IF Miner = NoMiner THEN {} ELSE FinalizedPending(cons')
    /\ Goto(w, "settle")
    /\ UNCHANGED <<mempool, poolFee, oracle, orphans, staked, batch, mined>>

-----------------------------------------------------------------------------
(* STEP 7: settle the finalized rewards, one per iteration of the loop.    *)
\* Mutant: apply_block_reward wants one more confirmation.
CanSettleLate(r) ==
    /\ r.block \notin cons.rewarded
    /\ cons.height > r.height + Threshold
    /\ RewardFits(ledger, Miner, CalculateReward(r.height))

\* apply_block_reward returns Ok.
CanSettle(r) ==
    /\ r.block \notin cons.rewarded
    /\ Finalized(cons, r)
    /\ RewardFits(ledger, Miner, CalculateReward(r.height))

\* Mutant: the settled reward stays in the queue.
SettledStays(c, r) == [c EXCEPT !.rewarded = @ \cup {r.block}]

\* mark_block_rewarded, then settle_pending_reward.
Settled(c, r) ==
    [c EXCEPT !.rewarded = @ \cup {r.block},
              !.pending = {q \in @ : q.block # r.block}]

Settle(w, r) ==
    /\ call[w].pc = "settle"
    /\ Miner # NoMiner
    /\ r \in settling
    /\ settling' = settling \ {r}
    /\ IF CanSettle(r)
       THEN /\ ledger' = CreditReward(ledger, Miner, CalculateReward(r.height))
            /\ cons' = Settled(cons, r)
       ELSE UNCHANGED <<ledger, cons>>
    /\ UNCHANGED <<dag, mempool, poolFee, oracle, orphans, staked, call,
                   batch, snap, mined>>

-----------------------------------------------------------------------------
(* STEP 8: the mempool, and the error path that restores only the ledger.  *)
PoolFees == {Fee[mempool[i]] : i \in DOMAIN mempool}
LowestFee == CHOOSE f \in PoolFees : \A g \in PoolFees : f <= g

Full == Len(mempool) >= PoolSize

PoolAccepts(t) == Fee[t] >= poolFee /\ (Full => Fee[t] > LowestFee)

\* The victim is the oldest transaction that pays the lowest fee.
Victim ==
    CHOOSE i \in DOMAIN mempool :
        /\ Fee[mempool[i]] = LowestFee
        /\ \A j \in DOMAIN mempool : Fee[mempool[j]] = LowestFee => i <= j

\* Mutant: nothing is evicted.
AddInternalGrows(t) == Append(mempool, t)

AddInternal(t) == Append(IF Full THEN RemoveAt(mempool, Victim) ELSE mempool, t)

Admit(w) ==
    /\ call[w].pc = "settle" /\ settling = {}
    /\ PoolAccepts(call[w].tx)
    /\ mempool' = AddInternal(call[w].tx)
    /\ Goto(w, "save")
    /\ UNCHANGED <<dag, ledger, poolFee, oracle, cons, orphans, staked,
                   batch, snap, settling, mined>>

\* Mutant: the nonces are not rolled back.
RollbackKeepsNonces == ledger' = [snap EXCEPT !.nonce = ledger.nonce]

\* *ledger = ledger_snapshot: the ledger alone.
Rollback == ledger' = snap

AdmitFails(w) ==
    /\ call[w].pc = "settle" /\ settling = {}
    /\ ~PoolAccepts(call[w].tx)
    /\ Rollback
    /\ DropSnapshot
    /\ Finish(w)
    /\ UNCHANGED <<dag, mempool, poolFee, oracle, cons, orphans, staked,
                   batch, mined>>

-----------------------------------------------------------------------------
(* STEPs 9 and 9b, still under the write locks, then the end of the call.  *)
Save(w) ==
    /\ call[w].pc = "save"
    /\ Goto(w, "putTx")
    /\ UNCHANGED <<dag, ledger, mempool, poolFee, oracle, cons, orphans,
                   staked, batch, snap, settling, mined>>

\* ledger.save() fails: an error is returned, the memory keeps everything.
SaveFails(w) ==
    /\ call[w].pc = "save"
    /\ DropSnapshot
    /\ Finish(w)
    /\ UNCHANGED <<dag, ledger, mempool, poolFee, oracle, cons, orphans,
                   staked, batch, mined>>

PutTx(w) ==
    /\ call[w].pc = "putTx"
    /\ Goto(w, "putCons")
    /\ UNCHANGED <<dag, ledger, mempool, poolFee, oracle, cons, orphans,
                   staked, batch, snap, settling, mined>>

PutCons(w) ==
    /\ call[w].pc = "putCons"
    /\ DropSnapshot
    /\ Goto(w, "publish")
    /\ UNCHANGED <<dag, ledger, mempool, poolFee, oracle, cons, orphans,
                   staked, batch, mined>>

Publish(w) ==
    /\ call[w].pc = "publish"
    /\ Resolve(w, TRUE)
    /\ Finish(w)
    /\ UNCHANGED <<dag, ledger, mempool, poolFee, oracle, cons, staked,
                   batch, snap, settling, mined>>

-----------------------------------------------------------------------------
(* process_orphans: collect the orphans whose parents are in the DAG.      *)
StartBatchWith(s, loaded) ==
    /\ call[s].pc = "idle"
    /\ ~WriteLocked
    /\ orphans' = orphans \cup loaded
    /\ batch' = [batch EXCEPT ![s] = {t \in orphans' : HasParents(dag, t)}]
    /\ batch'[s] # {} \/ orphans' # orphans
    /\ Goto(s, "batch")
    /\ UNCHANGED <<dag, ledger, mempool, poolFee, oracle, cons, staked, snap,
                   settling, mined>>

StartBatch(s) == StartBatchWith(s, {})

\* dag.try_read() fails, a call or the mining loop writes to the DAG: the
\* orphan stays queued for the next run.
SkipOrphan(s, t) ==
    /\ call[s].pc = "batch" /\ t \in batch[s]
    /\ WriteLocked \/ mined # NoTx
    /\ LeaveBatch(s, t)
    /\ UNCHANGED <<dag, ledger, mempool, poolFee, oracle, cons, orphans,
                   staked, call, snap, settling, mined>>

EndBatch(s) ==
    /\ call[s].pc = "batch" /\ batch[s] = {}
    /\ call' = [call EXCEPT ![s] = Idle]
    /\ UNCHANGED <<dag, ledger, mempool, poolFee, oracle, cons, orphans,
                   staked, batch, snap, settling, mined>>

-----------------------------------------------------------------------------
(* The mining loop: pop the mempool, then add the transaction to the DAG.  *)
\* Mutant: the transaction is read and not popped.
MinePeek ==
    /\ mined = NoTx /\ mempool # << >>
    /\ ~WriteLocked
    /\ mined' = Head(mempool)
    /\ UNCHANGED <<dag, ledger, mempool, poolFee, oracle, cons, orphans, staked,
                   call, batch, snap, settling>>

MinePop ==
    /\ mined = NoTx /\ mempool # << >>
    /\ ~WriteLocked
    /\ mined' = Head(mempool)
    /\ mempool' = Tail(mempool)
    /\ UNCHANGED <<dag, ledger, poolFee, oracle, cons, orphans, staked, call,
                   batch, snap, settling>>

MineAdd ==
    /\ mined # NoTx
    /\ ~WriteLocked
    /\ dag' = IF CanAdd(dag, mined) THEN AddTx(dag, mined) ELSE dag
    /\ mined' = NoTx
    /\ UNCHANGED <<ledger, mempool, poolFee, oracle, cons, orphans, staked,
                   call, batch, snap, settling>>

-----------------------------------------------------------------------------
(* Staking, as the other writer of the ledger: stake_tokens takes a        *)
(* balance out; unstake_tokens closes the position, then puts it back with *)
(* the interest of the time elapsed, unless the balance would overflow.    *)
Stake(a, n) ==
    /\ ~WriteLocked
    /\ ledger.bal[a] >= n
    /\ ledger' = Subtract(ledger, a, n)
    /\ staked' = [staked EXCEPT ![a].amount = @ + n]
    /\ UNCHANGED <<dag, mempool, poolFee, oracle, cons, orphans, call, batch,
                   snap, settling, mined>>

Unstake(a, n) ==
    LET return == staked[a].amount + n IN
    /\ ~WriteLocked
    /\ staked[a].amount > 0
    /\ staked[a].paid + n \in Interest
    /\ ledger' = IF AddFits(ledger, a, return)
                 THEN AddBalance(ledger, a, return) ELSE ledger
    /\ staked' = [staked EXCEPT ![a] =
                     [amount |-> 0, paid |-> @.paid + n]]
    /\ UNCHANGED <<dag, mempool, poolFee, oracle, cons, orphans, call, batch,
                   snap, settling, mined>>

-----------------------------------------------------------------------------
Enter(w) ==
    \/ \E t \in Tx : SubmitMissing(w, t)
    \/ \E t \in Tx : SubmitReady(w, t)
    \/ StoreOrphan(w)

Pipeline(w) ==
    \/ Validate(w) \/ Reject(w)
    \/ LockBusy(w) \/ ApplyFails(w) \/ Apply(w)
    \/ \E r \in settling : Settle(w, r)
    \/ Admit(w) \/ AdmitFails(w)
    \/ Save(w) \/ SaveFails(w) \/ PutTx(w) \/ PutCons(w) \/ Publish(w)

Solve(s) ==
    \/ StartBatch(s)
    \/ \E t \in Tx : SkipOrphan(s, t)
    \/ EndBatch(s)

Staking ==
    \E a \in Stakers :
        \/ \E n \in Interest : Unstake(a, n)
        \/ \E n \in StakeAmounts : Stake(a, n)

Next ==
    \/ \E w \in Workers : Enter(w) \/ Pipeline(w)
    \/ \E s \in Solvers : Solve(s)
    \/ MinePop \/ MineAdd
    \/ Staking

Spec == Init /\ [][Next]_vars
=============================================================================
