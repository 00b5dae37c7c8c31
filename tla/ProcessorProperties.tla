------------------------ MODULE ProcessorProperties ------------------------
(***************************************************************************)
(* What the running node of module Processor promises: invariants, action  *)
(* properties, the refinement of AtomicBank, and liveness.                 *)
(***************************************************************************)
EXTENDS Processor

TypeOK ==
    /\ dag \in DagType
    /\ ledger \in LedgerType
    /\ mempool \in Seq(Tx)
    /\ poolFee \in Nat
    /\ oracle \in Nat
    /\ cons \in ConsType
    /\ orphans \in SUBSET Tx
    /\ staked \in [Stakers -> [amount : Nat, paid : Nat]]
    /\ call \in [Workers -> CallType]
    /\ batch \in [Solvers -> SUBSET Tx]
    /\ snap \in LedgerType
    /\ settling \in SUBSET Pending
    /\ mined \in Tx \cup {NoTx}

-----------------------------------------------------------------------------
\* However submissions, orphans and the mining loop interleave, the DAG has
\* every parent, one transaction per pair of parents and, the faucet exempt, per
\* (sender, nonce), and its explicit tips are exactly its childless transactions
\* (add_transaction_validated; NonceSpentOnce is about the faucet).
DagWellFormed ==
    /\ ParentClosed(dag)
    /\ NonceUnique(dag)
    /\ ParentPairUnique(dag)
    /\ TipsAreChildless(dag)

NoncesOf(d, a) == {AccountNonce[t] : t \in {u \in d.txs : Sender[u] = a}}

\* The DAG holds the nonces 1..n of an account whose committed nonce is n,
\* and at most the next one besides: what a submission refused by the mempool
\* leaves behind (transaction_processor.rs, STEP 8) is never more than that.
NonceTracksDag ==
    \A a \in Addr \ {Faucet} :
        LET n == ledger.nonce[a] IN
        NoncesOf(dag, a) \in {1 .. n, 1 .. n + 1}

-----------------------------------------------------------------------------
\* The rewards of the first h heights.
Emission(h) == SumFunction([n \in 1 .. h |-> CalculateReward(n)])

Total(bal) == SumFunctionOnSet(bal, Addr)
AllStaked == SumFunction([a \in Stakers |-> staked[a].amount])
AllPaid   == SumFunction([a \in Stakers |-> staked[a].paid])

\* u64 has room for every coin that genesis, rewards and interest have made:
\* as long as it does no addition of coins overflows, and none is refused.
RoomForCoins == Total(GenesisBal) + Emission(cons.height) + AllPaid <= U64Max

\* The transactions the ledger has committed, for accounts but the faucet.
Committed == {t \in dag.txs : AccountNonce[t] <= ledger.nonce[Sender[t]]}

Received(a) == {t \in Committed : Receiver[t] = a /\ a # Burn}
Sent(a)     == {t \in Committed : Sender[t] = a}

\* The ledger can be replayed from the DAG: each account holds what it got at
\* genesis and from committed transactions, less what it sent, plus its
\* rewards and interest; the burn address holds the fees and nothing else.
\* Rollbacks, self-payments and stakes included (transfer_internal, STEPs 3-8).
\* Stated for transactions of ordinary accounts, since the faucet may reuse a
\* nonce, and while u64 has room, since unstake_tokens drops what overflows.
LedgerReplaysDag ==
    ((\A t \in Tx : Sender[t] # Faucet) /\ RoomForCoins) => \A a \in Addr :
        ledger.bal[a] + (IF a \in Stakers THEN staked[a].amount ELSE 0)
            + SumFunction([t \in Sent(a) |-> Cost(t)])
        = GenesisBal[a]
            + SumFunctionOnSet(Amount, Received(a))
            + (IF a = Burn THEN SumFunctionOnSet(Fee, Committed) ELSE 0)
            + (IF a = Miner THEN ledger.supply ELSE 0)
            + (IF a \in Stakers THEN staked[a].paid ELSE 0)

\* total_fees_burned is always the balance of the burn address, which is how
\* new_with_storage reconstructs it, payments to that address included.
BurnAgrees == ledger.burned = ledger.bal[Burn]

-----------------------------------------------------------------------------
Owed == SumFunction([r \in cons.pending |-> CalculateReward(r.height)])

\* Nothing but the emission and the interest of staking makes coins, the faucet
\* and its repeated nonces included.  (A payment to the burn address destroys
\* some, and so does an interest that would overflow.)
CoinsAccounted ==
    Total(ledger.bal) + AllStaked
        <= Total(GenesisBal) + ledger.supply + AllPaid

\* What was minted and what is still owed never exceed the rewards of the
\* heights reached: no height is paid twice, whatever was rolled back
\* (queue_pending_reward, apply_block_reward, the settle loop of STEP 7).  The
\* cap is that of the counter total_supply, which holds the rewards only on a
\* first boot and counts the coins of genesis after a restart (ledger.rs:128).
EmissionBound ==
    /\ ledger.supply + Owed <= Emission(cons.height)
    /\ ledger.supply <= MaxSupply
    /\ CoinsAccounted

\* A block is either owed its reward or has been rewarded, never both, and
\* two blocks are never owed the reward of the same height.
RewardOnce ==
    /\ cons.rewarded \cup QueuedBlocks(cons) \subseteq dag.txs
    /\ \A r \in cons.pending :
          r.block \notin cons.rewarded /\ r.height \in 1 .. cons.height
    /\ \A r, q \in cons.pending :
          r.block = q.block \/ r.height = q.height => r = q

\* Outside STEP 7 no reward that has reached finality is left waiting, as long
\* as cap and u64 leave room for every reward: the queue does not grow behind
\* the confirmation threshold.
SettledPromptly ==
    (~WriteLocked /\ Emission(cons.height) <= MaxSupply /\ RoomForCoins)
        => FinalizedPending(cons) = {}

-----------------------------------------------------------------------------
\* The mempool holds no transaction twice and none that the DAG lacks, nor
\* does the mining loop: so adding what it popped never changes the DAG.
MempoolInDag ==
    /\ ToSet(mempool) \cup ({mined} \ {NoTx}) \subseteq dag.txs
    /\ \A i, j \in DOMAIN mempool : mempool[i] = mempool[j] => i = j
    /\ Len(mempool) <= PoolSize

\* An orphan leaves the queue only once it is in the DAG or can never enter
\* it (process_orphans keeps it on a temporary error).
OrphansKept ==
    [][\A t \in orphans : t \notin orphans' =>
           Conflicts(dag', t)]_<<orphans, dag>>

-----------------------------------------------------------------------------
\* Readers cannot see the ledger between STEP 2 and the outcome of STEP 8: to
\* them it is the snapshot, and the whole pipeline is one step of the bank.
VisibleLedger ==
    IF \E w \in Workers : call[w].pc = "settle" THEN snap ELSE ledger

Bank == INSTANCE AtomicBank WITH book <- VisibleLedger, stake <- staked

\* The pipeline, with its snapshot, rollbacks and settle loop, implements
\* AtomicBank: no reader ever sees half a payment, or one that was refused.
ImplementsBank == Bank!Spec

-----------------------------------------------------------------------------
(* Fairness.  Tokio runs every ready task: a step that stays enabled is    *)
(* taken.  Nothing more is assumed of the node; what else a promise needs  *)
(* is its premise.  Clients are not obliged to submit anything.            *)
Fairness ==
    /\ \A w \in Workers :
          /\ WF_vars(StoreOrphan(w))
          /\ WF_vars(Validate(w) \/ Reject(w))
          /\ WF_vars(LockBusy(w) \/ ApplyFails(w) \/ Apply(w))
          /\ WF_vars(\E r \in settling : Settle(w, r))
          /\ WF_vars(Admit(w) \/ AdmitFails(w))
          /\ WF_vars(Save(w) \/ SaveFails(w))
          /\ WF_vars(PutTx(w)) /\ WF_vars(PutCons(w)) /\ WF_vars(Publish(w))
    /\ \A s \in Solvers :
          /\ WF_vars(StartBatch(s))
          /\ WF_vars(EndBatch(s))
          /\ WF_vars(\E t \in Tx : SubmitReady(s, t) \/ SkipOrphan(s, t))
    /\ WF_vars(MineAdd)

FairSpec == Spec /\ Fairness

\* Whoever waits for the consensus lock, or in the mining loop for the DAG, is
\* served although others take it meanwhile.  The queue of the lock gives that
\* as long as no task holds a lock for ever: module Locks, unless get_dag_stats
\* (rpc.rs:1211) meets a submission and the mining loop.
LocksServe ==
    /\ \A w \in Workers : SF_vars(Validate(w) \/ Reject(w))
    /\ SF_vars(MineAdd)

\* Mining was started and nobody stops it for good (stop_mining, rpc.rs:1788).
MiningOn == SF_vars(MinePop)

\* The solver, which tries again every round, does not find the DAG locked by
\* its try_read (rpc.rs:948) whenever it tries.
SolverGetsIn == \A s \in Solvers : SF_vars(\E t \in Tx : SubmitReady(s, t))

\* While it runs, the mining loop hands on every transaction the mempool
\* accepted.
MempoolDrains ==
    LocksServe /\ MiningOn =>
        \A t \in Tx : t \in ToSet(mempool) ~> t \notin ToSet(mempool)

\* An orphan that can never be accepted, because it or a rival entered the
\* DAG by another way, leaves the orphan queue.
OrphansPurged ==
    LocksServe /\ SolverGetsIn =>
        \A t \in PureValid :
            (t \in orphans /\ HasParents(dag, t) /\ Conflicts(dag, t))
                ~> t \notin orphans

-----------------------------------------------------------------------------
(* Promises of the documentation that the code does not keep: STEP 8, when *)
(* the mempool refuses a transaction, restores the ledger and nothing else.*)

\* README.md:78 lists "Atomicité avec rollback", and the pipeline's comment
\* says "10. Rollback on any error": a transaction in the DAG is one the
\* ledger has charged.  A refused one stays in the DAG, where it bars its
\* sender's next nonce: no other transaction of the account gets in.
DagImpliesCharged ==
    ~WriteLocked =>
        \A t \in dag.txs :
            Sender[t] # Faucet => AccountNonce[t] <= ledger.nonce[Sender[t]]

\* ledger.rs:369 says that has_sender_conflict "rejects any (sender,
\* account_nonce) pair already in the DAG", the faucet's above all, whose nonces
\* the ledger does not check.  But has_sender_conflict lets the faucet pass
\* (parent_selection.rs:400): it spends a nonce as often as it likes.
NonceSpentOnce ==
    \A t, u \in dag.txs :
        Sender[t] = Sender[u] /\ AccountNonce[t] = AccountNonce[u] => t = u
=============================================================================
