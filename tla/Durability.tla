----------------------------- MODULE Durability -----------------------------
(***************************************************************************)
(* The node of module Processor with its disk: what ledger.save() and the  *)
(* put_* calls write to Sled, what the periodic task writes to dag.json,   *)
(* and what start_node reads back.  Sled persists a prefix of the writes,  *)
(* so each put is a step of its own and the node may crash between any two.*)
(* A put that fails is logged and otherwise ignored, but in ledger.save(). *)
(* Staking, which writes trees of its own, is in module Staking.           *)
(***************************************************************************)
EXTENDS ProcessorProperties

CONSTANTS
    KeyOrder,       \* the transactions in the order of their Sled keys
    MaxFaults,      \* bound of the model: crashes and failed puts
    Repairs         \* whether a boot may be given --repair-ledger

DurabilityAssumption ==
    /\ KeyOrder \in Seq(Tx)
    /\ ToSet(KeyOrder) = Tx
    /\ MaxFaults \in Nat
    /\ Repairs \in BOOLEAN
    /\ Stakers = {}

ASSUME DurabilityAssumption

VARIABLES
    disk,       \* the Sled trees and dag.json
    faults,     \* crashes and failed puts so far
    forgotten,  \* accounts that the maps of a repaired ledger had no entry for
    repaid      \* history: rewards the boots may have brought back once paid

durableVars == <<vars, disk, faults, forgotten, repaid>>

DiskType == [bal : [Addr -> U64], nonce : [Addr -> Nat],    \* Ledger, Nonces
             txs : SUBSET Tx,           \* Transactions
             orphans : SUBSET Tx,       \* Orphans
             pool : SUBSET Tx,          \* Mempool
             cons : SUBSET ConsType,    \* Consensus: no state, or one
             json : SUBSET Tx]          \* dag.json

\* The node after its first boot, which saved the genesis balances.
InitDisk == [bal |-> GenesisBal, nonce |-> [a \in Addr |-> 0],
             txs |-> {}, orphans |-> {}, pool |-> {}, cons |-> {}, json |-> {}]

NothingForgotten == [bal |-> {}, nonce |-> {}]

DurableInit ==
    /\ Init
    /\ disk = InitDisk
    /\ faults = 0
    /\ forgotten = NothingForgotten
    /\ repaid = 0

-----------------------------------------------------------------------------
(* Writing.                                                                *)

\* A put fails or the node dies.
Fault == faults < MaxFaults /\ faults' = faults + 1

\* Writes that reach the disk, or of which only a part does: the node goes on.
WrittenOr(whole, parts) ==
    /\ \/ disk' = whole /\ UNCHANGED faults
       \/ disk' \in parts /\ Fault
    /\ UNCHANGED forgotten

Written(d) == WrittenOr(d, {disk})

PutPool(d, t)      == [d EXCEPT !.pool = @ \cup {t}]
RemoveOrphan(d, t) == [d EXCEPT !.orphans = @ \ {t}]

NoWrite == UNCHANGED <<disk, faults, forgotten>>

\* The forgotten accounts that nothing has credited since: they have no entry,
\* read as 0, and ledger.save() passes over them.
NoBalance == {a \in forgotten.bal : ledger.bal[a] = 0}
NoNonce   == {a \in forgotten.nonce : ledger.nonce[a] = 0}

\* Once a call can no longer be rolled back, its new entries stay.
Recall == forgotten' = [bal |-> NoBalance, nonce |-> NoNonce]

BalancesToSave == {a \in Addr \ NoBalance : disk.bal[a] # ledger.bal[a]}
NoncesToSave   == {a \in Addr \ NoNonce : disk.nonce[a] # ledger.nonce[a]}

\* ledger.save() writes every balance, then every nonce; the write locks are
\* held, so the ledger stands still meanwhile.
SaveBalance(w) ==
    /\ call[w].pc = "save"
    /\ \E a \in BalancesToSave :
          disk' = [disk EXCEPT !.bal[a] = ledger.bal[a]]
    /\ UNCHANGED <<vars, faults, forgotten>>

SaveNonce(w) ==
    /\ call[w].pc = "save"
    /\ BalancesToSave = {}
    /\ \E a \in NoncesToSave :
          disk' = [disk EXCEPT !.nonce[a] = ledger.nonce[a]]
    /\ UNCHANGED <<vars, faults, forgotten>>

\* Mutant: the transaction is put whether or not the ledger was saved.
LedgerSavedNot == TRUE

LedgerSaved == BalancesToSave = {} /\ NoncesToSave = {}

\* put_mempool_tx, and the removal of an orphan that was processed.
Announce(w, t) ==
    IF w \in Clients
    THEN Written(PutPool(disk, t))
    ELSE WrittenOr(RemoveOrphan(PutPool(disk, t), t),
                   {disk, PutPool(disk, t), RemoveOrphan(disk, t)})

Persist(w) ==
    \/ SaveBalance(w) \/ SaveNonce(w)
    \/ LedgerSaved /\ Save(w) /\ Recall /\ UNCHANGED <<disk, faults>>
    \/ SaveFails(w) /\ Fault /\ Recall /\ UNCHANGED disk
    \/ PutTx(w) /\ Written([disk EXCEPT !.txs = @ \cup {call[w].tx}])
    \/ PutCons(w) /\ Written([disk EXCEPT !.cons = {cons}])
    \/ Publish(w) /\ Announce(w, call[w].tx)

\* An orphan is put before it is queued in memory, and removed after it has
\* left the queue.
Shelve(w) ==
    \/ StoreOrphan(w) /\ Written([disk EXCEPT !.orphans = @ \cup {call[w].tx}])
    \/ /\ Reject(w) \/ ApplyFails(w)
       /\ IF orphans' = orphans THEN NoWrite
                               ELSE Written(RemoveOrphan(disk, call[w].tx))

\* After a boot that lost a transaction the consensus state may know its block
\* already: STEP 7 returns an error with the height advanced, and leaves the
\* ledger and the DAG as they are.
ApplyNotQueued(w) ==
    LET t == call[w].tx IN
    /\ call[w].pc = "validated"
    /\ Applicable(t)
    /\ Miner # NoMiner /\ ~CanQueue(cons, t)
    /\ ledger' = CommitNonce(Transfer(ledger, t), t)
    /\ dag' = AddTx(dag, t)
    /\ cons' = [cons EXCEPT !.height = @ + 1]
    /\ Finish(w)
    /\ UNCHANGED <<mempool, poolFee, oracle, orphans, staked, batch, snap,
                   settling, mined>>

\* The steps that leave the disk alone.
Compute(w) ==
    /\ \/ \E t \in Tx : SubmitMissing(w, t) \/ SubmitReady(w, t)
       \/ Validate(w) \/ LockBusy(w) \/ Apply(w) \/ ApplyNotQueued(w)
       \/ \E r \in settling : Settle(w, r)
       \/ Admit(w) \/ AdmitFails(w)
    /\ NoWrite

SolveDurably(s) ==
    /\ \/ StartBatchWith(s, disk.orphans)
       \/ \E t \in Tx : SkipOrphan(s, t)
       \/ EndBatch(s)
    /\ NoWrite

Mine ==
    \/ MinePop /\ Written([disk EXCEPT !.pool = @ \ {mined'}])
    \/ MineAdd /\ NoWrite

\* The periodic save_dag_to_json, which replaces the file atomically.  Once
\* Sled holds a transaction nobody reads the file, so its changes are left out.
SaveJson ==
    /\ ~WriteLocked
    /\ disk.txs = {}
    /\ disk.json # dag.txs
    /\ disk' = [disk EXCEPT !.json = dag.txs]
    /\ UNCHANGED <<vars, faults, forgotten>>

-----------------------------------------------------------------------------
(* Booting: what start_node rebuilds from the disk.                        *)

\* A genesis account whose balance is zero gets its genesis balance again.
RestoredBalances == [a \in Addr |->
    IF disk.bal[a] = 0 THEN GenesisBal[a] ELSE disk.bal[a]]

\* The supply counter is the sum of the balances but the burn address's, in
\* u64 arithmetic.
SupplyOf(bal) == SumFunctionOnSet(bal, Addr \ {Burn}) % (U64Max + 1)

\* Mutant: the burn counter starts again from zero.
RestoredLedgerUnburned ==
    [bal |-> RestoredBalances, nonce |-> disk.nonce, burned |-> 0,
     supply |-> SupplyOf(disk.bal)]

\* new_with_storage, then the genesis check, which leaves the supply alone.
RestoredLedger ==
    [bal    |-> RestoredBalances,
     nonce  |-> disk.nonce,
     burned |-> disk.bal[Burn],
     supply |-> SupplyOf(disk.bal)]

\* Sled's transactions and orphans; dag.json only when Sled has neither.
Stored ==
    IF disk.txs \cup disk.orphans # {} THEN disk.txs \cup disk.orphans
                                       ELSE disk.json

InKeyOrder(S) ==
    FoldLeft(LAMBDA q, t : IF t \in S THEN Append(q, t) ELSE q,
             << >>, KeyOrder)

BootOrder == InKeyOrder(disk.txs) \o InKeyOrder(Stored \ disk.txs)

\* Mutant: the DAG's refusals are skipped.
PlaceUnchecked(built, t) ==
    IF t \notin built.left \/ ~HasParents(built.dag, t)
    THEN built
    ELSE [dag |-> AddTx(built.dag, t), left |-> built.left \ {t}]

\* One iteration of the rebuild: a transaction whose parents are there is
\* added, or dropped if the DAG refuses it; any other is kept for later.
Place(built, t) ==
    IF t \notin built.left \/ ~HasParents(built.dag, t)
    THEN built
    ELSE [dag  |-> IF CanAdd(built.dag, t) THEN AddTx(built.dag, t)
                                           ELSE built.dag,
          left |-> built.left \ {t}]

\* Mutant: one pass.
RebuiltOnce == FoldLeft(Place, [dag |-> EmptyDag, left |-> Stored], BootOrder)

\* Pass after pass until nothing moves: no more passes than transactions.
Rebuilt ==
    FoldLeft(LAMBDA built, pass : FoldLeft(Place, built, BootOrder),
             [dag |-> EmptyDag, left |-> Stored], BootOrder)

RestoredCons ==
    IF disk.cons = {}
    THEN [InitCons EXCEPT !.height = Cardinality(Rebuilt.dag.txs)]
    ELSE CHOOSE c \in disk.cons : TRUE

RestoredPool ==
    FoldLeft(LAMBDA q, t : IF Len(q) < PoolSize /\ Fee[t] >= 1
                           THEN Append(q, t) ELSE q,
             << >>, InKeyOrder(disk.pool))

-----------------------------------------------------------------------------
(* --repair-ledger: the balances and nonces are computed anew from genesis *)
(* and the DAG.  Rewards, which are no transactions, are lost.             *)

ReplayStart == [ledger |-> InitLedger, left |-> Rebuilt.dag.txs,
                paid |-> {}, progress |-> TRUE]

InsufficientBalance(l, t) ==
    Cost(t) <= U64Max /\ l.bal[Sender[t]] < Cost(t)

RaiseNonce(l, t) ==
    [l EXCEPT !.nonce[Sender[t]] = IF AccountNonce[t] > @ THEN AccountNonce[t]
                                                         ELSE @]

\* One transaction: it waits for its parents and for its sender's money; what
\* fails for another reason is skipped, and that is no progress.
ReplayTx(r, t) ==
    IF \/ t \notin r.left
       \/ ParentSet(t) \cap r.left # {}
       \/ InsufficientBalance(r.ledger, t)
    THEN r
    ELSE IF TransferFits(r.ledger, t)
    THEN [ledger |-> RaiseNonce(Transfer(r.ledger, t), t),
          left |-> r.left \ {t}, paid |-> r.paid \cup {t}, progress |-> TRUE]
    ELSE [r EXCEPT !.left = @ \ {t}]

\* Passes in one order, the DAG's hash map's, while a pass makes progress.
Replay(order) ==
    FoldLeft(LAMBDA r, pass :
                 IF r.progress
                 THEN FoldLeft(ReplayTx, [r EXCEPT !.progress = FALSE], order)
                 ELSE r,
             ReplayStart, order)

RepairedLedger(r) ==
    [r.ledger EXCEPT
        !.burned = r.ledger.bal[Burn],
        !.supply = SupplyOf(r.ledger.bal)]

\* The accounts the repaired ledger has no entry for.
Forgotten(r) ==
    [bal |-> Addr \ ({a \in Addr : GenesisBal[a] > 0}
                     \cup UNION {{Sender[t], Receiver[t], Burn} : t \in r.paid}),
     nonce |-> Addr \ {Sender[t] : t \in r.paid}]

\* ledger.save() at the end of the boot inserts, and removes nothing: what the
\* repaired ledger forgot keeps its old value on the disk.
Inserted(saved, entries, missing) ==
    [a \in Addr |-> IF a \in missing THEN saved[a] ELSE entries[a]]

-----------------------------------------------------------------------------
(* The rewards that a boot may owe again.                                  *)
\* The rewards of the heights that are final at height h.
FinalEmission(h) == IF h < Threshold THEN 0 ELSE Emission(h - Threshold)

Overdue(c) == SumFunction([r \in FinalizedPending(c) |->
                              CalculateReward(r.height)])

\* What may have been paid since the consensus state c was saved: what was
\* overdue in c, and what became final at the heights reached since.
PaidSince(c) ==
    Overdue(c) + (IF c.height < cons.height
                  THEN FinalEmission(cons.height) - FinalEmission(c.height)
                  ELSE 0)

\* The node dies at any moment and boots: the memory is what the disk gives.
Boot(l, missing) ==
    /\ Fault
    /\ repaid' = repaid + PaidSince(RestoredCons)
    /\ ledger' = l
    /\ forgotten' = missing
    /\ disk' = [disk EXCEPT
                    !.bal = Inserted(RestoredBalances, l.bal, missing.bal),
                    !.nonce = Inserted(@, l.nonce, missing.nonce)]
    /\ dag' = RebuildTips(Rebuilt.dag)
    /\ orphans' = Rebuilt.left
    /\ cons' = RestoredCons
    /\ mempool' = RestoredPool
    /\ poolFee' = 1 /\ oracle' = 1
    /\ call' = [w \in Workers |-> Idle]
    /\ batch' = [s \in Solvers |-> {}]
    /\ mined' = NoTx
    /\ DropSnapshot
    /\ UNCHANGED staked

Crash == Boot(RestoredLedger, NothingForgotten)

CrashRepair ==
    /\ Repairs
    /\ \E order \in SetToSeqs(Rebuilt.dag.txs) :
          LET r == Replay(order) IN Boot(RepairedLedger(r), Forgotten(r))

Running ==
    \/ \E w \in Workers : Compute(w) \/ Persist(w) \/ Shelve(w)
    \/ \E s \in Solvers : SolveDurably(s)
    \/ Mine \/ SaveJson

DurableNext ==
    \/ Running /\ UNCHANGED repaid
    \/ Crash \/ CrashRepair

DurableSpec == DurableInit /\ [][DurableNext]_durableVars

-----------------------------------------------------------------------------
(* What survives a crash between any two writes.                           *)
\* The ledger is saved before the transaction (STEP 9, then 9b): what is on
\* disk has had its nonce saved, and a saved nonce is never accepted again.
\* Every put, also half of a save, leaves trees a boot can read.
PersistOrder ==
    /\ disk \in DiskType
    /\ \A t \in disk.txs :
          Sender[t] # Faucet => AccountNonce[t] <= disk.nonce[Sender[t]]
    /\ \A a \in Addr : disk.nonce[a] <= VisibleLedger.nonce[a]

\* The consensus state that is restored owes no reward twice and none that it
\* has marked as given.
SavedRewards ==
    \A c \in disk.cons \cup {cons} :
        /\ QueuedBlocks(c) \cap c.rewarded = {}
        /\ \A r, q \in c.pending :
              r.block = q.block \/ r.height = q.height => r = q
        /\ \A r \in c.pending : r.height \in 1 .. c.height

\* Whatever the order of the Sled keys, the rebuild brings back every
\* transaction if none misses a parent and no orphan is left beside them.
RebuildComplete ==
    LET saved == [txs |-> disk.txs, tips |-> {}] IN
    (disk.orphans = {} /\ disk.txs # {} /\ ParentClosed(saved)
        /\ ParentPairUnique(saved))
        => Rebuilt.dag.txs = disk.txs /\ Rebuilt.left = {}

\* The ledger is saved before the consensus state, so a crash between the two
\* brings back debts that were paid, although consensus.rs:245 says a settled
\* reward leaves the queue.  What the miner has and is owed exceeds the emission
\* by no more than what a boot can have missed: rewards that became final at the
\* heights it lost, and those that were overdue in what it restored.  More than
\* one reward per crash may be: a block known already advances the height and
\* settles nothing (STEP 7), so that the next call settles several.
\* Stated for a miner who neither pays nor is paid.
RewardsRepeated ==
    (Miner \in Addr /\ \A t \in Tx : Miner \notin {Sender[t], Receiver[t]}) =>
        ledger.bal[Miner] + Owed
            <= GenesisBal[Miner] + Emission(cons.height) + repaid

-----------------------------------------------------------------------------
(* Promises of the documentation that a crash breaks.                      *)

\* transaction_processor.rs:199 calls the settlement "the ONLY way to create
\* new tokens": booting creates none.  A genesis account that has spent all it
\* had is given its genesis balance again.
BootMintsNothing == ~WriteLocked => Total(RestoredBalances) = Total(disk.bal)
=============================================================================
