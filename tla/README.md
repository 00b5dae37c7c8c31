# Verification of the Aether node

TLA+ modules for the node under `src/`: the DAG, the ledger, the transaction
pipeline, rewards, mempool, orphan solver, mining loop and staking of one node;
what a crash leaves of them on disk; how several nodes exchange transactions and
how a node keeps its peers; and the smaller parts of the library that keep a
state of their own. TLC checks them on small instances; TLAPS proves thirty-nine
theorems about them for every instance. `PROJECT.json` maps each definition to the
lines it models and lists, at its line, everything here that is hard to test.

## The system

| Part | State | Operations | Correct when |
|---|---|---|---|
| Validation (`validation.rs`, `transaction.rs`) | none | `validate_pure`, `validate_dag`, `validate_ledger` | what passes can be applied if nothing moved meanwhile |
| Ledger (`ledger.rs`, `genesis.rs`) | balances, nonces, fees burned, supply | `transfer_internal`, `validate_and_commit_nonce_internal`, `apply_block_reward`, `save` | replays from the accepted transactions; burn counter = burn balance; supply within `MAX_SUPPLY` |
| DAG (`parent_selection.rs`) | transactions, children, tips | `add_transaction_validated`, `rebuild_tips`, `select_parents`, `get_ancestors`, weights | parent-closed, one transaction per (sender, nonce) and per pair of parents, tips = childless; selected parents can be used |
| Pipeline (`rpc.rs` `process_transaction`, `transaction_processor.rs`) | the locks, a ledger snapshot | STEPs 1 to 9b, error paths | a payment happens whole or not at all |
| Mempool, fee oracle (`rpc.rs`) | queue, minimum fee, base fee | `add_internal`, `pop_front`, `adjust` | bounded, no duplicates, only transactions of the DAG; the fee comes down again |
| Consensus state (`consensus.rs`) | height, rewarded blocks, pending rewards | queue, finalise, settle; scores, confirmations | each height paid once, after `confirmation_threshold`; counts bound the descendants |
| Orphan solver (`rpc.rs` `process_orphans`) | orphan queue in memory and on disk | collect, resubmit, drop, ask for parents | an orphan leaves when it is accepted or can never be, and does not wait for ever |
| Mining loop (`node.rs`) | the transaction popped | pop, add to DAG | never damages the DAG; the mempool drains |
| Staking (`rpc.rs`, `storage.rs`) | positions, validators | stake, unstake | coins move and are neither made nor lost |
| Persistence, boot (`storage.rs`, `node.rs`, `json_storage.rs`) | Sled trees, `dag.json` | puts, rebuild of DAG, ledger, consensus state and mempool, `--repair-ledger`, migration | a boot brings back what was acknowledged |
| P2P (`p2p.rs`) | connection table, known peers, seen cache, channels | handshake, gossip, inventory, requests, dialling, heartbeat, reconnection | what is said once gets to everybody; reachable bootnodes are connected |
| VQV votes (`consensus.rs`) | validators, votes | register, select a quorum, vote, tally | rivals are not both approved |
| Economics (`economics.rs`, `consensus.rs`) | emission curve, balances | `distribute_mining_reward` | the cap holds and curve and balances agree |
| Locks (`rpc.rs`, `node.rs`, `p2p.rs`) | who has which and who waits | every `read`, `write`, `try_read`, `try_write` of a handler | nobody waits in a circle, every request ends |
| Faucet, status, limiter (`rpc.rs`) | cooldowns, buckets | `faucet`, `check`, status of one and of several nodes | one payment per cooldown; a status rests on nodes that have what it says |
| Reputation, PoW, explorer, security audit, wallet, GUI, CLI | own or none | | not on the path of a transaction |

How they meet: RPC handlers and the P2P receiver call `process_transaction`,
which quotes a fee (shared oracle), writes it into the mempool (shared), waits
for the consensus write lock and runs `TransactionProcessor::process`. That
validates under read locks, drops them, takes the write locks on DAG, ledger and
mempool with `try_write`, and holds them up to the end of the last put. The
solver calls the same function for each orphan. The mining loop takes the
mempool and DAG locks one after the other and staking takes the ledger lock;
neither takes the consensus lock around it. Statistics take the DAG's lock and
then the consensus lock, the other way round. The handlers of p2p look into the
DAG through callbacks that use `try_read` and pass received transactions to the
receiver through a channel.

What is hard: the steps between two lock operations interleave with mining,
staking and other submissions; an error after STEP 6 rolls back the ledger only;
the fee that validates a transaction is not the one the mempool applies; each
put is a separate write and the node may die between any two; a boot rebuilds
the DAG from keys in hash order with orphans among them; messages arrive by
several ways, in pages, and a transaction is marked as seen before it is known
whether it is taken; a handler that ends cleans up after a connection that may
not be its own; and locks are awaited with others in hand.

## The modules

| Module | Models |
|---|---|
| `Transactions` | the transactions that can reach the node: constant fields, because an id is the hash of its fields. `PureValid` are those that pass the stateless checks |
| `Ledger` | `ledger.rs` as operators on a ledger value, u64 bounds and halving included |
| `Dag` | `struct DAG` as operators on a set of transactions and its explicit tips |
| `FeeRules` | one adjustment of the fee oracle |
| `Processor` | the running node: one action per step between two lock operations |
| `AtomicBank` | abstract: a book in which a payment is one step |
| `ProcessorProperties` | invariants, action properties, the refinement of `AtomicBank`, fairness and liveness |
| `Durability` | `Processor` with its disk: each put a step, crash, boot, repair |
| `Staking` | the two staking requests step by step, with position, ledger, validators, failed writes and crashes |
| `DagQueries` | what is computed on a DAG: parent selection, ancestors, weights, tips, confirmations, scores, statuses |
| `Growth` | a DAG that grows, and what `DagQueries` must answer on it |
| `Sync` | several nodes: gossip, inventory, requests, seen cache, receiver, solver, and the status drawn from their reports |
| `Peers` | the connection table of one node: dialling tasks and handlers |
| `QuorumVotes` | VQV: validators, quorums, votes |
| `Emission` | the emission curve and the balances it credits |
| `FaucetCalls` | concurrent faucet requests |
| `Meters` | rate limiter and fee oracle under time and load |
| `Locks` | every handler as the sequence of the locks it asks for, and tokio's queues |
| `Migration` | the first boots of a node with files from before Sled |
| `Facts` | lemmas about sums over sets, least and greatest numbers, and sequences of states, with proofs |
| `DagFacts` | lemmas about `Dag` and `DagQueries`: what a DAG that has grown looks like, and what the searches on it compute |
| `ProcessorProofs`, `BankProofs` | theorems about `Processor`; the second, on top of the first, about the coins |
| `DurabilityProofs` | theorems about `Durability`, on top of `BankProofs` |
| `StakingProofs` | theorems about `Staking` |
| `SyncProofs` | theorems about `Sync` |
| `PartsProofs` | theorems about `Growth`, `QuorumVotes`, `Emission`, `Meters`, `FaucetCalls`, `Migration` and `Locks` |
| `MCProcessor`, `MCDurability`, `MCStaking`, `MCSync`, `MCGrowth`, `MCLocks`, `MCParts` | instances for TLC |

`Transactions`, `Ledger`, `Dag` and `FeeRules` are extended by `Processor`, that
by `ProcessorProperties`, that by `Durability`. `Sync` and `Growth` extend
`DagQueries`, which extends `Dag`. `MCParts` puts the parts that share no state
next to each other: a behaviour moves one of them, so that one run explores each
by itself. An operator under a comment "Mutant" is a plausible bug of the
definition after it; no other definition uses it.

### Processor

`dag`, `ledger`, `mempool`, `poolFee` (`Mempool.min_fee`), `oracle`
(`FeeOracle.base_fee`), `cons` (`ConsensusState`) and `orphans` are the shared
objects; `call[w]` is the control point, the transaction and the quoted fee of a
submission in flight; `snap` is `ledger_snapshot`, `settling` what the settle
loop has still to visit, `batch` `orphans_to_process`, `mined` the transaction
the mining loop has popped. The locks are not variables: `WriteLocked` and
`ConsensusLocked` read off `call` who holds them.

| Code | Action |
|---|---|
| parents looked up, some missing; orphan stored | `SubmitMissing`, `StoreOrphan` |
| parents looked up, fee quoted and written to the mempool | `SubmitReady` (four locks, one step) |
| consensus lock, STEP 1 | `Validate`, `Reject` |
| STEP 2 fails | `LockBusy` |
| STEPs 2 to 6 and the queueing of STEP 7 (all under the write locks) | `Apply`, or `ApplyFails`, `ApplyNotQueued` |
| the settle loop of STEP 7 | `Settle`, once per reward |
| STEP 8 | `Admit`, `AdmitFails` |
| STEP 9, 9b | `Save`, `SaveFails`, `PutTx`, `PutCons` |
| the end of `process_transaction` | `Publish` |
| `process_orphans` | `StartBatch`, `SkipOrphan`, the submission, `EndBatch` |
| the mining loop | `MinePop`, `MineAdd` |
| staking, in one step | `Stake`, `Unstake` |

An unstake whose credit does not fit u64 closes the position all the same
(rpc.rs:1559 returns after the position is gone); `AtomicBank` says so too.

### Durability

Each action of `Processor` is conjoined with what it writes to `disk`; `Save` is
one put per balance and nonce; any put but those of `ledger.save()` may fail
without notice (the code logs and goes on). `Crash` sets the memory to what
`start_node` reads back; consensus state and ledger are restored from different
writes, as in the code. `CrashRepair` is a boot with `--repair-ledger`: it
replays the rebuilt DAG in any order (`Replay` goes through a hash map), pass by
pass as long as one makes progress. Rewards are not replayed; a transaction
whose money arrives too late in that order stays out, although node.rs:366 says
that a valid one is never dropped. `ledger.save()` only inserts, so accounts
that the replay did not touch keep their old balance and nonce on disk, and the
next ordinary boot brings these back: `forgotten` remembers which. The saves of
the boot itself are one step with it. `repaid` is a history variable: no guard
reads it, and a boot adds to it the rewards that may have been paid since the
consensus state it restores was put (`PaidSince`).

### Staking

`bal` and `saved` are the balances in memory and in Sled, `pos` is
`staked_amount` in Sled's staking tree, `validators` the map of the consensus
engine, `req[c]` the control point of a request with its amount and what it has
read. An action is a step between two lock operations, two inserts or, for a
position, between its read and its write, since both happen under a shared lock.
`stake_tokens`: `Withhold`, `ReadPosition`, `PutPosition` or `PutFails`, the
save, `ReadAgain`, `Register`, with `GiveBack` for both roll-backs. `unstake_tokens`:
`ReadStake`, `Close` or `CloseFails`, `Credit`, the save, `Unregister`. `Crash`
keeps `saved` and `pos` and forgets the validators, as `start_node` registers
none.

### Sync

Per node: `dag`, `orphans`, `batch`, `seen` (`seen_transactions`), `inbox`
(`tx_channel`), `peers`. Per direction of a connection: `wire`, a FIFO, and
`todo`, what the handler found new in the message at hand and has still to mark
and pass on. Every message type has its action, named after what the handler
hears (`HearInventory`, `HearGetData`, ...); `Hand` is one turn of the loop that
marks a transaction and gives it to the receiver, `Receive` the receiver,
`Wake` and `Resubmit` the solver, `Greet` the start of a handler, which sends
tips and asks for the inventory. `Forget` is the cache cleaner, `Cut` the loss
of a connection with what was on it. Both ends of a connection greet, each in
its own time, and only when the handler of the connection before is done.
A callback that finds the DAG locked sees an empty one (`Views`); one that looks
up single hashes tries the lock for each of them, so that it may find some and
miss others (`Finds`). A `try_write` that fails refuses the transaction.

Each node submits and relays as `process_transaction` does, with what depends on
the order of arrival: parents, conflicts, nonces. Every sender can pay and the
mempools are empty. The receiver and the solver of a node act in turn, since both
work on one batch; two concurrent runs are the business of `Processor`.

### Peers

`peers` is the table, `handlers` counts the handler tasks by address, phase and
whether the table's entry is theirs, `known` and `discovery` are `known_peers`
and the discovery channel. `DialNext` stands for `start()` and the heartbeat, which
dial each bootnode in turn; the tasks start after the first round (`started`).
`Look` and `Reconnect` are the reconnection task before and after its sleep,
`ResolveAtStart` the DNS look-up of the start, which dials whatever is not
connected, `ResolveAgain` the periodic one, which dials what is new; `HearOf` and
`Discover` are peer exchange, `End` is the clean-up of a handler, which removes
whatever entry its address has. Other actions are the network.

### Locks

A handler is a sequence of stops. A stop asks for a guard (a lock, for reading
or writing), holds some, and either waits or tries; at some it may return
instead. `doing[t]` is the handler a task runs and the stop it has come to,
`queue[l]` who waits for a lock in order. `Available` and `Grant` are tokio's
`RwLock`: a writer in the queue keeps out the readers behind it and makes
`try_read` fail. A handler that holds nothing may as well have returned, so long
functions are cut where they hold nothing, which keeps the sequences short.

### The parts

`Growth` inserts transactions in any order; its queries are operators.
`FaucetCalls` keeps the parents of each transaction only. `Meters` lets time
pass and the mempool fill and drain at will. `QuorumVotes` takes any set of the
right size for a quorum: each node shuffles its validators from the order of a
hash map, so two nodes disagree, although consensus.rs calls the choice
deterministic. `Migration` stops the node between any two puts.

## The runs

| Run | Instance | Shows |
|---|---|---|
| `rivals` | client, solver, mempool of one, four transactions: two for one nonce, two for one pair of parents, a payment to the burn address, one to oneself; Alice stakes; mining | the safety properties of the pipeline, and that it implements `AtomicBank` |
| `live` | client and solver; faucet nonces 5, 2, 2, an account the faucet funds, two transactions for one pair of parents; supply cap of two units | no coins are made but the emission and the cap binds and holds, also when nonces repeat; the mempool drains and dead orphans are purged, as far as locks and mining allow |
| `orphans` | client and solver, one crash | boot after a crash at any step, orphans on disk |
| `crashes` | client, faucet, two faults: failed put, crash, crash and repair | burn counter, saved consensus state and rewards after any two faults |
| `staking` | two accounts, two clients, one failed write or crash | coins only move, but for the one stake that a failed save may double; an answered request is saved, a crash costs an account at most the request at hand, validators follow the positions |
| `sync` | three nodes in a line, a payment and its child, pages of one hash, one fault (a cut or a busy lock) | in a quiet network what neighbours do not share is accounted for; orphans resolve; a global status has nodes behind it |
| `parts` | thirteen transactions; three validators and two votes; a cap of 30; two faucet requests; limiter and oracle; a migration stopped twice; two bootnodes, one of them a DNS seed, a guest and one failure; three tasks that run every handler but `get_dag_stats` between them | the fourteen properties of the parts, among them that a reachable bootnode is connected in the end, that nobody waits in a circle, and that every request and every turn of a loop ends |

Runs that end in a violation, each of one sentence of the documentation:

| Run | Property | What happens |
|---|---|---|
| `uncharged` | `DagImpliesCharged` | the mempool refuses, the ledger is rolled back, the transaction stays in the DAG and blocks its sender's nonce |
| `genesis_again` | `BootMintsNothing` | a genesis account that has spent all is refilled at boot |
| `lock_cycle` | `NoDeadlock` | `get_dag_stats`, a submission and the mining loop wait for each other |
| `faucet_replay` | `NonceSpentOnce` | two faucet payments of one nonce are accepted, which ledger.rs:369 rules out |
| `stake_race` | `FundsOnlyMove` | two requests of one account read the same position: coins are lost or returned twice |

Some properties say less than one might wish, because the code does less.
`QuietAgreement` leaves out what a page or a busy lock kept back (`missed`) and
what was refused: nothing asks for it again before the next connection.
`RebuildComplete` and `SavedRewards` allow for a transaction whose put failed,
`FundsOnlyMove` for one stake doubled by a failed save (rpc.rs:1477 gives the
coins back and leaves the position). `RewardsRepeated` allows for the rewards in
`repaid`, because a crash between the save of the ledger and that of the
consensus state owes a paid reward again: those that were final in what is
restored, and those that became final at the heights lost. One reward per crash
would be too little: after a boot that lost a transaction, a block that is known
already advances the height and returns an error before it settles anything
(STEP 7, `ApplyNotQueued`), so the next call settles several rewards, and one
crash repeats them all. A rollback takes back rewards that stay marked as given,
hence `EmissionBound` is an upper bound. Its cap is that of the counter: on a
first boot `total_supply` leaves out the coins of genesis, after a restart it
counts them (ledger.rs:128). `LedgerReplaysDag` and
`SettledPromptly` have the premise `RoomForCoins`, that u64 can hold all coins
made: an unstake whose credit overflows drops the coins, a reward that overflows
stays queued. `RivalsExclusive` assumes a quorum whose members vote once and
keep their stake, `EmissionAccounted` holds until the largest reward no longer
fits: a refused reward stays in the balance. `AnswersStable` lets the canonical
subgraph fall back where a newcomer names the canonical tip second: below the
second parent its scan passes over what it has met below the first, perhaps at
less depth and so for less (consensus.rs:331), and it may score less than the
tip it builds on. In `parts` this happens to `c1` when `d2` comes.
`WindowBounded` allows twice the limit that rpc.rs:28 suggests.
`ConfirmationsBound` allows twice the descendants.

### Bounds

Three or four transactions are enough for every pair of refusals the DAG knows
and for an account with two nonces; a mempool of one or two evicts and refuses;
the threshold is one confirmation, so rewards are settled by the next
transaction, and the halving comes after two heights. `FeeLimit` stops the fee
oracle where a run has nothing to gain from higher fees; `Interest` limits the
interest one account is ever paid; `MaxFaults` counts crashes, failed puts, cuts
and busy locks. In `staking` the second stake of an account can exceed the
maximum, and one fault at any step meets both requests at every point of their
phases. `U64Max` is far above every sum of an instance, except in the theorems,
which cover every value.

In `sync`, three nodes in a line are the least with a relay; a child may overtake
its parent on the way and `PageSize = 1` cuts every answer of two. `Origin`
fixes where a client submits a transaction; the first exchange of a connection
in `Early` happened between empty DAGs. The solver wakes, and the cache forgets,
when nothing is under way that could answer (`Quiet`), which leaves out only
repetitions of requests that are being answered; entries of transactions in the
DAG are kept, since a second receipt of these is refused. For
`Peers`, `MaxTrouble = 1` allows one failed connection or host: enough for a
handler that outlives its entry. Two votes suffice for `RivalsExclusive`: a
quorum that both ballots of the run may have has two members at most, who vote
once. `MaxQueue`, `MaxVotes`, `MaxEpoch`, `MaxRefused`,
`MaxPlaced`, `MaxClock`, `MaxFee` and `MaxStops` bound what their names say.
`MaxFee` is above the fees at which rounding makes a difference.

### Deadlock

TLC's check for states without a successor is on but where a system may stop: a
node with nothing to stake and no faults left (`staking`), a quiet network
(`sync`), parts at their bounds (`parts`).

Tasks that wait for each other are another matter, that of `Locks`, because the
other modules take a step when its locks are free. All handlers but one ask for
the locks in one order: mining, cooldowns, orphans, mempool, oracle, consensus,
DAG, ledger, then known peers, seen cache, peers. `get_dag_stats` reads the DAG and then awaits
the consensus lock. Two readers do not exclude each other, so this takes three:
a submission that has consensus and is about to read the DAG, and the mining
loop, whose queued write comes before that read and after that of the
statistics. `lock_cycle` shows it. Without statistics, or without mining, it
cannot happen (`LocksCorrect`).

### Fairness

Tokio runs every ready task, so a step that stays enabled is taken: weak fairness
of each step of each task, and no more, is assumed in `Locks` (with a lock that
serves its queue), `Processor`, `Sync`, `Peers` and `Meters`, except as follows.
Clients need not submit anything, staking need not happen.

What the locks do for `Processor` is a premise of its properties, not of its
specification. `LocksServe` says that a call that waits for the consensus lock,
and the mining loop that has popped a transaction, get their lock if it is free
time and again. `RequestsEnd` shows that on the locks themselves, where no client
asks for statistics; where one does, the cycle above stops the call, the loop
and the reader for good, and nothing is claimed. `MiningOn` says that the mining
loop comes back to the mempool time and again: it has been started and not
stopped (rpc.rs:1788). `SolverGetsIn` says that the solver, which takes the DAG
with `try_read`, does not fail at each of an unbounded number of runs. So
`MempoolDrains` reads: as long as mining is on and the locks serve.
`OrphansPurged` reads: as long as the locks serve and the solver gets in. In the
instance TLC refutes `MempoolDrains` without `MiningOn` and `OrphansPurged`
without `LocksServe`. The other two premises are not needed there, because its
transactions, and with them the contention, come to an end; in a node that is
always busy they are.

In `Sync` the cache cleaner runs every five minutes whatever the traffic, which
is strong fairness because the model lets it act in quiet states only. In
`Peers` the dialling of the start and of the heartbeat, the reconnection task and
the handlers are weakly fair; hosts, DNS and peer exchange are not needed.
`FeeRecovers` has its premise in the property: submissions, which adjust the fee,
go on.

## The proofs

All for every value of the constants that satisfies the named assumptions of
their modules, which TLC evaluates in the runs.

`Facts`: sums of a function over a finite set, which the library computes by
choosing one element after the other: empty and singleton sums, adding and
changing one element, monotony, two sums compared; the least and the greatest
number of a set, from which inductions over numbers are derived; and sequences
of states (`Trace`), along which an invariant is carried (`TraceKeeps`) or a
step found (`TraceReaches`), for whatever is computed by a fold or a recursive
function.

`DagFacts` is about one DAG. `Formed` has the four parts of `DagWellFormed`;
`Grown` adds a ranking in which parents come before children, so that there is
no cycle, and `GrownAdd` shows that an insertion keeps it. A walk over `Children` stays in the
DAG (`WalkEndsIn`), descendants are the limit of an iteration that ends because
the set only grows (`DescendantsLinked`), ancestors the one of another
(`AncestryClosed`).

`ProcessorProofs`:

- `TypeCorrect`: `TypeOK`. The inductive invariant `Typed` adds that a call past
  its entry carries a transaction; without it a step could put `NoTx` into the
  DAG. Its lemmas show that each operation of the ledger stays in u64 given the
  checks it makes itself.
- `BurnCorrect`: `BurnAgrees`. Strengthened with the same equation for the
  snapshot, which a rollback restores.
- `DagCorrect`: `DagWellFormed`. `AddTx` keeps each of the four parts where
  `CanAdd` holds; the step lemma shows that nothing else changes the DAG.
- `RewardCorrect`: `RewardOnce`. Needs that the rewards a call is settling were
  queued at or below the current height.

From the lock to the nonces:

- `HolderInv`: at most one call is past STEP 1, and past STEP 6 its transaction
  is in the DAG.
- `OrphansCorrect`: `OrphansKept`, an action property, from `HolderInv`: what a
  solver publishes is in the DAG.
- `MempoolCorrect`: `MempoolInDag`. The inductive `PoolInv` adds that the
  transaction of a call before STEP 8 is not in the mempool, with lemmas on
  sequences from which one element is removed or to which one is appended.
- `NonceCorrect`: `NonceTracksDag`. `NonceInv` says it of the ledger at work and
  of the snapshot a rollback returns to.

`BankProofs`: `BankCorrect`, the refinement `ImplementsBank`. `BankInv` adds to
`HolderInv` that, in STEPs 7 and 8, the ledger at work is the snapshot after
`Transfer` and `CommitNonce` with rewards minted on top, within the cap; then
`Admit` is `Pay`, `Stake` is `Lock`, `Unstake` is `Unlock`, and all other steps
stutter.

The same module follows the coins:

- `EmissionCorrect`: `EmissionBound`. `CoinsInv` says that supply and
  what is owed are within the emission of the heights reached, and of the ledger
  at work and of the snapshot that all coins are accounted for. A rollback
  returns to a ledger that has minted less, while the queue of rewards stays.
- `SettledCorrect`: `SettledPromptly`. `PromptInv`: what the settle loop has yet
  to visit is all that has reached finality; with the premise `Room` no reward
  is refused, because the reward fits whatever else is owed (`OwedFits`).
- `ReplayCorrect`: `LedgerReplaysDag`. `ReplayInv` says of the ledger at work
  (less the payment under way while the call can still be rolled back) and of
  the snapshot that it replays from the transactions it has committed.
  `PaymentEven` goes through the three accounts a transfer writes, whichever of
  them coincide.

`DurabilityProofs` goes on from there through crashes. A boot folds over the
keys, over passes and over the mempool; `FoldTrace` and `PassesTrace` turn each
fold into a trace.

- `DurableTypeCorrect`: `TypeOK` and the type of the disk. `DurableInv` adds the
  parts of `Typed`; `DurableCases` divides the steps into those of `Processor`
  with what they write, boots, and those in which the batch of the solver or the
  queueing of a reward fails.
- `DurableDagCorrect`: `DagWellFormed`, `DurableBurnCorrect`: `BurnAgrees`,
  `SavedCorrect`: `SavedRewards`. Each states of memory and of disk what a boot
  relies on; `SavedInv` says of the consensus state in memory and of the one on
  disk that it owes no block twice and none it has paid (`OwedOnce`).
- `PersistCorrect`: `PersistOrder`, when no boot repairs. `PersistInv`: the
  nonces on disk are at most those in memory and, in STEPs 7 and 8, at most
  those of the snapshot; while the transaction is put they are those in memory.
- `RebuildCorrect`: `RebuildComplete`, when no boot repairs. `Underway` says
  that nothing left to place conflicts with what has been placed; a pass that
  leaves something open has placed something (`PassPlaces`), so that as many
  passes as there are keys suffice (`PassShrinks`). That the parents of what is
  saved are there to be placed comes from `GroundInv`: memory and disk lie in a
  set of transactions that is closed under parents and has no cycle. A repair
  breaks both: what it drops from the ledger stays on disk.
- `RepaidCorrect`: `RewardsRepeated`, after any faults, repairs and rollbacks and
  whatever the supply cap refuses. A balance reaches the disk before the
  consensus state, so the inductive `RepaidInv` weighs the miner's balance twice:
  against the consensus state in memory (`Bounded`) and against the one a boot
  would restore (`Covered`), where what is final in it and what became final
  since count as repaid. It does so for the balance in memory, with the rewards
  that are due, and for the one on disk, which is always some earlier one; where
  the consensus state is put beside it (`Current`) the balance on disk must be
  `Bounded` too. That holds because STEP 9 saved it or, after a repair,
  passed over an account nothing has credited. `FinalJoins` is the step of the
  height: it makes at most one reward final, that of one height.
- `FaultlessCorrect`: as long as nothing fails and the node does not die, the
  durable node is the node of `Processor` (`Spec`), so that every theorem about
  that one is one about this one; `FaultlessBank` says so of `ImplementsBank`.
  The orphans on disk are then in memory, and a block that the DAG accepts is
  never one the consensus state knows: the error of STEP 7 is for booted nodes.

`StakingProofs`:

- `StakingTypeCorrect` and `AcknowledgedCorrect` (`AcknowledgedIsSaved`) for any
  clients, also those of one account: a balance that differs from the saved one
  belongs to an account with a request that will save it.
- `FundsCorrect`, `DriftCorrect`, `ValidatorsCorrect`: `FundsOnlyMove`,
  `CrashDriftBounded`, `ValidatorsStaked` under `OnePerAccount`, one client per
  account. The code does not see to that, and `stake_race` shows what happens
  without it. The invariant `Sound` states, phase by phase, what an account has
  in balance, position, disk and registration; one lemma shows that a step of
  another client leaves it alone.

`PartsProofs`:

- `RivalsCorrect`: `RivalsExclusive`, if more than half of the weight is needed
  to approve (`ApprovalPercent > 50`; consensus.rs has 51). Two majorities of
  one honest quorum would weigh more than the quorum (`TwoMajorities`).
- `EmissionCurveCorrect`: `EmissionAccounted`. `Halved` is unfolded by the trace
  of its halvings; a reward is at most five times the initial one whatever the
  difficulty (`RewardBound`).
- `WindowCorrect`: `WindowBounded`. `Metered` splits the history of a method at
  the start of its window: what came in since is the count, what came before is
  one full window at most.
- `PlaceCorrect`: `OvertakenOnce`. Whoever read the tips read a free place, since
  a childless transaction is nobody's parent (`FreeIs`, `TipsFree`); the DAG then
  grows by one transaction at a time and takes none whose parents are used.
- `CooldownCorrect`: `OnePerCooldown`, which needs that each payment of an address but the last took a whole cooldown, and
  that the last one's has run since it was let in.
- `LocksCorrect`: `NoDeadlock`, for any number of tasks and any handlers they run,
  under `Apart`: no task serves statistics, or none mines. `LocksInv` says that a
  queue holds waiting tasks only, none twice. Every handler asks for a lock above
  those it has (`HandlersClimb`), but for the statistics, whose guard on the DAG
  is a reader's: it stands in the way of those who await the DAG for writing, and
  only the mining loop does. So of any set of tasks nobody has the highest lock
  waited for (`TopIsFree`), and the first in its line waits for none of the
  others (`FirstInLine`).
- `MigrationCorrect`: `HistoryBeforeCoins`; needs that as long as Sled is empty
  `dag.json` is the old file.
- `SelectionCorrect`: `SelectionUsable`. A parent has a smaller rank than its
  child, so the end of a walk and its sibling are in the DAG, differ, and the
  pair is unused when the walk ends at a childless transaction.
- `ConfirmationsCorrect`: `ConfirmationsBound`, since each descendant has one or
  two slots with a descendant or the transaction itself (`SlotsCount`).
- `AncestorsCorrect`: `AncestorsFound`. The scan of `get_ancestors` is a trace
  whose invariant `Kept` says that what is found is an ancestor, that an item on
  the stack carries the length of a way to it, and that the parents of what is
  found are found too unless it is on the stack or too deep; each turn pops one
  item and each transaction is pushed once, so the turns suffice.
- `AnswersCorrect`: `AnswersStable`. Finality, confirmation, stability and weights
  are never taken back (`InsertKeeps`). The canonical subgraph rests on three facts
  about the scan of `compute_subgraph_score`, again a trace. An insertion changes no
  score but the newcomer's (`ScoreStays`; the turns suffice by `ScanEnds`). The
  newcomer's scan repeats that of its first parent, one deeper, before it comes to
  the second (`Follows`), so it has at least that parent's score. And what a scan
  counts is closed under parents where nothing lies deeper than `ScoreDepth`
  (`ScanCloses`), each transaction for its worth and at most half as much again
  (`ScanWeighs`), whence the two thirds for the second parent.

`SyncProofs`, for any nodes, connections, pages and faults:

- `SyncTypeCorrect`: `SyncTypeOK`. The inductive `SyncTyped` says that every DAG
  is `Grown` and that each letter on a wire holds what the handler that reads it
  takes for granted: gossip carries exactly one transaction, an answer none that
  is a genesis.
- `AgreementCorrect`: `QuietAgreement`. `AgreementInv` follows a transaction that
  one node has and the other may lack: it is held there, or in a message, in a
  request for it, in the hands of the handler or kept back, or else the other
  side's request for the whole inventory is still to be answered. What is marked
  as seen was put before the node, so that gossip which is skipped is not lost.
  A handler without its counterpart has such a request under way, which is what
  makes a reconnection safe; a cut ends both handlers.
- `StatusCorrect`: `GlobalStatusBacked`, if a majority is at least half
  (`MajorityPercent >= 50`; rpc.rs:163 has 0.50): the nodes that report the level
  granted have its weight (`QuorumIs`) and, since their DAGs are closed under
  parents, all ancestors (`ReportIs`).

The assumptions are the types of the constants; `FiniteAssumption` and the like:
addresses, ids, validators and miners are finite sets (an id has 32 bytes); and
`HashAssumption`: nobody signs for the burn address and no id is its own parent.

Only model-checked: liveness, which needs `ENABLED`: `RequestsEnd`,
`MempoolDrains`, `OrphansPurged`, `OrphansResolve`, `BootnodesConnected` (so all
of `Peers`) and `FeeRecovers`. Every invariant and every action property of the runs is stated by
a theorem.

## Not modelled

Hashing, signatures, PoW and their difficulty (in `PureValid`; the adjuster is
constructed and logged at boot and never asked); key exchange, encryption and
framing of connections; wallets, GUI, command line, explorer, security audit
(no shared state of the node); reputation, which no running task changes;
`remove_transaction` and `add_transaction` of the DAG, `batch_write`,
`clear_mempool`, `sync_save_ledger` and the orphan callback of p2p, which have no
caller; exports to a file; `SyncEvent::SaveRequested`, which no task sends; the
answers of the listings of the RPC server (history, recent, graph, statistics):
they change nothing, and the locks they take are in `Locks`.

Staking is one step per request in `Processor` and step by step in `Staking`,
which knows no other payments; `Durability` leaves it out. What `unstake_tokens`
pays as interest is any amount within a bound; it is no block reward, and
neither the supply counter nor `MAX_SUPPLY` sees it. Nonces are not migrated
from old files. `Sync` has one connection per pair of nodes at a time; several
are in `Peers`. The receiver and the solver build a new fee oracle for each transaction: in
`Processor` these are the clients outside `RpcClients`.

No property says which of two payments that compete for an account's coins a
repair keeps.

## Possible extensions

Several connections per pair and two transactions of one account in `Sync`;
restarts of a node in `Sync`; a repair that drops a valid transaction as a step of its own.
