-------------------------------- MODULE Locks --------------------------------
(***************************************************************************)
(* The locks of a node and the tasks that wait for them.  A handler is the *)
(* sequence of the locks it asks for, each with the guards it holds while  *)
(* it asks: the guards that are in scope there.  Data are left out.        *)
(*                                                                         *)
(* Where a handler holds nothing it may as well have returned, so the      *)
(* solver's collecting, its submissions and its dropping are handlers of   *)
(* their own, as are the ways of one function through different locks.     *)
(*                                                                         *)
(* Not here: the storage lock, which nobody writes after the boot          *)
(* (node.rs:124), and the limiter's, which is held alone.                  *)
(***************************************************************************)
EXTENDS Naturals, Sequences

CONSTANTS
    Tasks,      \* tasks that handle one request, message or turn at a time
    Duties      \* the handlers each of them runs

LockNames == {"mining", "cooldowns", "orphans", "mempool", "oracle",
              "consensus", "dag", "ledger", "known", "seen", "peers"}

-----------------------------------------------------------------------------
(* The handlers.  A stop asks for a guard and holds some.                  *)
Reading(l) == <<l, "read">>
Writing(l) == <<l, "write">>

\* read().await or write().await; a handler may also return instead of asking.
Await(guard, holding) ==
    [guard |-> guard, holding |-> holding, waits |-> TRUE, leaves |-> FALSE]
AwaitOrLeave(guard, holding) ==
    [guard |-> guard, holding |-> holding, waits |-> TRUE, leaves |-> TRUE]

\* try_read or try_write: the handler returns if it fails.
Try(guard, holding) ==
    [guard |-> guard, holding |-> holding, waits |-> FALSE, leaves |-> FALSE]
TryOrLeave(guard, holding) ==
    [guard |-> guard, holding |-> holding, waits |-> FALSE, leaves |-> TRUE]

\* Mutant: the read guard on the mempool is alive where the fee is written.
SubmitHolding ==
    << Try(Reading("dag"), {}),
       Await(Reading("mempool"), {}),
       Await(Writing("oracle"), {Reading("mempool")}),
       Await(Writing("mempool"), {Reading("mempool")}) >>

\* process_transaction; the last two stops are those of broadcast_transaction.
\* (Only the RPC server's calls share an oracle.)
Submit ==
    << Try(Reading("dag"), {}),
       AwaitOrLeave(Reading("mempool"), {}),
       Await(Writing("oracle"), {Reading("mempool")}),
       Await(Writing("mempool"), {}),
       Await(Writing("consensus"), {}),
       Await(Reading("dag"), {Writing("consensus")}),
       Await(Reading("ledger"), {Writing("consensus"), Reading("dag")}),
       TryOrLeave(Writing("dag"), {Writing("consensus")}),
       Try(Writing("ledger"), {Writing("consensus"), Writing("dag")}),
       Try(Writing("mempool"),
           {Writing("consensus"), Writing("dag"), Writing("ledger")}),
       AwaitOrLeave(Writing("seen"), {Writing("consensus")}),
       Await(Reading("peers"), {Writing("consensus")}) >>

\* process_transaction where parents are missing, and the request for them.
StoreOrphan == << Try(Reading("dag"), {}), Await(Writing("orphans"), {}),
                  Await(Reading("peers"), {}) >>

\* process_orphans: what is on disk, what is complete, what is missing.
Collect ==
    << AwaitOrLeave(Writing("orphans"), {}),
       Await(Reading("orphans"), {}),
       Await(Reading("dag"), {Reading("orphans")}),
       Await(Reading("orphans"), {}),
       Await(Reading("dag"), {Reading("orphans")}),
       AwaitOrLeave(Reading("peers"), {}) >>

\* process_orphans after a submission whose outcome is final.
DropOrphan == << Await(Writing("orphans"), {}) >>

\* One turn of the mining loop.
Mine ==
    << Await(Reading("mining"), {}),
       AwaitOrLeave(Writing("mempool"), {}),
       AwaitOrLeave(Writing("dag"), {}),
       AwaitOrLeave(Reading("dag"), {}) >>

\* start_mining, stop_mining.
SwitchMining == << Await(Writing("mining"), {}) >>

\* get_dag_stats.
Stats ==
    << Await(Reading("dag"), {}),
       Await(Reading("consensus"), {Reading("dag")}),
       Await(Reading("peers"), {Reading("dag"), Reading("consensus")}) >>

\* determine_transaction_status: every guard lives to the end of the search.
Status ==
    << Await(Reading("orphans"), {}),
       AwaitOrLeave(Reading("mempool"), {Reading("orphans")}),
       AwaitOrLeave(Reading("dag"), {Reading("orphans"), Reading("mempool")}),
       AwaitOrLeave(Reading("dag"), {}) >>

\* Whatever reads the DAG and nothing else, the periodic save among it.
LookUp == << Await(Reading("dag"), {}) >>

\* handle_metrics.
Metrics == << Await(Reading("dag"), {}), Await(Reading("peers"), {}),
              Await(Reading("mempool"), {}) >>

\* Mutant: the guard on the limits is alive where the validator is registered.
StakeHolding ==
    << Await(Writing("ledger"), {}),
       AwaitOrLeave(Reading("ledger"), {}),
       Await(Reading("consensus"), {}),
       Await(Reading("consensus"), {}),
       AwaitOrLeave(Writing("consensus"), {Reading("consensus")}) >>

\* stake_tokens: the balance, its save, the limits, the registration.
Stake ==
    << Await(Writing("ledger"), {}),
       AwaitOrLeave(Reading("ledger"), {}),
       Await(Reading("consensus"), {}),
       Await(Reading("consensus"), {}),
       AwaitOrLeave(Writing("consensus"), {}) >>

\* stake_tokens where the save fails and the coins are given back.
GiveBack == << Await(Writing("ledger"), {}), Await(Reading("ledger"), {}),
               Await(Writing("ledger"), {}) >>

\* unstake_tokens.
Unstake == << Await(Writing("ledger"), {}), AwaitOrLeave(Reading("ledger"), {}),
              Await(Writing("consensus"), {}) >>

\* faucet up to its submission.
AskFaucet ==
    << Await(Writing("cooldowns"), {}),
       AwaitOrLeave(Reading("dag"), {}),
       Await(Reading("ledger"), {}) >>

\* handle_peer hears a transaction, marks it and passes it on.
Gossip == << Await(Reading("seen"), {}), AwaitOrLeave(Writing("seen"), {}),
             Await(Reading("peers"), {}) >>

\* handle_peer hears of peers and remembers the new ones.
HearPeers ==
    << Await(Reading("known"), {}),
       Await(Reading("peers"), {Reading("known")}),
       AwaitOrLeave(Writing("known"), {}) >>

\* start_dns_discovery looks an address up while it holds the known peers.
Resolve ==
    << Await(Writing("known"), {}),
       AwaitOrLeave(Reading("peers"), {Writing("known")}) >>

\* handle_peer ends; connect_to_peer and accept_loop enter a connection.
EndPeer == << Await(Writing("peers"), {}), Await(Writing("known"), {}) >>
Connect == << Await(Writing("peers"), {}), AwaitOrLeave(Writing("known"), {}) >>

Handler ==
    [submit |-> Submit, storeOrphan |-> StoreOrphan, collect |-> Collect,
     dropOrphan |-> DropOrphan, mine |-> Mine, switchMining |-> SwitchMining,
     stats |-> Stats, status |-> Status, lookUp |-> LookUp,
     metrics |-> Metrics, stake |-> Stake, giveBack |-> GiveBack,
     unstake |-> Unstake, askFaucet |-> AskFaucet, gossip |-> Gossip,
     hearPeers |-> HearPeers, resolve |-> Resolve, endPeer |-> EndPeer,
     connect |-> Connect]

LocksAssumption == Duties \in [Tasks -> SUBSET DOMAIN Handler]

ASSUME LocksAssumption

-----------------------------------------------------------------------------
VARIABLES
    doing,      \* each task's handler, the stop it has come to, its phase
    queue       \* the tasks that wait for each lock, in order

lockVars == <<doing, queue>>

\* A task between two requests; "running" to a stop; "waiting" at it.
Resting == [handler |-> "none", stop |-> 0, phase |-> "resting"]

LocksInit ==
    /\ doing = [t \in Tasks |-> Resting]
    /\ queue = [l \in LockNames |-> << >>]

Stops(t) == Handler[doing[t].handler]
StopAt(t) == Stops(t)[doing[t].stop]
StopBefore(t) == Stops(t)[doing[t].stop - 1]

\* The guards a task has.  On its way to a stop it has what it held at the
\* stop before and what it got there.
Guards(t) ==
    IF doing[t].phase = "waiting" THEN StopAt(t).holding
    ELSE IF doing[t].phase = "running" /\ doing[t].stop > 1
    THEN StopBefore(t).holding \cup {StopBefore(t).guard}
    ELSE {}

\* u has a guard that excludes this one.
Excludes(u, guard) ==
    \E held \in Guards(u) :
        held[1] = guard[1] /\ "write" \in {held[2], guard[2]}

Excluded(guard) == \E u \in Tasks : Excludes(u, guard)

-----------------------------------------------------------------------------
(* tokio's RwLock: whoever waits is served in order, so that a writer who  *)
(* waits keeps out the readers that come after it, also those of try_read. *)
Begin(t, h) ==
    /\ doing[t] = Resting
    /\ h \in Duties[t]
    /\ doing' = [doing EXCEPT ![t] =
                    [handler |-> h, stop |-> 1, phase |-> "running"]]
    /\ UNCHANGED queue

Running(t) == doing[t].phase = "running" /\ doing[t].stop <= Len(Stops(t))

Enqueue(t) ==
    /\ Running(t) /\ StopAt(t).waits
    /\ doing' = [doing EXCEPT ![t].phase = "waiting"]
    /\ queue' = [queue EXCEPT ![StopAt(t).guard[1]] = Append(@, t)]

Grant(l) ==
    LET t == Head(queue[l]) IN
    /\ queue[l] # << >>
    /\ ~Excluded(StopAt(t).guard)
    /\ doing' = [doing EXCEPT ![t] = [handler |-> @.handler,
                                      stop |-> @.stop + 1, phase |-> "running"]]
    /\ queue' = [queue EXCEPT ![l] = Tail(@)]

Available(guard) == queue[guard[1]] = << >> /\ ~Excluded(guard)

TryGets(t) ==
    /\ Running(t) /\ ~StopAt(t).waits
    /\ Available(StopAt(t).guard)
    /\ doing' = [doing EXCEPT ![t].stop = @ + 1]
    /\ UNCHANGED queue

TryFails(t) ==
    /\ Running(t) /\ ~StopAt(t).waits
    /\ ~Available(StopAt(t).guard)
    /\ doing' = [doing EXCEPT ![t] = Resting]
    /\ UNCHANGED queue

\* A handler returns, at its end or before, and its guards are dropped.
Return(t) ==
    /\ doing[t].phase = "running"
    /\ doing[t].stop <= Len(Stops(t)) => StopAt(t).leaves
    /\ doing' = [doing EXCEPT ![t] = Resting]
    /\ UNCHANGED queue

Proceed(t) == Enqueue(t) \/ TryGets(t) \/ TryFails(t) \/ Return(t)

LocksNext ==
    \/ \E t \in Tasks, h \in DOMAIN Handler : Begin(t, h)
    \/ \E t \in Tasks : Proceed(t)
    \/ \E l \in LockNames : Grant(l)

LocksSpec == LocksInit /\ [][LocksNext]_lockVars

-----------------------------------------------------------------------------
\* t waits for a lock that u has, or that u waits for and comes before it.
Ahead(u, t) ==
    LET line == queue[StopAt(t).guard[1]] IN
    \E i, j \in DOMAIN line : i < j /\ line[i] = u /\ line[j] = t

WaitsFor(t, u) ==
    /\ doing[t].phase = "waiting"
    /\ Ahead(u, t) \/ Excludes(u, StopAt(t).guard)

\* rpc.rs:1024 takes care "to avoid deadlock": no tasks wait for each other,
\* or one for itself.  In every set of tasks is one that waits for no other of
\* the set.
NoDeadlock ==
    \A S \in SUBSET Tasks :
        S # {} => \E t \in S : \A u \in S : ~WaitsFor(t, u)

\* Every request is answered, every turn of a loop comes to its end, whatever
\* the others do: no guard is kept for ever, no reader starves a writer.
RequestsEnd ==
    \A t \in Tasks : doing[t] # Resting ~> doing[t] = Resting
=============================================================================
