-------------------------------- MODULE Sync --------------------------------
(***************************************************************************)
(* Nodes that exchange transactions (src/p2p.rs) and put what they receive *)
(* before their own DAG and orphan solver (src/rpc.rs, src/node.rs).       *)
(*                                                                         *)
(* Each node runs one handler per connection, one receiver that empties    *)
(* tx_channel, one orphan solver and one cache cleaner.  A connection is   *)
(* first in, first out; when it is cut what was on it is lost.             *)
(*                                                                         *)
(* Every sender can pay: of the validation what depends on the order of    *)
(* arrival is kept, that is parents, conflicts and account nonces.         *)
(***************************************************************************)
EXTENDS DagQueries

CONSTANTS
    Nodes,
    Peerings,       \* the pairs of nodes, as sets, that may be connected
    Early,          \* those connected before any transaction existed
    Origin,         \* bound of the model: the one node a client submits t to
    Timestamp,      \* the timestamp of a transaction
    PageSize,       \* PAGE_SIZE (100)
    MaxRequests,    \* parents requested per run of the solver (32)
    NodeWeight,     \* the weight of a node's report
    QuorumPercent,  \* quorum_threshold (67)
    MajorityPercent,\* majority_threshold (50)
    MaxFaults       \* bound of the model: connections lost and locks found busy

Links == {l \in Nodes \X Nodes : {l[1], l[2]} \in Peerings}

SyncAssumption ==
    /\ IsFiniteSet(Nodes)
    /\ \A p \in Peerings : p \subseteq Nodes /\ Cardinality(p) = 2
    /\ Early \subseteq Peerings
    /\ Origin \in [Tx -> Nodes]
    /\ Timestamp \in [Tx -> Nat]
    /\ PageSize \in Nat \ {0}
    /\ MaxRequests \in Nat \ {0}
    /\ NodeWeight \in [Nodes -> Nat]
    /\ MajorityPercent \in 1 .. 100
    /\ QuorumPercent \in MajorityPercent .. 100
    /\ MaxFaults \in Nat

ASSUME SyncAssumption

VARIABLES
    dag,        \* dag[n]
    orphans,    \* orphans[n]: transactions that wait for a parent
    batch,      \* batch[n]: orphans the solver has still to resubmit
    seen,       \* seen[n]: seen_transactions
    inbox,      \* inbox[n]: tx_channel
    peers,      \* peers[n]: the nodes it has a handler for
    wire,       \* wire[<<m, n>>]: messages from m to n
    todo,       \* todo[<<m, n>>]: what n's handler for m found new in the
                \* message at hand and has still to mark and pass on
    faults,     \* how often a connection was cut and a lock was busy
    refused,    \* history: what n's validation refused, or a busy lock lost
    missed      \* history: what n asked for and a page or a busy lock kept back

syncVars == <<dag, orphans, batch, seen, inbox, peers, wire, todo, faults,
              refused, missed>>

-----------------------------------------------------------------------------
(* Messages.                                                               *)
Kinds == {"Transaction", "Inventory", "GetInventory", "GetData",
          "SyncRequest", "SyncResponse"}

Message == [kind : Kinds, txs : SUBSET (Tx \cup {Root})]

Msg(kind, S) == [kind |-> kind, txs |-> S]

\* The messages of seq go from n to each node of S.
Send(w, n, S, seq) ==
    [l \in Links |-> IF l[1] = n /\ l[2] \in S THEN w[l] \o seq ELSE w[l]]

\* A message nobody would answer is not sent.
IfAny(kind, S) == IF S = {} THEN << >> ELSE <<Msg(kind, S)>>

\* A page: the first PageSize hashes of a list in no particular order.
Pages(S) ==
    {page \in SUBSET S :
        Cardinality(page) =
            IF Cardinality(S) < PageSize THEN Cardinality(S) ELSE PageSize}

\* request_transaction, once for each parent, in any order.
Requests(S) ==
    {[i \in DOMAIN order |-> Msg("GetData", {order[i]})] :
        order \in SetToSeqs(S)}

FaultsLeft == faults.cuts + faults.busy < MaxFaults

\* What a callback sees of the DAG: nothing while somebody writes to it.
Views(n) ==
    {dag[n]} \cup (IF FaultsLeft THEN {EmptyDag} ELSE {})

\* Hashes are looked up one by one, and any of them may find it written to.
Finds(n, S) ==
    IF FaultsLeft THEN SUBSET (S \cap dag[n].txs) ELSE {S \cap dag[n].txs}

FaultUnless(clear) ==
    faults' = IF clear THEN faults ELSE [faults EXCEPT !.busy = @ + 1]

Saw(n, view) == FaultUnless(view = dag[n])

-----------------------------------------------------------------------------
(* Empty DAGs; the first exchange of an early connection brought nothing.  *)
SyncInit ==
    /\ dag = [n \in Nodes |-> EmptyDag]
    /\ orphans = [n \in Nodes |-> {}]
    /\ batch = [n \in Nodes |-> {}]
    /\ seen = [n \in Nodes |-> {}]
    /\ inbox = [n \in Nodes |-> << >>]
    /\ peers = [n \in Nodes |-> {m \in Nodes \ {n} : {n, m} \in Early}]
    /\ wire = [l \in Links |-> << >>]
    /\ todo = [l \in Links |-> << >>]
    /\ faults = [cuts |-> 0, busy |-> 0]
    /\ refused = [n \in Nodes |-> {}]
    /\ missed = [n \in Nodes |-> {}]

-----------------------------------------------------------------------------
(* process_transaction at one node.                                        *)

\* The ledger expects the nonce after those its DAG holds (NonceTracksDag).
NonceNext(d, t) ==
    \/ Sender[t] = Faucet
    \/ AccountNonce[t] =
           1 + Cardinality({u \in d.txs : Sender[u] = Sender[t]})

Valid(d, t) == t \in PureValid /\ CanAdd(d, t) /\ NonceNext(d, t)

MissingParents(d, S) == UNION {ParentSet(t) : t \in S} \ (d.txs \cup {Root})

\* Accepted: into the DAG, and broadcast to every peer.
Accept(n, t) ==
    /\ Valid(dag[n], t)
    /\ dag' = [dag EXCEPT ![n] = AddTx(@, t)]
    /\ seen' = [seen EXCEPT ![n] = @ \cup {t}]
    /\ UNCHANGED <<faults, refused>>

Broadcast(w, n, t) == Send(w, n, peers[n], <<Msg("Transaction", {t})>>)

\* A parent is missing: kept as an orphan, the parents asked of every peer.
Shelve(n, t) ==
    /\ ~HasParents(dag[n], t)
    /\ orphans' = [orphans EXCEPT ![n] = @ \cup {t}]
    /\ \E requests \in Requests(MissingParents(dag[n], {t})) :
          wire' = Send(wire, n, peers[n], requests)
    /\ UNCHANGED <<dag, seen, batch, faults, refused>>

\* The DAG lock is held by a writer, or the validation says no.
Refuse(n, t) ==
    /\ refused' = [refused EXCEPT ![n] = @ \cup {t}]
    /\ UNCHANGED <<dag, seen, wire>>
    /\ \/ HasParents(dag[n], t) /\ ~Valid(dag[n], t) /\ UNCHANGED faults
       \/ /\ FaultsLeft
          /\ faults' = [faults EXCEPT !.busy = @ + 1]

-----------------------------------------------------------------------------
(* The orphan solver: process_orphans.                                     *)

Ready(d, S) == {t \in S : HasParents(d, t)}

\* Mutant: only the first arrival of an orphan asks for its parents.
RequestNothing(d, S) == {{}}

\* At most MaxRequests of the missing parents are asked for.
RequestAgain(d, S) ==
    LET missing == MissingParents(d, S)
        n == IF Cardinality(missing) < MaxRequests
             THEN Cardinality(missing) ELSE MaxRequests
    IN  {M \in SUBSET missing : Cardinality(M) = n}

\* A run begins: collect what can be resubmitted, ask for what is missing.
StartRun(w, d, n) ==
    /\ batch' = [batch EXCEPT ![n] = Ready(d, orphans[n])]
    /\ \E M \in RequestAgain(d, orphans[n]) : \E requests \in Requests(M) :
          wire' = Send(w, n, peers[n], requests)

\* No message, no receipt and no transaction of a handler is under way.
Quiet ==
    /\ \A l \in Links : wire[l] = << >> /\ todo[l] = << >>
    /\ \A n \in Nodes : inbox[n] = << >>

\* The periodic task.  Bound of the model: it runs when nothing is under way
\* that could answer an earlier request.
Wake(n) ==
    /\ Quiet
    /\ batch[n] = {}
    /\ orphans[n] # {}
    /\ StartRun(wire, dag[n], n)
    /\ UNCHANGED <<dag, orphans, seen, inbox, peers, todo, faults, refused,
                   missed>>

\* The error is one that no retry can cure.
Permanent(n, t) == t \in PureValid /\ Conflicts(dag[n], t)

\* Resubmit an orphan; it leaves the queue when accepted or past all hope.
Resubmit(n, t) ==
    /\ t \in batch[n]
    /\ batch' = [batch EXCEPT ![n] = @ \ {t}]
    /\ \/ /\ Accept(n, t)
          /\ wire' = Broadcast(wire, n, t)
          /\ orphans' = [orphans EXCEPT ![n] = @ \ {t}]
       \/ /\ Refuse(n, t)
          /\ orphans' = IF faults' = faults /\ Permanent(n, t)
                        THEN [orphans EXCEPT ![n] = @ \ {t}] ELSE orphans
    /\ UNCHANGED <<inbox, peers, todo, missed>>

-----------------------------------------------------------------------------
(* A client, and the receiver that empties tx_channel.                     *)

Submit(n, t) ==
    /\ Origin[t] = n
    /\ t \notin dag[n].txs \cup orphans[n]
    /\ \/ /\ Accept(n, t)
          /\ wire' = Broadcast(wire, n, t)
          /\ UNCHANGED <<orphans, batch>>
       \/ Shelve(n, t)
    /\ UNCHANGED <<inbox, peers, todo, missed>>

\* An acceptance is followed by a run of the solver before the next receipt.
Receive(n) ==
    /\ inbox[n] # << >>
    /\ batch[n] = {}
    /\ inbox' = [inbox EXCEPT ![n] = Tail(@)]
    /\ LET t == Head(inbox[n]) IN
       \/ /\ Accept(n, t)
          /\ StartRun(Broadcast(wire, n, t), dag'[n], n)
          /\ UNCHANGED orphans
       \/ Shelve(n, t)
       \/ Refuse(n, t) /\ UNCHANGED <<orphans, batch>>
    /\ UNCHANGED <<peers, todo, missed>>

-----------------------------------------------------------------------------
(* The handler of n for its peer m: handle_peer.                           *)

\* Mutant: only the first connection is used to catch up.
GreetingNone(tips) == << >>

Greeting(tips) == <<Msg("GetInventory", tips), Msg("SyncRequest", {})>>

\* On connection it sends its tips and asks for the complete inventory.
Greet(n, m) ==
    /\ <<n, m>> \in Links
    /\ m \notin peers[n]
    /\ todo[<<m, n>>] = << >>
    /\ peers' = [peers EXCEPT ![n] = @ \cup {m}]
    /\ \E view \in Views(n) :
          /\ Saw(n, view)
          /\ \E tips \in IF view = dag[n] THEN SelectedTips(view) ELSE {{}} :
                wire' = Send(wire, n, {m}, Greeting(tips))
    /\ UNCHANGED <<dag, orphans, batch, seen, inbox, todo, refused, missed>>

\* A handler reads a message when it is done with the one before.
Reads(n, m, kind) ==
    /\ m \in peers[n]
    /\ todo[<<m, n>>] = << >>
    /\ wire[<<m, n>>] # << >>
    /\ Head(wire[<<m, n>>]).kind = kind

Read(n, m) == Head(wire[<<m, n>>]).txs

Popped(n, m) == [wire EXCEPT ![<<m, n>>] = Tail(@)]

Reply(n, m, seq) == wire' = Send(Popped(n, m), n, {m}, seq)

StoreSame == UNCHANGED <<dag, orphans, batch, seen, inbox, peers, refused>>

\* A transaction that was not seen is marked and passed on after the check.
HearTransaction(n, m) ==
    /\ Reads(n, m, "Transaction")
    /\ wire' = Popped(n, m)
    /\ todo' = [todo EXCEPT ![<<m, n>>] =
                   [i \in 1 .. Cardinality(Read(n, m) \ seen[n]) |->
                        [tx |-> CHOOSE t \in Read(n, m) : TRUE,
                         relay |-> TRUE]]]
    /\ StoreSame /\ UNCHANGED <<faults, missed>>

\* An inventory: ask for what the DAG does not have.
HearInventory(n, m) ==
    /\ Reads(n, m, "Inventory")
    /\ \E view \in Views(n) :
          /\ Saw(n, view)
          /\ Reply(n, m, IfAny("GetData", Read(n, m) \ view.txs))
    /\ StoreSame /\ UNCHANGED <<todo, missed>>

\* The peer's tips: send a page of our others, ask for the ones not ours.
HearGetInventory(n, m) ==
    /\ Reads(n, m, "GetInventory")
    /\ \E view \in Views(n) :
       \E tips \in IF view = dag[n] THEN SelectedTips(view) ELSE {{}} :
       \E page \in Pages(tips \ Read(n, m)) :
       \E found \in Finds(n, page) :
          /\ FaultUnless(view = dag[n] /\ found = page \cap dag[n].txs)
          /\ Reply(n, m, IfAny("SyncResponse", found)
                         \o IfAny("GetData", Read(n, m) \ tips))
    /\ StoreSame /\ UNCHANGED <<todo, missed>>

\* Hashes asked for: a page of them is looked up and sent.
HearGetData(n, m) ==
    /\ Reads(n, m, "GetData")
    /\ \E page \in Pages(Read(n, m)) : \E found \in Finds(n, page) :
          /\ FaultUnless(found = page \cap dag[n].txs)
          /\ Reply(n, m, IfAny("SyncResponse", found))
          /\ missed' = [missed EXCEPT ![m] = @ \cup
                 ((Read(n, m) \cap dag[n].txs) \ found)]
    /\ StoreSame /\ UNCHANGED todo

\* The whole inventory, whatever the tips.
HearSyncRequest(n, m) ==
    /\ Reads(n, m, "SyncRequest")
    /\ \E view \in Views(n) :
          /\ Saw(n, view)
          /\ Reply(n, m, <<Msg("Inventory", view.txs)>>)
          /\ missed' = [missed EXCEPT ![m] = @ \cup (dag[n].txs \ view.txs)]
    /\ StoreSame /\ UNCHANGED todo

\* The ones not seen, in the order of their timestamps, for the receiver.
HearSyncResponse(n, m) ==
    /\ Reads(n, m, "SyncResponse")
    /\ wire' = Popped(n, m)
    /\ \E order \in SetToSeqs(Read(n, m) \ seen[n]) :
          /\ \A i, j \in DOMAIN order :
                i < j => Timestamp[order[i]] <= Timestamp[order[j]]
          /\ todo' = [todo EXCEPT ![<<m, n>>] =
                 [i \in DOMAIN order |-> [tx |-> order[i], relay |-> FALSE]]]
    /\ StoreSame /\ UNCHANGED <<faults, missed>>

\* The handler marks one and passes it on; gossip also goes to the others.
Hand(n, m) ==
    /\ todo[<<m, n>>] # << >>
    /\ LET item == Head(todo[<<m, n>>]) IN
       /\ seen' = [seen EXCEPT ![n] = @ \cup {item.tx}]
       /\ inbox' = [inbox EXCEPT ![n] = Append(@, item.tx)]
       /\ wire' = IF item.relay
                  THEN Send(wire, n, peers[n] \ {m},
                            <<Msg("Transaction", {item.tx})>>)
                  ELSE wire
    /\ todo' = [todo EXCEPT ![<<m, n>>] = Tail(@)]
    /\ UNCHANGED <<dag, orphans, batch, peers, faults, refused, missed>>

Converse(n, m) ==
    \/ Greet(n, m)
    \/ HearTransaction(n, m) \/ HearInventory(n, m) \/ HearGetInventory(n, m)
    \/ HearGetData(n, m) \/ HearSyncRequest(n, m) \/ HearSyncResponse(n, m)
    \/ Hand(n, m)

-----------------------------------------------------------------------------
(* The environment.                                                        *)

\* The connection of n and m breaks; what was on it is lost.
Cut(n, m) ==
    /\ FaultsLeft
    /\ m \in peers[n]
    /\ faults' = [faults EXCEPT !.cuts = @ + 1]
    /\ peers' = [peers EXCEPT ![n] = @ \ {m}, ![m] = @ \ {n}]
    /\ wire' = [wire EXCEPT ![<<n, m>>] = << >>, ![<<m, n>>] = << >>]
    /\ UNCHANGED <<dag, orphans, batch, seen, inbox, todo, refused, missed>>

\* start_cache_cleanup drops an entry after an hour.  Bounds of the model: by
\* then nothing is under way, and entries of the DAG are kept, as a second
\* receipt is refused as a duplicate.
Expires(n, t) == Quiet /\ t \in seen[n] \ dag[n].txs

Forget(n, t) ==
    /\ Expires(n, t)
    /\ seen' = [seen EXCEPT ![n] = @ \ {t}]
    /\ UNCHANGED <<dag, orphans, batch, inbox, peers, wire, todo, faults,
                   refused, missed>>

\* The receiver and the solver of n, of which one can act at a time.
Work(n) == Wake(n) \/ Receive(n) \/ \E t \in Tx : Resubmit(n, t)

SyncNext ==
    \/ \E n \in Nodes :
          Work(n) \/ \E t \in Tx : Submit(n, t) \/ Forget(n, t)
    \/ \E l \in Links :
          Converse(l[1], l[2]) \/ Cut(l[1], l[2])

\* Every task of every node goes on; the reconnection task dials again; the
\* cache cleaner runs whatever the traffic, so each entry is dropped sooner or
\* later although the model lets it run only when nothing is under way.
SyncFairness ==
    /\ \A n \in Nodes :
          /\ WF_syncVars(Work(n))
          /\ SF_syncVars(\E t \in Tx : Forget(n, t))
    /\ \A l \in Links :
          WF_syncVars(Converse(l[1], l[2]))

SyncSpec == SyncInit /\ [][SyncNext]_syncVars /\ SyncFairness

-----------------------------------------------------------------------------
(* GlobalStatusResolver: one status out of the reports of several nodes.   *)
Levels == <<"unknown", "pending", "unconfirmed", "confirmed", "stable">>

WeightOf == [S \in SUBSET Nodes |-> SumFunctionOnSet(NodeWeight, S)]

\* Mutant: only the nodes that know the transaction at all are asked.
ElectorateKnown(report) == {n \in Nodes : report[n] # "unknown"}

\* Whose weight is the whole: everyone who reports.
Electorate(report) == Nodes

\* reconcile_quorum: the highest level with a quorum, else the highest known
\* one with a majority.
ReconcileQuorum(report) ==
    LET total == WeightOf[Electorate(report)]
        share == [i \in DOMAIN Levels |->
                     100 * WeightOf[{n \in Nodes : report[n] = Levels[i]}]]
        reaching(percent) == {i \in DOMAIN Levels : share[i] >= percent * total}
    IN  IF total = 0 THEN "unknown"
        ELSE IF reaching(QuorumPercent) # {}
        THEN Levels[Max(reaching(QuorumPercent))]
        ELSE Levels[Max(reaching(MajorityPercent) \cup {1})]

\* What n reports of t when its mempool is empty; what is in a mempool reports
\* as pending too, and takes weight from every other level.
Report(n, t) == ReconcileSingle(dag[n], orphans[n], t)

-----------------------------------------------------------------------------
\* Every node's DAG is well formed and every task holds what it should.
SyncTypeOK ==
    /\ \A n \in Nodes :
          /\ dag[n] \in DagType
          /\ ParentClosed(dag[n]) /\ NonceUnique(dag[n])
          /\ ParentPairUnique(dag[n]) /\ TipsAreChildless(dag[n])
    /\ orphans \in [Nodes -> SUBSET Tx]
    /\ \A n \in Nodes : batch[n] \subseteq orphans[n]
    /\ seen \in [Nodes -> SUBSET Tx]
    /\ inbox \in [Nodes -> Seq(Tx)]
    /\ wire \in [Links -> Seq(Message)]
    /\ todo \in [Links -> Seq([tx : Tx, relay : BOOLEAN])]

Connected(n, m) == m \in peers[n] /\ n \in peers[m]

\* When nothing is under way, what a node holds and its peer does not was put
\* before that peer (it waits there for a parent or was refused), or was kept
\* back by a busy lock or a page (p2p.rs:599 speaks of the "complete hash set",
\* but the answer stops at PAGE_SIZE): no transaction gets lost between gossip,
\* the inventory exchange, a reconnection and the cache of seen transactions.
QuietAgreement ==
    Quiet => \A l \in Links : Connected(l[1], l[2]) =>
        dag[l[1]].txs \ dag[l[2]].txs
            \subseteq orphans[l[2]] \cup refused[l[2]] \cup missed[l[2]]

\* A status is not granted by a minority: when the nodes together call a
\* transaction unconfirmed or better, nodes of half the weight or more have it
\* in their DAGs with everything it builds on, and when they call it confirmed
\* each of these also has the references.
GlobalStatusBacked ==
    \A t \in UNION {dag[n].txs : n \in Nodes} :
        LET global == ReconcileQuorum([n \in Nodes |-> Report(n, t)])
            backers == {n \in Nodes :
                /\ Ancestry(dag[n], t) \cup {t} \subseteq dag[n].txs \cup {Root}
                /\ global = "confirmed" =>
                       ReferenceCount(dag[n], t) >= MinConfirmations}
        IN  global \notin {"unknown", "pending"} =>
                2 * WeightOf[backers] >= WeightOf[Nodes]

\* Something t builds on can never enter n, or cannot now.
Hopeless(n, t) ==
    \E a \in Ancestry([txs |-> Tx, tips |-> {}], t) \cup {t} :
        /\ a \in Tx \ dag[n].txs
        /\ \/ Conflicts(dag[n], a)
           \/ HasParents(dag[n], a) /\ ~Valid(dag[n], a)
           \/ a \notin orphans[n] /\ \A m \in Nodes :
                 {m, n} \in Peerings => a \notin dag[m].txs

\* An orphan does not wait for ever (rpc.rs:1108) unless something it builds on
\* is barred from this node: the repeated requests get through although cuts,
\* busy locks and the cache of seen transactions swallow single answers.
OrphansResolve ==
    \A n \in Nodes : \A t \in {u \in Tx : ~IsRoot(u)} :
        []<>(t \notin orphans[n] \/ Hopeless(n, t))
=============================================================================
