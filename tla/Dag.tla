-------------------------------- MODULE Dag ---------------------------------
(***************************************************************************)
(* struct DAG of src/parent_selection.rs as operators on a value with the  *)
(* set of transactions and the explicit set of tips.  The children map is  *)
(* not stored: nothing the node runs removes a transaction, so it always   *)
(* holds exactly the entries that Children derives from the transactions.  *)
(***************************************************************************)
EXTENDS Transactions

DagType == [txs : SUBSET Tx, tips : SUBSET Tx]

EmptyDag == [txs |-> {}, tips |-> {}]

Children(d, p) == {t \in d.txs : p \in ParentSet(t)}

HasParents(d, t) == ParentSet(t) \subseteq d.txs \cup {Root}

\* has_transaction_with_parents: the same ordered pair; roots never conflict.
ParentsUsed(d, t) ==
    /\ ~IsRoot(t)
    /\ \E u \in d.txs : Parents[u] = Parents[t]

\* has_sender_conflict: one transaction per (sender, nonce), but the faucet.
SenderConflict(d, t) ==
    /\ Sender[t] # Faucet
    /\ \E u \in d.txs : /\ Sender[u] = Sender[t]
                        /\ AccountNonce[u] = AccountNonce[t]

\* The refusals a retry cannot cure (matched by their text in process_orphans).
Conflicts(d, t) == t \in d.txs \/ ParentsUsed(d, t) \/ SenderConflict(d, t)

\* add_transaction_validated returns Ok.
CanAdd(d, t) == HasParents(d, t) /\ ~Conflicts(d, t)

\* Mutant: the parents stay tips.
AddTxKeepsTips(d, t) ==
    [txs |-> d.txs \cup {t}, tips |-> d.tips \cup {t}]

\* The insertion, its entry among the tips and the removal of its parents.
AddTx(d, t) ==
    [txs |-> d.txs \cup {t}, tips |-> (d.tips \cup {t}) \ ParentSet(t)]

\* rebuild_tips.
RebuildTips(d) == [d EXCEPT !.tips = {t \in d.txs : Children(d, t) = {}}]

-----------------------------------------------------------------------------
(* What a DAG must look like, whatever the order of insertions.            *)
ParentClosed(d) == \A t \in d.txs : HasParents(d, t)

NonceUnique(d) ==
    \A t, u \in d.txs :
        /\ Sender[t] = Sender[u] /\ Sender[t] # Faucet
        /\ AccountNonce[t] = AccountNonce[u]
        => t = u

ParentPairUnique(d) ==
    \A t, u \in d.txs : Parents[t] = Parents[u] /\ ~IsRoot(t) => t = u

TipsAreChildless(d) == d.tips = {t \in d.txs : Children(d, t) = {}}
=============================================================================
