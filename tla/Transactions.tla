---------------------------- MODULE Transactions ----------------------------
(***************************************************************************)
(* The transactions of the ledger, as the node reads them.  A transaction  *)
(* is a member of the finite universe Tx; its fields are constant          *)
(* functions, because a transaction id is the hash of the fields           *)
(* (Transaction::compute_hash), so the fields of an id never change.       *)
(***************************************************************************)
EXTENDS Naturals, FiniteSets

CONSTANTS
    Tx,             \* the transaction ids that can reach the node
    Root,           \* the all-zero parent id, which stands for genesis
    NoTx,           \* "no transaction" (Option::None)
    Addr,           \* account addresses
    Burn,           \* FEE_BURN_ADDRESS
    Faucet,         \* FAUCET_ADDRESS, whose key every node shares
    Sender, Receiver, Amount, Fee, AccountNonce,
    Parents,        \* Parents[t] = <<parent 0, parent 1>>
    PureValid       \* those with valid PoW, signature, sender key and sum

TransactionsAssumption ==
    /\ Root \notin Tx
    /\ NoTx \notin Tx
    /\ Burn \in Addr
    /\ Faucet \in Addr
    /\ Sender \in [Tx -> Addr]
    /\ Receiver \in [Tx -> Addr]
    /\ Amount \in [Tx -> Nat]
    /\ Fee \in [Tx -> Nat]
    /\ AccountNonce \in [Tx -> Nat]
    /\ Parents \in [Tx -> (Tx \cup {Root}) \X (Tx \cup {Root})]
    /\ PureValid \subseteq Tx

\* Nobody holds the key of the burn address, so no signature verifies for it;
\* and an id, being a hash of its parents' ids, is not its own parent.
HashAssumption ==
    /\ \A t \in PureValid : Sender[t] # Burn
    /\ \A t \in Tx : Parents[t][1] # t /\ Parents[t][2] # t

\* Addresses and ids have 32 bytes.
FiniteAssumption == IsFiniteSet(Addr) /\ IsFiniteSet(Tx)

ASSUME TransactionsAssumption
ASSUME HashAssumption
ASSUME FiniteAssumption

ParentSet(t) == {Parents[t][1], Parents[t][2]}

\* A transaction that hangs directly under genesis.
IsRoot(t) == ParentSet(t) = {Root}
=============================================================================
