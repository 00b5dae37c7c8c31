---------------------------- MODULE MCDurability ----------------------------
(***************************************************************************)
(* Instances of Durability for TLC.  Alice and the faucet are the genesis  *)
(* accounts; a configuration picks the table of transactions.              *)
(***************************************************************************)
EXTENDS Durability

CONSTANT Table      \* the transactions of this instance

Row(from, to, amount, fee, nonce, p, q) ==
    [from |-> from, to |-> to, amount |-> amount, fee |-> fee,
     nonce |-> nonce, parents |-> <<p, q>>]

\* Alice's second payment waits for her first, and Bob's has the same parents.
OrphanTable ==
    [a1  |-> Row("alice",  "bob",   2, 1, 1, "root", "root"),
     a2  |-> Row("alice",  "bob",   1, 2, 2, "a1",   "root"),
     b1  |-> Row("bob",    "alice", 1, 1, 1, "a1",   "root")]

\* A payment of the faucet, whose nonce is not checked, and one by Bob, who has
\* nothing else: a repair may meet it first, or without the faucet's.
FaucetTable ==
    [b1  |-> Row("bob",    "alice", 1, 1, 1, "root", "root"),
     f1  |-> Row("faucet", "bob",   2, 1, 1, "root", "root")]

\* Alice pays everything she has.
SpendTable == [a1 |-> Row("alice", "bob", 5, 1, 1, "root", "root")]

MCTx        == DOMAIN Table
MCSender    == [t \in MCTx |-> Table[t].from]
MCReceiver  == [t \in MCTx |-> Table[t].to]
MCAmount    == [t \in MCTx |-> Table[t].amount]
MCFee       == [t \in MCTx |-> Table[t].fee]
MCNonce     == [t \in MCTx |-> Table[t].nonce]
MCParents   == [t \in MCTx |-> Table[t].parents]

\* The children come before their parents, so that one pass is not enough.
MCKeyOrder  == SetToSortSeq(MCTx, LAMBDA t, u :
                   Cardinality(ParentSet(t)) > Cardinality(ParentSet(u)))

MCAddr      == {"alice", "bob", "burn", "faucet", "miner"}

MCGenesisBal ==
    [a \in MCAddr |-> CASE a = "alice" -> 6 [] a = "faucet" -> 9 [] OTHER -> 0]

MCRewardEra == [k \in 0 .. 62 |-> IF k = 0 THEN 2 ELSE IF k = 1 THEN 1 ELSE 0]
=============================================================================
