------------------------------ MODULE MCGrowth ------------------------------
(***************************************************************************)
(* An instance of Growth for TLC: two roots, diamonds, a transaction that  *)
(* names one parent twice, and rivals for a nonce and for two parents.     *)
(* The weight of r2 makes the score depend on the depth at which it is     *)
(* met: d2 on r2 and c1 has less than c1 before it, and a rival wins.      *)
(***************************************************************************)
EXTENDS Growth

Row(from, nonce, weight, p, q) ==
    [from |-> from, nonce |-> nonce, weight |-> weight, parents |-> <<p, q>>]

Table ==
    [r1 |-> Row("alice", 1, 1, "root", "root"),
     r2 |-> Row("bob",   1, 20, "root", "root"),
     a2 |-> Row("alice", 2, 1, "r1",   "r2"),
     b2 |-> Row("bob",   2, 1, "r1",   "root"),
     c1 |-> Row("carol", 1, 1, "a2",   "b2"),
     c2 |-> Row("carol", 2, 5, "a2",   "a2"),
     d1 |-> Row("dave",  1, 1, "a2",   "a2"),
     d2 |-> Row("dave",  2, 1, "r2",   "c1"),
     e1 |-> Row("erin",  1, 1, "r2",   "root"),
     d3 |-> Row("dave",  2, 1, "e1",   "a2"),
     e2 |-> Row("erin",  2, 1, "c1",   "r1"),
     f1 |-> Row("faucet", 1, 1, "b2",  "e1"),
     f2 |-> Row("faucet", 1, 1, "root", "root")]

MCTx        == DOMAIN Table
MCAddr      == {"alice", "bob", "carol", "dave", "erin", "burn", "faucet"}
MCSender    == [t \in MCTx |-> Table[t].from]
MCNonce     == [t \in MCTx |-> Table[t].nonce]
MCParents   == [t \in MCTx |-> Table[t].parents]
MCWeight    == [t \in MCTx |-> Table[t].weight]
MCZero      == [t \in MCTx |-> 0]
MCReceiver  == [t \in MCTx |-> "bob"]

MCReputation == [a \in MCAddr |-> IF a = "bob" THEN 2 ELSE 1]
=============================================================================
