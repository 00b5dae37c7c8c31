------------------------------- MODULE MCSync -------------------------------
(***************************************************************************)
(* An instance of Sync for TLC: three nodes in a line, a payment submitted *)
(* at one end and a child of it, which may overtake it.                    *)
(***************************************************************************)
EXTENDS Sync

Row(from, nonce, p, q, at, origin) ==
    [from |-> from, nonce |-> nonce, parents |-> <<p, q>>, at |-> at,
     origin |-> origin]

Table ==
    [a1 |-> Row("alice", 1, "root", "root", 1, "n1"),
     b1 |-> Row("bob",   1, "a1",   "root", 2, "n1")]

MCChain     == DOMAIN Table
MCAddr      == {"alice", "bob", "burn", "faucet"}
MCNodes     == {"n1", "n2", "n3"}
MCPeerings  == {{"n1", "n2"}, {"n2", "n3"}}
MCNodeWeight == [n \in MCNodes |-> IF n = "n2" THEN 2 ELSE 1]
MCSender    == [t \in Tx |-> Table[t].from]
MCNonce     == [t \in Tx |-> Table[t].nonce]
MCParents   == [t \in Tx |-> Table[t].parents]
MCOrigin    == [t \in Tx |-> Table[t].origin]
MCTimestamp == [t \in Tx |-> Table[t].at]
MCZero      == [t \in Tx |-> 0]
MCReceiver  == [t \in Tx |-> "bob"]
MCOne       == [a \in MCAddr |-> 1]
=============================================================================
