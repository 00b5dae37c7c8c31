---------------------------- MODULE MCProcessor ----------------------------
(***************************************************************************)
(* Instances of Processor for TLC.  Each table lists the transactions of   *)
(* one instance; a configuration picks the table.                          *)
(***************************************************************************)
EXTENDS ProcessorProperties

CONSTANT Table      \* the transactions of this instance

Row(from, to, amount, fee, nonce, p, q) ==
    [from |-> from, to |-> to, amount |-> amount, fee |-> fee,
     nonce |-> nonce, parents |-> <<p, q>>]

\* Two accounts.  a2 and a2x compete for Alice's second nonce, a2 and b1 for
\* the same parents; b1 pays the burn address, a2x pays Alice herself, and
\* the fees differ so that a full mempool evicts or refuses.
RivalTable ==
    [a1  |-> Row("alice", "bob",   2, 1, 1, "root", "root"),
     a2  |-> Row("alice", "bob",   1, 2, 2, "a1",   "root"),
     a2x |-> Row("alice", "alice", 1, 1, 2, "root", "root"),
     b1  |-> Row("bob",   "burn",  1, 2, 1, "a1",   "root")]

\* The faucet, whose nonces repeat and go backwards (several nodes share its
\* key), and Alice, whom it funds.  f2 and a1 wait for f5; they have the same
\* parents, so the one that comes second can never enter the DAG.
FaucetTable ==
    [f5  |-> Row("faucet", "alice",  3, 1, 5, "root", "root"),
     f2  |-> Row("faucet", "faucet", 2, 1, 2, "f5",   "root"),
     f2x |-> Row("faucet", "alice",  2, 2, 2, "root", "root"),
     a1  |-> Row("alice",  "bob",    8, 1, 1, "f5",   "root")]

MCTx        == DOMAIN Table
MCSender    == [t \in MCTx |-> Table[t].from]
MCReceiver  == [t \in MCTx |-> Table[t].to]
MCAmount    == [t \in MCTx |-> Table[t].amount]
MCFee       == [t \in MCTx |-> Table[t].fee]
MCNonce     == [t \in MCTx |-> Table[t].nonce]
MCParents   == [t \in MCTx |-> Table[t].parents]

MCAddr      == {"alice", "bob", "burn", "faucet"}

MCGenesisBal ==
    [a \in MCAddr |-> CASE a = "alice"  -> 6
                        [] a = "bob"    -> 2
                        [] a = "faucet" -> 9
                        [] OTHER        -> 0]

MCRewardEra == [k \in 0 .. 62 |-> IF k = 0 THEN 2 ELSE IF k = 1 THEN 1 ELSE 0]
=============================================================================
