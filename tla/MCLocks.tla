------------------------------ MODULE MCLocks -------------------------------
(***************************************************************************)
(* Instances of Locks for TLC: which task runs which handlers.             *)
(***************************************************************************)
EXTENDS Locks

\* A miner node.  Each task stands for whichever task of the node runs one of
\* its handlers: requests, what arrives from the network, the mining loop.
MCDuties ==
    [rpc   |-> {"submit", "status", "stake", "giveBack", "unstake",
                "askFaucet", "lookUp", "metrics", "switchMining", "resolve",
                "connect"},
     p2p   |-> {"submit", "storeOrphan", "collect", "dropOrphan",
                "gossip", "hearPeers", "endPeer"},
     miner |-> {"mine"}]

\* A call, the mining loop, and a client who asks for statistics.
MCStatsDuties ==
    [rpc |-> {"stats"}, p2p |-> {"submit"}, miner |-> {"mine"}]

MCTasks == {"rpc", "p2p", "miner"}
=============================================================================
