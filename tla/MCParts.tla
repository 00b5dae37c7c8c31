------------------------------ MODULE MCParts -------------------------------
(***************************************************************************)
(* The parts that share no state: a DAG and its queries, the quorum, the   *)
(* emission, the faucet, the meters of the RPC server, the migration of    *)
(* old data, the peers and the locks.  A behaviour moves one of them,      *)
(* chosen at the start.                                                    *)
(***************************************************************************)
EXTENDS MCGrowth, QuorumVotes, Emission, FaucetCalls, Meters, Migration,
        Peers, MCLocks

VARIABLE part

partsVars == <<dag, quorumVars, emissionVars, faucetVars, metersVars,
               migrationVars, peersVars, lockVars, part>>

\* No host answers where another part moves.
PartsInit ==
    /\ GrowthInit /\ QuorumInit /\ EmissionInit /\ FaucetInit /\ MetersInit
    /\ MigrationInit /\ PeersInit /\ LocksInit
    /\ part \in {"growth", "quorum", "emission", "faucet", "meters",
                "migration", "peers", "locks"}
    /\ part = "peers" \/ up = {}

GrowthMoves ==
    /\ part = "growth" /\ GrowthNext
    /\ UNCHANGED <<quorumVars, emissionVars, faucetVars, metersVars,
                   migrationVars, peersVars, lockVars, part>>

QuorumMoves ==
    /\ part = "quorum" /\ QuorumNext
    /\ UNCHANGED <<dag, emissionVars, faucetVars, metersVars, migrationVars,
                   peersVars, lockVars, part>>

EmissionMoves ==
    /\ part = "emission" /\ EmissionNext
    /\ UNCHANGED <<dag, quorumVars, faucetVars, metersVars, migrationVars,
                   peersVars, lockVars, part>>

FaucetMoves ==
    /\ part = "faucet" /\ FaucetNext
    /\ UNCHANGED <<dag, quorumVars, emissionVars, metersVars, migrationVars,
                   peersVars, lockVars, part>>

MetersMoves ==
    /\ part = "meters" /\ MetersNext
    /\ UNCHANGED <<dag, quorumVars, emissionVars, faucetVars, migrationVars,
                   peersVars, lockVars, part>>

MigrationMoves ==
    /\ part = "migration" /\ MigrationNext
    /\ UNCHANGED <<dag, quorumVars, emissionVars, faucetVars, metersVars,
                   peersVars, lockVars, part>>

PeersMoves ==
    /\ part = "peers" /\ PeersNext
    /\ UNCHANGED <<dag, quorumVars, emissionVars, faucetVars, metersVars,
                   migrationVars, lockVars, part>>

LocksMoves ==
    /\ part = "locks" /\ LocksNext
    /\ UNCHANGED <<dag, quorumVars, emissionVars, faucetVars, metersVars,
                   migrationVars, peersVars, part>>

PartsNext ==
    \/ GrowthMoves \/ QuorumMoves \/ EmissionMoves \/ FaucetMoves \/ MetersMoves
    \/ MigrationMoves \/ PeersMoves \/ LocksMoves

\* Tokio runs every ready task: a peer's dialling, reconnecting and handling
\* goes on, and so does a handler between two locks.  Nothing else is assumed:
\* that whoever waits for a lock is served follows from the order of its queue.
PartsSpec ==
    /\ PartsInit /\ [][PartsNext]_partsVars
    /\ WF_peersVars(part = "peers" /\ Dialling)
    /\ WF_peersVars(part = "peers" /\ Reconnection)
    /\ WF_peersVars(part = "peers" /\ Handling)
    /\ \A t \in Tasks : WF_lockVars(part = "locks" /\ Proceed(t))
    /\ \A l \in LockNames : WF_lockVars(part = "locks" /\ Grant(l))

-----------------------------------------------------------------------------
MCBootnodes == <<"b1", "b2">>

MCAmounts == [high |-> 20, middle |-> 2]

\* Founder, a genesis account, has spent everything; the other has not begun.
MCLegacyBal    == [founder |-> 0, alice |-> 3, bob |-> 4]
MCGenesisCoins == [founder |-> 9, reserve |-> 8]
=============================================================================
