------------------------------ MODULE FeeRules ------------------------------
(***************************************************************************)
(* FeeOracle of src/rpc.rs: the minimum fee follows the mempool.           *)
(***************************************************************************)
EXTENDS Naturals

CONSTANTS
    PoolSize,           \* max_size of the mempool
    FeeCap              \* the cap of the fee oracle (100)

FeeAssumption ==
    /\ PoolSize \in Nat \ {0}
    /\ FeeCap \in Nat \ {0}

ASSUME FeeAssumption

\* Mutant: a fee of two is never halved.
AdjustedSticky(fee, occupied) ==
    IF 10 * occupied > 8 * PoolSize
    THEN IF fee * 2 < FeeCap THEN fee * 2 ELSE FeeCap
    ELSE IF 2 * occupied > PoolSize
    THEN (fee * 3) \div 2
    ELSE IF 5 * occupied < PoolSize /\ fee > 2
    THEN fee \div 2
    ELSE fee

\* FeeOracle::adjust once its ten seconds have passed, at this occupancy.
Adjusted(fee, occupied) ==
    IF 10 * occupied > 8 * PoolSize
    THEN IF fee * 2 < FeeCap THEN fee * 2 ELSE FeeCap
    ELSE IF 2 * occupied > PoolSize
    THEN (fee * 3) \div 2
    ELSE IF 5 * occupied < PoolSize /\ fee > 1
    THEN fee \div 2
    ELSE fee
=============================================================================
