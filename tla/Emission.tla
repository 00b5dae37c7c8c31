------------------------------ MODULE Emission ------------------------------
(***************************************************************************)
(* Mining rewards of the library's consensus engine: the emission curve,   *)
(* its halvings and hard cap (src/economics.rs), and the balances that     *)
(* distribute_mining_reward credits (src/consensus.rs).                    *)
(***************************************************************************)
EXTENDS Integers, FiniteSets, Functions

CONSTANTS
    Earners,            \* the validators that are rewarded
    Difficulties,       \* the difficulties they mine at
    MinDifficulty,      \* min_mining_difficulty (1000)
    InitialReward, MinReward,
    HalvingInterval,    \* rewards between two halvings
    HardCap,
    MaxEpoch,           \* bound of the model: rewards the cap lets through
    MaxRefused          \* bound of the model: rewards the cap refuses

EmissionAssumption ==
    /\ IsFiniteSet(Earners)
    /\ Difficulties \subseteq Nat
    /\ MinDifficulty \in Nat \ {0}
    /\ InitialReward \in Nat \ {0} /\ MinReward \in 1 .. InitialReward
    /\ HalvingInterval \in Nat \ {0}
    /\ HardCap \in Nat /\ MaxEpoch \in Nat /\ MaxRefused \in Nat

ASSUME EmissionAssumption

VARIABLES
    earned,     \* TokenBalance.balance of each
    emitted,    \* total_emitted
    epoch,      \* current_epoch
    halvings,   \* halvings_count
    turnedDown  \* how many rewards the cap refused

emissionVars == <<earned, emitted, epoch, halvings, turnedDown>>

EmissionInit ==
    /\ earned = [v \in Earners |-> 0]
    /\ emitted = 0
    /\ epoch = 0
    /\ halvings = 0
    /\ turnedDown = 0

-----------------------------------------------------------------------------
\* calculate_reward: as many halvings, each rounded down, not below MinReward.
Halved[k \in Nat] ==
    IF k = 0 THEN InitialReward
    ELSE IF Halved[k - 1] \div 2 < MinReward THEN MinReward
    ELSE Halved[k - 1] \div 2

BaseReward == Halved[halvings]

\* calculate_mining_reward: in proportion to the difficulty, five times at most.
MiningReward(d) ==
    IF d < MinDifficulty THEN 0
    ELSE IF d >= 5 * MinDifficulty THEN 5 * BaseReward
    ELSE (BaseReward * d) \div MinDifficulty

\* Mutant: a reward that only partly fits is let through.
FitsFirst(reward) == emitted < HardCap

Fits(reward) == emitted + reward <= HardCap

\* distribute_mining_reward: the balance is credited before the cap is asked,
\* and keeps the reward when it refuses.  A reward of nothing counts for the
\* next halving like any other.
Distribute(v, d) ==
    LET reward == MiningReward(d) IN
    /\ earned' = [earned EXCEPT ![v] = @ + reward]
    /\ IF Fits(reward)
       THEN /\ epoch < MaxEpoch
            /\ emitted' = emitted + reward
            /\ epoch' = epoch + 1
            /\ halvings' = IF epoch' % HalvingInterval = 0
                           THEN halvings + 1 ELSE halvings
            /\ UNCHANGED turnedDown
       ELSE /\ turnedDown < MaxRefused
            /\ turnedDown' = turnedDown + 1
            /\ UNCHANGED <<emitted, epoch, halvings>>

EmissionNext == \E v \in Earners, d \in Difficulties : Distribute(v, d)

EmissionSpec == EmissionInit /\ [][EmissionNext]_emissionVars

-----------------------------------------------------------------------------
\* The curve never emits more than the cap and never more than the balances
\* hold; and as long as the largest reward still fits, balances and curve
\* agree: the refusals that leave a balance credited (consensus.rs:707) come at
\* the end of the emission only, although rewards of all sizes go on.
EmissionAccounted ==
    /\ emitted <= HardCap /\ emitted <= SumFunction(earned)
    /\ emitted + 5 * InitialReward <= HardCap => SumFunction(earned) = emitted
=============================================================================
