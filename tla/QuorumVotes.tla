---------------------------- MODULE QuorumVotes -----------------------------
(***************************************************************************)
(* Virtual quorum voting (VQVConsensus, src/consensus.rs): validators come *)
(* and go with their stakes while votes on transactions are collected.     *)
(*                                                                         *)
(* A vote keeps the weight its validator had when it was cast; nothing     *)
(* removes a second vote of the same validator.                            *)
(***************************************************************************)
EXTENDS Integers, FiniteSets, Functions

CONSTANTS
    Validators,         \* those that may register
    Stakes,             \* the stakes they offer
    MinStake, MaxStake,
    BaseQuorum,         \* base_quorum_size
    AdaptiveThreshold,  \* amount from which the quorum is the largest
    ApprovalPercent,    \* approval_threshold (51)
    Ballots,            \* the transactions voted on
    BallotAmount,       \* BallotAmount[t]: the amount of such a transaction
    MaxVotes            \* bound of the model: votes cast

QuorumAssumption ==
    /\ IsFiniteSet(Validators) /\ IsFiniteSet(Ballots)
    /\ Stakes \subseteq Nat
    /\ MinStake \in Nat \ {0} /\ MaxStake \in Nat
    /\ BaseQuorum \in Nat /\ AdaptiveThreshold \in Nat
    /\ ApprovalPercent \in 0 .. 100
    /\ BallotAmount \in [Ballots -> Nat]
    /\ MaxVotes \in Nat

ASSUME QuorumAssumption

Vote == [validator : Validators, tx : Ballots, approve : BOOLEAN,
         weight : MinStake .. MaxStake]

VARIABLES
    stake,      \* validators: the stake of each, 0 when not registered
    votes       \* how often each vote was cast

quorumVars == <<stake, votes>>

QuorumInit ==
    /\ stake = [v \in Validators |-> 0]
    /\ votes = [k \in Vote |-> 0]

-----------------------------------------------------------------------------
Registered == {v \in Validators : stake[v] > 0}

\* register_validator: a second registration replaces the first.
Register(v, amount) ==
    /\ MinStake <= amount /\ amount <= MaxStake
    /\ stake' = [stake EXCEPT ![v] = amount]
    /\ UNCHANGED votes

\* unregister_validator.
Unregister(v) ==
    /\ v \in Registered
    /\ stake' = [stake EXCEPT ![v] = 0]
    /\ UNCHANGED votes

\* The stake: nobody lowers the reputation of a validator below 1.
VotingWeight(v) == stake[v]

\* calculate_adaptive_quorum_size.
QuorumSize(amount) ==
    IF amount >= AdaptiveThreshold THEN BaseQuorum * 2
    ELSE IF amount >= AdaptiveThreshold \div 10 THEN BaseQuorum
    ELSE BaseQuorum \div 3

\* select_quorum: the validators are shuffled from a seed, but they come in the
\* order of a hash map, so any of them may be in front.
SelectQuorum(t) ==
    LET size == QuorumSize(BallotAmount[t]) IN
    {Q \in SUBSET Registered :
        Cardinality(Q) = IF Cardinality(Registered) < size
                         THEN Cardinality(Registered) ELSE size}

\* simulate_vote: the first of a quorum votes, with its weight of today.
Cast(v, t, approve) ==
    /\ \E Q \in SelectQuorum(t) : v \in Q
    /\ SumFunction(votes) < MaxVotes
    /\ LET k == [validator |-> v, tx |-> t, approve |-> approve,
                 weight |-> VotingWeight(v)] IN
       votes' = [votes EXCEPT ![k] = @ + 1]
    /\ UNCHANGED stake

QuorumNext ==
    \/ \E v \in Validators :
          Unregister(v) \/ \E amount \in Stakes : Register(v, amount)
    \/ \E v \in Validators, t \in Ballots, approve \in BOOLEAN :
          Cast(v, t, approve)

QuorumSpec == QuorumInit /\ [][QuorumNext]_quorumVars

-----------------------------------------------------------------------------
QuorumWeight(Q) == SumFunctionOnSet([v \in Q |-> VotingWeight(v)], Q)

\* Mutant: votes against count as well.
ApprovingWeightAny(t, Q) ==
    SumFunctionOnSet([k \in Vote |-> votes[k] * k.weight],
                     {k \in Vote : k.tx = t /\ k.validator \in Q})

\* What the quorum's votes for t weigh.
ApprovingWeight(t, Q) ==
    SumFunctionOnSet([k \in Vote |-> votes[k] * k.weight],
                     {k \in Vote :
                         k.tx = t /\ k.approve /\ k.validator \in Q})

\* validate_transaction; without validators or weight it is an error.
Approved(t, Q) ==
    /\ QuorumWeight(Q) > 0
    /\ 100 * ApprovingWeight(t, Q) >= ApprovalPercent * QuorumWeight(Q)

\* v voted once, for one transaction at most, and has its stake since.
Honest(v) ==
    LET cast == {k \in Vote : k.validator = v /\ k.approve /\ votes[k] > 0} IN
    /\ \A k, j \in cast : k = j
    /\ \A k \in cast : votes[k] = 1 /\ k.weight <= stake[v]

\* Two rivals are never both approved by one and the same quorum whose members
\* vote once and keep their stake.  The code checks neither (consensus.rs:658):
\* both are what the caller who collects the votes has to see to.
RivalsExclusive ==
    \A t, u \in Ballots :
        t # u => \A Q \in SelectQuorum(t) \cap SelectQuorum(u) :
            (\A v \in Q : Honest(v)) => ~(Approved(t, Q) /\ Approved(u, Q))
=============================================================================
