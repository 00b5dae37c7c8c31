---------------------------- MODULE PartsProofs -----------------------------
(***************************************************************************)
(* Theorems about the parts that share no state: the quorum, the emission  *)
(* curve, the rate limiter, concurrent faucet requests, the migration of   *)
(* old files, the locks and a DAG that grows; each for all values of its   *)
(* constants.                                                              *)
(***************************************************************************)
EXTENDS Growth, QuorumVotes, Emission, Meters, FaucetCalls, Migration, Locks,
        DagFacts, SequenceTheorems

-----------------------------------------------------------------------------
(* The quorum.                                                             *)
\* Votes and stakes are numbers.
QuorumTypeOK ==
    /\ stake \in [Validators -> Nat]
    /\ votes \in [Vote -> Nat]

LEMMA QuorumStep == QuorumTypeOK /\ [QuorumNext]_quorumVars => QuorumTypeOK'
<1> SUFFICES ASSUME QuorumTypeOK, [QuorumNext]_quorumVars PROVE QuorumTypeOK'
  OBVIOUS
<1> USE DEF QuorumTypeOK
<1>1. CASE UNCHANGED quorumVars
  BY <1>1 DEF quorumVars
<1>2. ASSUME NEW v \in Validators, Unregister(v) PROVE QuorumTypeOK'
  BY <1>2 DEF Unregister
<1>3. ASSUME NEW v \in Validators, NEW amount \in Stakes, Register(v, amount)
      PROVE  QuorumTypeOK'
  <2>1. amount \in Nat
    BY QuorumAssumption DEF QuorumAssumption
  <2> QED BY <1>3, <2>1 DEF Register
<1>4. ASSUME NEW v \in Validators, NEW t \in Ballots, NEW approve \in BOOLEAN,
             Cast(v, t, approve)
      PROVE  QuorumTypeOK'
  <2> DEFINE k == [validator |-> v, tx |-> t, approve |-> approve,
                   weight |-> VotingWeight(v)]
  <2>1. votes' = [votes EXCEPT ![k] = @ + 1] /\ stake' = stake
    BY <1>4 DEF Cast
  <2> HIDE DEF k
  <2>2. votes' \in [Vote -> Nat]
    <3>1. CASE k \in Vote
      BY <2>1, <3>1
    <3>2. CASE k \notin Vote
      BY <2>1, <3>2
    <3> QED BY <3>1, <3>2
  <2> QED BY <2>1, <2>2
<1> QED BY <1>1, <1>2, <1>3, <1>4 DEF QuorumNext

\* What a vote weighs is a number.
LEMMA VoteNumbers ==
    ASSUME QuorumTypeOK, NEW k \in Vote
    PROVE  /\ k.weight \in Nat /\ votes[k] \in Nat
           /\ votes[k] * k.weight \in Nat
<1>1. votes[k] \in Nat
  BY DEF QuorumTypeOK
<1>2. k.weight \in MinStake .. MaxStake
  BY DEF Vote
<1>3. k.weight \in Nat
  BY <1>2, QuorumAssumption DEF QuorumAssumption
<1> QED BY <1>1, <1>3

\* There are finitely many different votes.
LEMMA VotesFinite == IsFiniteSet(Vote)
<1> DEFINE B == {TRUE, FALSE}
           W == MinStake .. MaxStake
           P == ((Validators \X Ballots) \X (B \X W))
           f == [p \in P |-> [validator |-> p[1][1], tx |-> p[1][2],
                              approve |-> p[2][1], weight |-> p[2][2]]]
<1>1. IsFiniteSet(B)
  <2>1. IsFiniteSet({TRUE})
    BY FS_Singleton
  <2>2. B = {TRUE} \cup {FALSE}
    OBVIOUS
  <2> QED BY <2>1, <2>2, FS_AddElement
<1>2. IsFiniteSet(W)
  BY FS_Interval, QuorumAssumption DEF QuorumAssumption
<1>3. IsFiniteSet(P)
  <2> HIDE DEF B, W
  <2>1. IsFiniteSet(Validators) /\ IsFiniteSet(Ballots)
    BY QuorumAssumption DEF QuorumAssumption
  <2>2. IsFiniteSet(Validators \X Ballots)
    BY <2>1, FS_Product
  <2>3. IsFiniteSet(B \X W)
    BY <1>1, <1>2, FS_Product
  <2> QED BY <2>2, <2>3, FS_Product
<1>4. f \in [P -> Vote]
  BY DEF Vote
<1>5. \A k \in Vote : \E p \in P : f[p] = k
  <2> TAKE k \in Vote
  <2> DEFINE p == <<<<k.validator, k.tx>>, <<k.approve, k.weight>>>>
  <2>1. /\ k.validator \in Validators /\ k.tx \in Ballots
        /\ k.approve \in BOOLEAN /\ k.weight \in W
        /\ k = [validator |-> k.validator, tx |-> k.tx,
                approve |-> k.approve, weight |-> k.weight]
    BY DEF Vote
  <2>2. p \in P
    BY <2>1
  <2>3. f[p] = [validator |-> k.validator, tx |-> k.tx,
                approve |-> k.approve, weight |-> k.weight]
    BY <2>2
  <2> WITNESS p \in P
  <2> QED BY <2>1, <2>3
<1>6. f \in Surjection(P, Vote)
  <2> HIDE DEF f, P
  <2> QED BY <1>4, <1>5 DEF Surjection
<1> HIDE DEF f, P
<1> QED BY <1>3, <1>6, FS_Surjection

-----------------------------------------------------------------------------
\* What v's approvals for one of two transactions weigh, when v is honest.
LEMMA HonestWeight ==
    ASSUME QuorumTypeOK, NEW v \in Validators, Honest(v),
           NEW K \in SUBSET {k \in Vote : k.validator = v /\ k.approve}
    PROVE  SumFunctionOnSet([k \in Vote |-> votes[k] * k.weight], K)
              <= stake[v]
<1> DEFINE f == [k \in Vote |-> votes[k] * k.weight]
           cast == {k \in K : votes[k] > 0}
<1>1. IsFiniteSet(K)
  BY VotesFinite, FS_Subset
<1>2. \A k \in Vote : k.weight \in Nat /\ votes[k] \in Nat
  BY VoteNumbers
<1>3. \A k \in K : k \notin cast => f[k] = 0
  <2> SUFFICES ASSUME NEW k \in K, k \notin cast PROVE f[k] = 0
    OBVIOUS
  <2>1. votes[k] = 0 /\ k.weight \in Nat /\ k \in Vote
    BY <1>2
  <2>2. votes[k] * k.weight = 0
    BY <2>1
  <2> QED BY <2>1, <2>2
<1>4. stake[v] \in Nat
  BY DEF QuorumTypeOK
<1>5. CASE cast = {}
  <2>1. \A k \in K : f[k] = 0
    BY <1>3, <1>5
  <2> HIDE DEF f
  <2>2. SumFunctionOnSet(f, K) = 0
    BY <1>1, <2>1, SumZero
  <2> QED BY <1>4, <2>2 DEF f
<1>6. ASSUME NEW k \in cast
      PROVE  SumFunctionOnSet(f, K) <= stake[v]
  <2>1. /\ \A j \in cast : j = k
        /\ votes[k] = 1 /\ k.weight <= stake[v]
    BY DEF Honest
  <2>2. f[k] = k.weight /\ k.weight \in Nat /\ k \in K
    <3>1. k \in Vote /\ k.weight \in Nat
      BY <1>2
    <3>2. 1 * k.weight = k.weight
      BY <3>1
    <3> QED BY <2>1, <3>1, <3>2
  <2>3. \A j \in K \ {k} : f[j] = 0
    BY <1>3, <2>1
  <2> HIDE DEF f
  <2>4. SumFunctionOnSet(f, K) = f[k]
    BY <1>1, <2>2, <2>3, SumSingle
  <2> QED BY <2>1, <2>2, <2>4
<1> QED BY <1>5, <1>6

\* Together the honest members of a quorum approve with their stake at most.
LEMMA HonestQuorum ==
    ASSUME QuorumTypeOK, NEW Q \in SUBSET Registered, \A v \in Q : Honest(v),
           NEW A \in SUBSET {k \in Vote : k.approve /\ k.validator \in Q}
    PROVE  SumFunctionOnSet([k \in Vote |-> votes[k] * k.weight], A)
              <= QuorumWeight(Q)
<1> DEFINE f == [k \in Vote |-> votes[k] * k.weight]
           g == [v \in Q |-> VotingWeight(v)]
           Of(R) == {k \in A : k.validator \in R}
           F(R) == SumFunctionOnSet(f, Of(R))
           G(R) == SumFunctionOnSet(g, R)
           C == {R \in SUBSET Q : ~(F(R) <= G(R))}
<1>1. IsFiniteSet(Q) /\ Q \subseteq Validators
  BY QuorumAssumption, FS_Subset DEF QuorumAssumption, Registered
<1>2. \A R \in SUBSET Q : IsFiniteSet(R) /\ IsFiniteSet(Of(R))
  <2>1. \A R \in SUBSET Q : Of(R) \subseteq Vote
    OBVIOUS
  <2> HIDE DEF Of
  <2> QED BY <1>1, <2>1, VotesFinite, FS_Subset
<1>3. \A k \in A : f[k] \in Nat
  BY VoteNumbers
<1>4. \A v \in Q : g[v] = stake[v] /\ g[v] \in Nat
  BY <1>1 DEF QuorumTypeOK, VotingWeight
<1>5. C = {}
  <2> SUFFICES ASSUME C # {} PROVE FALSE
    OBVIOUS
  <2>1. PICK R \in C : \A S \in C : Cardinality(R) <= Cardinality(S)
    <3>1. \A S \in C : IsFiniteSet(S)
      BY <1>2
    <3> HIDE DEF C
    <3> QED BY <3>1, SmallestSet
  <2>2. R \in SUBSET Q /\ IsFiniteSet(R) /\ ~(F(R) <= G(R))
    BY <1>2
  <2>3. R # {}
    <3> SUFFICES ASSUME R = {} PROVE FALSE
      OBVIOUS
    <3>1. Of(R) = {}
      OBVIOUS
    <3>2. F(R) = 0 /\ G(R) = 0
      BY <3>1, SumEmpty
    <3> HIDE DEF F, G
    <3> QED BY <2>2, <3>2
  <2>4. PICK v \in R : TRUE
    BY <2>3
  <2> DEFINE S == R \ {v}
             K == {k \in A : k.validator = v}
  <2>5. S \in SUBSET Q /\ v \in Q /\ v \in Validators
    BY <1>1, <2>2, <2>4
  <2>6. Cardinality(S) = Cardinality(R) - 1 /\ Cardinality(R) \in Nat
    BY <2>2, <2>4, FS_RemoveElement, FS_CardinalityType
  <2>7. F(S) <= G(S)
    <3>1. S \notin C
      BY <2>1, <2>6
    <3> QED BY <2>5, <3>1
  <2>8. Of(R) = Of(S) \cup K /\ Of(S) \cap K = {}
    BY <2>4
  <2>9. SumFunctionOnSet(f, K) <= stake[v] /\ IsFiniteSet(K)
    <3>1. K \in SUBSET {k \in Vote : k.validator = v /\ k.approve}
      OBVIOUS
    <3>2. IsFiniteSet(K)
      BY VotesFinite, FS_Subset
    <3> HIDE DEF K
    <3> QED BY <2>5, <3>1, <3>2, HonestWeight
  <2>10. /\ F(R) = F(S) + SumFunctionOnSet(f, K)
         /\ F(S) \in Nat /\ SumFunctionOnSet(f, K) \in Nat
    <3>1. \A k \in Of(S) \cup K : f[k] \in Nat
      BY <1>3
    <3>2. IsFiniteSet(Of(S))
      BY <1>2, <2>5
    <3> HIDE DEF f, K, S, Of
    <3> QED BY <2>8, <2>9, <3>1, <3>2, SumUnion, SumNat
  <2>11. G(R) = g[v] + G(S) /\ G(S) \in Nat
    <3>1. \A x \in R : g[x] \in Nat
      BY <1>4, <2>2
    <3>2. IsFiniteSet(S)
      BY <2>2, FS_Subset
    <3> HIDE DEF g
    <3> QED BY <2>2, <2>4, <3>1, <3>2, SumRemove, SumNat
  <2>12. g[v] = stake[v] /\ g[v] \in Nat
    BY <1>4, <2>5
  <2> HIDE DEF F, G, f, g, S, K, C
  <2> QED BY <2>2, <2>7, <2>9, <2>10, <2>11, <2>12
<1>6. F(Q) <= G(Q)
  <2>1. Q \notin C
    BY <1>5
  <2> QED BY <2>1
<1>7. Of(Q) = A
  OBVIOUS
<1> QED BY <1>6, <1>7 DEF QuorumWeight

\* Above half of the same weight twice is more than that weight.
LEMMA TwoMajorities ==
    ASSUME NEW p \in Nat, p > 50, NEW w \in Nat, w > 0, NEW a \in Nat,
           NEW b \in Nat, 100 * a >= p * w, 100 * b >= p * w
    PROVE  a + b > w
<1>1. PICK d \in Nat : p = 51 + d
  <2>1. p - 51 \in Nat /\ p = 51 + (p - 51)
    OBVIOUS
  <2> QED BY <2>1
<1>2. d * w \in Nat
  OBVIOUS
<1>3. p * w = 51 * w + d * w
  BY <1>1
<1> QED BY <1>2, <1>3

\* Two rivals are never both approved by a quorum of honest members
\* (validate_transaction, consensus.rs:658), whatever the validators, stakes
\* and quorum sizes, when approval asks for more than half of the weight, as
\* its default of 51 per cent does.
THEOREM RivalsCorrect ==
    ASSUME ApprovalPercent > 50
    PROVE  QuorumSpec => []RivalsExclusive
<1>1. QuorumInit => QuorumTypeOK
  BY DEF QuorumInit, QuorumTypeOK
<1>2. QuorumTypeOK => RivalsExclusive
  <2> SUFFICES ASSUME QuorumTypeOK, NEW t \in Ballots, NEW u \in Ballots,
                      t # u, NEW Q \in SelectQuorum(t),
                      \A v \in Q : Honest(v), Approved(t, Q), Approved(u, Q)
               PROVE  FALSE
    BY DEF RivalsExclusive
  <2> DEFINE f == [k \in Vote |-> votes[k] * k.weight]
             For(x) == {k \in Vote :
                           k.tx = x /\ k.approve /\ k.validator \in Q}
             A == For(t) \cup For(u)
  <2>1. Q \in SUBSET Registered /\ Q \subseteq Validators
    BY DEF SelectQuorum, Registered
  <2>2. \A k \in A : f[k] \in Nat
    BY VoteNumbers
  <2>3. IsFiniteSet(For(t)) /\ IsFiniteSet(For(u)) /\ For(t) \cap For(u) = {}
    BY VotesFinite, FS_Subset
  <2>4. SumFunctionOnSet(f, A) =
           SumFunctionOnSet(f, For(t)) + SumFunctionOnSet(f, For(u))
    <3> HIDE DEF f, For
    <3> QED BY <2>2, <2>3, SumUnion
  <2>5. /\ SumFunctionOnSet(f, For(t)) \in Nat
        /\ SumFunctionOnSet(f, For(u)) \in Nat
    <3>1. (\A k \in For(t) : f[k] \in Nat) /\ (\A k \in For(u) : f[k] \in Nat)
      BY <2>2
    <3> HIDE DEF f, For
    <3> QED BY <2>3, <3>1, SumNat
  <2>6. SumFunctionOnSet(f, A) <= QuorumWeight(Q)
    <3>1. A \in SUBSET {k \in Vote : k.approve /\ k.validator \in Q}
      OBVIOUS
    <3> HIDE DEF A
    <3> QED BY <2>1, <3>1, HonestQuorum
  <2>7. QuorumWeight(Q) \in Nat
    <3>1. IsFiniteSet(Q)
      BY <2>1, QuorumAssumption, FS_Subset DEF QuorumAssumption
    <3>2. \A v \in Q : [w \in Q |-> VotingWeight(w)][v] \in Nat
      BY <2>1 DEF QuorumTypeOK, VotingWeight
    <3> QED BY <3>1, <3>2, SumNat DEF QuorumWeight
  <2>8. /\ ApprovingWeight(t, Q) = SumFunctionOnSet(f, For(t))
        /\ ApprovingWeight(u, Q) = SumFunctionOnSet(f, For(u))
    BY DEF ApprovingWeight
  <2>9. ApprovalPercent \in Nat
    BY QuorumAssumption DEF QuorumAssumption
  <2> HIDE DEF f, For, A
  <2>10. ApprovingWeight(t, Q) + ApprovingWeight(u, Q) > QuorumWeight(Q)
    BY <2>5, <2>7, <2>8, <2>9, TwoMajorities DEF Approved
  <2> QED BY <2>4, <2>5, <2>6, <2>7, <2>8, <2>10
<1> QED BY <1>1, <1>2, QuorumStep, PTL DEF QuorumSpec

-----------------------------------------------------------------------------
(* The emission curve: what the halvings compute.                          *)
\* What k halvings leave of a reward.
Halving(r) == IF r \div 2 < MinReward THEN MinReward ELSE r \div 2

\* Halved is what its definition says.
LEMMA HalvedUnfold ==
    \A k \in Nat :
        Halved[k] = IF k = 0 THEN InitialReward ELSE Halving(Halved[k - 1])
<1> DEFINE Good(f) == f = [k \in Nat |->
                              IF k = 0 THEN InitialReward
                              ELSE IF f[k - 1] \div 2 < MinReward THEN MinReward
                              ELSE f[k - 1] \div 2]
           F == [r \in Nat |-> Halving(r)]
<1>1. InitialReward \in Nat /\ F \in [Nat -> Nat]
  BY EmissionAssumption DEF EmissionAssumption, Halving
<1>2. PICK H \in [Nat -> Nat] :
          \A k \in Nat : H[k] = IF k = 0 THEN InitialReward ELSE F[H[k - 1]]
  <2> DEFINE B == Nat
  <2>1. InitialReward \in B /\ F \in [B -> B]
    BY <1>1
  <2> HIDE DEF B, F
  <2>2. \E H \in [Nat -> B] :
           \A k \in Nat : H[k] = IF k = 0 THEN InitialReward ELSE F[H[k - 1]]
    BY <2>1, Recursion
  <2> QED BY <2>2 DEF B
<1>5. Good(H)
  <2>1. H = [k \in Nat |-> H[k]]
    BY <1>2
  <2>2. \A k \in Nat :
           H[k] = IF k = 0 THEN InitialReward ELSE Halving(H[k - 1])
    <3> TAKE k \in Nat
    <3>1. k # 0 => k - 1 \in Nat
      OBVIOUS
    <3> QED BY <1>2, <3>1
  <2> HIDE DEF F
  <2> QED BY <2>1, <2>2 DEF Halving
<1>3. Halved = CHOOSE f : Good(f)
  BY DEF Halved
<1>4. Good(Halved)
  <2>1. Good(CHOOSE f : Good(f))
    <3> HIDE DEF Good
    <3> QED BY <1>5
  <2> HIDE DEF Good
  <2> QED BY <1>3, <2>1
<1> QED BY <1>4 DEF Halving

\* No halving raises the reward, and none takes it below the least one.
LEMMA HalvedBound ==
    \A k \in Nat : Halved[k] \in MinReward .. InitialReward
<1> DEFINE C == {k \in Nat : Halved[k] \notin MinReward .. InitialReward}
<1>1. /\ MinReward \in Nat /\ InitialReward \in Nat
      /\ 1 <= MinReward /\ MinReward <= InitialReward
  BY EmissionAssumption DEF EmissionAssumption
<1>2. ASSUME C # {} PROVE FALSE
  <2>1. PICK k \in C : \A j \in C : k <= j
    <3>1. C \subseteq Nat
      OBVIOUS
    <3> HIDE DEF C
    <3> QED BY <1>2, <3>1, NatMin
  <2>2. k \in Nat /\ Halved[k] \notin MinReward .. InitialReward
    OBVIOUS
  <2>3. k # 0
    BY <1>1, <2>2, HalvedUnfold
  <2>4. k - 1 \in Nat /\ k - 1 \notin C
    BY <2>1, <2>2, <2>3
  <2>5. Halved[k - 1] \in MinReward .. InitialReward
    BY <2>4
  <2>6. Halved[k] = Halving(Halved[k - 1])
    BY <2>2, <2>3, HalvedUnfold
  <2> DEFINE r == Halved[k - 1]
  <2>7. r \in Nat /\ r <= InitialReward
    BY <1>1, <2>5
  <2> HIDE DEF r, C
  <2>8. r \div 2 \in Nat /\ r \div 2 <= r
    BY <2>7
  <2>9. Halving(r) \in MinReward .. InitialReward
    BY <1>1, <2>7, <2>8 DEF Halving
  <2> QED BY <2>2, <2>6, <2>9 DEF r
<1> QED BY <1>2

\* A quotient is at most what its dividend is a multiple of.
LEMMA QuotientBound ==
    ASSUME NEW n \in Nat \ {0}, NEW x \in Nat, NEW b \in Nat, x <= b * n
    PROVE  x \div n \in Nat /\ x \div n <= b
<1>1. x \div n \in Nat /\ n * (x \div n) <= x
  OBVIOUS
<1> DEFINE q == x \div n
<1>2. ASSUME q > b PROVE FALSE
  <2>1. q \in Nat /\ n * q <= b * n
    BY <1>1
  <2> HIDE DEF q
  <2>2. PICK d \in Nat : q = b + 1 + d
    <3>1. q - b - 1 \in Nat /\ q = b + 1 + (q - b - 1)
      BY <1>2, <2>1
    <3> QED BY <3>1
  <2>3. n * q = b * n + n + n * d
    BY <2>2
  <2>4. n * d \in Nat /\ b * n \in Nat
    OBVIOUS
  <2> QED BY <2>1, <2>3, <2>4
<1> QED BY <1>1, <1>2

\* The largest reward is five times the first one.
LEMMA RewardBound ==
    ASSUME halvings \in Nat, NEW d \in Difficulties
    PROVE  MiningReward(d) \in Nat /\ MiningReward(d) <= 5 * InitialReward
<1> DEFINE b == BaseReward
<1>1. b \in Nat /\ b <= InitialReward /\ InitialReward \in Nat
  <2>1. b \in MinReward .. InitialReward
    BY HalvedBound DEF BaseReward
  <2>2. InitialReward \in Nat /\ MinReward \in Nat
    BY EmissionAssumption DEF EmissionAssumption
  <2> QED BY <2>1, <2>2
<1>2. d \in Nat /\ MinDifficulty \in Nat \ {0}
  BY EmissionAssumption DEF EmissionAssumption
<1>3. CASE d < MinDifficulty
  BY <1>1, <1>3 DEF MiningReward
<1>4. CASE d >= 5 * MinDifficulty
  <2>1. ~(d < MinDifficulty)
    BY <1>2, <1>4
  <2>2. MiningReward(d) = 5 * b
    BY <1>4, <2>1 DEF MiningReward
  <2> HIDE DEF b
  <2> QED BY <1>1, <2>2
<1>5. CASE ~(d < MinDifficulty) /\ ~(d >= 5 * MinDifficulty)
  <2>1. MiningReward(d) = (b * d) \div MinDifficulty
    BY <1>5 DEF MiningReward
  <2> HIDE DEF b
  <2>2. b * d \in Nat /\ 5 * b \in Nat
    BY <1>1, <1>2
  <2>3. b * d <= (5 * b) * MinDifficulty
    <3>1. PICK e \in Nat : 5 * MinDifficulty = d + e
      <4>1. 5 * MinDifficulty - d \in Nat
            /\ 5 * MinDifficulty = d + (5 * MinDifficulty - d)
        BY <1>2, <1>5
      <4> QED BY <4>1
    <3>2. (5 * b) * MinDifficulty = b * (5 * MinDifficulty)
      BY <1>1, <1>2
    <3>3. b * (d + e) = b * d + b * e /\ b * e \in Nat
      BY <1>1, <1>2
    <3> QED BY <2>2, <3>1, <3>2, <3>3
  <2>4. /\ (b * d) \div MinDifficulty \in Nat
        /\ (b * d) \div MinDifficulty <= 5 * b
    BY <1>2, <2>2, <2>3, QuotientBound
  <2> QED BY <1>1, <2>1, <2>4
<1> QED BY <1>3, <1>4, <1>5

-----------------------------------------------------------------------------
(* Emission.  A reward that is refused would have taken the curve over the *)
(* cap, so that the largest reward cannot fit any more from then on.       *)
EmissionInv ==
    /\ earned \in [Earners -> Nat]
    /\ emitted \in Nat /\ halvings \in Nat
    /\ EmissionAccounted

LEMMA EmissionStart == EmissionInit => EmissionInv
<1> SUFFICES ASSUME EmissionInit PROVE EmissionInv
  OBVIOUS
<1>1. /\ IsFiniteSet(Earners) /\ HardCap \in Nat
  BY EmissionAssumption DEF EmissionAssumption
<1>2. earned \in [Earners -> Nat] /\ \A v \in Earners : earned[v] = 0
  BY DEF EmissionInit
<1>3. SumFunction(earned) = 0
  BY <1>1, <1>2, SumZero DEF SumFunction
<1> QED BY <1>1, <1>2, <1>3 DEF EmissionInit, EmissionInv, EmissionAccounted

LEMMA DistributeAccounted ==
    ASSUME EmissionInv, NEW v \in Earners, NEW d \in Difficulties,
           Distribute(v, d)
    PROVE  EmissionInv'
<1> DEFINE reward == MiningReward(d)
           most == 5 * InitialReward
<1>1. reward \in Nat /\ reward <= most /\ most \in Nat
  <2>1. InitialReward \in Nat
    BY EmissionAssumption DEF EmissionAssumption
  <2> QED BY <2>1, RewardBound DEF EmissionInv
<1>2. HardCap \in Nat /\ IsFiniteSet(Earners)
  BY EmissionAssumption DEF EmissionAssumption
<1>3. earned' = [earned EXCEPT ![v] = @ + reward]
  BY DEF Distribute
<1>4. \/ /\ Fits(reward) /\ emitted' = emitted + reward
         /\ halvings' \in {halvings, halvings + 1}
      \/ ~Fits(reward) /\ emitted' = emitted /\ halvings' = halvings
  BY DEF Distribute
<1> HIDE DEF reward, most
<1>5. earned' \in [Earners -> Nat]
  BY <1>1, <1>3 DEF EmissionInv
<1>6. /\ SumFunction(earned) \in Nat /\ SumFunction(earned') \in Nat
      /\ SumFunction(earned') = SumFunction(earned) + reward
  <2>1. /\ \A w \in Earners : earned[w] \in Nat /\ earned'[w] \in Nat
        /\ \A w \in Earners \ {v} : earned'[w] = earned[w]
        /\ earned'[v] = earned[v] + reward
        /\ DOMAIN earned = Earners /\ DOMAIN earned' = Earners
    BY <1>1, <1>3, <1>5 DEF EmissionInv
  <2>2. /\ SumFunctionOnSet(earned, Earners) \in Nat
        /\ SumFunctionOnSet(earned', Earners) \in Nat
        /\ SumFunctionOnSet(earned', Earners) + earned[v] =
              SumFunctionOnSet(earned, Earners) + earned'[v]
    BY <1>2, <2>1, SumChange
  <2>3. earned[v] \in Nat
    BY <2>1
  <2> QED BY <1>1, <2>1, <2>2, <2>3 DEF SumFunction
<1>7. emitted' \in Nat /\ halvings' \in Nat
  BY <1>1, <1>4 DEF EmissionInv
<1>8. /\ emitted <= HardCap /\ emitted <= SumFunction(earned)
      /\ emitted + most <= HardCap => SumFunction(earned) = emitted
  BY DEF EmissionInv, EmissionAccounted, most
<1>9. /\ emitted' <= HardCap /\ emitted' <= SumFunction(earned')
      /\ emitted' + most <= HardCap => SumFunction(earned') = emitted'
  <2>1. emitted \in Nat
    BY DEF EmissionInv
  <2>2. CASE Fits(reward)
    <3>1. emitted' = emitted + reward /\ emitted + reward <= HardCap
      BY <1>4, <2>2 DEF Fits
    <3> QED BY <1>1, <1>2, <1>6, <1>8, <2>1, <3>1
  <2>3. CASE ~Fits(reward)
    <3>1. emitted' = emitted /\ ~(emitted + reward <= HardCap)
      BY <1>4, <2>3 DEF Fits
    <3> QED BY <1>1, <1>2, <1>6, <1>8, <2>1, <3>1
  <2> QED BY <2>2, <2>3
<1> QED BY <1>5, <1>7, <1>9 DEF EmissionInv, EmissionAccounted, most

\* The emission curve and the balances it is paid into agree, and neither the
\* cap nor the balances are ever exceeded (distribute_mining_reward), for any
\* number of earners, difficulties, rewards and halvings.
THEOREM EmissionCurveCorrect == EmissionSpec => []EmissionAccounted
<1>1. EmissionInv /\ [EmissionNext]_emissionVars => EmissionInv'
  <2> SUFFICES ASSUME EmissionInv, [EmissionNext]_emissionVars
               PROVE  EmissionInv'
    OBVIOUS
  <2>1. CASE UNCHANGED emissionVars
    BY <2>1 DEF emissionVars, EmissionInv, EmissionAccounted
  <2>2. CASE EmissionNext
    BY <2>2, DistributeAccounted DEF EmissionNext
  <2> QED BY <2>1, <2>2
<1>2. EmissionInv => EmissionAccounted
  BY DEF EmissionInv
<1> QED BY <1>1, <1>2, EmissionStart, PTL DEF EmissionSpec

-----------------------------------------------------------------------------
(* The limiter.  While a window is open it has counted what was let in     *)
(* since it opened; what came before it in the last Window ticks was all   *)
(* counted by the window before.  Once it is over, so was everything.      *)
Buckets == [count : 0 .. MaxRequests, age : 0 .. Window]

Metered(b, r) ==
    /\ b \in Buckets
    /\ r \in [1 .. Window -> Nat]
    /\ b.age < Window =>
          /\ SumFunctionOnSet(r, 1 .. b.age + 1) = b.count
          /\ SumFunctionOnSet(r, b.age + 2 .. Window) <= MaxRequests
    /\ b.age = Window =>
          /\ r[1] = 0
          /\ SumFunctionOnSet(r, 1 .. Window) <= MaxRequests

MetersInv ==
    /\ bucket \in [Methods -> Buckets]
    /\ DOMAIN recent = Methods
    /\ \A m \in Methods : Metered(bucket[m], recent[m])

\* A sum over an interval is that of its two parts.
LEMMA SumSplit ==
    ASSUME NEW r \in [1 .. Window -> Nat], NEW a \in 0 .. Window,
           NEW b \in a .. Window
    PROVE  /\ SumFunctionOnSet(r, 1 .. a) \in Nat
           /\ SumFunctionOnSet(r, (a + 1) .. b) \in Nat
           /\ SumFunctionOnSet(r, 1 .. b) =
                 SumFunctionOnSet(r, 1 .. a) + SumFunctionOnSet(r, (a + 1) .. b)
<1> DEFINE S == 1 .. a
           T == (a + 1) .. b
<1>1. Window \in Nat /\ a \in Nat /\ b \in Nat /\ a <= b /\ b <= Window
  BY MetersAssumption DEF MetersAssumption
<1>2. S \cap T = {} /\ S \cup T = 1 .. b
  BY <1>1
<1>3. IsFiniteSet(S) /\ IsFiniteSet(T)
  BY <1>1, FS_Interval
<1>4. \A i \in S \cup T : r[i] \in Nat
  BY <1>1, <1>2
<1> HIDE DEF S, T
<1>5. SumFunctionOnSet(r, S \cup T) =
         SumFunctionOnSet(r, S) + SumFunctionOnSet(r, T)
  BY <1>2, <1>3, <1>4, SumUnion
<1>6. SumFunctionOnSet(r, S) \in Nat /\ SumFunctionOnSet(r, T) \in Nat
  BY <1>3, <1>4, SumNat
<1> QED BY <1>2, <1>5, <1>6 DEF S, T

\* What a bucket allows within a window's time.
LEMMA MeteredBound ==
    ASSUME NEW b, NEW r, Metered(b, r)
    PROVE  SumFunction(r) <= 2 * MaxRequests
<1>1. /\ MaxRequests \in Nat /\ Window \in Nat /\ Window >= 1
      /\ b.age \in 0 .. Window /\ b.count \in 0 .. MaxRequests
      /\ r \in [1 .. Window -> Nat]
  BY MetersAssumption DEF Metered, Buckets, MetersAssumption
<1>2. SumFunction(r) = SumFunctionOnSet(r, 1 .. Window)
  BY <1>1 DEF SumFunction
<1>3. CASE b.age = Window
  <2>1. SumFunctionOnSet(r, 1 .. Window) <= MaxRequests
    BY <1>3 DEF Metered
  <2>2. SumFunctionOnSet(r, 1 .. Window) \in Nat
    BY <1>1, SumSplit
  <2> QED BY <1>1, <1>2, <2>1, <2>2
<1>4. CASE b.age < Window
  <2> DEFINE a == b.age + 1
  <2>1. a \in 0 .. Window /\ Window \in a .. Window /\ a + 1 = b.age + 2
    BY <1>1, <1>4
  <2>2. /\ SumFunctionOnSet(r, 1 .. a) \in Nat
        /\ SumFunctionOnSet(r, (a + 1) .. Window) \in Nat
        /\ SumFunctionOnSet(r, 1 .. Window) =
              SumFunctionOnSet(r, 1 .. a) +
              SumFunctionOnSet(r, (a + 1) .. Window)
    <3> HIDE DEF a
    <3> QED BY <1>1, <2>1, SumSplit
  <2>3. /\ SumFunctionOnSet(r, 1 .. a) <= MaxRequests
        /\ SumFunctionOnSet(r, (a + 1) .. Window) <= MaxRequests
    <3>1. /\ SumFunctionOnSet(r, 1 .. b.age + 1) = b.count
          /\ SumFunctionOnSet(r, b.age + 2 .. Window) <= MaxRequests
      BY <1>4 DEF Metered
    <3>2. b.count <= MaxRequests
      BY <1>1
    <3> QED BY <2>1, <3>1, <3>2
  <2> HIDE DEF a
  <2> QED BY <1>1, <1>2, <2>2, <2>3
<1> QED BY <1>1, <1>3, <1>4

\* A request that is let in.
LEMMA RequestMetered ==
    ASSUME NEW b, NEW r, Metered(b, r),
           NEW c, c = IF b.age >= Window THEN [count |-> 0, age |-> 0] ELSE b,
           c.count < MaxRequests
    PROVE  Metered([count |-> c.count + 1, age |-> c.age],
                   [r EXCEPT ![1] = @ + 1])
<1> DEFINE s == [r EXCEPT ![1] = @ + 1]
           d == [count |-> c.count + 1, age |-> c.age]
<1>1. /\ MaxRequests \in Nat /\ Window \in Nat /\ Window >= 1
      /\ b.age \in 0 .. Window /\ b.count \in 0 .. MaxRequests
      /\ r \in [1 .. Window -> Nat]
  BY MetersAssumption DEF Metered, Buckets, MetersAssumption
<1>2. /\ c.age \in Nat /\ c.age < Window /\ c.count \in Nat
      /\ SumFunctionOnSet(r, 1 .. c.age + 1) = c.count
      /\ SumFunctionOnSet(r, c.age + 2 .. Window) <= MaxRequests
  <2>1. CASE b.age >= Window
    <3>1. b.age = Window /\ c.count = 0 /\ c.age = 0
      BY <1>1, <2>1
    <3>2. r[1] = 0 /\ SumFunctionOnSet(r, 1 .. Window) <= MaxRequests
      BY <3>1 DEF Metered
    <3>3. SumFunctionOnSet(r, {1}) = r[1]
      <4>1. IsFiniteSet({1})
        BY FS_Singleton
      <4> QED BY <3>2, <4>1, SumSingle
    <3>4. 1 .. 1 = {1} /\ 1 \in 0 .. Window /\ Window \in 1 .. Window
      BY <1>1
    <3>5. /\ SumFunctionOnSet(r, 1 .. 1) \in Nat
          /\ SumFunctionOnSet(r, (1 + 1) .. Window) \in Nat
          /\ SumFunctionOnSet(r, 1 .. Window) =
                SumFunctionOnSet(r, 1 .. 1) +
                SumFunctionOnSet(r, (1 + 1) .. Window)
      BY <1>1, <3>4, SumSplit
    <3>6. 0 + 1 = 1 /\ 0 + 2 = 1 + 1
      OBVIOUS
    <3>7. /\ SumFunctionOnSet(r, 1 .. 1) = 0
          /\ SumFunctionOnSet(r, (1 + 1) .. Window) <= MaxRequests
      BY <1>1, <3>2, <3>3, <3>4, <3>5
    <3> QED BY <1>1, <3>1, <3>6, <3>7
  <2>2. CASE ~(b.age >= Window)
    <3>1. c = b /\ b.age < Window
      BY <1>1, <2>2
    <3> QED BY <1>1, <3>1 DEF Metered
  <2> QED BY <2>1, <2>2
<1>3. /\ s \in [1 .. Window -> Nat] /\ 1 \in 1 .. Window
      /\ s[1] = r[1] + 1 /\ \A i \in 2 .. Window : s[i] = r[i]
      /\ \A i \in 1 .. Window : r[i] \in Nat /\ s[i] \in Nat
      /\ \A i \in 1 .. Window : i # 1 => s[i] = r[i]
  BY <1>1
<1>4. d \in Buckets /\ d.count = c.count + 1 /\ d.age = c.age
  BY <1>1, <1>2 DEF Buckets
<1> HIDE DEF s, d
<1>5. SumFunctionOnSet(s, 1 .. c.age + 1) = c.count + 1
  <2> DEFINE S == 1 .. c.age + 1
  <2>1. S \subseteq 1 .. Window /\ 1 \in S
    BY <1>1, <1>2
  <2>2. IsFiniteSet(S)
    BY <1>2, FS_Interval
  <2> HIDE DEF S
  <2>3. /\ SumFunctionOnSet(r, S) \in Nat /\ SumFunctionOnSet(s, S) \in Nat
        /\ SumFunctionOnSet(s, S) + r[1] = SumFunctionOnSet(r, S) + s[1]
    <3>1. \A i \in S : r[i] \in Nat /\ s[i] \in Nat
      BY <1>3, <2>1
    <3>2. \A i \in S \ {1} : s[i] = r[i]
      BY <1>3, <2>1
    <3>3. PICK x \in S : x = 1
      BY <2>1
    <3>4. \A i \in S \ {x} : s[i] = r[i]
      BY <3>2, <3>3
    <3>5. /\ SumFunctionOnSet(r, S) \in Nat /\ SumFunctionOnSet(s, S) \in Nat
          /\ SumFunctionOnSet(s, S) + r[x] = SumFunctionOnSet(r, S) + s[x]
      BY <2>2, <3>1, <3>4, SumChange
    <3> QED BY <3>3, <3>5
  <2>4. SumFunctionOnSet(r, S) = c.count
    BY <1>2 DEF S
  <2>5. SumFunctionOnSet(s, S) = c.count + 1
    BY <1>2, <1>3, <2>3, <2>4
  <2> QED BY <2>5 DEF S
<1>6. SumFunctionOnSet(s, c.age + 2 .. Window) <= MaxRequests
  <2> DEFINE S == c.age + 2 .. Window
  <2>1. \A i \in S : r[i] = s[i]
    BY <1>1, <1>2, <1>3
  <2>2. IsFiniteSet(S)
    <3>1. c.age + 2 \in Int /\ Window \in Int
      BY <1>1, <1>2
    <3> QED BY <3>1, FS_Interval
  <2> HIDE DEF S
  <2>3. SumFunctionOnSet(r, S) = SumFunctionOnSet(s, S)
    BY <2>1, <2>2, SumEqual
  <2>4. SumFunctionOnSet(r, S) <= MaxRequests
    BY <1>2 DEF S
  <2>5. SumFunctionOnSet(s, S) <= MaxRequests
    BY <2>3, <2>4
  <2> QED BY <2>5 DEF S
<1>7. c.age # Window
  BY <1>1, <1>2
<1>8. Metered(d, s)
  BY <1>3, <1>4, <1>5, <1>6, <1>7 DEF Metered
<1> QED BY <1>8 DEF d, s

\* One tick: the history moves on by one, its oldest entry is forgotten.
LEMMA TickMetered ==
    ASSUME NEW b, NEW r, Metered(b, r),
           NEW c, c = IF b.age < Window THEN b.age + 1 ELSE Window
    PROVE  Metered([count |-> b.count, age |-> c],
                   <<0>> \o SubSeq(r, 1, Window - 1))
<1> DEFINE s == <<0>> \o SubSeq(r, 1, Window - 1)
           d == [count |-> b.count, age |-> c]
<1>1. /\ MaxRequests \in Nat /\ Window \in Nat /\ Window >= 1
      /\ b.age \in 0 .. Window /\ b.count \in 0 .. MaxRequests
      /\ r \in [1 .. Window -> Nat]
  BY MetersAssumption DEF Metered, Buckets, MetersAssumption
<1>2. /\ s \in [1 .. Window -> Nat] /\ s[1] = 0
      /\ \A i \in 1 .. Window - 1 : s[i + 1] = r[i]
  <2>1. r \in Seq(Nat) /\ Len(r) = Window
    BY <1>1
  <2>2. /\ SubSeq(r, 1, Window - 1) \in Seq(Nat)
        /\ Len(SubSeq(r, 1, Window - 1)) = Window - 1
        /\ \A i \in 1 .. Window - 1 : SubSeq(r, 1, Window - 1)[i] = r[i]
    BY <1>1, <2>1
  <2> DEFINE q == SubSeq(r, 1, Window - 1)
  <2> HIDE DEF q
  <2>3. /\ q \in Seq(Nat) /\ Len(q) = Window - 1
        /\ \A i \in 1 .. Window - 1 : q[i] = r[i]
    BY <2>2 DEF q
  <2>4. /\ <<0>> \o q \in Seq(Nat) /\ Len(<<0>> \o q) = Window
        /\ (<<0>> \o q)[1] = 0
        /\ \A i \in 1 .. Window - 1 : (<<0>> \o q)[i + 1] = q[i]
    BY <1>1, <2>3
  <2>5. s = <<0>> \o q
    BY DEF q
  <2> HIDE DEF s
  <2>6. s \in [1 .. Window -> Nat]
    <3>1. s \in Seq(Nat) /\ Len(s) = Window
      BY <2>4, <2>5
    <3>2. s \in [1 .. Len(s) -> Nat]
      BY <3>1
    <3> QED BY <3>1, <3>2
  <2>7. \A i \in 1 .. Window - 1 : s[i + 1] = r[i]
    BY <2>3, <2>4, <2>5
  <2> QED BY <2>4, <2>5, <2>6, <2>7
<1>3. d.count = b.count /\ d.age = c /\ c \in 1 .. Window /\ d \in Buckets
  BY <1>1 DEF Buckets
<1> HIDE DEF s, d
<1>4. ASSUME NEW x \in Nat, NEW y \in Nat, 1 <= x, y < Window
      PROVE  SumFunctionOnSet(s, (x + 1) .. (y + 1)) =
                SumFunctionOnSet(r, x .. y)
  <2>1. \A i \in x .. y : r[i] \in Nat /\ s[i + 1] = r[i]
    BY <1>1, <1>2, <1>4
  <2> QED BY <2>1, SumShift
<1>5. \A a \in 0 .. Window - 1 :
         /\ SumFunctionOnSet(s, 1 .. a + 1) = SumFunctionOnSet(r, 1 .. a)
         /\ SumFunctionOnSet(r, 1 .. a) \in Nat
  <2> TAKE a \in 0 .. Window - 1
  <2>1. SumFunctionOnSet(s, (1 + 1) .. (a + 1)) = SumFunctionOnSet(r, 1 .. a)
    BY <1>1, <1>4
  <2>2. SumFunctionOnSet(s, 1 .. 1) = 0
    <3>1. 1 .. 1 = {1}
      OBVIOUS
    <3>2. IsFiniteSet({1})
      BY FS_Singleton
    <3>3. \A i \in {1} : s[i] = 0
      BY <1>2
    <3> QED BY <3>1, <3>2, <3>3, SumZero
  <2>3. 1 \in 0 .. Window /\ a + 1 \in 1 .. Window /\ a \in 0 .. Window
        /\ Window \in a .. Window
    BY <1>1
  <2>4. /\ SumFunctionOnSet(s, (1 + 1) .. (a + 1)) \in Nat
        /\ SumFunctionOnSet(s, 1 .. (a + 1)) =
              SumFunctionOnSet(s, 1 .. 1) +
              SumFunctionOnSet(s, (1 + 1) .. (a + 1))
    BY <1>2, <2>3, SumSplit
  <2> QED BY <2>1, <2>2, <2>4
<1>6. SumFunctionOnSet(r, 1 .. Window - 1) <= SumFunctionOnSet(r, 1 .. Window)
  <2>1. Window - 1 \in 0 .. Window /\ Window \in (Window - 1) .. Window
    BY <1>1
  <2>2. /\ SumFunctionOnSet(r, 1 .. Window - 1) \in Nat
        /\ SumFunctionOnSet(r, (Window - 1 + 1) .. Window) \in Nat
        /\ SumFunctionOnSet(r, 1 .. Window) =
              SumFunctionOnSet(r, 1 .. Window - 1) +
              SumFunctionOnSet(r, (Window - 1 + 1) .. Window)
    BY <1>1, <2>1, SumSplit
  <2> QED BY <2>2
<1>7. SumFunctionOnSet(s, 1 .. Window) = SumFunctionOnSet(r, 1 .. Window - 1)
  <2>1. Window - 1 \in 0 .. Window - 1 /\ (Window - 1) + 1 = Window
    BY <1>1
  <2> QED BY <1>5, <2>1
<1>8. CASE b.age = Window
  <2>1. c = Window
    BY <1>1, <1>8
  <2>2. SumFunctionOnSet(r, 1 .. Window) <= MaxRequests
    BY <1>8 DEF Metered
  <2>3. SumFunctionOnSet(r, 1 .. Window) \in Nat
        /\ SumFunctionOnSet(r, 1 .. Window - 1) \in Nat
    <3>1. Window \in 0 .. Window /\ Window \in Window .. Window
          /\ Window - 1 \in 0 .. Window - 1
      BY <1>1
    <3> QED BY <1>1, <1>5, <3>1, SumSplit
  <2>4. SumFunctionOnSet(s, 1 .. Window) <= MaxRequests
    BY <1>1, <1>6, <1>7, <2>2, <2>3
  <2>5. d.age = Window /\ ~(d.age < Window)
    BY <1>1, <1>3, <2>1
  <2>6. Metered(d, s)
    BY <1>2, <1>3, <2>4, <2>5 DEF Metered
  <2> QED BY <2>6 DEF d, s
<1>9. CASE b.age < Window
  <2>1. c = b.age + 1
    BY <1>9
  <2>2. /\ SumFunctionOnSet(r, 1 .. b.age + 1) = b.count
        /\ SumFunctionOnSet(r, b.age + 2 .. Window) <= MaxRequests
    BY <1>9 DEF Metered
  <2>3. CASE c = Window
    <3>1. SumFunctionOnSet(r, 1 .. Window) <= MaxRequests
      BY <1>1, <2>1, <2>2, <2>3
    <3>2. SumFunctionOnSet(r, 1 .. Window) \in Nat
          /\ SumFunctionOnSet(r, 1 .. Window - 1) \in Nat
      <4>1. Window \in 0 .. Window /\ Window \in Window .. Window
            /\ Window - 1 \in 0 .. Window - 1
        BY <1>1
      <4> QED BY <1>1, <1>5, <4>1, SumSplit
    <3>3. SumFunctionOnSet(s, 1 .. Window) <= MaxRequests
      BY <1>1, <1>6, <1>7, <3>1, <3>2
    <3>4. d.age = Window /\ ~(d.age < Window)
      BY <1>1, <1>3, <2>3
    <3>5. Metered(d, s)
      BY <1>2, <1>3, <3>3, <3>4 DEF Metered
    <3> QED BY <3>5 DEF d, s
  <2>4. CASE c # Window
    <3>1. c \in 0 .. Window - 1 /\ c \in Nat /\ d.age < Window
          /\ d.age # Window
      BY <1>1, <1>3, <2>4
    <3>2. SumFunctionOnSet(s, 1 .. c + 1) = b.count
      BY <1>5, <2>1, <2>2, <3>1
    <3>3. SumFunctionOnSet(s, c + 2 .. Window) <= MaxRequests
      <4> DEFINE x == c + 1
                 y == Window - 1
      <4>1. /\ x \in Nat /\ y \in Nat /\ 1 <= x /\ y < Window
            /\ x + 1 = c + 2 /\ y + 1 = Window /\ x = b.age + 2
            /\ x - 1 \in 0 .. Window /\ Window \in 0 .. Window
            /\ y \in 0 .. Window /\ Window \in y .. Window
            /\ x <= y + 1
        <5>1. c \in Nat /\ c <= Window - 1 /\ Window \in Nat /\ 1 <= Window
          BY <1>1, <3>1
        <5>2. x = b.age + 2
          BY <1>1, <2>1
        <5> QED BY <5>1, <5>2
      <4>2. SumFunctionOnSet(s, c + 2 .. Window) = SumFunctionOnSet(r, x .. y)
        <5> HIDE DEF x, y
        <5>1. SumFunctionOnSet(s, (x + 1) .. (y + 1)) =
                 SumFunctionOnSet(r, x .. y)
          BY <1>4, <4>1
        <5> QED BY <4>1, <5>1
      <4>3. x .. y \in SUBSET (x .. Window) /\ x .. Window \subseteq 1 .. Window
        BY <4>1
      <4>4. IsFiniteSet(x .. Window)
        <5>1. x \in Int /\ Window \in Int
          BY <4>1
        <5> HIDE DEF x, y
        <5> QED BY <5>1, FS_Interval
      <4>5. \A i \in x .. Window : r[i] \in Nat
        BY <1>1, <4>3
      <4>6. /\ SumFunctionOnSet(r, x .. y) \in Nat
            /\ SumFunctionOnSet(r, x .. Window) \in Nat
            /\ SumFunctionOnSet(r, x .. y) <= SumFunctionOnSet(r, x .. Window)
        <5> HIDE DEF x, y
        <5> QED BY <4>3, <4>4, <4>5, SumSubset
      <4>7. SumFunctionOnSet(r, x .. Window) <= MaxRequests
        BY <2>2, <4>1
      <4> HIDE DEF x, y
      <4> QED BY <1>1, <4>2, <4>6, <4>7
    <3>4. Metered(d, s)
      BY <1>2, <1>3, <3>1, <3>2, <3>3 DEF Metered
    <3> QED BY <3>4 DEF d, s
  <2> QED BY <2>3, <2>4
<1> QED BY <1>1, <1>8, <1>9

LEMMA MetersStart == MetersInit => MetersInv
<1> SUFFICES ASSUME MetersInit PROVE MetersInv
  OBVIOUS
<1>1. Window \in Nat /\ Window >= 1 /\ MaxRequests \in Nat
  BY MetersAssumption DEF MetersAssumption
<1>2. ASSUME NEW m \in Methods PROVE Metered(bucket[m], recent[m])
  <2>1. bucket[m] = [count |-> 0, age |-> Window]
        /\ recent[m] = [i \in 1 .. Window |-> 0]
    BY DEF MetersInit
  <2> DEFINE r == [i \in 1 .. Window |-> 0]
             b == [count |-> 0, age |-> Window]
  <2>2. /\ r \in [1 .. Window -> Nat] /\ r[1] = 0
        /\ \A i \in 1 .. Window : r[i] = 0
    BY <1>1
  <2>3. b \in Buckets /\ b.age = Window /\ ~(b.age < Window)
    BY <1>1 DEF Buckets
  <2> HIDE DEF r, b
  <2>4. SumFunctionOnSet(r, 1 .. Window) = 0
    BY <1>1, <2>2, FS_Interval, SumZero
  <2>5. Metered(b, r)
    BY <1>1, <2>2, <2>3, <2>4 DEF Metered
  <2> QED BY <2>1, <2>5 DEF r, b
<1>3. bucket \in [Methods -> Buckets]
  BY <1>1 DEF MetersInit, Buckets
<1> QED BY <1>2, <1>3 DEF MetersInit, MetersInv

LEMMA MetersStep == MetersInv /\ [MetersNext]_metersVars => MetersInv'
<1> SUFFICES ASSUME MetersInv, [MetersNext]_metersVars PROVE MetersInv'
  OBVIOUS
<1>1. ASSUME bucket' = bucket, recent' = recent PROVE MetersInv'
  BY <1>1 DEF MetersInv
<1>2. CASE UNCHANGED metersVars
  BY <1>1, <1>2 DEF metersVars
<1>3. ASSUME NEW m \in Methods, Request(m) PROVE MetersInv'
  <2>1. Metered(bucket[m], recent[m]) /\ bucket[m] \in Buckets
    BY DEF MetersInv
  <2>2. /\ bucket[m] = [count |-> bucket[m].count, age |-> bucket[m].age]
        /\ bucket[m].count \in 0 .. MaxRequests /\ bucket[m].age \in 0 .. Window
    BY <2>1 DEF Buckets
  <2>3. MaxRequests \in Nat /\ MaxRequests > 0 /\ Window \in Nat
    BY MetersAssumption DEF MetersAssumption
  <2> DEFINE c == Current(m)
  <2>4. /\ c = IF bucket[m].age >= Window THEN [count |-> 0, age |-> 0]
               ELSE bucket[m]
        /\ c = [count |-> c.count, age |-> c.age]
        /\ c.count \in Nat
    BY <2>2, <2>3 DEF Current
  <2>5. CASE c.count >= MaxRequests
    <3>1. bucket' = [bucket EXCEPT ![m] = c] /\ recent' = recent
      BY <1>3, <2>5 DEF Request
    <3>2. c = bucket[m]
      BY <2>3, <2>4, <2>5
    <3> HIDE DEF c
    <3>3. bucket' = bucket
      BY <3>1, <3>2 DEF MetersInv
    <3> QED BY <1>1, <3>1, <3>3
  <2>6. CASE ~(c.count >= MaxRequests)
    <3>1. /\ bucket' = [bucket EXCEPT ![m] = [c EXCEPT !.count = @ + 1]]
          /\ recent' = [recent EXCEPT ![m][1] = @ + 1]
      BY <1>3, <2>6 DEF Request
    <3>2. [c EXCEPT !.count = @ + 1] = [count |-> c.count + 1, age |-> c.age]
      BY <2>4
    <3>3. c.count < MaxRequests
      BY <2>3, <2>4, <2>6
    <3> HIDE DEF c
    <3>4. Metered([count |-> c.count + 1, age |-> c.age],
                  [recent[m] EXCEPT ![1] = @ + 1])
      BY <2>1, <2>4, <3>3, RequestMetered
    <3>5. /\ bucket'[m] = [count |-> c.count + 1, age |-> c.age]
          /\ recent'[m] = [recent[m] EXCEPT ![1] = @ + 1]
          /\ \A n \in Methods \ {m} :
                bucket'[n] = bucket[n] /\ recent'[n] = recent[n]
          /\ DOMAIN recent' = Methods /\ DOMAIN bucket' = Methods
          /\ bucket' = [n \in Methods |-> bucket'[n]]
      BY <3>1, <3>2 DEF MetersInv
    <3>6. \A n \in Methods : Metered(bucket'[n], recent'[n])
      BY <3>4, <3>5 DEF MetersInv
    <3>7. \A n \in Methods : bucket'[n] \in Buckets
      BY <3>6 DEF Metered
    <3>8. bucket' \in [Methods -> Buckets]
      BY <3>5, <3>7
    <3> QED BY <3>5, <3>6, <3>8 DEF MetersInv
  <2> QED BY <2>5, <2>6
<1>4. ASSUME NEW n \in 0 .. PoolSize, Load(n) PROVE MetersInv'
  BY <1>1, <1>4 DEF Load
<1>5. CASE Quote
  BY <1>1, <1>5 DEF Quote
<1>6. CASE Tick
  <2>1. /\ bucket' = [m \in Methods |-> [bucket[m] EXCEPT !.age =
                         IF @ < Window THEN @ + 1 ELSE Window]]
        /\ recent' = [m \in Methods |->
                         <<0>> \o SubSeq(recent[m], 1, Window - 1)]
    BY <1>6 DEF Tick
  <2>2. ASSUME NEW m \in Methods
        PROVE  Metered(bucket'[m], recent'[m]) /\ bucket'[m] \in Buckets
    <3> DEFINE c == IF bucket[m].age < Window THEN bucket[m].age + 1 ELSE Window
    <3>1. Metered(bucket[m], recent[m])
      BY DEF MetersInv
    <3>2. bucket[m] = [count |-> bucket[m].count, age |-> bucket[m].age]
      BY DEF MetersInv, Buckets
    <3>3. [bucket[m] EXCEPT !.age = IF @ < Window THEN @ + 1 ELSE Window] =
             [count |-> bucket[m].count, age |-> c]
      BY <3>2
    <3>4. bucket'[m] = [count |-> bucket[m].count, age |-> c]
      BY <2>1, <3>3
    <3>5. recent'[m] = <<0>> \o SubSeq(recent[m], 1, Window - 1)
      BY <2>1
    <3>6. Metered([count |-> bucket[m].count, age |-> c],
                  <<0>> \o SubSeq(recent[m], 1, Window - 1))
      BY <3>1, TickMetered
    <3>7. Metered(bucket'[m], recent'[m])
      BY <3>4, <3>5, <3>6
    <3> QED BY <3>7 DEF Metered
  <2>3. DOMAIN recent' = Methods /\ bucket' \in [Methods -> Buckets]
    BY <2>1, <2>2
  <2> QED BY <2>2, <2>3 DEF MetersInv
<1> QED BY <1>2, <1>3, <1>4, <1>5, <1>6 DEF MetersNext

\* The limiter lets in no more than twice its limit within the time of one
\* window (RateLimiter::check), for any methods, limit and window.
THEOREM WindowCorrect == MetersSpec => []WindowBounded
<1>1. MetersInv => WindowBounded
  BY MeteredBound DEF MetersInv, WindowBounded
<1> QED BY <1>1, MetersStart, MetersStep, PTL DEF MetersSpec

-----------------------------------------------------------------------------
(* Concurrent faucet requests.                                             *)
Pair == Nat \X Nat

RequestType == [pc : {"none", "tips", "mining"}, to : Customers \cup {"nobody"},
                parents : Pair, read : Nat]

FaucetTypeOK ==
    /\ placed \in Seq(Pair)
    /\ since \in [Customers -> 0 .. Cooldown]
    /\ asked \in [Callers -> RequestType]
    /\ paid \in [Customers -> Nat]
    /\ clock \in Nat

-----------------------------------------------------------------------------
LEMMA TipPairsType ==
    ASSUME FaucetTypeOK, NEW pair \in TipPairs
    PROVE  pair \in Pair
<1>1. DOMAIN placed \subseteq Nat
  BY DEF FaucetTypeOK
<1>2. Childless \subseteq Nat
  BY <1>1 DEF Childless
<1>3. CASE Cardinality(Childless) >= 2
  BY <1>2, <1>3 DEF TipPairs, Pair
<1>4. CASE ~ (Cardinality(Childless) >= 2)
  <2>1. pair = <<0, 0>> \/ \E t \in Childless : pair = <<t, 0>>
    BY <1>4 DEF TipPairs
  <2> QED BY <1>2, <2>1 DEF Pair
<1> QED BY <1>3, <1>4

LEMMA AppendPair ==
    ASSUME FaucetTypeOK, NEW pair \in Pair
    PROVE  /\ Append(placed, pair) \in Seq(Pair)
           /\ Len(Append(placed, pair)) = Len(placed) + 1
BY DEF FaucetTypeOK

LEMMA WaitingType == Waiting \in RequestType /\ Waiting.pc = "none"
BY DEF Waiting, RequestType, Pair

LEMMA FaucetTypeStep == FaucetTypeOK /\ [FaucetNext]_faucetVars => FaucetTypeOK'
<1> SUFFICES ASSUME FaucetTypeOK, [FaucetNext]_faucetVars PROVE FaucetTypeOK'
  OBVIOUS
<1> USE DEF FaucetTypeOK
<1>1. CASE UNCHANGED faucetVars
  BY <1>1 DEF faucetVars
<1>2. ASSUME NEW w \in Callers, NEW a \in Customers, Ask(w, a)
      PROVE  FaucetTypeOK'
  <2>1. [Waiting EXCEPT !.pc = "tips", !.to = a] \in RequestType
    BY DEF Waiting, RequestType, Pair
  <2>2. since' \in [Customers -> 0 .. Cooldown]
    BY <1>2, FaucetAssumption DEF Ask, Admit, FaucetAssumption
  <2> QED BY <1>2, <2>1, <2>2 DEF Ask
<1>3. ASSUME NEW w \in Callers, ReadTips(w) PROVE FaucetTypeOK'
  <2>1. PICK pair \in TipPairs :
            asked' = [asked EXCEPT ![w] =
                        [pc |-> "mining", to |-> @.to,
                         parents |-> pair, read |-> Len(placed)]]
    BY <1>3 DEF ReadTips
  <2>2. pair \in Pair /\ Len(placed) \in Nat
    BY TipPairsType
  <2>3. asked' \in [Callers -> RequestType]
    BY <2>1, <2>2 DEF RequestType
  <2> QED BY <1>3, <2>3 DEF ReadTips
<1>4. ASSUME NEW w \in Callers, Pay(w) PROVE FaucetTypeOK'
  <2>1. asked[w].parents \in Pair /\ asked[w].to \in Customers \cup {"nobody"}
    BY DEF RequestType
  <2>2. placed' \in Seq(Pair)
    BY <1>4, <2>1, AppendPair DEF Pay
  <2>3. paid' \in [Customers -> Nat]
    <3>1. CASE asked[w].to \in Customers
      BY <1>4, <3>1 DEF Pay
    <3>2. CASE asked[w].to \notin Customers
      BY <1>4, <3>2 DEF Pay
    <3> QED BY <3>1, <3>2
  <2>4. asked' \in [Callers -> RequestType]
    BY <1>4, WaitingType DEF Pay
  <2> QED BY <1>4, <2>2, <2>3, <2>4 DEF Pay
<1>5. ASSUME NEW w \in Callers, Refused(w) PROVE FaucetTypeOK'
  BY <1>5, WaitingType DEF Refused
<1>6. CASE Others
  <2>1. PICK p \in 0 .. Len(placed), q \in 0 .. Len(placed) :
            placed' = Append(placed, <<p, q>>)
    BY <1>6 DEF Others
  <2>2. <<p, q>> \in Pair
    BY <2>1 DEF Pair
  <2> QED BY <1>6, <2>1, <2>2, AppendPair DEF Others
<1>7. CASE Second
  <2>1. since' \in [Customers -> 0 .. Cooldown]
    BY <1>7, FaucetAssumption DEF Second, FaucetAssumption
  <2> QED BY <1>7, <2>1 DEF Second
<1> QED BY <1>1, <1>2, <1>3, <1>4, <1>5, <1>6, <1>7 DEF FaucetNext

LEMMA FaucetTypeInit == FaucetInit => FaucetTypeOK
BY WaitingType, FaucetAssumption DEF FaucetInit, FaucetTypeOK, FaucetAssumption

-----------------------------------------------------------------------------
(* Places.  Each is given once, and was free when a request read it.       *)
PlaceInv ==
    /\ FaucetTypeOK
    /\ \A i, j \in 1 .. Len(placed) :
          placed[i] = placed[j] => i = j \/ placed[i] = <<0, 0>>
    /\ \A w \in Callers :
          asked[w].pc = "mining" =>
              /\ asked[w].read <= Len(placed)
              /\ \A k \in 1 .. Len(placed) :
                    placed[k] = asked[w].parents =>
                        asked[w].read < k \/ placed[k] = <<0, 0>>

\* Tips have no child, so no transaction has a pair of them for parents.
LEMMA TipsFree ==
    ASSUME NEW pair \in TipPairs
    PROVE  Free(pair)
<1>1. CASE pair = <<0, 0>>
  BY <1>1 DEF Free
<1>2. ASSUME pair # <<0, 0>> PROVE pair \notin Range(placed)
  <2>1. pair[1] \in Childless
    BY <1>2 DEF TipPairs
  <2> QED BY <2>1 DEF Childless
<1> QED BY <1>1, <1>2 DEF Free

LEMMA FreeIs ==
    ASSUME FaucetTypeOK, NEW pair
    PROVE  Free(pair) <=> \/ pair = <<0, 0>>
                          \/ \A k \in 1 .. Len(placed) : placed[k] # pair
BY DEF Free, Range, FaucetTypeOK

\* The DAG takes a transaction at the end, at a free place.
LEMMA PlaceAdded ==
    ASSUME PlaceInv, NEW pair \in Pair, Free(pair),
           placed' = Append(placed, pair), FaucetTypeOK',
           \A w \in Callers : asked'[w] = asked[w] \/ asked'[w].pc = "none"
    PROVE  PlaceInv'
<1>1. placed \in Seq(Pair) /\ Len(placed) \in Nat
  BY DEF PlaceInv, FaucetTypeOK
<1>2. /\ Len(placed') = Len(placed) + 1
      /\ placed'[Len(placed) + 1] = pair
      /\ \A k \in 1 .. Len(placed) : placed'[k] = placed[k]
  BY <1>1
<1>3. \A k \in 1 .. Len(placed') :
          k \in 1 .. Len(placed) \/ k = Len(placed) + 1
  BY <1>1, <1>2
<1>4. pair = <<0, 0>> \/ \A k \in 1 .. Len(placed) : placed[k] # pair
  BY FreeIs DEF PlaceInv
<1>5. ASSUME NEW i \in 1 .. Len(placed'), NEW j \in 1 .. Len(placed'),
             placed'[i] = placed'[j]
      PROVE  i = j \/ placed'[i] = <<0, 0>>
  BY <1>2, <1>3, <1>4, <1>5 DEF PlaceInv
<1>6. ASSUME NEW w \in Callers, asked'[w].pc = "mining"
      PROVE  /\ asked'[w].read <= Len(placed')
             /\ \A k \in 1 .. Len(placed') :
                    placed'[k] = asked'[w].parents =>
                        asked'[w].read < k \/ placed'[k] = <<0, 0>>
  <2>1. asked'[w] = asked[w] /\ asked[w].read \in Nat
    BY <1>6 DEF PlaceInv, FaucetTypeOK, RequestType
  <2>2. asked[w].read <= Len(placed)
    BY <1>6, <2>1 DEF PlaceInv
  <2>3. asked[w].read < Len(placed) + 1
    BY <1>1, <2>1, <2>2
  <2>4. ASSUME NEW k \in 1 .. Len(placed'), placed'[k] = asked[w].parents
        PROVE  asked[w].read < k \/ placed'[k] = <<0, 0>>
    BY <1>2, <1>3, <1>6, <2>1, <2>3, <2>4 DEF PlaceInv
  <2> QED BY <1>1, <1>2, <2>1, <2>2, <2>4
<1> QED BY <1>5, <1>6 DEF PlaceInv

LEMMA PlaceStep == PlaceInv /\ [FaucetNext]_faucetVars => PlaceInv'
<1> SUFFICES ASSUME PlaceInv, [FaucetNext]_faucetVars PROVE PlaceInv'
  OBVIOUS
<1>1. FaucetTypeOK /\ FaucetTypeOK'
  BY FaucetTypeStep DEF PlaceInv
<1>2. ASSUME placed' = placed,
             \A w \in Callers : asked'[w] = asked[w] \/ asked'[w].pc # "mining"
      PROVE  PlaceInv'
  BY <1>1, <1>2 DEF PlaceInv
<1>3. CASE UNCHANGED faucetVars
  BY <1>2, <1>3 DEF faucetVars
<1>4. ASSUME NEW v \in Callers, NEW a \in Customers, Ask(v, a) PROVE PlaceInv'
  <2>1. \A w \in Callers : asked'[w] = asked[w] \/ asked'[w].pc # "mining"
    BY <1>1, <1>4 DEF Ask, Waiting, FaucetTypeOK
  <2> QED BY <1>2, <1>4, <2>1 DEF Ask
<1>5. ASSUME NEW v \in Callers, ReadTips(v) PROVE PlaceInv'
  <2>1. PICK pair \in TipPairs :
            asked' = [asked EXCEPT ![v] =
                        [pc |-> "mining", to |-> @.to,
                         parents |-> pair, read |-> Len(placed)]]
    BY <1>5 DEF ReadTips
  <2>2. /\ asked'[v].read = Len(placed) /\ asked'[v].parents = pair
        /\ \A w \in Callers : w # v => asked'[w] = asked[w]
    BY <1>1, <2>1 DEF FaucetTypeOK
  <2>3. pair = <<0, 0>> \/ \A k \in 1 .. Len(placed) : placed[k] # pair
    BY <1>1, FreeIs, TipsFree
  <2>4. placed' = placed /\ Len(placed) \in Nat
    BY <1>1, <1>5 DEF ReadTips, FaucetTypeOK
  <2>5. ASSUME NEW w \in Callers, asked'[w].pc = "mining"
        PROVE  /\ asked'[w].read <= Len(placed)
               /\ \A k \in 1 .. Len(placed) :
                      placed[k] = asked'[w].parents =>
                          asked'[w].read < k \/ placed[k] = <<0, 0>>
    <3>1. CASE w = v
      BY <2>2, <2>3, <2>4, <3>1
    <3>2. CASE w # v
      BY <2>2, <2>5, <3>2 DEF PlaceInv
    <3> QED BY <3>1, <3>2
  <2> QED BY <1>1, <2>4, <2>5 DEF PlaceInv
<1>6. ASSUME NEW v \in Callers, Pay(v) PROVE PlaceInv'
  <2>1. asked[v].parents \in Pair
    BY <1>1 DEF FaucetTypeOK, RequestType
  <2>2. \A w \in Callers : asked'[w] = asked[w] \/ asked'[w].pc = "none"
    BY <1>1, <1>6, WaitingType DEF Pay, FaucetTypeOK
  <2> QED BY <1>1, <1>6, <2>1, <2>2, PlaceAdded DEF Pay
<1>7. ASSUME NEW v \in Callers, Refused(v) PROVE PlaceInv'
  <2>1. \A w \in Callers : asked'[w] = asked[w] \/ asked'[w].pc # "mining"
    BY <1>1, <1>7, WaitingType DEF Refused, FaucetTypeOK
  <2> QED BY <1>2, <1>7, <2>1 DEF Refused
<1>8. CASE Others
  <2>1. PICK p \in 0 .. Len(placed), q \in 0 .. Len(placed) :
            Free(<<p, q>>) /\ placed' = Append(placed, <<p, q>>)
    BY <1>8 DEF Others
  <2>2. <<p, q>> \in Pair
    BY <2>1 DEF Pair
  <2> QED BY <1>1, <1>8, <2>1, <2>2, PlaceAdded DEF Others
<1>9. CASE Second
  BY <1>2, <1>9 DEF Second
<1> QED BY <1>3, <1>4, <1>5, <1>6, <1>7, <1>8, <1>9 DEF FaucetNext

\* For any number of concurrent requests, a place is given once, and only to a
\* transaction that came after everyone who then finds it taken had read it.
THEOREM PlaceCorrect == FaucetSpec => []OvertakenOnce
<1>1. FaucetInit => PlaceInv
  BY FaucetTypeInit, WaitingType DEF FaucetInit, PlaceInv
<1>2. ASSUME PlaceInv, NEW w \in Callers, asked[w].pc = "mining",
             ~Free(asked[w].parents)
      PROVE  \E k \in asked[w].read + 1 .. Len(placed) :
                 {j \in DOMAIN placed : placed[j] = asked[w].parents} = {k}
  <2>1. DOMAIN placed = 1 .. Len(placed) /\ Len(placed) \in Nat
        /\ asked[w].read \in Nat
    BY <1>2 DEF PlaceInv, FaucetTypeOK, RequestType
  <2>2. PICK k \in 1 .. Len(placed) :
            placed[k] = asked[w].parents /\ placed[k] # <<0, 0>>
    BY <1>2, FreeIs DEF PlaceInv
  <2>3. asked[w].read < k
    BY <1>2, <2>2 DEF PlaceInv
  <2>4. {j \in DOMAIN placed : placed[j] = asked[w].parents} = {k}
    BY <1>2, <2>1, <2>2 DEF PlaceInv
  <2>5. k \in asked[w].read + 1 .. Len(placed)
    BY <2>1, <2>3
  <2> QED BY <2>4, <2>5
<1>3. PlaceInv => OvertakenOnce
  BY <1>2 DEF OvertakenOnce
<1> QED BY <1>1, <1>3, PlaceStep, PTL DEF FaucetSpec

-----------------------------------------------------------------------------
(* Cooldowns.  Each payment but the last one let in took a whole cooldown. *)
Admitted(a) == paid[a] + Cardinality(UnderWay(a))

CooldownInv ==
    /\ FaucetTypeOK
    /\ \A a \in Customers :
          Admitted(a) >= 1 =>
              (Admitted(a) - 1) * Cooldown + since[a] <= clock

LEMMA AdmittedType ==
    ASSUME FaucetTypeOK, NEW a \in Customers
    PROVE  /\ IsFiniteSet(UnderWay(a)) /\ Cardinality(UnderWay(a)) \in Nat
           /\ Admitted(a) \in Nat
<1>1. UnderWay(a) \in SUBSET Callers /\ IsFiniteSet(Callers)
  BY FaucetAssumption DEF UnderWay, FaucetAssumption
<1>2. IsFiniteSet(UnderWay(a))
  BY <1>1, FS_Subset
<1>3. Cardinality(UnderWay(a)) \in Nat
  BY <1>2, FS_CardinalityType
<1> QED BY <1>2, <1>3 DEF FaucetTypeOK, Admitted

\* The arithmetic of one more, one fewer and one second more.
LEMMA OneMore ==
    ASSUME NEW n \in Nat, NEW c \in Nat \ {0}, NEW t \in Nat,
           n >= 1 => (n - 1) * c + c <= t
    PROVE  n * c + 0 <= t
<1>1. CASE n = 0
  BY <1>1
<1>2. CASE n >= 1
  <2>1. (n - 1) * c + c = n * c
    OBVIOUS
  <2> QED BY <1>2, <2>1
<1> QED BY <1>1, <1>2

LEMMA OneFewer ==
    ASSUME NEW n \in Nat, NEW c \in Nat, NEW s \in Nat, NEW t \in Nat, n >= 1,
           n * c + s <= t
    PROVE  (n - 1) * c + s <= t
<1>1. n * c = (n - 1) * c + c /\ (n - 1) * c \in Nat
  OBVIOUS
<1> QED BY <1>1

LEMMA WholeCooldowns ==
    ASSUME NEW n \in Nat, NEW c \in Nat \ {0}, NEW t \in Nat, n * c <= t
    PROVE  n <= t \div c
<1> DEFINE q == t \div c
<1>1. q \in Nat /\ t < q * c + c
  OBVIOUS
<1> HIDE DEF q
<1>2. ASSUME n > q PROVE FALSE
  <2>1. PICK d \in Nat : n = q + 1 + d
    <3>1. n - q - 1 \in Nat /\ n = q + 1 + (n - q - 1)
      BY <1>1, <1>2
    <3> QED BY <3>1
  <2>2. n * c = q * c + c + d * c
    BY <1>1, <2>1
  <2>3. d * c \in Nat /\ q * c \in Nat
    BY <1>1, <2>1
  <2> QED BY <1>1, <2>2, <2>3
<1>3. n <= q
  BY <1>1, <1>2
<1> QED BY <1>3 DEF q

LEMMA CooldownStep == CooldownInv /\ [FaucetNext]_faucetVars => CooldownInv'
<1> SUFFICES ASSUME CooldownInv, [FaucetNext]_faucetVars, NEW a \in Customers,
                    Admitted(a)' >= 1
             PROVE  (Admitted(a)' - 1) * Cooldown + since'[a] <= clock'
  BY FaucetTypeStep DEF CooldownInv
<1> DEFINE n == Admitted(a)
<1>0. /\ FaucetTypeOK /\ FaucetTypeOK'
      /\ n \in Nat /\ Cooldown \in Nat \ {0} /\ clock \in Nat
      /\ since[a] \in 0 .. Cooldown
      /\ n >= 1 => (n - 1) * Cooldown + since[a] <= clock
  BY FaucetTypeStep, AdmittedType, FaucetAssumption
  DEF CooldownInv, FaucetTypeOK, FaucetAssumption
<1>1. ASSUME UnderWay(a)' = UnderWay(a), paid'[a] = paid[a]
      PROVE  n' = n
  BY <1>1 DEF Admitted
<1>2. CASE UNCHANGED faucetVars
  <2>1. n' = n
    BY <1>1, <1>2 DEF faucetVars, UnderWay
  <2> QED BY <1>0, <1>2, <2>1 DEF faucetVars
<1>3. ASSUME NEW w \in Callers, NEW b \in Customers, Ask(w, b)
      PROVE  (n' - 1) * Cooldown + since'[a] <= clock'
  <2>1. /\ asked' = [asked EXCEPT ![w] =
                        [Waiting EXCEPT !.pc = "tips", !.to = b]]
        /\ asked'[w].pc = "tips" /\ asked'[w].to = b /\ asked[w].pc = "none"
        /\ \A v \in Callers \ {w} : asked'[v] = asked[v]
        /\ paid' = paid /\ clock' = clock
    BY <1>0, <1>3 DEF Ask, Waiting, FaucetTypeOK
  <2>2. CASE a = b
    <3>1. UnderWay(a)' = UnderWay(a) \cup {w} /\ w \notin UnderWay(a)
      BY <2>1, <2>2 DEF UnderWay
    <3>2. Cardinality(UnderWay(a)') = Cardinality(UnderWay(a)) + 1
      BY <1>0, <3>1, FS_AddElement, AdmittedType
    <3>3. n' = n + 1
      BY <1>0, <2>1, <3>2, AdmittedType DEF Admitted, FaucetTypeOK
    <3>4. since[a] >= Cooldown /\ since'[a] = 0
      BY <1>0, <1>3, <2>2 DEF Ask, Admit, FaucetTypeOK
    <3>5. since[a] = Cooldown
      BY <1>0, <3>4
    <3>6. n * Cooldown + 0 <= clock
      BY <1>0, <3>5, OneMore
    <3>7. n' - 1 = n
      BY <1>0, <3>3
    <3> QED BY <2>1, <3>4, <3>6, <3>7
  <2>3. CASE a # b
    <3>1. UnderWay(a)' = UnderWay(a)
      BY <2>1, <2>3 DEF UnderWay
    <3>2. n' = n
      BY <1>1, <2>1, <3>1
    <3>3. since'[a] = since[a]
      BY <1>0, <1>3, <2>3 DEF Ask, Admit, FaucetTypeOK
    <3> QED BY <1>0, <2>1, <3>2, <3>3
  <2> QED BY <2>2, <2>3
<1>4. ASSUME NEW w \in Callers, ReadTips(w)
      PROVE  (n' - 1) * Cooldown + since'[a] <= clock'
  <2>1. UnderWay(a)' = UnderWay(a)
    BY <1>0, <1>4 DEF ReadTips, UnderWay, FaucetTypeOK, RequestType
  <2>2. n' = n
    BY <1>1, <1>4, <2>1 DEF ReadTips
  <2> QED BY <1>0, <1>4, <2>2 DEF ReadTips
<1>5. ASSUME NEW w \in Callers, Pay(w) \/ Refused(w)
      PROVE  (n' - 1) * Cooldown + since'[a] <= clock'
  <2>1. /\ asked[w].pc = "mining" /\ asked'[w].pc = "none"
        /\ \A v \in Callers \ {w} : asked'[v] = asked[v]
        /\ since' = since /\ clock' = clock
    BY <1>0, <1>5, WaitingType DEF Pay, Refused, FaucetTypeOK
  <2>2. CASE asked[w].to # a
    <3>1. UnderWay(a)' = UnderWay(a)
      BY <2>1, <2>2 DEF UnderWay
    <3>2. paid'[a] = paid[a]
      BY <1>0, <1>5, <2>2 DEF Pay, Refused, FaucetTypeOK
    <3>3. n' = n
      BY <1>1, <3>1, <3>2
    <3> QED BY <1>0, <2>1, <3>3
  <2>3. CASE asked[w].to = a
    <3>1. UnderWay(a)' = UnderWay(a) \ {w} /\ w \in UnderWay(a)
      BY <2>1, <2>3 DEF UnderWay
    <3>2. Cardinality(UnderWay(a)') = Cardinality(UnderWay(a)) - 1
      BY <1>0, <3>1, FS_RemoveElement, AdmittedType
    <3>3. CASE Pay(w)
      <4>1. paid'[a] = paid[a] + 1
        BY <1>0, <2>3, <3>3 DEF Pay, FaucetTypeOK
      <4>2. n' = n
        BY <1>0, <3>2, <4>1, AdmittedType DEF Admitted, FaucetTypeOK
      <4> QED BY <1>0, <2>1, <4>2
    <3>4. CASE Refused(w)
      <4>1. paid'[a] = paid[a]
        BY <3>4 DEF Refused
      <4>2. n' = n - 1
        BY <1>0, <3>2, <4>1, AdmittedType DEF Admitted, FaucetTypeOK
      <4>3. n - 1 \in Nat /\ n - 1 >= 1
        BY <1>0, <4>2
      <4>4. (n - 1 - 1) * Cooldown + since[a] <= clock
        BY <1>0, <4>3, OneFewer
      <4> QED BY <2>1, <4>2, <4>4
    <3> QED BY <1>5, <3>3, <3>4
  <2> QED BY <2>2, <2>3
<1>6. CASE Others
  <2>1. n' = n
    BY <1>1, <1>6 DEF Others, UnderWay
  <2> QED BY <1>0, <1>6, <2>1 DEF Others
<1>7. CASE Second
  <2>1. n' = n
    BY <1>1, <1>7 DEF Second, UnderWay
  <2>2. since'[a] <= since[a] + 1 /\ clock' = clock + 1 /\ since'[a] \in Nat
    BY <1>0, <1>7 DEF Second
  <2>3. (n - 1) * Cooldown + since[a] <= clock
    BY <1>0, <2>1
  <2>4. (n - 1) * Cooldown \in Int
    BY <1>0
  <2> QED BY <1>0, <2>1, <2>2, <2>3, <2>4
<1> QED BY <1>2, <1>3, <1>4, <1>5, <1>6, <1>7 DEF FaucetNext

\* Payments made and under way never exceed one per cooldown that has begun,
\* however many requests overlap and however long they take.
THEOREM CooldownCorrect == FaucetSpec => []OnePerCooldown
<1>1. FaucetInit => CooldownInv
  <2> SUFFICES ASSUME FaucetInit, NEW a \in Customers
               PROVE  Admitted(a) = 0
    BY FaucetTypeInit DEF CooldownInv
  <2>1. UnderWay(a) = {}
    BY DEF FaucetInit, UnderWay, Waiting
  <2> QED BY <2>1, FS_EmptySet DEF FaucetInit, Admitted
<1>2. CooldownInv => OnePerCooldown
  <2> SUFFICES ASSUME CooldownInv, NEW a \in Customers
               PROVE  Admitted(a) <= 1 + clock \div Cooldown
    BY DEF OnePerCooldown, Admitted
  <2>1. /\ Admitted(a) \in Nat /\ clock \in Nat /\ Cooldown \in Nat \ {0}
        /\ since[a] \in Nat
        /\ Admitted(a) >= 1 =>
              (Admitted(a) - 1) * Cooldown + since[a] <= clock
    BY AdmittedType, FaucetAssumption
       DEF CooldownInv, FaucetTypeOK, FaucetAssumption
  <2>2. clock \div Cooldown \in Nat
    BY <2>1
  <2>3. CASE Admitted(a) = 0
    BY <2>2, <2>3
  <2>4. CASE Admitted(a) >= 1
    <3>1. Admitted(a) - 1 \in Nat /\ (Admitted(a) - 1) * Cooldown \in Nat
      BY <2>1, <2>4
    <3>2. (Admitted(a) - 1) * Cooldown <= clock
      BY <2>1, <2>4, <3>1
    <3>3. Admitted(a) - 1 <= clock \div Cooldown
      BY <2>1, <3>1, <3>2, WholeCooldowns
    <3> QED BY <2>1, <2>2, <3>3
  <2> QED BY <2>1, <2>3, <2>4
<1> QED BY <1>1, <1>2, CooldownStep, PTL DEF FaucetSpec

-----------------------------------------------------------------------------
(* Locks.  An order of the locks that every handler but get_dag_stats      *)
(* follows; and only the mining loop waits to write the DAG.               *)
Rank == [mining |-> 1, cooldowns |-> 1, orphans |-> 2, mempool |-> 3,
         oracle |-> 4, consensus |-> 5, dag |-> 6, ledger |-> 7, known |-> 8,
         seen |-> 9, peers |-> 10]

Climbs(h, stop) ==
    /\ stop.guard[1] \in LockNames
    /\ stop.waits =>
          /\ \A held \in stop.holding :
                \/ Rank[held[1]] < Rank[stop.guard[1]]
                \/ h = "stats" /\ held = Reading("dag")
          /\ stop.guard[1] = "dag" /\ stop.guard[2] = "write" => h = "mine"

ClimbsAll(h) ==
    /\ Len(Handler[h]) \in Nat
    /\ \A i \in 1 .. Len(Handler[h]) : Climbs(h, Handler[h][i])

LEMMA HandlersClimb == \A h \in DOMAIN Handler : ClimbsAll(h)
<1>1. ClimbsAll("submit")
  BY SMTT(60) DEF Submit, ClimbsAll, Climbs, Rank, LockNames, Handler, Reading,
         Writing, Await, AwaitOrLeave, Try, TryOrLeave
<1>2. ClimbsAll("storeOrphan") /\ ClimbsAll("dropOrphan")
  BY DEF StoreOrphan, DropOrphan, ClimbsAll, Climbs, Rank, LockNames, Handler,
         Reading, Writing, Await, AwaitOrLeave, Try, TryOrLeave
<1>3. ClimbsAll("collect")
  BY DEF Collect, ClimbsAll, Climbs, Rank, LockNames, Handler, Reading,
         Writing, Await, AwaitOrLeave
<1>4. ClimbsAll("mine") /\ ClimbsAll("switchMining")
  BY DEF Mine, SwitchMining, ClimbsAll, Climbs, Rank, LockNames, Handler,
         Reading, Writing, Await, AwaitOrLeave
<1>5. ClimbsAll("stats")
  BY DEF Stats, ClimbsAll, Climbs, Rank, LockNames, Handler, Reading, Writing,
         Await, AwaitOrLeave
<1>6. ClimbsAll("status")
  BY DEF Status, ClimbsAll, Climbs, Rank, LockNames, Handler, Reading,
         Writing, Await, AwaitOrLeave
<1>7. ClimbsAll("lookUp") /\ ClimbsAll("metrics")
  BY DEF LookUp, Metrics, ClimbsAll, Climbs, Rank, LockNames, Handler, Reading,
         Writing, Await, AwaitOrLeave
<1>8. ClimbsAll("stake") /\ ClimbsAll("giveBack") /\ ClimbsAll("unstake")
  BY DEF Stake, GiveBack, Unstake, ClimbsAll, Climbs, Rank, LockNames, Handler,
         Reading, Writing, Await, AwaitOrLeave
<1>9. ClimbsAll("askFaucet")
  BY DEF AskFaucet, ClimbsAll, Climbs, Rank, LockNames, Handler, Reading,
         Writing, Await, AwaitOrLeave
<1>10. ClimbsAll("gossip") /\ ClimbsAll("hearPeers")
  BY DEF Gossip, HearPeers, ClimbsAll, Climbs, Rank, LockNames, Handler,
         Reading, Writing, Await, AwaitOrLeave
<1>11. ClimbsAll("resolve") /\ ClimbsAll("endPeer") /\ ClimbsAll("connect")
  BY DEF Resolve, EndPeer, Connect, ClimbsAll, Climbs, Rank, LockNames,
         Handler, Reading, Writing, Await, AwaitOrLeave
<1>12. \A h \in DOMAIN Handler :
          h \in {"submit", "storeOrphan", "collect", "dropOrphan", "mine",
                 "switchMining", "stats", "status", "lookUp", "metrics",
                 "stake", "giveBack", "unstake", "askFaucet", "gossip",
                 "hearPeers", "resolve", "endPeer", "connect"}
  BY Zenon DEF Handler
<1> QED BY <1>1, <1>2, <1>3, <1>4, <1>5, <1>6, <1>7, <1>8, <1>9, <1>10, <1>11,
           <1>12

TaskType == [handler : (DOMAIN Handler) \cup {"none"}, stop : Nat,
             phase : {"resting", "running", "waiting"}]

\* Whoever is in the line for a lock waits for it, and is there once.
Waits(l, i) ==
    /\ doing[queue[l][i]].phase = "waiting"
    /\ StopAt(queue[l][i]).guard[1] = l

InLine(l) ==
    /\ \A i \in 1 .. Len(queue[l]) : Waits(l, i)
    /\ \A i, j \in 1 .. Len(queue[l]) : queue[l][i] = queue[l][j] => i = j

AtWork(t) ==
    /\ doing[t].phase # "resting" =>
          doing[t].handler \in Duties[t] /\ doing[t].stop > 0
    /\ doing[t].phase = "waiting" =>
          doing[t].stop <= Len(Stops(t)) /\ StopAt(t).waits

LocksInv ==
    /\ doing \in [Tasks -> TaskType]
    /\ queue \in [LockNames -> Seq(Tasks)]
    /\ \A t \in Tasks : AtWork(t)
    /\ \A l \in LockNames : InLine(l)

LEMMA LocksStart == LocksInit => LocksInv
BY DEF LocksInit, LocksInv, TaskType, AtWork, InLine, Waits, Resting

\* A task that stays in no line may do what it likes.
LEMMA OutOfLine ==
    ASSUME LocksInv, NEW t \in Tasks, doing[t].phase # "waiting",
           NEW d \in TaskType, doing' = [doing EXCEPT ![t] = d],
           UNCHANGED queue, AtWork(t)'
    PROVE  LocksInv'
<1>1. doing' \in [Tasks -> TaskType] /\ queue' \in [LockNames -> Seq(Tasks)]
  BY DEF LocksInv
<1>2. ASSUME NEW u \in Tasks PROVE AtWork(u)'
  <2>1. CASE u # t
    BY <2>1 DEF LocksInv, AtWork, Stops, StopAt
  <2> QED BY <2>1
<1>3. ASSUME NEW l \in LockNames PROVE InLine(l)'
  <2>1. queue[l] \in Seq(Tasks) /\ InLine(l)
    BY DEF LocksInv
  <2>2. \A i \in 1 .. Len(queue[l]) : queue[l][i] \in Tasks /\ queue[l][i] # t
    BY <2>1 DEF InLine, Waits
  <2> QED BY <2>1, <2>2 DEF LocksInv, InLine, Waits, Stops, StopAt
<1> QED BY <1>1, <1>2, <1>3 DEF LocksInv

LEMMA EnqueueStep ==
    ASSUME LocksInv, NEW t \in Tasks, Enqueue(t)
    PROVE  LocksInv'
<1> DEFINE k == StopAt(t).guard[1]
<1>1. doing[t] \in TaskType /\ AtWork(t)
  BY DEF LocksInv
<1>2. k \in LockNames
  <2>1. doing[t].handler \in DOMAIN Handler
    BY <1>1, LocksAssumption DEF Enqueue, Running, AtWork, LocksAssumption
  <2>2. doing[t].stop \in 1 .. Len(Stops(t))
    BY <1>1, <2>1, HandlersClimb
       DEF Enqueue, Running, AtWork, TaskType, ClimbsAll, Stops
  <2> QED BY <2>1, <2>2, HandlersClimb DEF ClimbsAll, Climbs, Stops, StopAt
<1>3. queue[k] \in Seq(Tasks) /\ queue'[k] = Append(queue[k], t)
  BY <1>2 DEF LocksInv, Enqueue
<1> HIDE DEF k
<1>4. doing' \in [Tasks -> TaskType]
  BY <1>1 DEF LocksInv, Enqueue, TaskType
<1>5. queue' \in [LockNames -> Seq(Tasks)]
  BY <1>2, <1>3 DEF LocksInv, Enqueue, k
<1>6. /\ doing'[t].handler = doing[t].handler /\ doing'[t].stop = doing[t].stop
      /\ doing'[t].phase = "waiting"
      /\ \A u \in Tasks : u # t => doing'[u] = doing[u]
  BY <1>1 DEF LocksInv, Enqueue, TaskType
<1>7. \A u \in Tasks : Stops(u)' = Stops(u) /\ StopAt(u)' = StopAt(u)
  <2> SUFFICES ASSUME NEW u \in Tasks
               PROVE  Stops(u)' = Stops(u) /\ StopAt(u)' = StopAt(u)
    OBVIOUS
  <2>1. doing'[u].handler = doing[u].handler /\ doing'[u].stop = doing[u].stop
    BY <1>6
  <2> QED BY <2>1 DEF Stops, StopAt
<1>8. ASSUME NEW u \in Tasks PROVE AtWork(u)'
  <2>1. AtWork(u)
    BY DEF LocksInv
  <2>2. CASE u = t
    <3>1. doing[u].handler \in Duties[u] /\ doing[u].stop > 0
      BY <2>1, <2>2 DEF Enqueue, Running, AtWork
    <3>2. doing[u].stop <= Len(Stops(u)) /\ StopAt(u).waits
      BY <2>2 DEF Enqueue, Running
    <3> QED BY <1>6, <1>7, <2>2, <3>1, <3>2 DEF AtWork
  <2>3. CASE u # t
    BY <1>6, <1>7, <2>1, <2>3 DEF AtWork
  <2> QED BY <2>2, <2>3
<1>9. ASSUME NEW l \in LockNames PROVE InLine(l)'
  <2>1. InLine(l) /\ queue[l] \in Seq(Tasks)
    BY DEF LocksInv
  <2>2. \A i \in 1 .. Len(queue[l]) : queue[l][i] \in Tasks /\ queue[l][i] # t
    BY <2>1 DEF InLine, Waits, Enqueue, Running
  <2>3. CASE l # k
    <3>1. queue'[l] = queue[l]
      BY <2>3 DEF LocksInv, Enqueue, k
    <3> QED BY <1>6, <1>7, <2>1, <2>2, <3>1 DEF InLine, Waits
  <2>4. CASE l = k
    <3>1. Len(queue'[l]) = Len(queue[l]) + 1 /\ Len(queue[l]) \in Nat
      BY <1>3, <2>1, <2>4
    <3>2. /\ \A i \in 1 .. Len(queue[l]) : queue'[l][i] = queue[l][i]
          /\ queue'[l][Len(queue[l]) + 1] = t
      BY <1>3, <2>1, <2>4
    <3>3. \A i \in 1 .. Len(queue'[l]) :
              i \in 1 .. Len(queue[l]) \/ i = Len(queue[l]) + 1
      BY <3>1
    <3>4. ASSUME NEW i \in 1 .. Len(queue'[l]) PROVE Waits(l, i)'
      <4>1. CASE i \in 1 .. Len(queue[l])
        <5>1. doing'[queue'[l][i]] = doing[queue[l][i]]
          BY <1>6, <2>2, <3>2, <4>1
        <5> QED BY <2>1, <3>2, <4>1, <5>1 DEF InLine, Waits, Stops, StopAt
      <4>2. CASE i = Len(queue[l]) + 1
        <5>1. /\ doing'[queue'[l][i]].handler = doing[t].handler
              /\ doing'[queue'[l][i]].stop = doing[t].stop
              /\ doing'[queue'[l][i]].phase = "waiting"
          BY <1>6, <3>2, <4>2
        <5> QED BY <2>4, <5>1 DEF k, Waits, Stops, StopAt
      <4> QED BY <3>3, <4>1, <4>2
    <3>5. ASSUME NEW i \in 1 .. Len(queue'[l]), NEW j \in 1 .. Len(queue'[l]),
                 queue'[l][i] = queue'[l][j]
          PROVE  i = j
      BY <2>1, <2>2, <3>2, <3>3, <3>5 DEF InLine, Waits
    <3> QED BY <3>4, <3>5 DEF InLine, Waits
  <2> QED BY <2>3, <2>4
<1> QED BY <1>4, <1>5, <1>8, <1>9 DEF LocksInv

LEMMA GrantStep ==
    ASSUME LocksInv, NEW k \in LockNames, Grant(k)
    PROVE  LocksInv'
<1> DEFINE t == Head(queue[k])
<1>1. /\ queue[k] \in Seq(Tasks) /\ queue[k] # << >>
      /\ queue'[k] = Tail(queue[k])
  BY DEF LocksInv, Grant
<1>2. /\ t \in Tasks /\ t = queue[k][1] /\ 1 \in 1 .. Len(queue[k])
      /\ Len(queue[k]) \in Nat /\ Len(queue'[k]) = Len(queue[k]) - 1
      /\ queue'[k] \in Seq(Tasks)
      /\ \A i \in 1 .. Len(queue'[k]) : queue'[k][i] = queue[k][i + 1]
  BY <1>1
<1>3. doing' = [doing EXCEPT ![t] = [handler |-> @.handler,
                                      stop |-> @.stop + 1, phase |-> "running"]]
  BY DEF Grant
<1> HIDE DEF t
<1>4. doing[t] \in TaskType /\ doing[t].phase = "waiting" /\ AtWork(t)
      /\ StopAt(t).guard[1] = k
  BY <1>2 DEF LocksInv, InLine, Waits
<1> DEFINE d == [handler |-> doing[t].handler, stop |-> doing[t].stop + 1,
                 phase |-> "running"]
<1>5. d \in TaskType /\ doing' = [doing EXCEPT ![t] = d]
  BY <1>3, <1>4 DEF TaskType
<1>6. queue' \in [LockNames -> Seq(Tasks)]
  BY <1>1, <1>2 DEF LocksInv, Grant
<1>7. /\ doing'[t].handler = doing[t].handler
      /\ doing'[t].stop = doing[t].stop + 1
      /\ doing'[t].phase = "running"
      /\ \A u \in Tasks : u # t => doing'[u] = doing[u]
  BY <1>2, <1>5 DEF LocksInv
<1>8. ASSUME NEW u \in Tasks PROVE AtWork(u)'
  <2>1. CASE u = t
    <3>1. doing[t].handler \in Duties[t] /\ doing[t].stop \in Nat
      BY <1>4 DEF AtWork, TaskType
    <3> QED BY <1>7, <2>1, <3>1 DEF AtWork
  <2>2. CASE u # t
    BY <1>7, <2>2 DEF LocksInv, AtWork, Stops, StopAt
  <2> QED BY <2>1, <2>2
<1>9. ASSUME NEW l \in LockNames PROVE InLine(l)'
  <2>1. InLine(l) /\ queue[l] \in Seq(Tasks)
    BY DEF LocksInv
  <2>2. \A u \in Tasks : u # t => StopAt(u)' = StopAt(u)
    BY <1>7 DEF Stops, StopAt
  <2>3. CASE l # k
    <3>1. queue'[l] = queue[l]
      BY <2>3 DEF LocksInv, Grant
    <3>2. \A i \in 1 .. Len(queue[l]) : queue[l][i] \in Tasks /\ queue[l][i] # t
      BY <1>4, <2>1, <2>3 DEF InLine, Waits
    <3> QED BY <1>7, <2>1, <2>2, <3>1, <3>2 DEF InLine, Waits
  <2>4. CASE l = k
    <3>1. \A i \in 1 .. Len(queue'[l]) :
              /\ i + 1 \in 1 .. Len(queue[l])
              /\ queue'[l][i] = queue[l][i + 1]
      BY <1>2, <2>4
    <3>2. \A i \in 1 .. Len(queue'[l]) :
              queue'[l][i] \in Tasks /\ queue'[l][i] # t
      <4> TAKE i \in 1 .. Len(queue'[l])
      <4>1. queue[l][i + 1] \in Tasks
        BY <2>1, <3>1
      <4>2. i + 1 # 1
        OBVIOUS
      <4> QED BY <1>2, <2>1, <2>4, <3>1, <4>1, <4>2 DEF InLine, Waits
    <3>3. ASSUME NEW i \in 1 .. Len(queue'[l])
          PROVE  Waits(l, i)'
      <4>1. /\ doing[queue[l][i + 1]].phase = "waiting"
            /\ StopAt(queue[l][i + 1]).guard[1] = l
        BY <2>1, <3>1 DEF InLine, Waits
      <4>2. doing'[queue'[l][i]] = doing[queue[l][i + 1]]
        BY <1>7, <3>1, <3>2
      <4> QED BY <4>1, <4>2 DEF Waits, Stops, StopAt
    <3>4. ASSUME NEW i \in 1 .. Len(queue'[l]), NEW j \in 1 .. Len(queue'[l]),
                 queue'[l][i] = queue'[l][j]
          PROVE  i = j
      <4>1. i + 1 = j + 1
        BY <2>1, <3>1, <3>4 DEF InLine, Waits
      <4> QED BY <4>1
    <3> QED BY <3>3, <3>4 DEF InLine, Waits
  <2> QED BY <2>3, <2>4
<1>10. doing' \in [Tasks -> TaskType]
  BY <1>2, <1>5 DEF LocksInv
<1> QED BY <1>6, <1>8, <1>9, <1>10 DEF LocksInv

LEMMA LocksStep == LocksInv /\ [LocksNext]_lockVars => LocksInv'
<1> SUFFICES ASSUME LocksInv, [LocksNext]_lockVars PROVE LocksInv'
  OBVIOUS
<1>1. CASE UNCHANGED lockVars
  BY <1>1 DEF lockVars, LocksInv, AtWork, InLine, Waits, Stops, StopAt
<1>2. Resting \in TaskType /\ Resting.phase = "resting"
  BY DEF Resting, TaskType
<1>3. ASSUME NEW t \in Tasks, NEW h \in DOMAIN Handler, Begin(t, h)
      PROVE  LocksInv'
  <2> DEFINE d == [handler |-> h, stop |-> 1, phase |-> "running"]
  <2>1. d \in TaskType
    BY DEF TaskType
  <2>2. doing'[t] = d
    BY <1>3 DEF Begin, LocksInv
  <2>3. AtWork(t)'
    BY <1>3, <2>2 DEF Begin, AtWork
  <2> QED BY <1>2, <1>3, <2>1, <2>3, OutOfLine DEF Begin
<1>4. ASSUME NEW t \in Tasks, doing[t].phase # "waiting",
             doing' = [doing EXCEPT ![t] = Resting], UNCHANGED queue
      PROVE  LocksInv'
  <2>1. AtWork(t)'
    BY <1>2, <1>4 DEF AtWork, LocksInv
  <2> QED BY <1>2, <1>4, <2>1, OutOfLine
<1>5. ASSUME NEW t \in Tasks, TryGets(t) PROVE LocksInv'
  <2> DEFINE d == [doing[t] EXCEPT !.stop = @ + 1]
  <2>1. doing[t] \in TaskType /\ AtWork(t)
    BY DEF LocksInv
  <2>2. /\ d \in TaskType /\ d.handler = doing[t].handler /\ d.stop > 0
        /\ d.phase = "running"
    BY <1>5, <2>1 DEF TaskType, TryGets, Running, AtWork
  <2>3. doing' = [doing EXCEPT ![t] = d]
    BY <1>5 DEF TryGets, LocksInv
  <2>4. doing'[t] = d
    BY <2>3 DEF LocksInv
  <2> HIDE DEF d
  <2>5. AtWork(t)'
    BY <1>5, <2>1, <2>2, <2>4 DEF AtWork, TryGets, Running
  <2> QED BY <1>5, <2>2, <2>3, <2>5, OutOfLine DEF TryGets, Running
<1>6. ASSUME NEW t \in Tasks, TryFails(t) \/ Return(t) PROVE LocksInv'
  BY <1>4, <1>6 DEF TryFails, Return, Running
<1> QED BY <1>1, <1>3, <1>5, <1>6, EnqueueStep, GrantStep DEF LocksNext, Proceed

-----------------------------------------------------------------------------
\* The clash that get_dag_stats needs: the mining loop.
Apart ==
    \/ \A t \in Tasks : "stats" \notin Duties[t]
    \/ \A t \in Tasks : "mine" \notin Duties[t]

WaitedFor(t) == StopAt(t).guard[1]

\* Whoever waits does so for a lock above those it has.
LEMMA WaitsAbove ==
    ASSUME LocksInv, NEW t \in Tasks, doing[t].phase = "waiting"
    PROVE  /\ doing[t].handler \in Duties[t]
           /\ doing[t].handler \in DOMAIN Handler
           /\ Climbs(doing[t].handler, StopAt(t)) /\ StopAt(t).waits
           /\ WaitedFor(t) \in LockNames /\ Rank[WaitedFor(t)] \in 1 .. 10
           /\ Guards(t) = StopAt(t).holding
<1>1. /\ doing[t].handler \in Duties[t] /\ doing[t].stop > 0
      /\ doing[t].stop <= Len(Stops(t)) /\ StopAt(t).waits
      /\ doing[t].stop \in Nat
  BY DEF LocksInv, AtWork, TaskType
<1>2. doing[t].handler \in DOMAIN Handler
  BY <1>1, LocksAssumption DEF LocksAssumption
<1>3. doing[t].stop \in 1 .. Len(Stops(t))
  BY <1>1, <1>2, HandlersClimb DEF ClimbsAll, Stops
<1>4. Climbs(doing[t].handler, StopAt(t))
  BY <1>2, <1>3, HandlersClimb DEF ClimbsAll, Stops, StopAt
<1>5. WaitedFor(t) \in LockNames
  BY <1>4 DEF Climbs, WaitedFor
<1>6. Rank[WaitedFor(t)] \in 1 .. 10
  BY <1>5 DEF LockNames, Rank
<1> QED BY <1>1, <1>2, <1>4, <1>5, <1>6 DEF Guards

\* So nobody keeps the highest of the locks that are waited for from anybody.
LEMMA TopIsFree ==
    ASSUME LocksInv, Apart, NEW t \in Tasks, NEW u \in Tasks,
           doing[t].phase = "waiting", doing[u].phase = "waiting",
           Rank[WaitedFor(u)] <= Rank[WaitedFor(t)]
    PROVE  ~Excludes(u, StopAt(t).guard)
<1> SUFFICES ASSUME NEW held \in StopAt(u).holding,
                    held[1] = WaitedFor(t),
                    "write" \in {held[2], StopAt(t).guard[2]}
             PROVE  FALSE
  BY WaitsAbove DEF Excludes, WaitedFor
<1>1. Rank[WaitedFor(u)] \in 1 .. 10 /\ Rank[WaitedFor(t)] \in 1 .. 10
  BY WaitsAbove
<1>2. ~(Rank[held[1]] < Rank[WaitedFor(u)])
  BY <1>1
<1>3. doing[u].handler = "stats" /\ held = Reading("dag")
  BY <1>2, WaitsAbove DEF Climbs, WaitedFor
<1>4. StopAt(t).guard[1] = "dag" /\ StopAt(t).guard[2] = "write"
  BY <1>3 DEF Reading, WaitedFor
<1>5. doing[t].handler = "mine"
  BY <1>4, WaitsAbove DEF Climbs
<1>6. "stats" \in Duties[u] /\ "mine" \in Duties[t]
  BY <1>3, <1>5, WaitsAbove
<1> QED BY <1>6 DEF Apart

\* The first of a set of tasks in the line for a lock waits for none of them.
LEMMA FirstInLine ==
    ASSUME LocksInv, NEW S \in SUBSET Tasks, NEW l \in LockNames,
           NEW i \in 1 .. Len(queue[l]), queue[l][i] \in S
    PROVE  \E t \in S :
              /\ doing[t].phase = "waiting" /\ WaitedFor(t) = l
              /\ \A u \in S : ~Ahead(u, t)
<1>1. queue[l] \in Seq(Tasks) /\ InLine(l)
  BY DEF LocksInv
<1> DEFINE Places == {j \in 1 .. Len(queue[l]) : queue[l][j] \in S}
<1>2. Places \subseteq Nat /\ Places # {}
  OBVIOUS
<1> HIDE DEF Places
<1>3. PICK first \in Places : \A j \in Places : first <= j
  BY <1>2, NatMin
<1>4. first \in 1 .. Len(queue[l]) /\ queue[l][first] \in S
  BY <1>3 DEF Places
<1> DEFINE t == queue[l][first]
<1>5. doing[t].phase = "waiting" /\ WaitedFor(t) = l
  BY <1>1, <1>4 DEF InLine, Waits, WaitedFor
<1>6. ASSUME NEW u \in S, Ahead(u, t) PROVE FALSE
  <2>1. PICK j, k \in 1 .. Len(queue[l]) :
            j < k /\ queue[l][j] = u /\ queue[l][k] = t
    BY <1>1, <1>5, <1>6 DEF Ahead, WaitedFor
  <2>2. k = first
    BY <1>1, <1>4, <2>1 DEF InLine, Waits
  <2>3. j \in Places /\ j \in Nat
    BY <2>1 DEF Places
  <2> QED BY <1>3, <1>4, <2>1, <2>2, <2>3
<1> QED BY <1>4, <1>5, <1>6

LEMMA NobodyStuck == LocksInv /\ Apart => NoDeadlock
<1> SUFFICES ASSUME LocksInv, Apart, NEW S \in SUBSET Tasks, S # {},
                    \A t \in S : \E u \in S : WaitsFor(t, u)
             PROVE  FALSE
  BY DEF NoDeadlock
<1>1. \A t \in S : doing[t].phase = "waiting"
  BY DEF WaitsFor
<1> DEFINE Ranks == {Rank[WaitedFor(t)] : t \in S}
<1>2. Ranks \in SUBSET (1 .. 10) /\ Ranks # {}
  BY <1>1, WaitsAbove
<1> HIDE DEF Ranks
<1>3. PICK m \in Ranks : \A r \in Ranks : r <= m
  BY <1>2, NatMax
<1>4. PICK top \in S : m = Rank[WaitedFor(top)]
  BY <1>3 DEF Ranks
<1>5. \A u \in S : Rank[WaitedFor(u)] <= m
  BY <1>3 DEF Ranks
<1>6. PICK v \in S : WaitsFor(top, v)
  OBVIOUS
<1>7. Ahead(v, top)
  BY <1>1, <1>4, <1>5, <1>6, TopIsFree DEF WaitsFor
<1> DEFINE l == WaitedFor(top)
<1>8. l \in LockNames /\ queue[l] \in Seq(Tasks)
  BY <1>1, <1>4, WaitsAbove DEF LocksInv
<1>9. \E i \in 1 .. Len(queue[l]) : queue[l][i] \in S
  BY <1>7, <1>8 DEF Ahead, WaitedFor
<1>10. PICK t \in S : /\ doing[t].phase = "waiting" /\ WaitedFor(t) = l
                      /\ \A u \in S : ~Ahead(u, t)
  BY <1>8, <1>9, FirstInLine
<1>11. \A u \in S : ~Excludes(u, StopAt(t).guard)
  BY <1>1, <1>4, <1>5, <1>10, TopIsFree
<1> QED BY <1>10, <1>11 DEF WaitsFor

\* For any number of tasks and any choice of handlers no tasks ever wait for
\* each other, unless one asks for get_dag_stats and another mines (rpc.rs:1024,
\* :1211; node.rs:923).
THEOREM LocksCorrect == Apart => (LocksSpec => []NoDeadlock)
<1> SUFFICES ASSUME Apart PROVE LocksSpec => []NoDeadlock
  OBVIOUS
<1>1. LocksInv => NoDeadlock
  BY NobodyStuck
<1> QED BY <1>1, LocksStart, LocksStep, PTL DEF LocksSpec

-----------------------------------------------------------------------------
(* The migration of old files.                                             *)
TreesType ==
    /\ stage \in {"off", "migrating", "genesis", "serving"}
    /\ trees = [txs |-> trees.txs, bal |-> trees.bal]
    /\ trees.bal \in [DOMAIN trees.bal -> Nat]
    /\ stops \in Nat

\* As long as Sled is empty the file is the old one, so every migration works
\* from it; an empty Sled past its migration means that there was nothing.
FileKept ==
    /\ trees.txs \subseteq LegacyTxs
    /\ NeedsMigration \/ stage = "migrating" => json = LegacyTxs
    /\ NeedsMigration /\ stage \in {"genesis", "serving"} => LegacyTxs = {}

\* What an undisturbed first boot has put into Sled at each stage.
FirstBoot ==
    /\ stage = "off" => NeedsMigration
    /\ stage = "migrating" =>
          \A a \in DOMAIN trees.bal :
              a \in DOMAIN LegacyBal /\ trees.bal[a] = LegacyBal[a]
    /\ stage \in {"genesis", "serving"} =>
          /\ trees.txs = LegacyTxs
          /\ \A a \in DOMAIN LegacyBal :
                /\ a \in DOMAIN trees.bal
                /\ \/ trees.bal[a] = LegacyBal[a]
                   \/ /\ LegacyBal[a] = 0 /\ a \in DOMAIN GenesisCoins
                      /\ trees.bal[a] = GenesisCoins[a]
    /\ stage = "serving" => Unendowed = {}

MigrationInv ==
    /\ TreesType
    /\ FileKept
    /\ OldCoins # {} => LegacyTxs \subseteq trees.txs
    /\ stops = 0 => FirstBoot

LEMMA MigrationStart == MigrationInit => MigrationInv
<1> SUFFICES ASSUME MigrationInit PROVE MigrationInv
  OBVIOUS
<1>1. trees.txs = {} /\ DOMAIN trees.bal = {} /\ NeedsMigration
  BY DEF MigrationInit, NeedsMigration
<1>2. TreesType
  BY <1>1 DEF MigrationInit, TreesType
<1>3. OldCoins = {}
  BY <1>1 DEF OldCoins
<1> QED BY <1>1, <1>2, <1>3 DEF MigrationInit, MigrationInv, FileKept, FirstBoot

\* What a put of a balance changes.
LEMMA PutBalanceChanges ==
    ASSUME TreesType, NEW a, NEW coins \in Nat, PutBalance(a, coins)
    PROVE  /\ trees'.txs = trees.txs
           /\ trees' = [txs |-> trees'.txs, bal |-> trees'.bal]
           /\ trees'.bal \in [DOMAIN trees'.bal -> Nat]
           /\ DOMAIN trees'.bal = DOMAIN trees.bal \cup {a}
           /\ trees'.bal[a] = coins
           /\ \A b \in DOMAIN trees.bal \ {a} : trees'.bal[b] = trees.bal[b]
<1> DEFINE new == [b \in DOMAIN trees.bal \cup {a} |->
                      IF b = a THEN coins ELSE trees.bal[b]]
<1>1. trees' = [txs |-> trees.txs, bal |-> new]
  BY DEF PutBalance, TreesType
<1>2. \A b \in DOMAIN trees.bal : trees.bal[b] \in Nat
  BY DEF TreesType
<1>3. new \in [DOMAIN trees.bal \cup {a} -> Nat]
  BY <1>2
<1>4. trees'.bal = new /\ trees'.txs = trees.txs
  BY <1>1
<1> QED BY <1>1, <1>3, <1>4

LEMMA MigrationStep ==
    MigrationInv /\ [MigrationNext]_migrationVars => MigrationInv'
<1> SUFFICES ASSUME MigrationInv, [MigrationNext]_migrationVars
             PROVE  MigrationInv'
  OBVIOUS
<1> USE DEF MigrationInv
<1>1. CASE UNCHANGED migrationVars
  BY <1>1 DEF migrationVars, TreesType, FileKept, FirstBoot, NeedsMigration,
     OldCoins, Unendowed
<1>2. CASE StartBoot
  <2>1. UNCHANGED <<trees, json, stops>> /\ stage = "off"
        /\ stage' = IF NeedsMigration THEN "migrating" ELSE "genesis"
    BY <1>2 DEF StartBoot, Enters
  <2>2. TreesType' /\ FileKept'
    BY <2>1 DEF TreesType, FileKept, NeedsMigration
  <2>3. (stops = 0 => FirstBoot)'
    BY <2>1 DEF FirstBoot, NeedsMigration
  <2> QED BY <2>1, <2>2, <2>3 DEF OldCoins
<1>3. CASE MigrateTransaction
  <2>1. PICK t \in json \ trees.txs : trees' = [trees EXCEPT !.txs = @ \cup {t}]
    BY <1>3 DEF MigrateTransaction
  <2>2. /\ UNCHANGED <<stage, json, stops>> /\ stage = "migrating"
        /\ json = LegacyTxs
        /\ trees'.txs = trees.txs \cup {t} /\ trees'.bal = trees.bal
        /\ trees' = [txs |-> trees'.txs, bal |-> trees'.bal]
    BY <1>3, <2>1 DEF MigrateTransaction, TreesType, FileKept
  <2>3. TreesType'
    BY <2>2 DEF TreesType
  <2>4. FileKept'
    BY <2>2 DEF FileKept
  <2>5. OldCoins' = OldCoins
    BY <2>2 DEF OldCoins
  <2>6. (stops = 0 => FirstBoot)'
    BY <2>2 DEF FirstBoot
  <2> QED BY <2>2, <2>3, <2>4, <2>5, <2>6
<1>4. CASE MigrateBalance
  <2>1. PICK a \in DOMAIN LegacyBal \ DOMAIN trees.bal :
            PutBalance(a, LegacyBal[a])
    BY <1>4 DEF MigrateBalance
  <2>2. LegacyBal[a] \in Nat
    BY MigrationAssumption DEF MigrationAssumption
  <2>3. /\ UNCHANGED <<stage, json, stops>> /\ stage = "migrating"
        /\ LegacyTxs \subseteq trees.txs
    BY <1>4 DEF MigrateBalance, TransactionsMigrated, FileKept
  <2>4. TreesType'
    BY <2>1, <2>2, <2>3, PutBalanceChanges DEF TreesType
  <2>5. FileKept' /\ LegacyTxs \subseteq trees'.txs
    BY <2>1, <2>2, <2>3, PutBalanceChanges DEF FileKept
  <2>6. (stops = 0 => FirstBoot)'
    BY <2>1, <2>2, <2>3, PutBalanceChanges DEF FirstBoot
  <2> QED BY <2>4, <2>5, <2>6
<1>5. CASE EndMigration
  <2>1. /\ UNCHANGED <<trees, json, stops>> /\ stage = "migrating"
        /\ stage' = "genesis" /\ LegacyTxs \subseteq trees.txs
        /\ DOMAIN LegacyBal \subseteq DOMAIN trees.bal
    BY <1>5 DEF EndMigration, Enters, TransactionsMigrated, FileKept
  <2>2. TreesType' /\ FileKept'
    BY <2>1 DEF TreesType, FileKept, NeedsMigration
  <2>3. (stops = 0 => FirstBoot)'
    BY <2>1 DEF FirstBoot, FileKept
  <2> QED BY <2>1, <2>2, <2>3
<1>6. CASE Endow
  <2>1. PICK a \in Unendowed : PutBalance(a, GenesisCoins[a])
    BY <1>6 DEF Endow
  <2>2. a \in DOMAIN GenesisCoins /\ GenesisCoins[a] \in Nat \ {0}
        /\ (a \in DOMAIN trees.bal => trees.bal[a] = 0)
    BY <2>1, MigrationAssumption DEF Unendowed, MigrationAssumption
  <2>3. UNCHANGED <<stage, json, stops>> /\ stage = "genesis"
    BY <1>6 DEF Endow
  <2>4. TreesType'
    BY <2>1, <2>2, <2>3, PutBalanceChanges DEF TreesType
  <2>5. FileKept'
    BY <2>1, <2>2, <2>3, PutBalanceChanges DEF FileKept, NeedsMigration
  <2>6. OldCoins' \subseteq OldCoins /\ trees'.txs = trees.txs
    BY <2>1, <2>2, PutBalanceChanges DEF OldCoins
  <2>7. (stops = 0 => FirstBoot)'
    <3> SUFFICES ASSUME stops = 0, NEW b \in DOMAIN LegacyBal
                 PROVE  /\ b \in DOMAIN trees'.bal
                        /\ \/ trees'.bal[b] = LegacyBal[b]
                           \/ /\ LegacyBal[b] = 0 /\ b \in DOMAIN GenesisCoins
                              /\ trees'.bal[b] = GenesisCoins[b]
      BY <2>3, <2>6 DEF FirstBoot
    <3>1. CASE b # a
      BY <2>1, <2>2, <2>3, <3>1, PutBalanceChanges DEF FirstBoot
    <3>2. CASE b = a
      <4>1. LegacyBal[b] = 0
        BY <2>2, <2>3, <3>2 DEF FirstBoot
      <4> QED BY <2>1, <2>2, <3>2, <4>1, PutBalanceChanges
    <3> QED BY <3>1, <3>2
  <2> QED BY <2>4, <2>5, <2>6, <2>7
<1>7. CASE Serve
  <2>1. /\ UNCHANGED <<trees, json, stops>> /\ stage = "genesis"
        /\ stage' = "serving" /\ Unendowed = {}
    BY <1>7 DEF Serve, Enters
  <2>2. TreesType' /\ FileKept' /\ OldCoins' = OldCoins
    BY <2>1 DEF TreesType, FileKept, NeedsMigration, OldCoins
  <2>3. (stops = 0 => FirstBoot)'
    BY <2>1 DEF FirstBoot, Unendowed
  <2> QED BY <2>1, <2>2, <2>3
<1>8. CASE SaveDag
  <2>1. UNCHANGED <<stage, trees, stops>> /\ stage = "serving"
        /\ json' = trees.txs
    BY <1>8 DEF SaveDag
  <2>2. TreesType' /\ FileKept' /\ OldCoins' = OldCoins
    BY <2>1 DEF TreesType, FileKept, NeedsMigration, OldCoins
  <2>3. (stops = 0 => FirstBoot)'
    BY <2>1 DEF FirstBoot, Unendowed
  <2> QED BY <2>1, <2>2, <2>3
<1>9. CASE Stop
  <2>1. UNCHANGED <<trees, json>> /\ stage' = "off" /\ stops' = stops + 1
    BY <1>9 DEF Stop
  <2>2. TreesType' /\ FileKept' /\ OldCoins' = OldCoins /\ stops' # 0
    BY <2>1 DEF TreesType, FileKept, NeedsMigration, OldCoins
  <2> QED BY <2>1, <2>2
<1> QED BY <1>1, <1>2, <1>3, <1>4, <1>5, <1>6, <1>7, <1>8, <1>9
        DEF MigrationNext

\* Old coins never reach Sled before the whole history they come from, however
\* often the first boots are stopped, and an undisturbed one brings all of both.
THEOREM MigrationCorrect == MigrationSpec => []HistoryBeforeCoins
<1>1. MigrationInv => HistoryBeforeCoins
  <2> SUFFICES ASSUME MigrationInv, stage = "serving", stops = 0
               PROVE  /\ trees.txs = LegacyTxs
                      /\ \A a \in DOMAIN LegacyBal :
                            IF LegacyBal[a] = 0 /\ a \in DOMAIN GenesisCoins
                            THEN trees.bal[a] = GenesisCoins[a]
                            ELSE trees.bal[a] = LegacyBal[a]
    BY DEF MigrationInv, HistoryBeforeCoins
  <2>1. FirstBoot
    BY DEF MigrationInv
  <2> QED BY <2>1 DEF FirstBoot, Unendowed
<1> QED BY <1>1, MigrationStart, MigrationStep, PTL DEF MigrationSpec

-----------------------------------------------------------------------------
(* Growth.                                                                 *)
LEMMA GrownStep == Grown(dag) /\ [GrowthNext]_dag => Grown(dag')
BY GrownAdd DEF GrowthNext, Insert

LEMMA GrowthGrows == GrowthSpec => []Grown(dag)
<1>1. GrowthInit => Grown(dag)
  BY GrownEmpty DEF GrowthInit
<1>2. Grown(dag) /\ [GrowthNext]_dag => Grown(dag)'
  <2>1. Grown(dag') <=> Grown(dag)'
    OBVIOUS
  <2> QED BY GrownStep
<1> QED BY <1>1, <1>2, PTL DEF GrowthSpec

\* However a DAG has grown, the parents that select_parents and the faucet
\* propose exist and can be used.
THEOREM SelectionCorrect == GrowthSpec => []SelectionUsable
<1>1. Grown(dag) => SelectionUsable
  BY SelectedUsable, FaucetUsable DEF SelectionUsable
<1> QED BY <1>1, GrowthGrows, PTL

\* count_confirmations lies between the number of descendants and its double,
\* on every DAG that can grow.
THEOREM ConfirmationsCorrect == GrowthSpec => []ConfirmationsBound
<1>1. ASSUME Grown(dag), NEW t \in dag.txs
      PROVE  LET below == CumulativeWeight(dag, t) - 1
                 count == CountConfirmations(dag, t)
             IN  below <= count /\ count <= 2 * below
  <2> DEFINE D == Descendants(dag, t)
             S == D \ {t}
             f == [u \in S |-> Slots(u, D)]
  <2>1. dag \in DagType /\ IsFiniteSet(dag.txs)
    BY <1>1, TxsFinite DEF Grown
  <2>2. t \in D /\ D \subseteq dag.txs /\ \A u \in S : ParentSet(u) \cap D # {}
    BY <2>1, DescendantsLinked
  <2>3. IsFiniteSet(D) /\ IsFiniteSet(S) /\ Cardinality(S) = Cardinality(D) - 1
        /\ Cardinality(D) \in Nat
    BY <2>1, <2>2, FS_Subset, FS_RemoveElement, FS_CardinalityType
  <2>4. \A u \in S : f[u] \in 1 .. 2
    BY <2>2, SlotsCount
  <2>5. CountConfirmations(dag, t) = SumFunctionOnSet(f, S)
    BY DEF CountConfirmations, SumFunction
  <2>6. CumulativeWeight(dag, t) = Cardinality(D)
    BY DEF CumulativeWeight
  <2> HIDE DEF D, S, f
  <2>7. /\ Cardinality(S) <= SumFunctionOnSet(f, S)
        /\ SumFunctionOnSet(f, S) <= 2 * Cardinality(S)
    BY <2>3, <2>4, SumBetween
  <2> QED BY <2>3, <2>5, <2>6, <2>7
<1>2. Grown(dag) => ConfirmationsBound
  BY <1>1 DEF ConfirmationsBound
<1> QED BY <1>2, GrowthGrows, PTL

\* What has been finalized, confirmed or stable stays so, and no cumulative
\* weight shrinks, whichever transaction is inserted.
LEMMA InsertKeeps ==
    ASSUME Grown(dag), NEW u \in Tx, Insert(u)
    PROVE  AnswersKept
<1>1. dag \in DagType /\ dag' \in DagType /\ dag.txs \subseteq dag'.txs
  BY AddTxType DEF Grown, Insert
<1> SUFFICES ASSUME NEW t \in dag.txs
             PROVE  /\ IsFinalizedAdaptive(dag, t, NeededConfirmations) =>
                        IsFinalizedAdaptive(dag', t, NeededConfirmations)
                    /\ ConsensusStatus(dag, t) # "unconfirmed" =>
                        ConsensusStatus(dag', t) = ConsensusStatus(dag, t)
                    /\ CumulativeWeight(dag, t)
                           <= CumulativeWeight(dag', t)
  BY DEF AnswersKept
<1> DEFINE e == dag'
<1>2. e \in DagType /\ dag.txs \subseteq e.txs
  BY <1>1
<1> HIDE DEF e
<1>3. /\ CumulativeWeight(dag, t) <= CumulativeWeight(e, t)
      /\ CountConfirmations(dag, t) <= CountConfirmations(e, t)
      /\ ReferenceCount(dag, t) <= ReferenceCount(e, t)
      /\ ReferenceCount(dag, t) \in Nat /\ ReferenceCount(e, t) \in Nat
      /\ CountConfirmations(dag, t) \in Nat
      /\ CountConfirmations(e, t) \in Nat
  BY <1>1, <1>2, CountsGrow
<1>4. NeededConfirmations \in Nat /\ MinConfirmations \in Nat
  BY GrowthAssumption, QueriesAssumption
  DEF GrowthAssumption, QueriesAssumption
<1>5. IsFinalizedAdaptive(dag, t, NeededConfirmations) =>
          IsFinalizedAdaptive(e, t, NeededConfirmations)
  BY <1>3, <1>4 DEF IsFinalizedAdaptive
<1>6. ConsensusStatus(dag, t) # "unconfirmed" =>
          ConsensusStatus(e, t) = ConsensusStatus(dag, t)
  BY <1>3, <1>4 DEF ConsensusStatus
<1> QED BY <1>3, <1>5, <1>6 DEF e

-----------------------------------------------------------------------------
(* The scan of get_ancestors.                                              *)
Runs(f, B, base, F) ==
    /\ f \in [Nat -> B]
    /\ \A k \in Nat : f[k] = IF k = 0 THEN base ELSE F[f[k - 1]]

LEMMA RunsExist ==
    ASSUME NEW B, NEW base \in B, NEW F \in [B -> B]
    PROVE  \E f : Runs(f, B, base, F)
BY Recursion DEF Runs

Item(B) == [tx : B, depth : Nat]

ScanType(B) == [found : SUBSET B, stack : Seq(Item(B))]

Stacked(scan) == {scan.stack[i] : i \in 1 .. Len(scan.stack)}

Pop(scan) == [scan EXCEPT !.stack = Front(@)]

Turn(scan, d, max) ==
    IF scan.stack = << >> THEN scan
    ELSE IF \/ Last(scan.stack).depth >= max
            \/ Last(scan.stack).tx \notin d.txs
         THEN Pop(scan)
         ELSE Visit(Pop(scan), Last(scan.stack))

Start(t) == [found |-> {}, stack |-> <<[tx |-> t, depth |-> 0]>>]

Scan(it, d, t, max) ==
    it = [k \in Nat |-> IF k = 0 THEN Start(t) ELSE Turn(it[k - 1], d, max)]

Scans(it, d, t, max) ==
    /\ GetAncestors(d, t, max) = it[Cardinality(d.txs) + 2].found
    /\ it[0] = Start(t)
    /\ \A k \in Nat : it[k + 1] = Turn(it[k], d, max)

\* All but the last of a sequence, and the last.
LEMMA FrontIs ==
    ASSUME NEW B, NEW s \in Seq(B), s # << >>
    PROVE  /\ Front(s) \in Seq(B) /\ Len(Front(s)) = Len(s) - 1
           /\ \A i \in 1 .. Len(s) - 1 : Front(s)[i] = s[i]
           /\ Last(s) = s[Len(s)] /\ Last(s) \in B /\ Len(s) \in Nat \ {0}
<1> DEFINE n == Len(s)
           f == SubSeq(s, 1, n - 1)
<1>1. n \in Nat /\ n # 0 /\ \A i \in 1 .. n : s[i] \in B
  OBVIOUS
<1> HIDE DEF n
<1>2. 1 \in Int /\ n - 1 \in Int /\ \A i \in 1 .. n - 1 : s[i] \in B
  BY <1>1
<1>3. /\ f \in Seq(B)
      /\ Len(f) = IF 1 <= n - 1 THEN (n - 1) - 1 + 1 ELSE 0
      /\ \A i \in 1 .. (n - 1) - 1 + 1 : f[i] = s[1 + i - 1]
  BY <1>2, SubSeqProperties
<1>4. Front(s) = f /\ Last(s) = s[n]
  BY DEF Front, Last, n
<1> HIDE DEF f
<1>5. Len(f) = n - 1
  BY <1>1, <1>3
<1>6. ASSUME NEW i \in 1 .. n - 1 PROVE f[i] = s[i]
  <2>1. i \in 1 .. (n - 1) - 1 + 1 /\ 1 + i - 1 = i
    BY <1>1
  <2>2. f[i] = s[1 + i - 1]
    BY <1>3, <2>1
  <2> QED BY <2>1, <2>2
<1>7. s[n] \in B
  BY <1>1
<1> QED BY <1>1, <1>3, <1>4, <1>5, <1>6, <1>7 DEF n

LEMMA Popped ==
    ASSUME NEW B, NEW scan \in ScanType(B), scan.stack # << >>
    PROVE  LET next == Pop(scan) IN
           /\ next \in ScanType(B) /\ next.found = scan.found
           /\ Last(scan.stack) \in Item(B) /\ Last(scan.stack) \in Stacked(scan)
           /\ Stacked(scan) = Stacked(next) \cup {Last(scan.stack)}
           /\ Len(scan.stack) = Len(next.stack) + 1
           /\ Len(next.stack) \in Nat
<1> DEFINE s == scan.stack
           n == Len(s)
           f == SubSeq(s, 1, n - 1)
<1>1. s \in Seq(Item(B)) /\ scan.found \in SUBSET B
  BY DEF ScanType
<1>2. /\ f \in Seq(Item(B)) /\ Len(f) = n - 1 /\ n \in Nat \ {0}
      /\ \A i \in 1 .. n - 1 : f[i] = s[i]
  <2>1. s \in Seq(Item(B)) /\ s # << >>
    BY <1>1
  <2> HIDE DEF s
  <2> QED BY <2>1, FrontIs DEF Front
<1>3. Last(s) \in Item(B)
  BY <1>1, FrontIs
<1>4. /\ Pop(scan).found = scan.found /\ Pop(scan).stack = f
      /\ Last(scan.stack) = s[n]
      /\ Pop(scan) = [found |-> scan.found, stack |-> f]
  <2>1. scan = [found |-> scan.found, stack |-> s]
    BY DEF ScanType
  <2>2. Pop(scan) = [scan EXCEPT !.stack = f]
    BY DEF Pop, Front
  <2>3. Last(scan.stack) = s[n]
    BY DEF Last
  <2> HIDE DEF s, n, f
  <2> QED BY <2>1, <2>2, <2>3
<1>5. Stacked(scan) = {s[i] : i \in 1 .. n}
      /\ Stacked(Pop(scan)) = {f[i] : i \in 1 .. n - 1}
  BY <1>2, <1>4 DEF Stacked
<1> HIDE DEF s, f, n
<1>6. 1 .. n = (1 .. n - 1) \cup {n} /\ n \in 1 .. n
  BY <1>2
<1>7. {s[i] : i \in 1 .. n} = {f[i] : i \in 1 .. n - 1} \cup {s[n]}
  BY <1>2, <1>6
<1>8. Pop(scan) \in ScanType(B)
  BY <1>1, <1>2, <1>4 DEF ScanType
<1>9. Len(scan.stack) = Len(f) + 1 /\ Len(f) \in Nat
  BY <1>2 DEF n, s
<1> QED BY <1>2, <1>3, <1>4, <1>5, <1>6, <1>7, <1>8, <1>9 DEF s

LEMMA Met ==
    ASSUME NEW B, NEW scan \in ScanType(B), IsFiniteSet(B),
           NEW p \in B, NEW j \in Nat
    PROVE  LET next == Meet(scan, p, j)
               new == [tx |-> p, depth |-> j]
           IN  /\ next \in ScanType(B) /\ next.found = scan.found \cup {p}
               /\ Stacked(scan) \subseteq Stacked(next)
               /\ Stacked(next) \subseteq Stacked(scan) \cup {new}
               /\ p \in scan.found \/ new \in Stacked(next)
               /\ Len(next.stack) + Cardinality(scan.found)
                      = Len(scan.stack) + Cardinality(next.found)
               /\ Len(next.stack) \in Nat /\ Cardinality(next.found) \in Nat
               /\ Len(scan.stack) \in Nat /\ Cardinality(scan.found) \in Nat
<1> DEFINE new == [tx |-> p, depth |-> j]
           s == scan.stack
           n == Len(s)
           a == Append(s, new)
<1>1. s \in Seq(Item(B)) /\ scan.found \in SUBSET B /\ new \in Item(B)
  BY DEF ScanType, Item
<1>2. IsFiniteSet(scan.found) /\ Cardinality(scan.found) \in Nat /\ n \in Nat
  BY <1>1, FS_Subset, FS_CardinalityType
<1>3. CASE p \in scan.found
  <2>1. Meet(scan, p, j) = scan /\ scan.found = scan.found \cup {p}
    BY <1>3 DEF Meet
  <2> QED BY <1>2, <1>3, <2>1
<1>4. CASE p \notin scan.found
  <2>1. Meet(scan, p, j) = [found |-> scan.found \cup {p}, stack |-> a]
    BY <1>4 DEF Meet
  <2> HIDE DEF s, new
  <2>2. /\ a \in Seq(Item(B)) /\ Len(a) = n + 1 /\ a[n + 1] = new
        /\ \A i \in 1 .. n : a[i] = s[i]
    BY <1>1, AppendProperties
  <2>3. Cardinality(scan.found \cup {p}) = Cardinality(scan.found) + 1
    BY <1>2, <1>4, FS_AddElement
  <2> HIDE DEF a, n
  <2>4. 1 .. n + 1 = (1 .. n) \cup {n + 1} /\ n + 1 \in 1 .. n + 1
    BY <1>2
  <2>5. {a[i] : i \in 1 .. n + 1} = {s[i] : i \in 1 .. n} \cup {new}
    BY <2>2, <2>4
  <2>6. /\ Stacked(scan) = {s[i] : i \in 1 .. n}
        /\ Stacked(Meet(scan, p, j)) = {a[i] : i \in 1 .. n + 1}
    BY <2>1, <2>2 DEF Stacked, s, n
  <2>7. Meet(scan, p, j) \in ScanType(B)
    BY <1>1, <2>1, <2>2 DEF ScanType
  <2>8. Len(Meet(scan, p, j).stack) = n + 1 /\ Len(scan.stack) = n
    BY <2>1, <2>2 DEF n, s
  <2>9. Len(Meet(scan, p, j).stack) + Cardinality(scan.found)
            = Len(scan.stack) + Cardinality(Meet(scan, p, j).found)
        /\ Len(Meet(scan, p, j).stack) \in Nat
        /\ Cardinality(Meet(scan, p, j).found) \in Nat
    BY <1>2, <2>1, <2>3, <2>8
  <2>10. Meet(scan, p, j).found = scan.found \cup {p}
    BY <2>1
  <2> QED BY <1>2, <2>5, <2>6, <2>7, <2>8, <2>9, <2>10 DEF new
<1> QED BY <1>3, <1>4

\* One turn: the top item is dropped, or it is replaced by its new parents.
LEMMA Turned ==
    ASSUME NEW d, d.txs \subseteq Tx, ParentClosed(d), NEW max \in Nat,
           NEW B, B = d.txs \cup {Root}, IsFiniteSet(B),
           NEW scan \in ScanType(B), scan.stack # << >>
    PROVE  LET next == Turn(scan, d, max)
               top == Last(scan.stack)
               new(p) == [tx |-> p, depth |-> top.depth + 1]
           IN  /\ next \in ScanType(B)
               /\ top \in Item(B) /\ top \in Stacked(scan)
               /\ Stacked(scan) \subseteq Stacked(next) \cup {top}
               /\ Len(next.stack) + 1 + Cardinality(scan.found)
                      = Len(scan.stack) + Cardinality(next.found)
               /\ \/ /\ top.depth >= max \/ top.tx \notin d.txs
                     /\ next.found = scan.found
                     /\ Stacked(next) \subseteq Stacked(scan)
                  \/ /\ top.tx \in d.txs
                     /\ next.found = scan.found \cup ParentSet(top.tx)
                     /\ \A p \in ParentSet(top.tx) :
                           p \in scan.found \/ new(p) \in Stacked(next)
                     /\ Stacked(next) \subseteq Stacked(scan)
                            \cup {new(p) : p \in ParentSet(top.tx)}
<1> DEFINE top == Last(scan.stack)
           rest == Pop(scan)
           next == Turn(scan, d, max)
           a == Parents[top.tx][1]
           b == Parents[top.tx][2]
           j == top.depth + 1
           one == Meet(rest, a, j)
           two == Meet(one, b, j)
           new(p) == [tx |-> p, depth |-> j]
<1>1. /\ rest \in ScanType(B) /\ rest.found = scan.found
      /\ top \in Item(B) /\ top \in Stacked(scan)
      /\ Stacked(scan) = Stacked(rest) \cup {top}
      /\ Len(scan.stack) = Len(rest.stack) + 1
      /\ Len(rest.stack) \in Nat
  BY Popped
<1>2. IsFiniteSet(scan.found) /\ Cardinality(scan.found) \in Nat
  BY FS_Subset, FS_CardinalityType DEF ScanType
<1>3. CASE top.depth >= max \/ top.tx \notin d.txs
  <2>1. next = rest
    BY <1>3 DEF Turn
  <2> QED BY <1>1, <1>2, <1>3, <2>1
<1>4. CASE ~(top.depth >= max \/ top.tx \notin d.txs)
  <2>1. next = two /\ top.tx \in d.txs
    BY <1>4 DEF Turn, Visit
  <2>2. ParentSet(top.tx) = {a, b} /\ a \in B /\ b \in B /\ j \in Nat
    <3>1. ParentSet(top.tx) \subseteq B
      BY <2>1 DEF ParentClosed, HasParents
    <3>2. ParentSet(top.tx) = {a, b}
      BY DEF ParentSet
    <3>3. j \in Nat
      BY <1>1 DEF Item
    <3> QED BY <3>1, <3>2, <3>3
  <2> HIDE DEF top, rest, next, a, b, j, two
  <2>3. /\ one \in ScanType(B) /\ one.found = rest.found \cup {a}
        /\ Stacked(rest) \subseteq Stacked(one)
        /\ Stacked(one) \subseteq Stacked(rest) \cup {new(a)}
        /\ a \in rest.found \/ new(a) \in Stacked(one)
        /\ Len(one.stack) + Cardinality(rest.found)
               = Len(rest.stack) + Cardinality(one.found)
        /\ Len(one.stack) \in Nat /\ Cardinality(one.found) \in Nat
    BY <1>1, <2>2, Met
  <2> HIDE DEF one
  <2>3a. one \in ScanType(B) /\ b \in B /\ j \in Nat
    BY <2>2, <2>3
  <2> USE DEF two
  <2>4. /\ two \in ScanType(B) /\ two.found = one.found \cup {b}
        /\ Stacked(one) \subseteq Stacked(two)
        /\ Stacked(two) \subseteq Stacked(one) \cup {new(b)}
        /\ b \in one.found \/ new(b) \in Stacked(two)
        /\ Len(two.stack) + Cardinality(one.found)
               = Len(one.stack) + Cardinality(two.found)
        /\ Len(two.stack) \in Nat /\ Cardinality(two.found) \in Nat
    BY <2>3a, Met
  <2> HIDE DEF two
  <2>5. \A p \in {a, b} : p \in scan.found \/ new(p) \in Stacked(two)
    BY <1>1, <2>3, <2>4
  <2>6. /\ two.found = scan.found \cup {a, b}
        /\ Stacked(two) \subseteq Stacked(scan) \cup {new(p) : p \in {a, b}}
        /\ Stacked(scan) \subseteq Stacked(two) \cup {top}
    BY <1>1, <2>3, <2>4
  <2>7. Len(two.stack) + 1 + Cardinality(scan.found)
            = Len(scan.stack) + Cardinality(two.found)
    <3>1. /\ Len(scan.stack) = Len(rest.stack) + 1
          /\ Cardinality(rest.found) = Cardinality(scan.found)
          /\ Len(rest.stack) \in Nat /\ Cardinality(scan.found) \in Nat
      BY <1>1, <1>2
    <3>2. /\ Len(one.stack) + Cardinality(rest.found)
                 = Len(rest.stack) + Cardinality(one.found)
          /\ Len(two.stack) + Cardinality(one.found)
                 = Len(one.stack) + Cardinality(two.found)
          /\ Len(one.stack) \in Nat /\ Cardinality(one.found) \in Nat
          /\ Len(two.stack) \in Nat /\ Cardinality(two.found) \in Nat
      BY <2>3, <2>4
    <3> DEFINE r == Len(rest.stack)
               o == Len(one.stack)
               l == Len(two.stack)
               z == Len(scan.stack)
               x == Cardinality(scan.found)
               y == Cardinality(one.found)
               w == Cardinality(two.found)
    <3>3. z = r + 1 /\ o + x = r + y /\ l + y = o + w
          /\ r \in Nat /\ o \in Nat /\ l \in Nat /\ x \in Nat /\ y \in Nat
          /\ w \in Nat
      BY <3>1, <3>2
    <3> HIDE DEF r, o, l, z, x, y, w
    <3>4. l + 1 + x = z + w
      BY <3>3
    <3> QED BY <3>4 DEF l, x, z, w
  <2>8. /\ next \in ScanType(B) /\ top \in Item(B) /\ top \in Stacked(scan)
    BY <1>1, <2>1, <2>4
  <2>9. \A p \in ParentSet(top.tx) :
           p \in scan.found \/ new(p) \in Stacked(next)
    BY <2>1, <2>2, <2>5
  <2>10. /\ next.found = scan.found \cup ParentSet(top.tx)
         /\ Stacked(next) \subseteq
                Stacked(scan) \cup {new(p) : p \in ParentSet(top.tx)}
         /\ Stacked(scan) \subseteq Stacked(next) \cup {top}
    BY <2>1, <2>2, <2>6
  <2>11. Len(next.stack) + 1 + Cardinality(scan.found)
            = Len(scan.stack) + Cardinality(next.found)
    BY <2>1, <2>7
  <2> QED BY <2>1, <2>8, <2>9, <2>10, <2>11 DEF next, top, j
<1> QED BY <1>3, <1>4

LEMMA ScansAre ==
    ASSUME NEW d, Grown(d), NEW t \in d.txs, NEW max \in Nat
    PROVE  \E it : /\ Scans(it, d, t, max)
                   /\ \A k \in Nat : it[k] \in ScanType(d.txs \cup {Root})
<1> DEFINE B == d.txs \cup {Root}
           T == ScanType(B)
           F == [scan \in T |-> Turn(scan, d, max)]
           start == Start(t)
           scanned == CHOOSE it : Scan(it, d, t, max)
<1>1. d.txs \subseteq Tx /\ ParentClosed(d) /\ IsFiniteSet(B)
  BY TxsFinite, FS_AddElement DEF Grown, Formed, DagType
<1>2. start \in T
  BY DEF Start, ScanType, Item
<1>3. F \in [T -> T]
  <2>1. ASSUME NEW scan \in T PROVE Turn(scan, d, max) \in T
    <3>1. CASE scan.stack = << >>
      BY <3>1 DEF Turn
    <3>2. CASE scan.stack # << >>
      <4> HIDE DEF B
      <4>1. B = d.txs \cup {Root}
        BY DEF B
      <4> QED BY <1>1, <3>2, <4>1, Turned
    <3> QED BY <3>1, <3>2
  <2> QED BY <2>1
<1>4. PICK f : Runs(f, T, start, F)
  <2> HIDE DEF T, F, start
  <2> QED BY <1>2, <1>3, RunsExist
<1>5. /\ f \in [Nat -> T]
      /\ \A k \in Nat : f[k] = IF k = 0 THEN start ELSE F[f[k - 1]]
  BY <1>4 DEF Runs
<1>6. Scan(f, d, t, max)
  <2>1. f = [k \in Nat |-> f[k]]
    BY <1>5
  <2>2. \A k \in Nat : k # 0 => f[k] = Turn(f[k - 1], d, max)
    <3> TAKE k \in Nat
    <3>1. k # 0 => f[k - 1] \in T
      BY <1>5
    <3> HIDE DEF T
    <3> QED BY <1>5, <3>1
  <2> HIDE DEF T, F
  <2> QED BY <1>5, <2>1, <2>2 DEF Scan
<1>7. Scan(scanned, d, t, max)
  BY <1>6
<1>8. GetAncestors(d, t, max) = scanned[Cardinality(d.txs) + 2].found
  BY DEF GetAncestors, Scan, Start, Turn, Pop
<1> HIDE DEF scanned, T, B
<1>9. /\ scanned[0] = start
      /\ \A k \in Nat : k # 0 => scanned[k] = Turn(scanned[k - 1], d, max)
  <2>1. \A k \in Nat : scanned[k] =
           IF k = 0 THEN Start(t) ELSE Turn(scanned[k - 1], d, max)
    BY <1>7 DEF Scan
  <2> QED BY <2>1
<1>10. \A k \in Nat : scanned[k + 1] = Turn(scanned[k], d, max)
  <2> TAKE k \in Nat
  <2>1. k + 1 \in Nat /\ k + 1 # 0 /\ (k + 1) - 1 = k
    OBVIOUS
  <2>2. scanned[k + 1] = Turn(scanned[(k + 1) - 1], d, max)
    BY <1>9, <2>1
  <2> QED BY <2>1, <2>2
<1>11. \A k \in Nat : scanned[k] \in T
  <2> DEFINE I == {k \in Nat : scanned[k] \in T}
  <2>1. 0 \in I
    BY <1>2, <1>9
  <2>2. \A k \in Nat : k \in I => k + 1 \in I
    BY <1>3, <1>10
  <2> HIDE DEF I
  <2>3. \A k \in Nat : k \in I
    BY <2>1, <2>2, NatSteps
  <2> QED BY <2>3 DEF I
<1>12. Scans(scanned, d, t, max)
  BY <1>8, <1>9, <1>10 DEF Scans
<1> QED BY <1>11, <1>12 DEF T, B

-----------------------------------------------------------------------------
(* Heights.                                                                *)
Names(d, S) == {u \in d.txs : ParentSet(u) \cap S # {}}

Layer(it, d) ==
    it = [k \in Nat |-> Names(d, IF k = 0 THEN {Root} ELSE it[k - 1])]

Top(above, t, n) ==
    CHOOSE k \in 0 .. n : /\ t \in above[k]
                          /\ \A j \in 0 .. n : t \in above[j] => j <= k

Layers(above, d) ==
    /\ above[0] = Names(d, {Root})
    /\ \A k \in Nat : above[k + 1] = Names(d, above[k])
    /\ \A t \in d.txs : Height(d, t) = Top(above, t, Cardinality(d.txs))

LEMMA LayersAre ==
    ASSUME NEW d
    PROVE  \E above : Layers(above, d)
<1> DEFINE B == SUBSET (d.txs)
           F == [S \in B |-> Names(d, S)]
           base == Names(d, {Root})
           above == CHOOSE it : Layer(it, d)
<1>1. base \in B /\ F \in [B -> B]
  BY DEF Names
<1>2. \E f \in [Nat -> B] :
         \A k \in Nat : f[k] = IF k = 0 THEN base ELSE F[f[k - 1]]
  <2> HIDE DEF B, F, base
  <2> QED BY <1>1, Recursion
<1>3. PICK f \in [Nat -> B] :
         \A k \in Nat : f[k] = IF k = 0 THEN base ELSE F[f[k - 1]]
  BY <1>2
<1>4. Layer(f, d)
  <2>1. f = [k \in Nat |-> f[k]]
    BY <1>3
  <2>2. \A k \in Nat : f[k] = Names(d, IF k = 0 THEN {Root} ELSE f[k - 1])
    <3> TAKE k \in Nat
    <3>1. k # 0 => f[k - 1] \in B
      BY <1>3
    <3> HIDE DEF B
    <3> QED BY <1>3, <3>1
  <2> HIDE DEF B, F, base
  <2> QED BY <2>1, <2>2 DEF Layer
<1>5. Layer(above, d)
  BY <1>4
<1>6. \A t \in d.txs : Height(d, t) = Top(above, t, Cardinality(d.txs))
  BY DEF Height, Layer, Names, Top
<1> HIDE DEF above
<1>7. above[0] = Names(d, {Root})
  BY <1>5 DEF Layer
<1>8. \A k \in Nat : above[k + 1] = Names(d, above[k])
  <2> TAKE k \in Nat
  <2>1. k + 1 \in Nat /\ k + 1 # 0 /\ (k + 1) - 1 = k
    OBVIOUS
  <2>2. above[k + 1] = Names(d, above[(k + 1) - 1])
    BY <1>5, <2>1 DEF Layer
  <2> QED BY <2>1, <2>2
<1>9. Layers(above, d)
  BY <1>6, <1>7, <1>8 DEF Layers
<1> QED BY <1>9

LEMMA HeightIsTop ==
    ASSUME NEW d, Grown(d), NEW above, Layers(above, d)
    PROVE  /\ \A u \in d.txs : \E m \in Nat : u \in above[m]
           /\ \A u \in d.txs : Height(d, u) \in Nat
           /\ \A m \in Nat, u \in d.txs : u \in above[m] => m <= Height(d, u)
<1> DEFINE n == Cardinality(d.txs)
<1>1. PICK rank : Ranking(rank, d)
  BY DEF Grown
<1>2. /\ n \in Nat /\ \A u \in d.txs : rank[u] \in 1 .. n
      /\ \A u \in d.txs : \A p \in ParentSet(u) \cap d.txs : rank[p] < rank[u]
  BY <1>1, TxsFinite DEF Ranking, Grown
<1>3. /\ above[0] = Names(d, {Root})
      /\ \A k \in Nat : above[k + 1] = Names(d, above[k])
      /\ \A u \in d.txs : Height(d, u) = Top(above, u, n)
  BY DEF Layers
<1> HIDE DEF n
<1>4. ASSUME NEW u \in d.txs PROVE \E m \in Nat : u \in above[m]
  <2> DEFINE C == {rank[v] : v \in {w \in d.txs :
                                        ~\E m \in Nat : w \in above[m]}}
  <2> SUFFICES ASSUME C # {} PROVE FALSE
    OBVIOUS
  <2>1. PICK l \in C : \A k \in C : l <= k
    <3>1. C \subseteq Nat
      BY <1>2
    <3> HIDE DEF C
    <3> QED BY <3>1, NatMin
  <2>2. PICK v \in d.txs : l = rank[v] /\ ~\E m \in Nat : v \in above[m]
    OBVIOUS
  <2>3. Root \notin ParentSet(v)
    BY <1>3, <2>2 DEF Names
  <2>4. PICK p \in ParentSet(v) : p \in d.txs
    <3>1. ParentSet(v) \subseteq d.txs \cup {Root} /\ ParentSet(v) # {}
      BY DEF Grown, Formed, ParentClosed, HasParents, ParentSet
    <3> QED BY <2>3, <3>1
  <2>5. rank[p] \in Nat /\ rank[v] \in Nat /\ rank[p] < rank[v]
    BY <1>2, <2>4
  <2>6. rank[p] \notin C
    BY <2>1, <2>2, <2>5
  <2>7. PICK m \in Nat : p \in above[m]
    BY <2>4, <2>6
  <2>8. v \in above[m + 1] /\ m + 1 \in Nat
    BY <1>3, <2>4, <2>7 DEF Names
  <2> QED BY <2>2, <2>8
\* At k a rank is beyond k, so no layer lies above the n-th.
<1>5. \A k \in Nat : \A u \in above[k] : u \in d.txs /\ k < rank[u]
  <2> DEFINE I == {k \in Nat : \A u \in above[k] : u \in d.txs /\ k < rank[u]}
  <2>1. 0 \in I
    BY <1>2, <1>3 DEF Names
  <2>2. ASSUME NEW k \in Nat, k \in I PROVE k + 1 \in I
    <3>1. ASSUME NEW u \in above[k + 1] PROVE u \in d.txs /\ k + 1 < rank[u]
      <4>1. PICK p \in ParentSet(u) : p \in above[k] /\ u \in d.txs
        BY <1>3 DEF Names
      <4>2. p \in d.txs /\ k < rank[p]
        BY <2>2, <4>1
      <4>3. rank[p] \in Nat /\ rank[u] \in Nat /\ rank[p] < rank[u]
        BY <1>2, <4>1, <4>2
      <4> QED BY <4>1, <4>2, <4>3
    <3>2. k + 1 \in Nat
      OBVIOUS
    <3> QED BY <3>1, <3>2
  <2>3. \A k \in Nat : k \in I
    <3> HIDE DEF I
    <3> QED BY <2>1, <2>2, NatSteps
  <2> QED BY <2>3
<1>6. ASSUME NEW m \in Nat, NEW u \in d.txs, u \in above[m]
      PROVE  m <= Height(d, u) /\ Height(d, u) \in Nat
  <2> DEFINE R == {k \in 0 .. n : u \in above[k]}
             L == {n - k : k \in R}
  <2>1. m \in R
    <3>1. m < rank[u] /\ rank[u] \in 1 .. n
      BY <1>2, <1>5, <1>6
    <3> QED BY <1>2, <1>6, <3>1
  <2>2. \E k \in R : \A j \in R : j <= k
    <3>1. L \subseteq Nat /\ L # {}
      BY <1>2, <2>1
    <3>2. PICK l \in L : \A i \in L : l <= i
      <4> HIDE DEF L
      <4> QED BY <3>1, NatMin
    <3>3. PICK k \in R : l = n - k
      OBVIOUS
    <3>4. ASSUME NEW j \in R PROVE j <= k
      <4>1. n - k <= n - j
        BY <3>2, <3>3
      <4>2. n \in Nat /\ k \in Nat /\ j \in Nat
        BY <1>2
      <4> HIDE DEF R, L
      <4> QED BY <4>1, <4>2
    <3> QED BY <3>4
  <2>3. \E k \in 0 .. n : /\ u \in above[k]
                          /\ \A j \in 0 .. n : u \in above[j] => j <= k
    BY <2>2
  <2>4. /\ \A j \in 0 .. n : u \in above[j] => j <= Top(above, u, n)
        /\ Top(above, u, n) \in 0 .. n
    BY <2>3 DEF Top
  <2> QED BY <1>3, <2>1, <2>4
<1> QED BY <1>4, <1>6

-----------------------------------------------------------------------------
(* What get_ancestors finds.                                               *)
\* What the scan keeps after k turns: it finds ancestors only; an item's depth
\* is the length of a way to it from t; unless the limit cuts something off,
\* the parents of what was found are found too, or will be when the turn comes
\* of an item on the stack; and every turn pops what one discovery pushed.
Kept(scan, k, d, t, max, above) ==
    /\ scan.found \subseteq Ancestry(d, t)
    /\ \A e \in Stacked(scan) : e.tx \in scan.found \cup {t}
    /\ \A e \in Stacked(scan) : \A m \in Nat :
          e.tx \in above[m] => t \in above[m + e.depth]
    /\ Height(d, t) < max =>
          \A u \in (scan.found \cup {t}) \cap d.txs :
              \/ ParentSet(u) \subseteq scan.found
              \/ \E e \in Stacked(scan) : e.tx = u
    /\ \/ scan.stack = << >>
       \/ k + Len(scan.stack) = 1 + Cardinality(scan.found)

LEMMA KeptStep ==
    ASSUME NEW d, Grown(d), NEW t \in d.txs, NEW max \in Nat, NEW k \in Nat,
           NEW above, Layers(above, d),
           NEW scan \in ScanType(d.txs \cup {Root}),
           Kept(scan, k, d, t, max, above)
    PROVE  /\ Kept(Turn(scan, d, max), k + 1, d, t, max, above)
           /\ scan.found \subseteq Turn(scan, d, max).found
<1> DEFINE B == d.txs \cup {Root}
           A == Ancestry(d, t)
           h == Height(d, t)
           next == Turn(scan, d, max)
           top == Last(scan.stack)
           new(p) == [tx |-> p, depth |-> top.depth + 1]
<1>1. /\ d.txs \subseteq Tx /\ ParentClosed(d) /\ IsFiniteSet(B)
      /\ Root \notin d.txs
  BY TxsFinite, FS_AddElement, TransactionsAssumption
  DEF Grown, Formed, DagType, TransactionsAssumption
<1>2. /\ ParentSet(t) \subseteq A
      /\ \A u \in A \cap d.txs : ParentSet(u) \subseteq A
  BY AncestryClosed
<1>3. /\ scan.found \subseteq A
      /\ \A e \in Stacked(scan) : e.tx \in scan.found \cup {t}
      /\ \A e \in Stacked(scan) : \A m \in Nat :
            e.tx \in above[m] => t \in above[m + e.depth]
      /\ h < max => \A u \in (scan.found \cup {t}) \cap d.txs :
                       \/ ParentSet(u) \subseteq scan.found
                       \/ \E e \in Stacked(scan) : e.tx = u
      /\ \/ scan.stack = << >>
         \/ k + Len(scan.stack) = 1 + Cardinality(scan.found)
  BY DEF Kept
<1>4. CASE scan.stack = << >>
  <2>1. next = scan
    BY <1>4 DEF Turn
  <2> QED BY <1>3, <1>4, <2>1 DEF Kept
<1>5. CASE scan.stack # << >>
  <2>1. /\ next \in ScanType(B) /\ top \in Item(B) /\ top \in Stacked(scan)
        /\ Stacked(scan) \subseteq Stacked(next) \cup {top}
        /\ Len(next.stack) + 1 + Cardinality(scan.found)
               = Len(scan.stack) + Cardinality(next.found)
        /\ \/ /\ top.depth >= max \/ top.tx \notin d.txs
              /\ next.found = scan.found
              /\ Stacked(next) \subseteq Stacked(scan)
           \/ /\ top.tx \in d.txs
              /\ next.found = scan.found \cup ParentSet(top.tx)
              /\ \A p \in ParentSet(top.tx) :
                    p \in scan.found \/ new(p) \in Stacked(next)
              /\ Stacked(next) \subseteq
                     Stacked(scan) \cup {new(p) : p \in ParentSet(top.tx)}
    <3> HIDE DEF B
    <3>1. B = d.txs \cup {Root}
      BY DEF B
    <3> QED BY <1>1, <1>5, <3>1, Turned
  <2> HIDE DEF next, top
  <2>2. top.tx \in scan.found \cup {t} /\ top.depth \in Nat /\ top.tx \in B
    BY <1>3, <2>1 DEF Item
  <2>3. scan.found \subseteq next.found
    BY <2>1
  <2>4. next.found \subseteq A
    BY <1>2, <1>3, <2>1, <2>2
  <2>5. \A e \in Stacked(next) : e.tx \in next.found \cup {t}
    BY <1>3, <2>1
  <2>6. ASSUME NEW e \in Stacked(next), NEW m \in Nat, e.tx \in above[m]
        PROVE  t \in above[m + e.depth]
    <3>1. CASE e \in Stacked(scan)
      BY <1>3, <2>6, <3>1
    <3>2. CASE e \notin Stacked(scan)
      <4>1. PICK p \in ParentSet(top.tx) : e = new(p)
        BY <2>1, <3>2
      <4>2. top.tx \in d.txs
        BY <2>1, <3>2
      <4>3. top.tx \in above[m + 1]
        BY <2>6, <4>1, <4>2 DEF Layers, Names
      <4>4. m + 1 \in Nat /\ (m + 1) + top.depth = m + (top.depth + 1)
        BY <2>2
      <4>5. t \in above[(m + 1) + top.depth]
        BY <1>3, <2>1, <4>3, <4>4
      <4> QED BY <4>1, <4>4, <4>5
    <3> QED BY <3>1, <3>2
  <2>7. ASSUME h < max, NEW u \in (next.found \cup {t}) \cap d.txs
        PROVE  \/ ParentSet(u) \subseteq next.found
               \/ \E e \in Stacked(next) : e.tx = u
    <3>1. ASSUME top.tx \in d.txs PROVE ~(top.depth >= max)
      <4>1. PICK m \in Nat : top.tx \in above[m]
        BY <3>1, HeightIsTop
      <4>2. t \in above[m + top.depth] /\ m + top.depth \in Nat
        BY <1>3, <2>1, <2>2, <4>1
      <4>3. m + top.depth <= h
        BY <4>2, HeightIsTop
      <4>4. h \in Nat
        BY HeightIsTop
      <4> HIDE DEF h
      <4> QED BY <2>2, <2>7, <4>3, <4>4
    <3>2. CASE u \in scan.found \cup {t}
      <4>1. CASE ParentSet(u) \subseteq scan.found
        BY <2>3, <4>1
      <4>2. CASE ~(ParentSet(u) \subseteq scan.found)
        <5>1. PICK e \in Stacked(scan) : e.tx = u
          BY <1>3, <2>7, <3>2, <4>2
        <5>2. CASE e = top
          <6>1. top.tx \in d.txs /\ ParentSet(top.tx) \subseteq next.found
            BY <2>1, <2>7, <3>1, <5>1, <5>2
          <6> QED BY <5>1, <5>2, <6>1
        <5>3. CASE e # top
          BY <2>1, <5>1, <5>3
        <5> QED BY <5>2, <5>3
      <4> QED BY <4>1, <4>2
    <3>3. CASE u \notin scan.found \cup {t}
      <4>1. new(u) \in Stacked(next)
        BY <2>1, <2>7, <3>3
      <4> QED BY <4>1
    <3> QED BY <3>2, <3>3
  <2>8. next.stack = << >>
        \/ (k + 1) + Len(next.stack) = 1 + Cardinality(next.found)
    <3> DEFINE l == Len(next.stack)
               z == Len(scan.stack)
               x == Cardinality(scan.found)
               w == Cardinality(next.found)
    <3>1. l \in Nat /\ z \in Nat /\ x \in Nat /\ w \in Nat
      <4>1. /\ scan.stack \in Seq(Item(B)) /\ next.stack \in Seq(Item(B))
            /\ scan.found \subseteq B /\ next.found \subseteq B
        BY <2>1 DEF ScanType
      <4> HIDE DEF B
      <4>2. IsFiniteSet(scan.found) /\ IsFiniteSet(next.found)
        BY <1>1, <4>1, FS_Subset
      <4> QED BY <4>1, <4>2, FS_CardinalityType
    <3>2. l + 1 + x = z + w /\ k + z = 1 + x
      BY <1>3, <1>5, <2>1
    <3> HIDE DEF l, z, x, w
    <3>3. (k + 1) + l = 1 + w
      BY <3>1, <3>2
    <3> QED BY <3>3 DEF l, w
  <2>9. Kept(next, k + 1, d, t, max, above)
    BY <2>4, <2>5, <2>6, <2>7, <2>8 DEF Kept
  <2> QED BY <2>3, <2>9 DEF next
<1> QED BY <1>4, <1>5

LEMMA AncestorsAre ==
    ASSUME NEW d, Grown(d), NEW t \in d.txs, NEW max \in Nat \ {0}
    PROVE  LET found == GetAncestors(d, t, max) IN
           /\ ParentSet(t) \subseteq found
           /\ found \subseteq Ancestry(d, t)
           /\ Height(d, t) < max => found = Ancestry(d, t)
<1> DEFINE A == Ancestry(d, t)
           B == d.txs \cup {Root}
           n == Cardinality(d.txs)
           l == n + 2
<1>1. PICK above : Layers(above, d)
  BY LayersAre
<1>2. PICK it : /\ Scans(it, d, t, max)
                /\ \A k \in Nat : it[k] \in ScanType(d.txs \cup {Root})
  BY ScansAre
<1>3. /\ GetAncestors(d, t, max) = it[l].found
      /\ it[0] = Start(t)
      /\ \A k \in Nat : it[k + 1] = Turn(it[k], d, max)
  BY <1>2 DEF Scans
<1>4. n \in Nat /\ l \in Nat /\ IsFiniteSet(d.txs)
  BY TxsFinite DEF Grown
<1>5. Kept(it[0], 0, d, t, max, above)
  <2>1. Start(t).stack = <<[tx |-> t, depth |-> 0]>>
        /\ Start(t).found = {}
    BY DEF Start
  <2>2. Stacked(Start(t)) = {[tx |-> t, depth |-> 0]}
    BY <2>1 DEF Stacked
  <2>3. Len(Start(t).stack) = 1 /\ Cardinality({}) = 0
    BY <2>1, FS_EmptySet
  <2> QED BY <1>3, <2>1, <2>2, <2>3 DEF Kept
<1>6. \A k \in Nat :
         /\ Kept(it[k], k, d, t, max, above)
         /\ it[k].found \subseteq it[k + 1].found
  <2> DEFINE I == {k \in Nat : Kept(it[k], k, d, t, max, above)}
  <2>1. ASSUME NEW k \in Nat, k \in I
        PROVE  k + 1 \in I /\ it[k].found \subseteq it[k + 1].found
    <3>1. /\ Kept(Turn(it[k], d, max), k + 1, d, t, max, above)
          /\ it[k].found \subseteq Turn(it[k], d, max).found
      BY <1>1, <1>2, <2>1, KeptStep
    <3> QED BY <1>3, <3>1
  <2>2. 0 \in I
    BY <1>5
  <2>3. \A k \in Nat : k \in I
    <3> HIDE DEF I
    <3> QED BY <2>1, <2>2, NatSteps
  <2> QED BY <2>1, <2>3
<1>7. it[l].found \subseteq A
  BY <1>4, <1>6 DEF Kept
<1>8. ParentSet(t) \subseteq it[l].found
  <2> DEFINE I == {k \in Nat : ParentSet(t) \subseteq it[k + 1].found}
  <2>1. 0 \in I
    <3> DEFINE start == Start(t)
               top == Last(start.stack)
    <3>1. start.stack = <<[tx |-> t, depth |-> 0]>> /\ start.found = {}
      BY DEF Start
    <3>2. start.stack # << >> /\ top = [tx |-> t, depth |-> 0]
      BY <3>1 DEF Last
    <3>3. start \in ScanType(B) /\ d.txs \subseteq Tx /\ ParentClosed(d)
          /\ IsFiniteSet(B)
      <4>1. start \in ScanType(B)
        <5>1. it[0] \in ScanType(d.txs \cup {Root}) /\ it[0] = Start(t)
          BY <1>2, <1>3
        <5> QED BY <5>1
      <4>2. IsFiniteSet(B)
        BY <1>4, FS_AddElement
      <4>3. d.txs \subseteq Tx /\ ParentClosed(d)
        BY DEF Grown, Formed, DagType
      <4> QED BY <4>1, <4>2, <4>3
    <3> HIDE DEF start, B
    <3>4. B = d.txs \cup {Root} /\ max \in Nat
      BY DEF B
    <3>5. \/ top.depth >= max \/ top.tx \notin d.txs
          \/ Turn(start, d, max).found = start.found \cup ParentSet(top.tx)
      BY <3>2, <3>3, <3>4, Turned
    <3>6. ParentSet(t) \subseteq Turn(start, d, max).found
      <4>1. top.depth = 0 /\ top.tx = t /\ ~(0 >= max)
        BY <3>2
      <4> HIDE DEF top
      <4> QED BY <3>5, <4>1
    <3>7. it[0 + 1] = Turn(start, d, max)
      BY <1>3 DEF start
    <3> QED BY <3>6, <3>7
  <2>2. \A k \in Nat : k \in I => k + 1 \in I
    BY <1>6
  <2>3. n + 1 \in I
    <3>1. \A k \in Nat : k \in I
      <4> HIDE DEF I
      <4> QED BY <2>1, <2>2, NatSteps
    <3> QED BY <1>4, <3>1
  <2>4. (n + 1) + 1 = l
    BY <1>4
  <2> QED BY <2>3, <2>4
<1>9. ASSUME Height(d, t) < max PROVE A \subseteq it[l].found
  <2>1. A \subseteq (d.txs \ {t}) \cup {Root}
    BY AncestryClosed
  <2>2. IsFiniteSet(it[l].found) /\ Cardinality(it[l].found) <= n
    <3> DEFINE R == d.txs \ {t}
               S == R \cup {Root}
    <3>1. IsFiniteSet(R) /\ Cardinality(R) = n - 1
      BY <1>4, FS_RemoveElement
    <3>2. Root \notin R
      BY TransactionsAssumption DEF Grown, DagType, TransactionsAssumption
    <3>3. IsFiniteSet(S) /\ Cardinality(S) = n
      <4> HIDE DEF R, n
      <4>1. IsFiniteSet(S) /\ Cardinality(S) = Cardinality(R) + 1
        BY <3>1, <3>2, FS_AddElement
      <4> QED BY <1>4, <3>1, <4>1
    <3>4. it[l].found \subseteq S
      BY <1>7, <2>1
    <3> HIDE DEF S, n
    <3> QED BY <3>3, <3>4, FS_Subset
  <2>3. Kept(it[l], l, d, t, max, above) /\ it[l] \in ScanType(B)
    BY <1>2, <1>4, <1>6
  <2>4. it[l].stack = << >>
    <3>1. it[l].stack \in Seq(Item(B))
      BY <2>3 DEF ScanType
    <3>2. it[l].stack = << >> \/ l + Len(it[l].stack)
                                   = 1 + Cardinality(it[l].found)
      BY <2>3 DEF Kept
    <3>3. Len(it[l].stack) \in Nat /\ Cardinality(it[l].found) \in Nat
      BY <2>2, <3>1, FS_CardinalityType
    <3> DEFINE x == Len(it[l].stack)
               y == Cardinality(it[l].found)
    <3>4. x \in Nat /\ y \in Nat /\ y <= n
      BY <2>2, <3>3
    <3> HIDE DEF x, y, n
    <3>5. n + 2 + x # 1 + y
      BY <1>4, <3>4
    <3> QED BY <3>2, <3>5 DEF x, y
  <2>5. Stacked(it[l]) = {}
    BY <2>4 DEF Stacked
  <2>6. /\ ParentSet(t) \subseteq it[l].found
        /\ \A u \in it[l].found \cap d.txs : ParentSet(u) \subseteq it[l].found
    BY <1>9, <2>3, <2>5 DEF Kept
  <2> HIDE DEF l, A
  <2> DEFINE S == it[l].found
  <2>7. /\ ParentSet(t) \subseteq S
        /\ \A u \in S \cap d.txs : ParentSet(u) \subseteq S
    BY <2>6
  <2> HIDE DEF S
  <2>8. A \subseteq S
    BY <2>7, AncestryClosed DEF A
  <2> QED BY <2>8 DEF S
<1> HIDE DEF l
<1> QED BY <1>3, <1>7, <1>8, <1>9

\* On every DAG that can grow get_ancestors finds the parents, nothing but
\* ancestors, and all of them when no way to genesis is as long as the limit,
\* although it looks at nothing twice.
THEOREM AncestorsCorrect == GrowthSpec => []AncestorsFound
<1>1. ASSUME Grown(dag), NEW t \in dag.txs
      PROVE  LET found == GetAncestors(dag, t, AncestryDepth) IN
             /\ ParentSet(t) \subseteq found
             /\ t \notin found /\ \A a \in found : ReachableFrom(dag, t, a)
             /\ Height(dag, t) < AncestryDepth => found = Ancestry(dag, t)
  <2> DEFINE found == GetAncestors(dag, t, AncestryDepth)
  <2>1. AncestryDepth \in Nat \ {0}
    BY QueriesAssumption DEF QueriesAssumption
  <2>2. /\ ParentSet(t) \subseteq found
        /\ found \subseteq Ancestry(dag, t)
        /\ Height(dag, t) < AncestryDepth => found = Ancestry(dag, t)
    BY <1>1, <2>1, AncestorsAre
  <2>3. t \notin Ancestry(dag, t)
    <3>1. Ancestry(dag, t) \subseteq (dag.txs \ {t}) \cup {Root}
      BY <1>1, AncestryClosed
    <3>2. t # Root
      BY <1>1, TransactionsAssumption
      DEF Grown, DagType, TransactionsAssumption
    <3> QED BY <3>1, <3>2
  <2> HIDE DEF found
  <2>4. t \notin found /\ \A a \in found : ReachableFrom(dag, t, a)
    BY <2>2, <2>3 DEF ReachableFrom
  <2> QED BY <2>2, <2>4 DEF found
<1>2. Grown(dag) => AncestorsFound
  BY <1>1 DEF AncestorsFound
<1> QED BY <1>2, GrowthGrows, PTL

-----------------------------------------------------------------------------
(* The scan of compute_subgraph_score.                                     *)
ScoreType(d) ==
    [seen : SUBSET d.txs, score : Nat, stack : Seq(Item(d.txs \cup {Root}))]

Skipped(scan, d, top) ==
    top.tx \in scan.seen \/ top.tx \notin d.txs \/ top.depth > ScoreDepth

Tally(scan, d) ==
    IF scan.stack = << >> THEN scan
    ELSE IF Skipped(scan, d, Last(scan.stack))
         THEN [scan EXCEPT !.stack = Front(scan.stack)]
         ELSE LET top == Last(scan.stack) IN
              [seen  |-> scan.seen \cup {top.tx},
               score |-> scan.score + ScoreAt(top.tx, top.depth),
               stack |-> Front(scan.stack) \o Below(top.tx, top.depth)]

ScoreStart(t) ==
    [seen |-> {}, score |-> 0, stack |-> <<[tx |-> t, depth |-> 0]>>]

Scoring(it, d, t) ==
    it = [k \in Nat |-> IF k = 0 THEN ScoreStart(t) ELSE Tally(it[k - 1], d)]

Scores(it, d, t) ==
    /\ SubgraphScore(d, t) = it[2 * Cardinality(d.txs) + 1].score
    /\ it[0] = ScoreStart(t)
    /\ \A k \in Nat : it[k + 1] = Tally(it[k], d) /\ it[k] \in ScoreType(d)

\* One turn drops the top item, or counts it and pushes its parents.
Drops(scan, next) ==
    /\ next.seen = scan.seen /\ next.score = scan.score
    /\ Len(next.stack) = Len(scan.stack) - 1
    /\ \A i \in 1 .. Len(scan.stack) - 1 : next.stack[i] = scan.stack[i]

Counts(scan, next, top) ==
    /\ next.seen = scan.seen \cup {top.tx}
    /\ next.score = scan.score + ScoreAt(top.tx, top.depth)
    /\ Len(next.stack) = Len(scan.stack) + 1
    /\ \A i \in 1 .. Len(scan.stack) - 1 : next.stack[i] = scan.stack[i]
    /\ next.stack[Len(scan.stack)] =
           [tx |-> Parents[top.tx][2], depth |-> top.depth + 1]
    /\ next.stack[Len(scan.stack) + 1] =
           [tx |-> Parents[top.tx][1], depth |-> top.depth + 1]

\* A sequence and two more.
LEMMA TwoMore ==
    ASSUME NEW B, NEW s \in Seq(B), NEW a \in B, NEW b \in B
    PROVE  LET w == s \o <<a, b>> IN
           /\ w \in Seq(B) /\ Len(w) = Len(s) + 2
           /\ \A i \in 1 .. Len(s) : w[i] = s[i]
           /\ w[Len(s) + 1] = a /\ w[Len(s) + 2] = b
<1> DEFINE r == <<a, b>>
<1>1. r \in Seq(B) /\ Len(r) = 2 /\ r[1] = a /\ r[2] = b
  OBVIOUS
<1> HIDE DEF r
<1>2. /\ s \o r \in Seq(B) /\ Len(s \o r) = Len(s) + Len(r)
      /\ \A i \in 1 .. Len(s) + Len(r) :
            (s \o r)[i] = IF i <= Len(s) THEN s[i] ELSE r[i - Len(s)]
  BY <1>1, ConcatProperties
<1> DEFINE n == Len(s)
           w == s \o r
<1>3. n \in Nat
  OBVIOUS
<1>4. /\ w \in Seq(B) /\ Len(w) = n + 2
      /\ \A i \in 1 .. n + 2 : w[i] = IF i <= n THEN s[i] ELSE r[i - n]
  BY <1>1, <1>2
<1> HIDE DEF w, n
<1>5. \A i \in 1 .. n : w[i] = s[i]
  BY <1>3, <1>4
<1>6. w[n + 1] = a /\ w[n + 2] = b
  <2>1. n + 1 \in 1 .. n + 2 /\ ~(n + 1 <= n) /\ (n + 1) - n = 1
    BY <1>3
  <2>2. n + 2 \in 1 .. n + 2 /\ ~(n + 2 <= n) /\ (n + 2) - n = 2
    BY <1>3
  <2>3. w[n + 1] = r[(n + 1) - n] /\ w[n + 2] = r[(n + 2) - n]
    BY <1>4, <2>1, <2>2
  <2> QED BY <1>1, <2>1, <2>2, <2>3
<1> QED BY <1>4, <1>5, <1>6 DEF w, n, r

\* What a transaction is worth before its depth counts.
Worth(t) == Weight[t] * SenderReputation[Sender[t]]

LEMMA TimesGrows ==
    ASSUME NEW w \in Nat, NEW x \in Nat, NEW y \in Nat, x <= y
    PROVE  w * x \in Nat /\ w * y \in Nat /\ w * x <= w * y
<1>1. PICK z \in Nat : y = x + z
  <2>1. y - x \in Nat /\ y = x + (y - x)
    OBVIOUS
  <2> QED BY <2>1
<1>2. w * (x + z) = w * x + w * z
  OBVIOUS
<1>3. w * x \in Nat /\ w * z \in Nat
  OBVIOUS
<1> QED BY <1>1, <1>2, <1>3

LEMMA ScoreAtIs ==
    ASSUME NEW t \in Tx, NEW j \in Nat
    PROVE  /\ Worth(t) \in Nat /\ ScoreAt(t, j) \in Nat
           /\ ScoreAt(t, j) <= ScoreAt(t, j + 1)
           /\ Worth(t) * (2 * ScoreDepth) <= ScoreAt(t, j)
           /\ j <= ScoreDepth => ScoreAt(t, j) <= Worth(t) * (3 * ScoreDepth)
<1> DEFINE w == Worth(t)
           two == 2 * ScoreDepth
           three == 3 * ScoreDepth
<1>1. ScoreDepth \in Nat /\ Weight[t] \in Nat
      /\ SenderReputation[Sender[t]] \in Nat
  BY QueriesAssumption, TransactionsAssumption
  DEF QueriesAssumption, TransactionsAssumption
<1>2. w \in Nat
  <2>1. \A x, y \in Nat : x * y \in Nat
    OBVIOUS
  <2> QED BY <1>1, <2>1 DEF Worth
<1>3. two \in Nat /\ three \in Nat /\ (j <= ScoreDepth => two + j <= three)
      /\ two + j \in Nat /\ two + (j + 1) \in Nat /\ two <= two + j
      /\ two + j <= two + (j + 1)
  BY <1>1
<1>4. ScoreAt(t, j) = w * (two + j) /\ ScoreAt(t, j + 1) = w * (two + (j + 1))
  BY DEF ScoreAt, Worth
<1> HIDE DEF w, two, three
<1>5. /\ w * two <= w * (two + j) /\ w * (two + j) \in Nat
      /\ w * (two + j) <= w * (two + (j + 1))
  BY <1>2, <1>3, TimesGrows
<1>6. j <= ScoreDepth => w * (two + j) <= w * three
  BY <1>2, <1>3, TimesGrows
<1> QED BY <1>2, <1>4, <1>5, <1>6 DEF w, two, three

LEMMA Tallied ==
    ASSUME NEW d, Grown(d), NEW scan \in ScoreType(d), scan.stack # << >>
    PROVE  LET next == Tally(scan, d)
               top == Last(scan.stack)
           IN  /\ next \in ScoreType(d)
               /\ top = scan.stack[Len(scan.stack)]
               /\ top \in Item(d.txs \cup {Root})
               /\ Len(scan.stack) \in Nat \ {0}
               /\ IF Skipped(scan, d, top) THEN Drops(scan, next)
                                           ELSE Counts(scan, next, top)
<1> DEFINE B == d.txs \cup {Root}
           s == scan.stack
           f == Front(s)
           n == Len(s)
           top == Last(s)
           next == Tally(scan, d)
<1>1. s \in Seq(Item(B)) /\ scan.seen \subseteq d.txs /\ scan.score \in Nat
      /\ scan = [seen |-> scan.seen, score |-> scan.score, stack |-> s]
  BY DEF ScoreType
<1>2. /\ f \in Seq(Item(B)) /\ Len(f) = n - 1
      /\ \A i \in 1 .. n - 1 : f[i] = s[i]
      /\ top = s[n] /\ top \in Item(B) /\ n \in Nat \ {0}
  <2> HIDE DEF B
  <2>1. s \in Seq(Item(B)) /\ s # << >>
    BY <1>1
  <2> HIDE DEF s
  <2> QED BY <2>1, FrontIs
<1>3. CASE Skipped(scan, d, top)
  <2>1. next = [scan EXCEPT !.stack = f]
    BY <1>3 DEF Tally
  <2> HIDE DEF s, n, f, next, B
  <2>2. next = [seen |-> scan.seen, score |-> scan.score, stack |-> f]
    BY <1>1, <2>1
  <2>3. next \in ScoreType(d)
    BY <1>1, <1>2, <2>2 DEF ScoreType, B
  <2>4. Drops(scan, next)
    BY <1>2, <2>2 DEF Drops, n, s
  <2> QED BY <1>2, <1>3, <2>3, <2>4 DEF n, s, B, next
<1>4. CASE ~Skipped(scan, d, top)
  <2> DEFINE a == [tx |-> Parents[top.tx][2], depth |-> top.depth + 1]
             b == [tx |-> Parents[top.tx][1], depth |-> top.depth + 1]
             w == f \o <<a, b>>
  <2>1. next = [seen  |-> scan.seen \cup {top.tx},
                score |-> scan.score + ScoreAt(top.tx, top.depth),
                stack |-> w]
    BY <1>4 DEF Tally, Below
  <2>2. top.tx \in d.txs /\ top.tx \in Tx /\ top.depth \in Nat
    BY <1>2, <1>4 DEF Skipped, Item, Grown, DagType
  <2>3. a \in Item(B) /\ b \in Item(B)
    <3>1. ParentSet(top.tx) \subseteq B
      BY <2>2 DEF Grown, Formed, ParentClosed, HasParents
    <3>2. Parents[top.tx][1] \in B /\ Parents[top.tx][2] \in B
      BY <3>1 DEF ParentSet
    <3> HIDE DEF B, top
    <3> QED BY <2>2, <3>2 DEF Item
  <2> HIDE DEF s, n, f, next, B, a, b, top
  <2>4. /\ w \in Seq(Item(B)) /\ Len(w) = Len(f) + 2
        /\ \A i \in 1 .. Len(f) : w[i] = f[i]
        /\ w[Len(f) + 1] = a /\ w[Len(f) + 2] = b
    BY <1>2, <2>3, TwoMore
  <2> HIDE DEF w
  <2>5. Len(w) = n + 1 /\ w[n] = a /\ w[n + 1] = b
        /\ \A i \in 1 .. n - 1 : w[i] = s[i]
    <3>1. Len(f) + 1 = n /\ Len(f) + 2 = n + 1
      BY <1>2
    <3> QED BY <1>2, <2>4, <3>1
  <2>6. ScoreAt(top.tx, top.depth) \in Nat
    BY <2>2, ScoreAtIs
  <2>7. next \in ScoreType(d)
    BY <1>1, <2>1, <2>2, <2>4, <2>6 DEF ScoreType, B
  <2>8. Counts(scan, next, top)
    BY <2>1, <2>5 DEF Counts, n, s, a, b
  <2> QED BY <1>2, <1>4, <2>7, <2>8 DEF n, s, B, next, top
<1> QED BY <1>3, <1>4

LEMMA ScoresAre ==
    ASSUME NEW d, Grown(d), NEW t \in d.txs
    PROVE  \E it : Scores(it, d, t)
<1> DEFINE T == ScoreType(d)
           F == [scan \in T |-> Tally(scan, d)]
           start == ScoreStart(t)
           scanned == CHOOSE it : Scoring(it, d, t)
<1>1. start \in T
  BY DEF ScoreStart, ScoreType, Item
<1>2. ASSUME NEW scan \in T PROVE Tally(scan, d) \in T
  <2>1. CASE scan.stack = << >>
    BY <2>1 DEF Tally
  <2>2. CASE scan.stack # << >>
    BY <2>2, Tallied
  <2> QED BY <2>1, <2>2
<1>3. F \in [T -> T]
  BY <1>2
<1>4. PICK f : Runs(f, T, start, F)
  <2> HIDE DEF T, F, start
  <2> QED BY <1>1, <1>3, RunsExist
<1>5. /\ f \in [Nat -> T]
      /\ \A k \in Nat : f[k] = IF k = 0 THEN start ELSE F[f[k - 1]]
  BY <1>4 DEF Runs
<1>6. Scoring(f, d, t)
  <2>1. f = [k \in Nat |-> f[k]]
    BY <1>5
  <2>2. \A k \in Nat : k # 0 => f[k] = Tally(f[k - 1], d)
    <3> TAKE k \in Nat
    <3>1. k # 0 => f[k - 1] \in T
      BY <1>5
    <3> HIDE DEF T
    <3> QED BY <1>5, <3>1
  <2> HIDE DEF T, F
  <2> QED BY <1>5, <2>1, <2>2 DEF Scoring
<1>7. Scoring(scanned, d, t)
  BY <1>6
<1>8. SubgraphScore(d, t) = scanned[2 * Cardinality(d.txs) + 1].score
  BY DEF SubgraphScore, Scoring, ScoreStart, Tally, Skipped
<1> HIDE DEF scanned, T
<1>9. /\ scanned[0] = start
      /\ \A k \in Nat : k # 0 => scanned[k] = Tally(scanned[k - 1], d)
  <2>1. \A k \in Nat : scanned[k] =
           IF k = 0 THEN ScoreStart(t) ELSE Tally(scanned[k - 1], d)
    BY <1>7 DEF Scoring
  <2> QED BY <2>1
<1>10. \A k \in Nat : scanned[k + 1] = Tally(scanned[k], d)
  <2> TAKE k \in Nat
  <2>1. k + 1 \in Nat /\ k + 1 # 0 /\ (k + 1) - 1 = k
    OBVIOUS
  <2>2. scanned[k + 1] = Tally(scanned[(k + 1) - 1], d)
    BY <1>9, <2>1
  <2> QED BY <2>1, <2>2
<1>11. \A k \in Nat : scanned[k] \in T
  <2> DEFINE I == {k \in Nat : scanned[k] \in T}
  <2>1. 0 \in I
    BY <1>1, <1>9
  <2>2. \A k \in Nat : k \in I => k + 1 \in I
    BY <1>2, <1>10
  <2> HIDE DEF I
  <2>3. \A k \in Nat : k \in I
    BY <2>1, <2>2, NatSteps
  <2> QED BY <2>3 DEF I
<1>12. Scores(scanned, d, t)
  BY <1>8, <1>9, <1>10, <1>11 DEF Scores, T
<1> QED BY <1>12

\* Each transaction is counted once and pushes two: the turns suffice.
LEMMA ScanEnds ==
    ASSUME NEW d, Grown(d), NEW t \in d.txs, NEW it, Scores(it, d, t)
    PROVE  \A k \in Nat : k > 2 * Cardinality(d.txs) =>
               /\ it[k].stack = << >>
               /\ it[k].score = SubgraphScore(d, t)
<1> DEFINE n == Cardinality(d.txs)
           Spent(k) == \/ it[k].stack = << >>
                       \/ k + Len(it[k].stack) = 1 + 2 * Cardinality(it[k].seen)
           I == {k \in Nat : Spent(k)}
<1>1. IsFiniteSet(d.txs) /\ n \in Nat
  BY TxsFinite DEF Grown
<1>2. /\ SubgraphScore(d, t) = it[2 * n + 1].score /\ it[0] = ScoreStart(t)
      /\ \A k \in Nat : it[k + 1] = Tally(it[k], d) /\ it[k] \in ScoreType(d)
  BY DEF Scores
<1>3. \A k \in Nat : /\ IsFiniteSet(it[k].seen)
                     /\ Cardinality(it[k].seen) \in Nat
                     /\ Cardinality(it[k].seen) <= n
  <2> TAKE k \in Nat
  <2>1. it[k].seen \subseteq d.txs
    BY <1>2 DEF ScoreType
  <2> QED BY <1>1, <2>1, FS_Subset, FS_CardinalityType
<1>4. 0 \in I
  <2>1. Len(it[0].stack) = 1 /\ it[0].seen = {}
    BY <1>2 DEF ScoreStart
  <2>2. 0 + Len(it[0].stack) = 1 + 2 * Cardinality(it[0].seen)
    <3>1. Cardinality(it[0].seen) = 0
      BY <2>1, FS_EmptySet
    <3> QED BY <2>1, <3>1
  <2> QED BY <2>2
<1>5. ASSUME NEW k \in Nat, k \in I PROVE k + 1 \in I
  <2> DEFINE scan == it[k]
             next == it[k + 1]
             top == Last(scan.stack)
  <2>1. CASE scan.stack = << >>
    <3>1. next = scan
      BY <1>2, <2>1 DEF Tally
    <3> QED BY <2>1, <3>1
  <2>2. CASE scan.stack # << >>
    <3>1. /\ Len(scan.stack) \in Nat \ {0}
          /\ IF Skipped(scan, d, top) THEN Drops(scan, next)
                                      ELSE Counts(scan, next, top)
      BY <1>2, <2>2, Tallied
    <3> DEFINE z == Len(scan.stack)
               l == Len(next.stack)
               x == Cardinality(scan.seen)
               y == Cardinality(next.seen)
    <3>2. \/ l = z - 1 /\ y = x
          \/ l = z + 1 /\ y = x + 1
      <4>1. CASE Skipped(scan, d, top)
        BY <3>1, <4>1 DEF Drops
      <4>2. CASE ~Skipped(scan, d, top)
        <5>1. top.tx \notin scan.seen /\ next.seen = scan.seen \cup {top.tx}
              /\ l = z + 1
          BY <3>1, <4>2 DEF Counts, Skipped
        <5>2. y = x + 1
          <6> HIDE DEF top
          <6> QED BY <1>3, <5>1, FS_AddElement
        <5> QED BY <5>1, <5>2
      <4> QED BY <4>1, <4>2
    <3>3. k + z = 1 + 2 * x
      BY <1>5, <2>2
    <3>4. z \in Nat /\ x \in Nat /\ y \in Nat /\ k + 1 \in Nat
      <4>1. k + 1 \in Nat
        OBVIOUS
      <4>2. x \in Nat /\ y \in Nat
        BY <1>3, <4>1
      <4> QED BY <3>1, <4>1, <4>2
    <3> HIDE DEF z, l, x, y
    <3>5. (k + 1) + l = 1 + 2 * y
      BY <3>2, <3>3, <3>4
    <3>6. Spent(k + 1) /\ k + 1 \in Nat
      BY <3>4, <3>5 DEF l, y
    <3> QED BY <3>6
  <2> QED BY <2>1, <2>2
<1>6. \A k \in Nat : Spent(k)
  <2>1. \A k \in Nat : k \in I
    <3> HIDE DEF I
    <3> QED BY <1>4, <1>5, NatSteps
  <2> QED BY <2>1
<1>7. ASSUME NEW k \in Nat, k > 2 * n PROVE it[k].stack = << >>
  <2> SUFFICES ASSUME it[k].stack # << >> PROVE FALSE
    OBVIOUS
  <2>1. k + Len(it[k].stack) = 1 + 2 * Cardinality(it[k].seen)
    BY <1>6
  <2>2. Len(it[k].stack) \in Nat \ {0}
    BY <1>2, Tallied
  <2> DEFINE z == Len(it[k].stack)
             x == Cardinality(it[k].seen)
  <2>3. z \in Nat \ {0} /\ x \in Nat /\ x <= n /\ k + z = 1 + 2 * x
    BY <1>3, <2>1, <2>2
  <2> HIDE DEF z, x, n
  <2> QED BY <1>1, <1>7, <2>3
<1>8. \A k \in Nat : k > 2 * n => it[k].score = SubgraphScore(d, t)
  <2> DEFINE J == {k \in Nat : k > 2 * n =>
                                   it[k].score = SubgraphScore(d, t)}
  <2>1. 0 \in J
    BY <1>1
  <2>2. ASSUME NEW k \in Nat, k \in J PROVE k + 1 \in J
    <3>1. CASE k > 2 * n
      <4>1. it[k + 1] = it[k]
        BY <1>2, <1>7, <3>1 DEF Tally
      <4> QED BY <2>2, <3>1, <4>1
    <3>2. CASE k = 2 * n
      BY <1>2, <3>2
    <3>3. CASE k < 2 * n
      <4>1. ~(k + 1 > 2 * n)
        BY <1>1, <3>3
      <4> QED BY <4>1
    <3> QED BY <1>1, <3>1, <3>2, <3>3
  <2>3. \A k \in Nat : k \in J
    <3> HIDE DEF J
    <3> QED BY <2>1, <2>2, NatSteps
  <2> QED BY <2>3
<1> QED BY <1>7, <1>8

\* A newcomer is not on the way from what was there before.
LEMMA ScoreStays ==
    ASSUME NEW d, Grown(d), NEW u \in Tx, CanAdd(d, u), NEW t \in d.txs,
           NEW it, Scores(it, d, t)
    PROVE  SubgraphScore(AddTx(d, u), t) = SubgraphScore(d, t)
<1> DEFINE e == AddTx(d, u)
<1>1. Grown(e) /\ e.txs = d.txs \cup {u} /\ u \notin d.txs /\ t \in e.txs
  BY GrownAdd, AddTxType DEF Grown, CanAdd, Conflicts
<1> HIDE DEF e
<1>2. PICK ie : Scores(ie, e, t)
  BY <1>1, ScoresAre
<1>3. u # Root
  BY TransactionsAssumption DEF TransactionsAssumption
<1>4. \A k \in Nat : ie[k] = it[k]
  <2> DEFINE I == {k \in Nat : ie[k] = it[k]}
  <2>1. 0 \in I
    BY <1>2 DEF Scores
  <2>2. ASSUME NEW k \in Nat, k \in I PROVE k + 1 \in I
    <3> DEFINE scan == it[k]
    <3>1. scan \in ScoreType(d) /\ it[k + 1] = Tally(scan, d)
          /\ ie[k + 1] = Tally(scan, e)
      BY <1>2, <2>2 DEF Scores
    <3> HIDE DEF scan
    <3>2. CASE scan.stack = << >>
      BY <3>1, <3>2 DEF Tally
    <3>3. CASE scan.stack # << >>
      <4> DEFINE top == Last(scan.stack)
      <4>1. top \in Item(d.txs \cup {Root})
        BY <3>1, <3>3, Tallied
      <4>2. top.tx \in d.txs <=> top.tx \in e.txs
        BY <1>1, <1>3, <4>1 DEF Item
      <4>3. Skipped(scan, d, top) <=> Skipped(scan, e, top)
        BY <4>2 DEF Skipped
      <4> QED BY <3>1, <4>3 DEF Tally
    <3> QED BY <3>2, <3>3
  <2>3. \A k \in Nat : k \in I
    <3> HIDE DEF I
    <3> QED BY <2>1, <2>2, NatSteps
  <2> QED BY <2>3
<1> DEFINE n == Cardinality(d.txs)
           m == 2 * Cardinality(e.txs) + 1
<1>5. n \in Nat /\ Cardinality(e.txs) = n + 1
  BY <1>1, TxsFinite, FS_AddElement DEF Grown
<1>6. m \in Nat /\ m > 2 * n
  <2> HIDE DEF n
  <2> QED BY <1>5
<1>7. SubgraphScore(e, t) = ie[m].score
  BY <1>2 DEF Scores
<1> HIDE DEF m
<1>8. it[m].score = SubgraphScore(d, t)
  BY <1>6, ScanEnds
<1> QED BY <1>4, <1>6, <1>7, <1>8 DEF e

\* One turn, as what lies on the stack.
LEMMA TalliedItems ==
    ASSUME NEW d, Grown(d), NEW scan \in ScoreType(d), scan.stack # << >>
    PROVE  LET next == Tally(scan, d)
               top == Last(scan.stack)
               new(p) == [tx |-> p, depth |-> top.depth + 1]
           IN  /\ top \in Stacked(scan) /\ top \in Item(d.txs \cup {Root})
               /\ Stacked(scan) \subseteq Stacked(next) \cup {top}
               /\ \/ /\ Skipped(scan, d, top)
                     /\ next.seen = scan.seen /\ next.score = scan.score
                     /\ Stacked(next) \subseteq Stacked(scan)
                  \/ /\ ~Skipped(scan, d, top)
                     /\ next.seen = scan.seen \cup {top.tx}
                     /\ next.score = scan.score + ScoreAt(top.tx, top.depth)
                     /\ \A p \in ParentSet(top.tx) : new(p) \in Stacked(next)
                     /\ \A e \in Stacked(next) \ Stacked(scan) :
                           \E p \in ParentSet(top.tx) : e = new(p)
<1> DEFINE next == Tally(scan, d)
           top == Last(scan.stack)
           n == Len(scan.stack)
           s == scan.stack
           w == next.stack
           a == [tx |-> Parents[top.tx][1], depth |-> top.depth + 1]
           b == [tx |-> Parents[top.tx][2], depth |-> top.depth + 1]
<1>1. /\ top = s[n] /\ top \in Item(d.txs \cup {Root})
      /\ n \in Nat \ {0}
      /\ IF Skipped(scan, d, top) THEN Drops(scan, next)
                                  ELSE Counts(scan, next, top)
  BY Tallied
<1>2. /\ Stacked(scan) = {s[i] : i \in 1 .. n}
      /\ Stacked(next) = {w[i] : i \in 1 .. Len(w)}
  BY DEF Stacked
<1>3. CASE Skipped(scan, d, top)
  <2>1. /\ next.seen = scan.seen /\ next.score = scan.score
        /\ Len(w) = n - 1 /\ \A i \in 1 .. n - 1 : w[i] = s[i]
    BY <1>1, <1>3 DEF Drops
  <2> HIDE DEF next, top, n, s, w
  <2>2. 1 .. n = (1 .. n - 1) \cup {n} /\ n \in 1 .. n
    BY <1>1
  <2>3. Stacked(next) \subseteq Stacked(scan)
        /\ Stacked(scan) \subseteq Stacked(next) \cup {top}
        /\ top \in Stacked(scan)
    BY <1>1, <1>2, <2>1, <2>2
  <2> QED BY <1>1, <1>3, <2>1, <2>3 DEF next, top
<1>4. CASE ~Skipped(scan, d, top)
  <2>1. /\ next.seen = scan.seen \cup {top.tx}
        /\ next.score = scan.score + ScoreAt(top.tx, top.depth)
        /\ Len(w) = n + 1 /\ \A i \in 1 .. n - 1 : w[i] = s[i]
        /\ w[n] = b /\ w[n + 1] = a
    BY <1>1, <1>4 DEF Counts
  <2>2. ParentSet(top.tx) = {Parents[top.tx][1], Parents[top.tx][2]}
    BY DEF ParentSet
  <2>3. \E p \in ParentSet(top.tx) : a = [tx |-> p, depth |-> top.depth + 1]
    BY <2>2
  <2>3a. \E p \in ParentSet(top.tx) : b = [tx |-> p, depth |-> top.depth + 1]
    BY <2>2
  <2>3b. \A p \in ParentSet(top.tx) :
            [tx |-> p, depth |-> top.depth + 1] \in {a, b}
    BY <2>2
  <2> HIDE DEF next, top, n, s, w, a, b
  <2>4. 1 .. n = (1 .. n - 1) \cup {n} /\ n \in 1 .. n
        /\ 1 .. n + 1 = (1 .. n - 1) \cup {n, n + 1}
    BY <1>1
  <2>5. /\ Stacked(next) \subseteq Stacked(scan) \cup {a, b}
        /\ Stacked(scan) \subseteq Stacked(next) \cup {top}
        /\ top \in Stacked(scan) /\ a \in Stacked(next) /\ b \in Stacked(next)
    BY <1>1, <1>2, <2>1, <2>4
  <2>6. \A p \in ParentSet(top.tx) :
           [tx |-> p, depth |-> top.depth + 1] \in Stacked(next)
    BY <2>3b, <2>5
  <2>7. \A e \in Stacked(next) \ Stacked(scan) : \E p \in ParentSet(top.tx) :
           e = [tx |-> p, depth |-> top.depth + 1]
    BY <2>3, <2>3a, <2>5
  <2> QED BY <1>1, <1>4, <2>1, <2>5, <2>6, <2>7 DEF next, top
<1> QED BY <1>3, <1>4

\* The depth of an item is the length of a way to it, so nothing is too deep
\* when the longest way to genesis is not.
LEMMA NothingTooDeep ==
    ASSUME NEW d, Grown(d), NEW t \in d.txs, Height(d, t) <= ScoreDepth,
           NEW it, Scores(it, d, t)
    PROVE  \A k \in Nat : \A e \in Stacked(it[k]) :
               e.tx \in d.txs => e.depth <= ScoreDepth
<1>1. PICK above : Layers(above, d)
  BY LayersAre
<1> DEFINE Ways(scan) == \A e \in Stacked(scan) : \A m \in Nat :
               e.tx \in above[m] => t \in above[m + e.depth]
           I == {k \in Nat : Ways(it[k])}
<1>2. /\ it[0] = ScoreStart(t)
      /\ \A k \in Nat : it[k + 1] = Tally(it[k], d) /\ it[k] \in ScoreType(d)
  BY DEF Scores
<1>3. 0 \in I
  <2>1. Stacked(it[0]) = {[tx |-> t, depth |-> 0]}
    <3>1. it[0].stack = <<[tx |-> t, depth |-> 0]>>
      BY <1>2 DEF ScoreStart
    <3>2. Len(it[0].stack) = 1 /\ it[0].stack[1] = [tx |-> t, depth |-> 0]
      BY <3>1
    <3> QED BY <3>2 DEF Stacked
  <2> QED BY <2>1
<1>4. ASSUME NEW k \in Nat, k \in I PROVE k + 1 \in I
  <2> DEFINE scan == it[k]
             next == it[k + 1]
             top == Last(scan.stack)
  <2>1. Ways(scan) /\ scan \in ScoreType(d) /\ next = Tally(scan, d)
    BY <1>2, <1>4
  <2> SUFFICES Ways(next)
    OBVIOUS
  <2>2. CASE scan.stack = << >>
    BY <2>1, <2>2 DEF Tally
  <2>3. CASE scan.stack # << >>
    <3>1. /\ top \in Stacked(scan) /\ top.depth \in Nat
          /\ \A e \in Stacked(next) \ Stacked(scan) :
                /\ top.tx \in d.txs
                /\ \E p \in ParentSet(top.tx) :
                      e = [tx |-> p, depth |-> top.depth + 1]
      BY <2>1, <2>3, TalliedItems DEF Skipped, Item
    <3> HIDE DEF scan, next, top
    <3> SUFFICES ASSUME NEW e \in Stacked(next), NEW m \in Nat,
                        e.tx \in above[m]
                 PROVE  t \in above[m + e.depth]
      OBVIOUS
    <3>2. CASE e \in Stacked(scan)
      BY <2>1, <3>2
    <3>3. CASE e \notin Stacked(scan)
      <4>1. PICK p \in ParentSet(top.tx) :
               e = [tx |-> p, depth |-> top.depth + 1]
        BY <3>1, <3>3
      <4>2. top.tx \in d.txs
        BY <3>1, <3>3
      <4>3. top.tx \in above[m + 1]
        BY <1>1, <4>1, <4>2 DEF Layers, Names
      <4>4. m + 1 \in Nat /\ (m + 1) + top.depth = m + (top.depth + 1)
        BY <3>1
      <4>5. t \in above[(m + 1) + top.depth]
        BY <2>1, <3>1, <4>3, <4>4
      <4> QED BY <4>1, <4>4, <4>5
    <3> QED BY <3>2, <3>3
  <2> QED BY <2>2, <2>3
<1>5. \A k \in Nat : Ways(it[k])
  <2>1. \A k \in Nat : k \in I
    <3> HIDE DEF I
    <3> QED BY <1>3, <1>4, NatSteps
  <2> QED BY <2>1
<1> SUFFICES ASSUME NEW k \in Nat, NEW e \in Stacked(it[k]), e.tx \in d.txs
             PROVE  e.depth <= ScoreDepth
  OBVIOUS
<1>6. e.depth \in Nat
  <2> DEFINE s == it[k].stack
             B == d.txs \cup {Root}
  <2>1. s \in Seq(Item(B))
    BY <1>2 DEF ScoreType
  <2>2. PICK i \in 1 .. Len(s) : e = s[i]
    BY DEF Stacked
  <2> HIDE DEF s, B
  <2>3. e \in Item(B)
    BY <2>1, <2>2
  <2> QED BY <2>3 DEF Item
<1>7. PICK m \in Nat : e.tx \in above[m]
  BY <1>1, HeightIsTop
<1>8. t \in above[m + e.depth] /\ m + e.depth \in Nat
  BY <1>5, <1>6, <1>7
<1>9. m + e.depth <= Height(d, t) /\ Height(d, t) \in Nat
  BY <1>1, <1>8, HeightIsTop
<1>10. ScoreDepth \in Nat
  BY QueriesAssumption DEF QueriesAssumption
<1> QED BY <1>6, <1>9, <1>10

\* The scan starts with the tip alone on its stack.
LEMMA StackedStart ==
    ASSUME NEW t
    PROVE  Stacked(ScoreStart(t)) = {[tx |-> t, depth |-> 0]}
<1>1. ScoreStart(t).stack = <<[tx |-> t, depth |-> 0]>>
  BY DEF ScoreStart
<1>2. Len(ScoreStart(t).stack) = 1
      /\ ScoreStart(t).stack[1] = [tx |-> t, depth |-> 0]
  BY <1>1
<1> QED BY <1>2 DEF Stacked

\* What is counted in the end holds the tip and, of each of its members, the
\* parents, when nothing is too deep.
LEMMA ScanCloses ==
    ASSUME NEW d, Grown(d), NEW t \in d.txs, Height(d, t) <= ScoreDepth,
           NEW it, Scores(it, d, t)
    PROVE  LET seen == it[2 * Cardinality(d.txs) + 1].seen IN
           t \in seen /\ \A a \in seen : ParentSet(a) \cap d.txs \subseteq seen
<1> DEFINE Known(scan, p) == \/ p \in scan.seen
                            \/ \E e \in Stacked(scan) : e.tx = p
           Open(scan) == /\ Known(scan, t)
                         /\ \A a \in scan.seen :
                               \A p \in ParentSet(a) \cap d.txs : Known(scan, p)
           I == {k \in Nat : Open(it[k])}
<1>1. /\ it[0] = ScoreStart(t)
      /\ \A k \in Nat : it[k + 1] = Tally(it[k], d) /\ it[k] \in ScoreType(d)
  BY DEF Scores
<1>2. 0 \in I
  <2>1. Stacked(it[0]) = {[tx |-> t, depth |-> 0]} /\ it[0].seen = {}
    BY <1>1, StackedStart DEF ScoreStart
  <2>2. Known(it[0], t)
    <3>1. [tx |-> t, depth |-> 0] \in Stacked(it[0])
      BY <2>1
    <3>2. [tx |-> t, depth |-> 0].tx = t
      OBVIOUS
    <3> QED BY <3>1, <3>2
  <2>3. Open(it[0])
    BY <2>1, <2>2
  <2> QED BY <2>3
<1>3. ASSUME NEW k \in Nat, k \in I PROVE k + 1 \in I
  <2> DEFINE scan == it[k]
             next == it[k + 1]
             top == Last(scan.stack)
  <2>1. Open(scan) /\ scan \in ScoreType(d) /\ next = Tally(scan, d)
    BY <1>1, <1>3
  <2> SUFFICES Open(next)
    OBVIOUS
  <2>2. CASE scan.stack = << >>
    BY <2>1, <2>2 DEF Tally
  <2>3. CASE scan.stack # << >>
    <3>0. /\ scan \in ScoreType(d) /\ scan.stack # << >>
          /\ next = Tally(scan, d) /\ top = Last(scan.stack)
      BY <2>1, <2>3
    <3>1. /\ top \in Stacked(scan)
          /\ Stacked(scan) \subseteq Stacked(next) \cup {top}
          /\ \/ Skipped(scan, d, top) /\ next.seen = scan.seen
             \/ /\ ~Skipped(scan, d, top)
                /\ next.seen = scan.seen \cup {top.tx}
                /\ \A p \in ParentSet(top.tx) :
                      [tx |-> p, depth |-> top.depth + 1] \in Stacked(next)
      <4> HIDE DEF scan, next, top, Open
      <4> QED BY <3>0, TalliedItems
    <3>2. top.tx \in d.txs => top.depth <= ScoreDepth
      BY <3>1, NothingTooDeep
    <3>3. top.tx \in d.txs => top.tx \in next.seen
      <4>1. top.depth > ScoreDepth => ~(top.depth <= ScoreDepth)
        <5>1. top.depth \in Nat /\ ScoreDepth \in Nat
          BY <2>1, <2>3, Tallied, QueriesAssumption DEF Item, QueriesAssumption
        <5> HIDE DEF top
        <5> QED BY <5>1
      <4> QED BY <3>1, <3>2, <4>1 DEF Skipped
    <3> HIDE DEF scan, next, top
    <3>4. \A p \in d.txs : Known(scan, p) => Known(next, p)
      BY <3>1, <3>3
    <3>5. ASSUME NEW a \in next.seen, NEW p \in ParentSet(a) \cap d.txs
          PROVE  Known(next, p)
      <4>1. CASE a \in scan.seen
        BY <2>1, <3>4, <4>1
      <4>2. CASE a \notin scan.seen
        <5>1. /\ a = top.tx
              /\ [tx |-> p, depth |-> top.depth + 1] \in Stacked(next)
          BY <3>1, <4>2
        <5> QED BY <5>1
      <4> QED BY <4>1, <4>2
    <3> QED BY <2>1, <3>4, <3>5
  <2> QED BY <2>2, <2>3
<1>4. \A k \in Nat : Open(it[k])
  <2>1. \A k \in Nat : k \in I
    <3> HIDE DEF I
    <3> QED BY <1>2, <1>3, NatSteps
  <2> QED BY <2>1
<1> DEFINE n == Cardinality(d.txs)
           l == 2 * n + 1
<1>5. l \in Nat /\ l > 2 * n
  <2>1. n \in Nat
    BY TxsFinite DEF Grown
  <2> HIDE DEF n
  <2> QED BY <2>1
<1>6. Stacked(it[l]) = {}
  <2>1. it[l].stack = << >>
    <3> HIDE DEF l
    <3> QED BY <1>5, ScanEnds
  <2> HIDE DEF l
  <2> QED BY <2>1 DEF Stacked
<1>7. Open(it[l])
  <2> HIDE DEF l, Open
  <2> QED BY <1>4, <1>5
<1> QED BY <1>6, <1>7

\* Nothing is counted outside a set that holds the tip and the parents of its
\* members.
LEMMA ScanInside ==
    ASSUME NEW d, Grown(d), NEW t \in d.txs, NEW it, Scores(it, d, t),
           NEW C, t \in C, \A a \in C : ParentSet(a) \cap d.txs \subseteq C
    PROVE  \A k \in Nat : it[k].seen \subseteq C
<1> DEFINE Inside(scan) ==
               /\ scan.seen \subseteq C
               /\ \A e \in Stacked(scan) : e.tx \in d.txs => e.tx \in C
           I == {k \in Nat : Inside(it[k])}
<1>1. /\ it[0] = ScoreStart(t)
      /\ \A k \in Nat : it[k + 1] = Tally(it[k], d) /\ it[k] \in ScoreType(d)
  BY DEF Scores
<1>2. 0 \in I
  <2>1. Stacked(it[0]) = {[tx |-> t, depth |-> 0]} /\ it[0].seen = {}
    BY <1>1, StackedStart DEF ScoreStart
  <2> QED BY <2>1
<1>3. ASSUME NEW k \in Nat, k \in I PROVE k + 1 \in I
  <2> DEFINE scan == it[k]
             next == it[k + 1]
             top == Last(scan.stack)
  <2>1. Inside(scan) /\ scan \in ScoreType(d) /\ next = Tally(scan, d)
    BY <1>1, <1>3
  <2> SUFFICES Inside(next)
    OBVIOUS
  <2>2. CASE scan.stack = << >>
    BY <2>1, <2>2 DEF Tally
  <2>3. CASE scan.stack # << >>
    <3>0. /\ scan \in ScoreType(d) /\ scan.stack # << >>
          /\ next = Tally(scan, d) /\ top = Last(scan.stack)
      BY <2>1, <2>3
    <3>1. /\ top \in Stacked(scan)
          /\ \/ next.seen = scan.seen
             \/ top.tx \in d.txs /\ next.seen = scan.seen \cup {top.tx}
          /\ \A e \in Stacked(next) \ Stacked(scan) :
                /\ top.tx \in d.txs
                /\ \E p \in ParentSet(top.tx) :
                      e = [tx |-> p, depth |-> top.depth + 1]
      <4> HIDE DEF scan, next, top, Inside
      <4>1. ~Skipped(scan, d, top) => top.tx \in d.txs
        BY DEF Skipped
      <4> QED BY <3>0, <4>1, TalliedItems
    <3> HIDE DEF scan, next, top
    <3>2. top.tx \in d.txs => top.tx \in C
      BY <2>1, <3>1
    <3>3. ASSUME NEW e \in Stacked(next), e.tx \in d.txs PROVE e.tx \in C
      <4>1. CASE e \in Stacked(scan)
        BY <2>1, <3>3, <4>1
      <4>2. CASE e \notin Stacked(scan)
        <5>1. /\ top.tx \in d.txs
              /\ \E p \in ParentSet(top.tx) :
                    e = [tx |-> p, depth |-> top.depth + 1]
          BY <3>1, <4>2
        <5>2. e.tx \in ParentSet(top.tx) \cap d.txs
          BY <3>3, <5>1
        <5> QED BY <3>2, <5>1, <5>2
      <4> QED BY <4>1, <4>2
    <3> QED BY <2>1, <3>1, <3>2, <3>3
  <2> QED BY <2>2, <2>3
<1>4. \A k \in Nat : k \in I
  <2> HIDE DEF I
  <2> QED BY <1>2, <1>3, NatSteps
<1> QED BY <1>4

\* What the members of S are worth together.
WorthOf(S) == SumFunctionOnSet([t \in Tx |-> Worth(t)], S)

\* A score counts each transaction for its worth and at most half as much
\* again.
LEMMA ScanWeighs ==
    ASSUME NEW d, Grown(d), NEW t \in d.txs, NEW it, Scores(it, d, t),
           NEW k \in Nat
    PROVE  /\ WorthOf(it[k].seen) \in Nat /\ it[k].score \in Nat
           /\ WorthOf(it[k].seen) * (2 * ScoreDepth) <= it[k].score
           /\ it[k].score <= WorthOf(it[k].seen) * (3 * ScoreDepth)
<1> DEFINE f == [a \in Tx |-> Worth(a)]
           two == 2 * ScoreDepth
           three == 3 * ScoreDepth
           Weighed(scan) == /\ WorthOf(scan.seen) * two <= scan.score
                            /\ scan.score <= WorthOf(scan.seen) * three
           I == {j \in Nat : Weighed(it[j])}
<1>1. /\ it[0] = ScoreStart(t)
      /\ \A j \in Nat : it[j + 1] = Tally(it[j], d) /\ it[j] \in ScoreType(d)
  BY DEF Scores
<1>2. \A S \in SUBSET d.txs : IsFiniteSet(S) /\ WorthOf(S) \in Nat
  <2>1. TAKE S \in SUBSET d.txs
  <2>2. IsFiniteSet(S) /\ S \subseteq Tx
    BY TxsFinite, FS_Subset DEF Grown, DagType
  <2>3. \A x \in S : f[x] \in Nat
    <3>1. 0 \in Nat /\ \A x \in Tx : Worth(x) \in Nat
      BY ScoreAtIs
    <3> QED BY <2>2, <3>1
  <2> HIDE DEF f
  <2>4. SumFunctionOnSet(f, S) \in Nat
    BY <2>2, <2>3, SumNat
  <2> QED BY <2>2, <2>4 DEF WorthOf, f
<1>3. \A j \in Nat : it[j].seen \in SUBSET d.txs /\ it[j].score \in Nat
  BY <1>1 DEF ScoreType
<1>4. two \in Nat /\ three \in Nat
  BY QueriesAssumption DEF QueriesAssumption
<1>5. 0 \in I
  <2>1. it[0].seen = {} /\ it[0].score = 0
    BY <1>1 DEF ScoreStart
  <2>2. WorthOf({}) = 0
    BY SumEmpty DEF WorthOf
  <2> HIDE DEF two, three
  <2>3. 0 * two = 0 /\ 0 * three = 0
    BY <1>4
  <2> QED BY <2>1, <2>2, <2>3
<1>6. ASSUME NEW j \in Nat, j \in I PROVE j + 1 \in I
  <2> DEFINE scan == it[j]
             next == it[j + 1]
             top == Last(scan.stack)
  <2>1. Weighed(scan) /\ scan \in ScoreType(d) /\ next = Tally(scan, d)
    BY <1>1, <1>6
  <2> SUFFICES Weighed(next)
    OBVIOUS
  <2>2. CASE scan.stack = << >>
    BY <2>1, <2>2 DEF Tally
  <2>3. CASE scan.stack # << >>
    <3>0. /\ scan \in ScoreType(d) /\ scan.stack # << >>
          /\ next = Tally(scan, d) /\ top = Last(scan.stack)
      BY <2>1, <2>3
    <3>1. /\ top \in Item(d.txs \cup {Root})
          /\ \/ next.seen = scan.seen /\ next.score = scan.score
             \/ /\ ~Skipped(scan, d, top)
                /\ next.seen = scan.seen \cup {top.tx}
                /\ next.score = scan.score + ScoreAt(top.tx, top.depth)
      <4> HIDE DEF scan, next, top, Weighed
      <4> QED BY <3>0, TalliedItems
    <3>2. CASE next.seen = scan.seen /\ next.score = scan.score
      BY <2>1, <3>2
    <3>3. CASE /\ ~Skipped(scan, d, top)
               /\ next.seen = scan.seen \cup {top.tx}
               /\ next.score = scan.score + ScoreAt(top.tx, top.depth)
      <4> DEFINE x == top.tx
                 a == ScoreAt(x, top.depth)
                 w == Worth(x)
                 v == WorthOf(scan.seen)
                 c == scan.score
      <4>1. /\ x \in d.txs /\ x \in Tx /\ x \notin scan.seen
            /\ top.depth \in Nat /\ ~(top.depth > ScoreDepth)
        BY <3>1, <3>3 DEF Skipped, Item, Grown, DagType
      <4>2. top.depth <= ScoreDepth
        <5>1. ScoreDepth \in Nat
          BY QueriesAssumption DEF QueriesAssumption
        <5> HIDE DEF top
        <5> QED BY <4>1, <5>1
      <4>3. w \in Nat /\ a \in Nat /\ w * two <= a /\ a <= w * three
        <5> HIDE DEF top
        <5> QED BY <4>1, <4>2, ScoreAtIs
      <4>4. WorthOf(next.seen) = w + v
        <5>1. scan.seen \subseteq Tx /\ IsFiniteSet(scan.seen)
          BY <1>2, <1>3 DEF Grown, DagType
        <5>2. \A y \in scan.seen \cup {x} : f[y] \in Nat
          BY <4>1, <5>1, ScoreAtIs
        <5>3. f[x] = w
          BY <4>1
        <5> HIDE DEF f, x, scan, w
        <5>4. SumFunctionOnSet(f, scan.seen \cup {x})
                 = f[x] + SumFunctionOnSet(f, scan.seen)
          BY <4>1, <5>1, <5>2, SumAdd
        <5> QED BY <3>3, <5>3, <5>4 DEF WorthOf, f, x
      <4>5. v \in Nat /\ c \in Nat /\ v * two <= c /\ c <= v * three
            /\ next.score = c + a
        BY <1>2, <1>3, <2>1, <3>3
      <4> HIDE DEF x, a, w, v, c, two, three, next
      <4>6. (w + v) * two = w * two + v * two
            /\ (w + v) * three = w * three + v * three
        BY <1>4, <4>3, <4>5
      <4>7. /\ w * two \in Nat /\ v * two \in Nat
            /\ w * three \in Nat /\ v * three \in Nat
        BY <1>4, <4>3, <4>5
      <4>8. (w + v) * two <= c + a /\ c + a <= (w + v) * three
        BY <4>3, <4>5, <4>6, <4>7
      <4> QED BY <4>4, <4>5, <4>8
    <3> QED BY <3>1, <3>2, <3>3
  <2> QED BY <2>2, <2>3
<1>7. \A j \in Nat : j \in I
  <2> HIDE DEF I
  <2> QED BY <1>5, <1>6, NatSteps
<1> QED BY <1>2, <1>3, <1>7

\* The DAG after an insertion: the newcomer is a tip, its parents are none.
LEMMA NewcomerIs ==
    ASSUME NEW d, Grown(d), NEW u \in Tx, CanAdd(d, u)
    PROVE  LET e == AddTx(d, u) IN
           /\ Grown(e) /\ e.txs = d.txs \cup {u} /\ u \notin d.txs
           /\ u \in e.tips /\ e.tips \ {u} \subseteq d.tips
           /\ d.tips \ ParentSet(u) \subseteq e.tips
           /\ d.tips \subseteq d.txs /\ e.tips \subseteq e.txs
<1> DEFINE e == AddTx(d, u)
<1>1. Grown(e) /\ e.txs = d.txs \cup {u} /\ u \notin d.txs
  BY GrownAdd, AddTxType DEF Grown, CanAdd, Conflicts
<1>2. e.tips = (d.tips \cup {u}) \ ParentSet(u)
  BY DEF AddTx
<1>3. u \notin ParentSet(u)
  BY HashAssumption DEF HashAssumption, ParentSet
<1>4. d.tips \subseteq d.txs /\ e.tips \subseteq e.txs
  <2> HIDE DEF e
  <2> QED BY <1>1 DEF Grown, Formed, TipsAreChildless
<1> QED BY <1>1, <1>2, <1>3, <1>4

\* What is counted below a parent is counted below the newcomer, at two thirds
\* of its score at the least.
LEMMA TwoThirdsOf ==
    ASSUME NEW d, Grown(d), NEW u \in Tx, CanAdd(d, u),
           NEW c \in ParentSet(u) \cap d.txs,
           Height(AddTx(d, u), u) <= ScoreDepth
    PROVE  2 * SubgraphScore(d, c) <= 3 * SubgraphScore(AddTx(d, u), u)
<1> DEFINE e == AddTx(d, u)
           n == 2 * Cardinality(e.txs) + 1
<1>1. Grown(e) /\ e.txs = d.txs \cup {u}
  BY NewcomerIs
<1>2. Height(e, u) <= ScoreDepth
  OBVIOUS
<1>3. PICK ic : Scores(ic, d, c)
  BY ScoresAre
<1>4. SubgraphScore(e, c) = SubgraphScore(d, c)
  BY <1>3, ScoreStays
<1> HIDE DEF e
<1>5. PICK iu : Scores(iu, e, u)
  BY <1>1, ScoresAre
<1>6. PICK jc : Scores(jc, e, c)
  BY <1>1, ScoresAre
<1>7. n \in Nat
  <2>1. Cardinality(e.txs) \in Nat
    BY <1>1, TxsFinite DEF Grown
  <2> QED BY <2>1
<1>8. /\ SubgraphScore(e, u) = iu[n].score /\ SubgraphScore(e, c) = jc[n].score
      /\ iu[n] \in ScoreType(e)
  BY <1>5, <1>6, <1>7 DEF Scores
<1> DEFINE C == iu[n].seen
<1>9. u \in C /\ \A a \in C : ParentSet(a) \cap e.txs \subseteq C
  BY <1>1, <1>2, <1>5, ScanCloses
<1> HIDE DEF n
<1>10. C \subseteq e.txs
  BY <1>8 DEF ScoreType
<1>11. c \in C /\ c \in e.txs
  BY <1>1, <1>9
<1>12. jc[n].seen \subseteq C
  <2> HIDE DEF C
  <2> QED BY <1>1, <1>6, <1>7, <1>9, <1>11, ScanInside
<1>13. /\ WorthOf(C) \in Nat /\ iu[n].score \in Nat
       /\ WorthOf(C) * (2 * ScoreDepth) <= iu[n].score
  BY <1>1, <1>5, <1>7, ScanWeighs
<1>14. /\ WorthOf(jc[n].seen) \in Nat /\ jc[n].score \in Nat
       /\ jc[n].score <= WorthOf(jc[n].seen) * (3 * ScoreDepth)
  BY <1>1, <1>6, <1>7, <1>11, ScanWeighs
<1>15. WorthOf(jc[n].seen) <= WorthOf(C)
  <2> DEFINE f == [a \in Tx |-> Worth(a)]
             S == jc[n].seen
  <2>1. IsFiniteSet(C) /\ \A x \in C : f[x] \in Nat
    <3>1. C \subseteq Tx /\ IsFiniteSet(e.txs)
      BY <1>1, <1>10, TxsFinite DEF Grown, DagType
    <3>2. 0 \in Nat /\ \A x \in Tx : Worth(x) \in Nat
      BY ScoreAtIs
    <3> HIDE DEF C
    <3> QED BY <1>10, <3>1, <3>2, FS_Subset
  <2>2. S \in SUBSET C
    BY <1>12
  <2> HIDE DEF f, C, S
  <2>3. SumFunctionOnSet(f, S) <= SumFunctionOnSet(f, C)
    BY <2>1, <2>2, SumSubset
  <2> QED BY <2>3 DEF WorthOf, f, S
<1> DEFINE x == WorthOf(jc[n].seen)
           y == WorthOf(C)
           p == jc[n].score
           q == iu[n].score
<1>16. /\ x \in Nat /\ y \in Nat /\ p \in Nat /\ q \in Nat /\ x <= y
       /\ p <= x * (3 * ScoreDepth) /\ y * (2 * ScoreDepth) <= q
       /\ ScoreDepth \in Nat
  BY <1>13, <1>14, <1>15, QueriesAssumption DEF QueriesAssumption
<1> HIDE DEF x, y, p, q
<1>17. ScoreDepth * x <= ScoreDepth * y /\ ScoreDepth * x \in Nat
       /\ ScoreDepth * y \in Nat
  BY <1>16, TimesGrows
<1>18. x * (3 * ScoreDepth) = 3 * (ScoreDepth * x)
       /\ y * (2 * ScoreDepth) = 2 * (ScoreDepth * y)
  BY <1>16
<1>19. 2 * p <= 3 * q
  <2> DEFINE v == ScoreDepth * x
             w == ScoreDepth * y
  <2>1. p <= 3 * v /\ 2 * w <= q /\ v <= w /\ v \in Nat /\ w \in Nat
    BY <1>16, <1>17, <1>18
  <2> HIDE DEF v, w
  <2> QED BY <1>16, <2>1
<1> QED BY <1>4, <1>8, <1>19 DEF p, q, e

\* No turn takes anything off the score.
LEMMA TallyAdds ==
    ASSUME NEW d, Grown(d), NEW scan \in ScoreType(d)
    PROVE  /\ scan.score <= Tally(scan, d).score
           /\ scan.score \in Nat /\ Tally(scan, d).score \in Nat
<1> DEFINE next == Tally(scan, d)
           top == Last(scan.stack)
<1>1. scan.score \in Nat
  BY DEF ScoreType
<1>2. CASE scan.stack = << >>
  BY <1>1, <1>2 DEF Tally
<1>3. CASE scan.stack # << >>
  <2>1. \/ next.score = scan.score
        \/ /\ ~Skipped(scan, d, top) /\ top \in Item(d.txs \cup {Root})
           /\ next.score = scan.score + ScoreAt(top.tx, top.depth)
    BY <1>3, TalliedItems
  <2>2. ~Skipped(scan, d, top) /\ top \in Item(d.txs \cup {Root})
            => ScoreAt(top.tx, top.depth) \in Nat
    BY ScoreAtIs DEF Skipped, Item, Grown, DagType
  <2> HIDE DEF next, top
  <2>3. scan.score <= next.score /\ next.score \in Nat
    BY <1>1, <2>1, <2>2
  <2> QED BY <1>1, <2>3 DEF next
<1> QED BY <1>2, <1>3

\* From its first parent on the newcomer's scan repeats that parent's, one
\* deeper, before it comes to the second.
Follows(scan, lead, u) ==
    /\ lead.score <= scan.score
    /\ lead.stack # << >> =>
           /\ scan.seen = lead.seen \cup {u}
           /\ Len(scan.stack) = Len(lead.stack) + 1
           /\ \A i \in 1 .. Len(lead.stack) :
                 /\ scan.stack[i + 1].tx = lead.stack[i].tx
                 /\ scan.stack[i + 1].depth = lead.stack[i].depth + 1

LEMMA FollowStep ==
    ASSUME NEW d, Grown(d), NEW e, Grown(e), NEW u \in Tx, u \notin d.txs,
           e.txs = d.txs \cup {u},
           NEW lead \in ScoreType(d), NEW scan \in ScoreType(e),
           \A a \in Stacked(scan) : a.tx \in e.txs => a.depth <= ScoreDepth,
           Follows(scan, lead, u)
    PROVE  Follows(Tally(scan, e), Tally(lead, d), u)
<1> DEFINE next == Tally(scan, e)
           ahead == Tally(lead, d)
           top == Last(scan.stack)
           first == Last(lead.stack)
           z == Len(lead.stack)
<1> SUFFICES Follows(next, ahead, u)
  OBVIOUS
<1>1. scan.score \in Nat /\ lead.score \in Nat /\ lead.score <= scan.score
  BY DEF ScoreType, Follows
<1>2. CASE lead.stack = << >>
  <2>1. ahead = lead
    BY <1>2 DEF Tally
  <2>2. scan.score <= next.score /\ next.score \in Nat
    BY TallyAdds
  <2> HIDE DEF next, ahead
  <2> QED BY <1>1, <1>2, <2>1, <2>2 DEF Follows
<1>3. CASE lead.stack # << >>
  <2>1. /\ scan.seen = lead.seen \cup {u} /\ Len(scan.stack) = z + 1
        /\ \A i \in 1 .. z :
              /\ scan.stack[i + 1].tx = lead.stack[i].tx
              /\ scan.stack[i + 1].depth = lead.stack[i].depth + 1
    BY <1>3 DEF Follows
  <2>2. /\ first = lead.stack[z] /\ first \in Item(d.txs \cup {Root})
        /\ z \in Nat \ {0}
        /\ IF Skipped(lead, d, first) THEN Drops(lead, ahead)
                                      ELSE Counts(lead, ahead, first)
    BY <1>3, Tallied
  <2>3. scan.stack # << >>
    <3>1. Len(<< >>) = 0 /\ z + 1 # 0
      BY <2>2
    <3> QED BY <2>1, <3>1
  <2>4. /\ top = scan.stack[z + 1]
        /\ IF Skipped(scan, e, top) THEN Drops(scan, next)
                                    ELSE Counts(scan, next, top)
    BY <2>1, <2>3, Tallied
  <2>5. top \in Stacked(scan)
    BY <2>3, TalliedItems
  <2>6. top.tx = first.tx /\ top.depth = first.depth + 1
        /\ first.depth \in Nat /\ first.tx \in d.txs \cup {Root}
    <3>1. z \in 1 .. z
      BY <2>2
    <3> QED BY <2>1, <2>2, <2>4, <3>1 DEF Item
  <2>7. Skipped(scan, e, top) <=> Skipped(lead, d, first)
    <3>1. first.tx # u
      BY <2>6, TransactionsAssumption DEF TransactionsAssumption
    <3>2. /\ top.tx \in scan.seen <=> first.tx \in lead.seen
          /\ top.tx \in e.txs <=> first.tx \in d.txs
      BY <2>1, <2>6, <3>1
    <3>3. first.tx \in d.txs => ~(top.depth > ScoreDepth)
                                /\ ~(first.depth > ScoreDepth)
      <4>1. ScoreDepth \in Nat
        BY QueriesAssumption DEF QueriesAssumption
      <4>2. first.tx \in d.txs => top.depth <= ScoreDepth
        BY <2>5, <3>2
      <4> HIDE DEF top, first
      <4> QED BY <2>6, <4>1, <4>2
    <3> QED BY <3>2, <3>3 DEF Skipped
  <2> HIDE DEF next, ahead, top, first, z
  <2>8. CASE Skipped(lead, d, first)
    <3>1. /\ next.seen = scan.seen /\ next.score = scan.score
          /\ Len(next.stack) = z
          /\ \A i \in 1 .. z : next.stack[i] = scan.stack[i]
      <4>1. (z + 1) - 1 = z
        BY <2>2
      <4> QED BY <2>1, <2>4, <2>7, <2>8, <4>1 DEF Drops
    <3>2. /\ ahead.seen = lead.seen /\ ahead.score = lead.score
          /\ Len(ahead.stack) = z - 1
          /\ \A i \in 1 .. z - 1 : ahead.stack[i] = lead.stack[i]
      BY <2>2, <2>8 DEF Drops, z
    <3>3. ASSUME NEW i \in 1 .. z - 1
          PROVE  /\ next.stack[i + 1].tx = ahead.stack[i].tx
                 /\ next.stack[i + 1].depth = ahead.stack[i].depth + 1
      <4>1. i + 1 \in 1 .. z /\ i \in 1 .. z
        BY <2>2
      <4> QED BY <2>1, <3>1, <3>2, <4>1
    <3>4. Len(next.stack) = Len(ahead.stack) + 1
      BY <2>2, <3>1, <3>2
    <3> QED BY <1>1, <2>1, <3>1, <3>2, <3>3, <3>4 DEF Follows
  <2>9. CASE ~Skipped(lead, d, first)
    <3> DEFINE a == Parents[first.tx][1]
               b == Parents[first.tx][2]
    <3>1. /\ next.seen = scan.seen \cup {first.tx}
          /\ next.score = scan.score + ScoreAt(first.tx, first.depth + 1)
          /\ Len(next.stack) = z + 2
          /\ \A i \in 1 .. z : next.stack[i] = scan.stack[i]
          /\ next.stack[z + 1] = [tx |-> b, depth |-> (first.depth + 1) + 1]
          /\ next.stack[z + 2] = [tx |-> a, depth |-> (first.depth + 1) + 1]
      <4>1. (z + 1) - 1 = z /\ (z + 1) + 1 = z + 2
        BY <2>2
      <4>2. Counts(scan, next, top)
        BY <2>4, <2>7, <2>9
      <4> QED BY <2>1, <2>6, <4>1, <4>2 DEF Counts
    <3>2. /\ ahead.seen = lead.seen \cup {first.tx}
          /\ ahead.score = lead.score + ScoreAt(first.tx, first.depth)
          /\ Len(ahead.stack) = z + 1
          /\ \A i \in 1 .. z - 1 : ahead.stack[i] = lead.stack[i]
          /\ ahead.stack[z] = [tx |-> b, depth |-> first.depth + 1]
          /\ ahead.stack[z + 1] = [tx |-> a, depth |-> first.depth + 1]
      BY <2>2, <2>9 DEF Counts, z
    <3>3. /\ ScoreAt(first.tx, first.depth) \in Nat
          /\ ScoreAt(first.tx, first.depth + 1) \in Nat
          /\ ScoreAt(first.tx, first.depth)
                 <= ScoreAt(first.tx, first.depth + 1)
      <4>1. first.tx \in Tx
        BY <2>9 DEF Skipped, Grown, DagType
      <4>2. first.depth + 1 \in Nat
        BY <2>6
      <4> QED BY <2>6, <4>1, <4>2, ScoreAtIs
    <3>4. ahead.score <= next.score
      BY <1>1, <3>1, <3>2, <3>3
    <3> HIDE DEF a, b
    <3>5. ASSUME NEW i \in 1 .. z + 1
          PROVE  /\ next.stack[i + 1].tx = ahead.stack[i].tx
                 /\ next.stack[i + 1].depth = ahead.stack[i].depth + 1
      <4>1. CASE i \in 1 .. z - 1
        <5>1. i + 1 \in 1 .. z /\ i \in 1 .. z
          BY <2>2, <4>1
        <5> QED BY <2>1, <3>1, <3>2, <4>1, <5>1
      <4>2. CASE i = z
        BY <3>1, <3>2, <4>2
      <4>3. CASE i = z + 1
        <5>1. i + 1 = z + 2
          BY <2>2, <4>3
        <5> QED BY <3>1, <3>2, <4>3, <5>1
      <4> QED BY <2>2, <4>1, <4>2, <4>3
    <3>6. Len(next.stack) = Len(ahead.stack) + 1
      BY <2>2, <3>1, <3>2
    <3>7. next.seen = ahead.seen \cup {u}
      BY <2>1, <3>1, <3>2
    <3> QED BY <3>2, <3>4, <3>5, <3>6, <3>7 DEF Follows
  <2> QED BY <2>8, <2>9
<1> QED BY <1>2, <1>3

\* On its first parent a newcomer has at least that parent's score.
LEMMA FirstOutscored ==
    ASSUME NEW d, Grown(d), NEW u \in Tx, CanAdd(d, u),
           Parents[u][1] \in d.txs,
           Height(AddTx(d, u), u) <= ScoreDepth
    PROVE  SubgraphScore(d, Parents[u][1]) <= SubgraphScore(AddTx(d, u), u)
<1> DEFINE e == AddTx(d, u)
           c == Parents[u][1]
           n == 2 * Cardinality(d.txs) + 1
<1>1. Grown(e) /\ e.txs = d.txs \cup {u} /\ u \notin d.txs
  BY NewcomerIs
<1>2. Height(e, u) <= ScoreDepth /\ c \in d.txs
  OBVIOUS
<1> HIDE DEF e
<1>3. PICK lead : Scores(lead, d, c)
  BY <1>2, ScoresAre
<1>4. PICK scan : Scores(scan, e, u)
  BY <1>1, ScoresAre
<1>5. /\ lead[0] = ScoreStart(c)
      /\ \A k \in Nat : lead[k + 1] = Tally(lead[k], d)
                        /\ lead[k] \in ScoreType(d)
  BY <1>3 DEF Scores
<1>6. /\ scan[0] = ScoreStart(u)
      /\ \A k \in Nat : scan[k + 1] = Tally(scan[k], e)
                        /\ scan[k] \in ScoreType(e)
  BY <1>4 DEF Scores
<1>7. \A k \in Nat : \A a \in Stacked(scan[k]) :
          a.tx \in e.txs => a.depth <= ScoreDepth
  BY <1>1, <1>2, <1>4, NothingTooDeep
<1> DEFINE I == {k \in Nat : Follows(scan[k + 1], lead[k], u)}
<1>8. 0 \in I
  <2> DEFINE start == scan[0]
             next == scan[1]
             top == Last(start.stack)
             b == Parents[u][2]
  <2>1. start.seen = {} /\ start.score = 0
        /\ start.stack = <<[tx |-> u, depth |-> 0]>>
    BY <1>6 DEF ScoreStart
  <2>2. /\ start.stack # << >> /\ Len(start.stack) = 1
        /\ start.stack[1] = [tx |-> u, depth |-> 0]
    BY <2>1
  <2>3. next = Tally(start, e) /\ start \in ScoreType(e)
        /\ next \in ScoreType(e)
    <3>1. 0 \in Nat /\ 1 \in Nat /\ 0 + 1 = 1
      OBVIOUS
    <3> QED BY <1>6, <3>1
  <2> HIDE DEF start, next, top
  <2>4. /\ Last(start.stack) = start.stack[Len(start.stack)]
        /\ IF Skipped(start, e, Last(start.stack)) THEN Drops(start, next)
              ELSE Counts(start, next, Last(start.stack))
    BY <1>1, <2>2, <2>3, Tallied
  <2>5. Last(start.stack) = [tx |-> u, depth |-> 0]
    BY <2>2, <2>4
  <2>6. ~Skipped(start, e, [tx |-> u, depth |-> 0])
    <3>1. ScoreDepth \in Nat
      BY QueriesAssumption DEF QueriesAssumption
    <3>2. ~(0 > ScoreDepth)
      BY <3>1
    <3> QED BY <1>1, <2>1, <3>2 DEF Skipped
  <2>7. Counts(start, next, [tx |-> u, depth |-> 0])
    BY <2>4, <2>5, <2>6
  <2>8. /\ next.seen = {u} /\ Len(next.stack) = 2
        /\ next.stack[2] = [tx |-> c, depth |-> 1]
    BY <2>1, <2>2, <2>7 DEF Counts
  <2>9. /\ lead[0].seen = {} /\ lead[0].score = 0
        /\ lead[0].stack = <<[tx |-> c, depth |-> 0]>>
    BY <1>5 DEF ScoreStart
  <2>10. Len(lead[0].stack) = 1
         /\ lead[0].stack[1] = [tx |-> c, depth |-> 0]
    BY <2>9
  <2>11. next.score \in Nat
    BY <2>3 DEF ScoreType
  <2> HIDE DEF c
  <2>12. Follows(next, lead[0], u)
    BY <2>8, <2>9, <2>10, <2>11 DEF Follows
  <2> QED BY <2>12 DEF next
<1>9. ASSUME NEW k \in Nat, k \in I PROVE k + 1 \in I
  <2>1. /\ Follows(scan[k + 1], lead[k], u)
        /\ k + 1 \in Nat
    BY <1>9
  <2>2. Follows(Tally(scan[k + 1], e), Tally(lead[k], d), u)
    <3> HIDE DEF I
    <3> QED BY <1>1, <1>5, <1>6, <1>7, <2>1, FollowStep
  <2>3. Follows(scan[(k + 1) + 1], lead[k + 1], u)
    BY <1>5, <1>6, <2>1, <2>2
  <2> QED BY <2>1, <2>3
<1>10. \A k \in Nat : Follows(scan[k + 1], lead[k], u)
  <2>1. \A k \in Nat : k \in I
    <3> HIDE DEF I
    <3> QED BY <1>8, <1>9, NatSteps
  <2> QED BY <2>1
<1>11. /\ Cardinality(d.txs) \in Nat
       /\ Cardinality(e.txs) = Cardinality(d.txs) + 1
  BY <1>1, TxsFinite, FS_AddElement DEF Grown
<1>12. SubgraphScore(d, c) <= scan[n + 1].score /\ n \in Nat
  <2>1. n \in Nat
    BY <1>11
  <2>2. SubgraphScore(d, c) = lead[n].score
    BY <1>3 DEF Scores
  <2> HIDE DEF n
  <2> QED BY <1>10, <2>1, <2>2 DEF Follows
\* The rest of the newcomer's scan only adds to its score.
<1>13. \A k \in Nat : scan[k].score <= scan[k + 1].score
                      /\ scan[k].score \in Nat
  BY <1>1, <1>6, TallyAdds
<1>14. n + 1 \in Nat /\ n + 2 \in Nat /\ (n + 1) + 1 = n + 2
       /\ 2 * Cardinality(e.txs) + 1 = n + 2
  BY <1>11
<1>15. SubgraphScore(e, u) = scan[n + 2].score
  BY <1>4, <1>14 DEF Scores
<1>16. SubgraphScore(d, c) \in Nat
  <2>1. SubgraphScore(d, c) = lead[n].score
    BY <1>3 DEF Scores
  <2> HIDE DEF n
  <2> QED BY <1>5, <1>12, <2>1 DEF ScoreType
<1>17. /\ scan[n + 1].score <= scan[n + 2].score
       /\ scan[n + 1].score \in Nat /\ scan[n + 2].score \in Nat
  BY <1>13, <1>14
<1> HIDE DEF n, c
<1>18. SubgraphScore(d, c) <= SubgraphScore(e, u)
  BY <1>12, <1>15, <1>16, <1>17
<1> QED BY <1>18 DEF e, c

LEMMA ScoreNat ==
    ASSUME NEW d, Grown(d), NEW t \in d.txs
    PROVE  SubgraphScore(d, t) \in Nat
<1> DEFINE n == 2 * Cardinality(d.txs) + 1
<1>1. PICK it : Scores(it, d, t)
  BY ScoresAre
<1>2. n \in Nat
  <2>1. Cardinality(d.txs) \in Nat
    BY TxsFinite DEF Grown
  <2> QED BY <2>1
<1>3. SubgraphScore(d, t) = it[n].score
  BY <1>1 DEF Scores
<1> HIDE DEF n
<1>4. it[n] \in ScoreType(d)
  BY <1>1, <1>2 DEF Scores
<1> QED BY <1>3, <1>4 DEF ScoreType

\* Where a tip has a score, one has the highest.
LEMMA BestTip ==
    ASSUME NEW d, Grown(d), NEW v \in d.tips, SubgraphScore(d, v) > 0
    PROVE  \E t \in CanonicalTips(d) :
               SubgraphScore(d, v) <= SubgraphScore(d, t)
<1> DEFINE f == [a \in d.tips |-> SubgraphScore(d, a)]
           n == SumFunctionOnSet(f, d.tips)
           S == {k \in 1 .. n : \E a \in d.tips : k = f[a]}
<1>1. d.tips \subseteq d.txs /\ IsFiniteSet(d.tips)
  <2>1. d.tips \subseteq d.txs
    BY DEF Grown, Formed, TipsAreChildless
  <2> QED BY <2>1, TxsFinite, FS_Subset DEF Grown
<1>2. \A a \in d.tips : f[a] \in Nat /\ f[a] = SubgraphScore(d, a)
  BY <1>1, ScoreNat
<1> HIDE DEF f
<1>3. n \in Nat /\ \A a \in d.tips : f[a] <= n
  <2>1. n \in Nat
    BY <1>1, <1>2, SumNat
  <2>2. ASSUME NEW a \in d.tips PROVE f[a] <= n
    <3>1. IsFiniteSet({a}) /\ {a} \in SUBSET d.tips
      BY <1>1, FS_Subset
    <3>2. SumFunctionOnSet(f, {a}) <= n
      BY <1>1, <1>2, <3>1, SumSubset
    <3>3. SumFunctionOnSet(f, {a}) = f[a]
      <4>1. a \in {a} /\ f[a] \in Nat /\ \A y \in {a} \ {a} : f[y] = 0
        BY <1>2
      <4> QED BY <3>1, <4>1, SumSingle
    <3> QED BY <3>2, <3>3
  <2> QED BY <2>1, <2>2
<1> HIDE DEF n
<1>4. \A a \in d.tips : f[a] > 0 => f[a] \in S
  BY <1>2, <1>3
<1>5. f[v] \in S
  BY <1>2, <1>4
<1>6. PICK m \in S : \A k \in S : k <= m
  <2>1. S \in SUBSET (1 .. n) /\ S # {}
    BY <1>5
  <2> HIDE DEF S
  <2> QED BY <1>3, <2>1, NatMax
<1>7. PICK t \in d.tips : m = f[t] /\ m \in Nat /\ m > 0
  BY <1>3, <1>6
<1>8. ASSUME NEW a \in d.tips PROVE f[a] <= f[t]
  <2>1. CASE f[a] > 0
    BY <1>4, <1>6, <1>7, <2>1
  <2>2. CASE ~(f[a] > 0)
    BY <1>2, <1>7, <2>2
  <2> QED BY <2>1, <2>2
<1>9. t \in CanonicalTips(d)
  BY <1>2, <1>7, <1>8 DEF CanonicalTips
<1> QED BY <1>2, <1>8, <1>9

\* What an insertion does to the canonical tips.
LEMMA CanonicalStays ==
    ASSUME NEW d, Grown(d), NEW u \in Tx, CanAdd(d, u),
           Height(AddTx(d, u), u) <= ScoreDepth
    PROVE  LET e == AddTx(d, u) IN
           /\ (\E c \in CanonicalTips(d) :
                   c = Parents[u][2] => c = Parents[u][1]) =>
                  CanonicalTips(e) \cap d.txs \subseteq CanonicalTips(d)
           /\ \A c \in CanonicalTips(d) : \E t \in CanonicalTips(e) :
                  2 * SubgraphScore(d, c) <= 3 * SubgraphScore(e, t)
<1> DEFINE e == AddTx(d, u)
<1>1. /\ Grown(e) /\ e.txs = d.txs \cup {u} /\ u \notin d.txs
      /\ u \in e.tips /\ e.tips \ {u} \subseteq d.tips
      /\ d.tips \ ParentSet(u) \subseteq e.tips
      /\ d.tips \subseteq d.txs /\ e.tips \subseteq e.txs
  BY NewcomerIs
<1>2. \A t \in d.txs : SubgraphScore(e, t) = SubgraphScore(d, t)
  BY ScoresAre, ScoreStays
<1>3. /\ \A t \in d.txs : SubgraphScore(d, t) \in Nat
      /\ \A t \in e.txs : SubgraphScore(e, t) \in Nat
  BY <1>1, ScoreNat
<1>4. Parents[u][1] \in d.txs =>
          SubgraphScore(d, Parents[u][1]) <= SubgraphScore(e, u)
  BY FirstOutscored
<1>5. \A c \in ParentSet(u) \cap d.txs :
          2 * SubgraphScore(d, c) <= 3 * SubgraphScore(e, u)
  BY TwoThirdsOf
<1>6. ParentSet(u) = {Parents[u][1], Parents[u][2]}
  BY DEF ParentSet
<1> HIDE DEF e
<1>7. ASSUME NEW c \in CanonicalTips(d),
             c = Parents[u][2] => c = Parents[u][1],
             NEW t \in CanonicalTips(e), t \in d.txs
      PROVE  t \in CanonicalTips(d)
  <2>1. /\ c \in d.tips /\ c \in d.txs
        /\ \A v \in d.tips : SubgraphScore(d, v) <= SubgraphScore(d, c)
    BY <1>1 DEF CanonicalTips
  <2>2. /\ t \in e.tips /\ t \in d.tips /\ SubgraphScore(e, t) > 0
        /\ \A v \in e.tips : SubgraphScore(e, v) <= SubgraphScore(e, t)
    BY <1>1, <1>7 DEF CanonicalTips
  <2>3. SubgraphScore(d, c) <= SubgraphScore(d, t)
    <3>1. CASE c \in e.tips
      BY <1>2, <1>7, <2>1, <2>2, <3>1
    <3>2. CASE c \notin e.tips
      <4>1. c = Parents[u][1]
        BY <1>1, <1>6, <1>7, <2>1, <3>2
      <4>2. SubgraphScore(d, c) <= SubgraphScore(e, u)
        BY <1>4, <2>1, <4>1
      <4>3. SubgraphScore(e, u) <= SubgraphScore(d, t)
        BY <1>1, <1>2, <1>7, <2>2
      <4>4. /\ SubgraphScore(d, c) \in Nat /\ SubgraphScore(d, t) \in Nat
            /\ SubgraphScore(e, u) \in Nat
        BY <1>1, <1>3, <1>7, <2>1
      <4> QED BY <4>2, <4>3, <4>4
    <3> QED BY <3>1, <3>2
  <2>4. ASSUME NEW v \in d.tips
        PROVE  SubgraphScore(d, v) <= SubgraphScore(d, t)
    <3>1. SubgraphScore(d, v) <= SubgraphScore(d, c)
      BY <2>1
    <3>2. /\ SubgraphScore(d, v) \in Nat /\ SubgraphScore(d, c) \in Nat
          /\ SubgraphScore(d, t) \in Nat
      BY <1>1, <1>3, <1>7, <2>1
    <3> QED BY <2>3, <3>1, <3>2
  <2> QED BY <1>2, <1>7, <2>2, <2>4 DEF CanonicalTips
<1>8. ASSUME NEW c \in CanonicalTips(d)
      PROVE  \E t \in CanonicalTips(e) :
                 2 * SubgraphScore(d, c) <= 3 * SubgraphScore(e, t)
  <2>1. c \in d.tips /\ c \in d.txs /\ SubgraphScore(d, c) > 0
    BY <1>1 DEF CanonicalTips
  <2>2. PICK v \in e.tips : 2 * SubgraphScore(d, c) <= 3 * SubgraphScore(e, v)
    <3>1. CASE c \in e.tips
      <4>1. SubgraphScore(e, c) = SubgraphScore(d, c)
            /\ SubgraphScore(d, c) \in Nat
        BY <1>2, <1>3, <2>1
      <4>2. 2 * SubgraphScore(d, c) <= 3 * SubgraphScore(e, c)
        BY <4>1
      <4> QED BY <3>1, <4>2
    <3>2. CASE c \notin e.tips
      <4>1. c \in ParentSet(u)
        BY <1>1, <2>1, <3>2
      <4> QED BY <1>1, <1>5, <2>1, <4>1
    <3> QED BY <3>1, <3>2
  <2> DEFINE x == SubgraphScore(d, c)
             y == SubgraphScore(e, v)
  <2>3. x \in Nat /\ y \in Nat /\ x > 0 /\ 2 * x <= 3 * y
    BY <1>1, <1>3, <2>1, <2>2
  <2>4. y > 0
    <3> HIDE DEF x, y
    <3> QED BY <2>3
  <2>5. PICK t \in CanonicalTips(e) : y <= SubgraphScore(e, t)
    BY <1>1, <2>4, BestTip
  <2> DEFINE z == SubgraphScore(e, t)
  <2>6. z \in Nat /\ y <= z
    BY <1>1, <1>3, <2>5 DEF CanonicalTips
  <2>7. 2 * x <= 3 * z
    <3> HIDE DEF x, y, z
    <3> QED BY <2>3, <2>6
  <2> QED BY <2>7
<1> QED BY <1>7, <1>8 DEF e

\* Whichever transaction is inserted, what has been finalized, confirmed or
\* stable stays so, no cumulative weight shrinks, and what
\* select_canonical_subgraph answers gives way to nothing that was there unless
\* the newcomer names that tip second, and then to two thirds of its score.
THEOREM AnswersCorrect == GrowthSpec => AnswersStable
<1>1. ASSUME Grown(dag), [GrowthNext]_dag
      PROVE  [AnswersKept /\ CanonicalKept]_dag
  <2>1. CASE UNCHANGED dag
    BY <2>1
  <2>2. ASSUME NEW u \in Tx, Insert(u) PROVE AnswersKept /\ CanonicalKept
    <3>1. Grown(dag) /\ CanAdd(dag, u) /\ dag' = AddTx(dag, u)
      BY <1>1, <2>2 DEF Insert
    <3>2. dag'.txs \ dag.txs = {u}
      BY <3>1, NewcomerIs
    <3>3. CanonicalKept
      <4> SUFFICES ASSUME NEW w \in dag'.txs \ dag.txs,
                          Height(dag', w) <= ScoreDepth
                   PROVE  /\ (\E c \in CanonicalTips(dag) :
                                  c = Parents[w][2] => c = Parents[w][1]) =>
                                 CanonicalTips(dag') \cap dag.txs
                                     \subseteq CanonicalTips(dag)
                          /\ \A c \in CanonicalTips(dag) :
                                \E t \in CanonicalTips(dag') :
                                   2 * SubgraphScore(dag, c)
                                       <= 3 * SubgraphScore(dag', t)
        BY DEF CanonicalKept
      <4>1. w \in Tx /\ CanAdd(dag, w) /\ dag' = AddTx(dag, w)
        BY <3>1, <3>2
      <4>2. Height(AddTx(dag, w), w) <= ScoreDepth
        BY <4>1
      <4>3. LET e == AddTx(dag, w) IN
            /\ (\E c \in CanonicalTips(dag) :
                    c = Parents[w][2] => c = Parents[w][1]) =>
                   CanonicalTips(e) \cap dag.txs \subseteq CanonicalTips(dag)
            /\ \A c \in CanonicalTips(dag) : \E t \in CanonicalTips(e) :
                   2 * SubgraphScore(dag, c) <= 3 * SubgraphScore(e, t)
        BY <3>1, <4>1, <4>2, CanonicalStays
      <4> QED BY <4>1, <4>3
    <3>4. AnswersKept
      BY <1>1, <2>2, InsertKeeps
    <3> QED BY <3>3, <3>4
  <2> QED BY <1>1, <2>1, <2>2 DEF GrowthNext
<1> QED BY <1>1, GrowthGrows, PTL DEF GrowthSpec, AnswersStable
=============================================================================
