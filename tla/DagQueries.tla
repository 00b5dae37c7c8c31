----------------------------- MODULE DagQueries -----------------------------
(***************************************************************************)
(* What the node and the library read off a DAG: cumulative weights, the   *)
(* choice of parents by random walk (src/parent_selection.rs), tips and    *)
(* statuses (src/rpc.rs), scores and confirmations (src/consensus.rs).     *)
(* A random choice is the set of its possible outcomes.                    *)
(***************************************************************************)
EXTENDS Dag, FiniteSets, FiniteSetsExt, Sequences, SequencesExt

CONSTANTS
    WalkDepth,          \* steps of a random walk (10)
    AncestryDepth,      \* depth of the double-spend check (10)
    MinConfirmations,   \* references that confirm a transaction (3)
    StabilityThreshold, \* weight that makes it stable (5.0)
    ScoreDepth,         \* compute_subgraph_score's max_depth (1000)
    Weight,             \* Weight[t]: the weight field of a transaction
    SenderReputation    \* reputation of an address, or 1 for the default 0.5

QueriesAssumption ==
    /\ WalkDepth \in Nat \ {0}
    /\ AncestryDepth \in Nat \ {0}
    /\ MinConfirmations \in Nat \ {0}
    /\ StabilityThreshold \in Nat
    /\ ScoreDepth \in Nat \ {0}
    /\ Weight \in [Tx -> Nat]
    /\ SenderReputation \in [Addr -> Nat]

ASSUME QueriesAssumption

-----------------------------------------------------------------------------
(* Descendants and ancestors.                                              *)

\* What the children map reaches from t, t included.
Descendants(d, t) ==
    LET reach[k \in Nat] ==
            IF k = 0 THEN {t}
            ELSE LET S == reach[k - 1] IN
                 S \cup {u \in d.txs : ParentSet(u) \cap S # {}}
    IN  reach[Cardinality(d.txs)]

\* calculate_cumulative_weight: t and all that builds on it, each once.
CumulativeWeight(d, t) == Cardinality(Descendants(d, t))

\* All the ancestors of t, however deep, genesis included.
Ancestry(d, t) ==
    LET reach[k \in Nat] ==
            IF k = 0 THEN {t}
            ELSE LET S == reach[k - 1] IN
                 S \cup UNION {ParentSet(u) : u \in S \cap d.txs}
    IN  reach[Cardinality(d.txs) + 1] \ {t}

\* A transaction not found before is found and pushed.
Meet(scan, t, depth) ==
    IF t \in scan.found THEN scan
    ELSE [found |-> scan.found \cup {t},
          stack |-> Append(scan.stack, [tx |-> t, depth |-> depth])]

\* Mutant: the second parent is not looked at.
VisitFirst(scan, top) ==
    Meet(scan, Parents[top.tx][1], top.depth + 1)

\* One parent after the other.
Visit(scan, top) ==
    Meet(Meet(scan, Parents[top.tx][1], top.depth + 1),
         Parents[top.tx][2], top.depth + 1)

\* get_ancestors: depth first with a mark per transaction, so what lies behind
\* one that was first reached by a longer way may be cut off.
GetAncestors(d, t, maxDepth) ==
    LET pop(scan) == [scan EXCEPT !.stack = Front(@)]
        scanned[k \in Nat] ==
            IF k = 0
            THEN [found |-> {}, stack |-> <<[tx |-> t, depth |-> 0]>>]
            ELSE LET scan == scanned[k - 1] IN
                 IF scan.stack = << >> THEN scan
                 ELSE LET top == Last(scan.stack) IN
                      IF top.depth >= maxDepth \/ top.tx \notin d.txs
                      THEN pop(scan)
                      ELSE Visit(pop(scan), top)
    IN  scanned[Cardinality(d.txs) + 2].found

\* is_reachable_from, along the parents.
ReachableFrom(d, from, to) == to = from \/ to \in Ancestry(d, from)

-----------------------------------------------------------------------------
(* ParentSelectionAlgorithm.                                               *)

\* random_walk: from genesis to a child at each step, every child being
\* possible, until there is none or the steps are used up.
WalkEnds(d) ==
    LET at[k \in Nat] ==
            IF k = 0 THEN {Root}
            ELSE UNION {IF Children(d, p) = {} THEN {p} ELSE Children(d, p) :
                            p \in at[k - 1]}
    IN  at[WalkDepth]

\* Mutant: the senders of the two themselves are not compared.
DoubleSpendAbove(d, t, u) ==
    /\ {t, u} \subseteq d.txs
    /\ \E v \in GetAncestors(d, t, AncestryDepth) \cap d.txs,
          w \in GetAncestors(d, u, AncestryDepth) \cap d.txs :
              Sender[v] = Sender[w]

\* check_double_spend_conflict: a sender in common, be it of one and the same
\* ancestor.
DoubleSpendConflict(d, t, u) ==
    /\ {t, u} \subseteq d.txs
    /\ \/ Sender[t] = Sender[u]
       \/ \E v \in GetAncestors(d, t, AncestryDepth) \cap d.txs,
             w \in GetAncestors(d, u, AncestryDepth) \cap d.txs :
                 Sender[v] = Sender[w]

PairUsed(d, pair) == \E u \in d.txs : Parents[u] = pair

\* The second parents that an attempt accepts after the first.
SecondParents(d, p) ==
    {q \in WalkEnds(d) \ {p} :
        ~PairUsed(d, <<p, q>>) /\ ~DoubleSpendConflict(d, p, q)}

\* select_parents: when ten attempts find no second parent it is genesis.
SelectParents(d) ==
    IF d.tips = {} THEN {<<Root, Root>>}
    ELSE UNION {{<<p, q>> : q \in SecondParents(d, p) \cup {Root}} :
                    p \in WalkEnds(d)}

\* get_random_tips.
RandomTips(d, n) ==
    IF d.tips = {} THEN {{Root}}
    ELSE {S \in SUBSET d.tips :
             Cardinality(S) = IF Cardinality(d.tips) < n
                                   THEN Cardinality(d.tips) ELSE n}

\* get_tips_with_selector: random tips when all of them are over a minute old.
SelectedTips(d) ==
    {{pair[1], pair[2]} : pair \in SelectParents(d)} \cup RandomTips(d, 2)

-----------------------------------------------------------------------------
(* What the RPC server answers.                                            *)

\* get_tips of the RPC server, from the children map.
ReportedTips(d) ==
    LET childless == {t \in d.txs : Children(d, t) = {}} IN
    IF childless = {} THEN {Root} ELSE childless

\* The parents faucet() gives its payment: two of the tips, or genesis.
FaucetParents(d) ==
    LET tips == ReportedTips(d) IN
    IF Cardinality(tips) = 1
    THEN {<<CHOOSE t \in tips : TRUE, Root>>}
    ELSE {pair \in tips \X tips : pair[1] # pair[2]}

\* Two for a transaction that names the same parent twice.
Slots(u, S) == Cardinality({i \in 1 .. 2 : Parents[u][i] \in S})

\* children().len(): a child that names t twice is counted twice.
ReferenceCount(d, t) == SumFunction([u \in d.txs |-> Slots(u, {t})])

\* Mutant: the exact number of references.
ConsensusStatusExact(d, t) ==
    IF Weight[t] >= StabilityThreshold THEN "stable"
    ELSE IF ReferenceCount(d, t) = MinConfirmations THEN "confirmed"
    ELSE "unconfirmed"

\* determine_transaction_status for a transaction of the DAG.
ConsensusStatus(d, t) ==
    IF Weight[t] >= StabilityThreshold THEN "stable"
    ELSE IF ReferenceCount(d, t) >= MinConfirmations THEN "confirmed"
    ELSE "unconfirmed"

\* determine_transaction_status and reconcile_single: what one node reports.
ReconcileSingle(d, pending, t) ==
    IF t \in pending THEN "pending"
    ELSE IF t \in d.txs THEN ConsensusStatus(d, t)
    ELSE "unknown"

-----------------------------------------------------------------------------
(* Scores and confirmations of src/consensus.rs.                           *)

\* Mutant: the children of t alone.
CountChildren(d, t) == Cardinality(Children(d, t))

\* count_confirmations: every edge among the descendants is counted, so one
\* that builds on two of them counts twice.
CountConfirmations(d, t) ==
    LET below == Descendants(d, t) IN
    SumFunction([u \in below \ {t} |-> Slots(u, below)])

\* is_finalized_adaptive: 1 - exp(-2 * confirmations / volatility) reaches the
\* threshold from a certain number of confirmations on.
IsFinalizedAdaptive(d, t, needed) == CountConfirmations(d, t) >= needed

\* What a transaction adds to a score, in units of 1 / (2 * ScoreDepth).
ScoreAt(t, depth) ==
    Weight[t] * SenderReputation[Sender[t]] * (2 * ScoreDepth + depth)

\* The parents of t, the first one on top.
Below(t, depth) == <<[tx |-> Parents[t][2], depth |-> depth + 1],
                     [tx |-> Parents[t][1], depth |-> depth + 1]>>

\* compute_subgraph_score: depth first, each transaction once, at the depth
\* where it is first met.
SubgraphScore(d, tip) ==
    LET scanned[k \in Nat] ==
            IF k = 0
            THEN [seen |-> {}, score |-> 0,
                  stack |-> <<[tx |-> tip, depth |-> 0]>>]
            ELSE LET scan == scanned[k - 1] IN
                 IF scan.stack = << >> THEN scan
                 ELSE LET top == Last(scan.stack)
                          rest == Front(scan.stack) IN
                      IF top.tx \in scan.seen \/ top.tx \notin d.txs
                            \/ top.depth > ScoreDepth
                      THEN [scan EXCEPT !.stack = rest]
                      ELSE [seen  |-> scan.seen \cup {top.tx},
                            score |-> scan.score + ScoreAt(top.tx, top.depth),
                            stack |-> rest \o Below(top.tx, top.depth)]
    IN  scanned[2 * Cardinality(d.txs) + 1].score

\* select_canonical_subgraph: a tip of the highest score, if that is not zero.
\* (Of more than a hundred tips it looks at a random hundred.)
CanonicalTips(d) ==
    {t \in d.tips : /\ SubgraphScore(d, t) > 0
                    /\ \A u \in d.tips :
                          SubgraphScore(d, u) <= SubgraphScore(d, t)}
=============================================================================
