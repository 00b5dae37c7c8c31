------------------------------- MODULE Growth -------------------------------
(***************************************************************************)
(* A DAG that grows one validated transaction at a time, in any order the  *)
(* parents allow, and what the queries of DagQueries must answer on it.    *)
(***************************************************************************)
EXTENDS DagQueries

CONSTANT NeededConfirmations    \* where the finality probability is enough

GrowthAssumption == NeededConfirmations \in Nat \ {0}

ASSUME GrowthAssumption

VARIABLE dag

GrowthInit == dag = EmptyDag

Insert(t) ==
    /\ CanAdd(dag, t)
    /\ dag' = AddTx(dag, t)

GrowthNext == \E t \in Tx : Insert(t)

GrowthSpec == GrowthInit /\ [][GrowthNext]_dag

-----------------------------------------------------------------------------
\* The length of the longest way from t to genesis.
Height(d, t) ==
    LET above[k \in Nat] ==
            LET below == IF k = 0 THEN {Root} ELSE above[k - 1] IN
            {u \in d.txs : ParentSet(u) \cap below # {}}
    IN  CHOOSE k \in 0 .. Cardinality(d.txs) :
            t \in above[k] /\ \A j \in 0 .. Cardinality(d.txs) :
                                  t \in above[j] => j <= k

\* get_ancestors marks what it has met at any depth, so it may overlook what a
\* shorter way would have reached; but it always has the parents, never
\* anything that is not an ancestor, and everything once the limit is not
\* below the longest way to genesis.  The double-spend check rests on it.
AncestorsFound ==
    \A t \in dag.txs :
        LET found == GetAncestors(dag, t, AncestryDepth) IN
        /\ ParentSet(t) \subseteq found
        /\ t \notin found /\ \A a \in found : ReachableFrom(dag, t, a)
        /\ Height(dag, t) < AncestryDepth => found = Ancestry(dag, t)

\* The parents that the random walk proposes exist, differ, come from two
\* senders, and were not used before (parent_selection.rs:306): the DAG takes
\* a new transaction there.  Only the fallback to genesis escapes that check,
\* and then only from a transaction that is no tip, where the walk gave up.
\* The parents faucet() picks among the tips were never used either.
SelectionUsable ==
    /\ \A pair \in SelectParents(dag) :
          LET p == pair[1] q == pair[2] IN
          /\ {p, q} \subseteq dag.txs \cup {Root}
          /\ dag.tips # {} => p # q /\ p # Root
          /\ q # Root => Sender[p] # Sender[q]
          /\ (q # Root \/ p \in dag.tips) => ~PairUsed(dag, pair)
    /\ \A pair \in FaucetParents(dag) : dag.txs # {} => ~PairUsed(dag, pair)

\* consensus.rs:409 says "number of descendants", but one that names two of
\* them counts twice: the count lies between that number and its double, and
\* is never short of it.
ConfirmationsBound ==
    \A t \in dag.txs :
        LET below == CumulativeWeight(dag, t) - 1
            count == CountConfirmations(dag, t)
        IN  below <= count /\ count <= 2 * below

\* What an insertion leaves of the answers before it.
AnswersKept ==
    \A t \in dag.txs :
        /\ IsFinalizedAdaptive(dag, t, NeededConfirmations) =>
               IsFinalizedAdaptive(dag', t, NeededConfirmations)
        /\ ConsensusStatus(dag, t) # "unconfirmed" =>
               ConsensusStatus(dag', t) = ConsensusStatus(dag, t)
        /\ CumulativeWeight(dag, t) <= CumulativeWeight(dag', t)

\* A newcomer on a canonical tip takes over from it where that is the first
\* parent, which it then counts at greater depth throughout.  Below the second
\* it passes over what it has met above, perhaps at less depth and for less
\* (consensus.rs:331), so that a rival may win; but one with two thirds of it.
CanonicalKept ==
    \A u \in dag'.txs \ dag.txs :
        Height(dag', u) <= ScoreDepth =>
            /\ (\E c \in CanonicalTips(dag) :
                    c = Parents[u][2] => c = Parents[u][1]) =>
                   CanonicalTips(dag') \cap dag.txs \subseteq CanonicalTips(dag)
            /\ \A c \in CanonicalTips(dag) : \E t \in CanonicalTips(dag') :
                   2 * SubgraphScore(dag, c) <= 3 * SubgraphScore(dag', t)

\* Growth never takes back an answer: what is finalized, stable or confirmed
\* stays so, and no cumulative weight shrinks.  The canonical subgraph does not
\* fall back to another that was there before, unless the newcomer names its
\* tip second.
AnswersStable == [][AnswersKept /\ CanonicalKept]_dag
=============================================================================
