------------------------------ MODULE DagFacts ------------------------------
(***************************************************************************)
(* What the DAG's operations preserve and what is read off a DAG, for any  *)
(* transactions.                                                           *)
(***************************************************************************)
EXTENDS DagQueries, Facts

-----------------------------------------------------------------------------
(* What add_transaction_validated preserves.                               *)

\* The shape of a DAG.
Formed(d) ==
    /\ ParentClosed(d)
    /\ NonceUnique(d)
    /\ ParentPairUnique(d)
    /\ TipsAreChildless(d)

LEMMA ParentsType ==
    ASSUME NEW t \in Tx
    PROVE  ParentSet(t) \subseteq Tx \cup {Root}
BY TransactionsAssumption DEF TransactionsAssumption, ParentSet

LEMMA AddTxType ==
    ASSUME NEW d \in DagType, NEW t \in Tx
    PROVE  AddTx(d, t) \in DagType /\ AddTx(d, t).txs = d.txs \cup {t}
BY DEF DagType, AddTx

LEMMA EmptyFormed == EmptyDag \in DagType /\ Formed(EmptyDag)
BY DEF EmptyDag, DagType, Formed, ParentClosed, NonceUnique, ParentPairUnique,
   TipsAreChildless, Children

\* A transaction the DAG does not refuse keeps its shape: in particular the
\* explicit tips stay the childless transactions.
LEMMA AddTxFormed ==
    ASSUME NEW d \in DagType, NEW t \in Tx, Formed(d), CanAdd(d, t)
    PROVE  Formed(AddTx(d, t))
<1> DEFINE e == AddTx(d, t)
<1>1. e.txs = d.txs \cup {t} /\ e.tips = (d.tips \cup {t}) \ ParentSet(t)
  BY DEF AddTx
<1>2. d.txs \subseteq Tx /\ d.tips \subseteq Tx
  BY DEF DagType
<1> HIDE DEF e
<1>3. ParentClosed(e)
  BY <1>1 DEF ParentClosed, HasParents, CanAdd, Formed
<1>4. NonceUnique(e)
  BY <1>1 DEF NonceUnique, CanAdd, Conflicts, SenderConflict, Formed
<1>5. ParentPairUnique(e)
  BY <1>1 DEF ParentPairUnique, CanAdd, Conflicts, ParentsUsed, Formed, IsRoot,
     ParentSet
<1>6. TipsAreChildless(e)
  <2>1. t \notin d.txs
    BY DEF CanAdd, Conflicts
  <2>2. t \notin ParentSet(t)
    BY HashAssumption DEF HashAssumption, ParentSet
  <2>3. \A u \in d.txs : t \notin ParentSet(u)
    <3>1. t # Root
      BY TransactionsAssumption DEF TransactionsAssumption
    <3> QED BY <2>1, <3>1 DEF Formed, ParentClosed, HasParents
  <2>4. d.tips = {u \in d.txs : \A v \in d.txs : u \notin ParentSet(v)}
    BY DEF Formed, TipsAreChildless, Children
  <2>5. e.tips = {u \in e.txs : \A v \in e.txs : u \notin ParentSet(v)}
    BY <1>1, <2>1, <2>2, <2>3, <2>4
  <2> QED BY <2>5 DEF TipsAreChildless, Children
<1> QED BY <1>3, <1>4, <1>5, <1>6 DEF Formed, e

\* Following parents ends: no transaction is its own ancestor.
Grounded(S) ==
    \A U \in SUBSET S : U # {} => \E t \in U : ParentSet(t) \cap U = {}

Closed(S) == \A t \in S : ParentSet(t) \subseteq S \cup {Root}

LEMMA GroundedAdd ==
    ASSUME NEW S \in SUBSET Tx, Closed(S), Grounded(S),
           NEW t \in Tx, ParentSet(t) \subseteq S \cup {Root}
    PROVE  Closed(S \cup {t}) /\ Grounded(S \cup {t})
<1>1. Closed(S \cup {t})
  BY DEF Closed
<1>2. CASE t \in S
  <2>1. S \cup {t} = S
    BY <1>2
  <2> QED BY <2>1
<1>3. CASE t \notin S
  <2>1. t # Root /\ t \notin ParentSet(t)
    BY TransactionsAssumption, HashAssumption
    DEF TransactionsAssumption, HashAssumption, ParentSet
  <2>2. ASSUME NEW U \in SUBSET (S \cup {t}), U # {}
        PROVE  \E u \in U : ParentSet(u) \cap U = {}
    <3>1. CASE U \ {t} = {}
      BY <2>1, <2>2, <3>1
    <3>2. CASE U \ {t} # {}
      <4>1. PICK u \in U \ {t} : ParentSet(u) \cap (U \ {t}) = {}
        BY <3>2 DEF Grounded
      <4>2. t \notin ParentSet(u)
        BY <1>3, <2>1, <4>1 DEF Closed
      <4> QED BY <4>1, <4>2
    <3> QED BY <3>1, <3>2
  <2> QED BY <1>1, <2>2 DEF Grounded
<1> QED BY <1>2, <1>3

LEMMA GroundedUnion ==
    ASSUME NEW S, NEW T, Closed(S), Closed(T), Grounded(S), Grounded(T),
           Root \notin S \cup T
    PROVE  Closed(S \cup T) /\ Grounded(S \cup T)
<1>1. Closed(S \cup T)
  BY DEF Closed
<1>2. ASSUME NEW U \in SUBSET (S \cup T), U # {}
      PROVE  \E u \in U : ParentSet(u) \cap U = {}
  <2>1. CASE U \cap S = {}
    <3>1. U \in SUBSET T
      BY <2>1
    <3> QED BY <1>2, <3>1 DEF Grounded
  <2>2. CASE U \cap S # {}
    <3>1. PICK u \in U \cap S : ParentSet(u) \cap (U \cap S) = {}
      BY <2>2 DEF Grounded
    <3>2. ParentSet(u) \subseteq S \cup {Root}
      BY DEF Closed
    <3> QED BY <3>1, <3>2
  <2> QED BY <2>1, <2>2
<1> QED BY <1>1, <1>2 DEF Grounded

-----------------------------------------------------------------------------
(* A DAG that has grown has no cycle: parents came before their children.  *)
\* rank numbers the transactions so that parents have the smaller numbers.
Ranking(rank, d) ==
    /\ rank \in [d.txs -> 1 .. Cardinality(d.txs)]
    /\ \A t \in d.txs : \A p \in ParentSet(t) \cap d.txs : rank[p] < rank[t]

Grown(d) == d \in DagType /\ Formed(d) /\ \E rank : Ranking(rank, d)

LEMMA TxsFinite ==
    ASSUME NEW d \in DagType
    PROVE  IsFiniteSet(d.txs) /\ Cardinality(d.txs) \in Nat
BY FiniteAssumption, FS_Subset, FS_CardinalityType DEF FiniteAssumption, DagType

LEMMA GrownEmpty == Grown(EmptyDag)
<1> DEFINE rank == [t \in {} |-> 1]
<1>1. Ranking(rank, EmptyDag)
  BY DEF EmptyDag, Ranking
<1> QED BY <1>1, EmptyFormed DEF Grown

LEMMA GrownAdd ==
    ASSUME NEW d, Grown(d), NEW t \in Tx, CanAdd(d, t)
    PROVE  Grown(AddTx(d, t))
<1> DEFINE e == AddTx(d, t)
           n == Cardinality(d.txs)
<1>1. PICK rank : Ranking(rank, d)
  BY DEF Grown
<1>2. /\ e \in DagType /\ e.txs = d.txs \cup {t} /\ Formed(e)
      /\ d \in DagType /\ t \notin d.txs /\ t # Root
  BY AddTxType, AddTxFormed, TransactionsAssumption
  DEF Grown, CanAdd, Conflicts, TransactionsAssumption
<1>3. n \in Nat /\ Cardinality(e.txs) = n + 1
  BY <1>2, TxsFinite, FS_AddElement
<1> DEFINE r == [u \in e.txs |-> IF u = t THEN n + 1 ELSE rank[u]]
<1>4. r \in [e.txs -> 1 .. n + 1]
  <2>1. \A u \in d.txs : rank[u] \in 1 .. n
    BY <1>1 DEF Ranking
  <2> HIDE DEF n
  <2> QED BY <1>2, <1>3, <2>1
<1>5. ASSUME NEW u \in e.txs, NEW p \in ParentSet(u) \cap e.txs
      PROVE  r[p] < r[u]
  <2>1. CASE u = t
    <3>1. p \in d.txs
      BY <1>2, <2>1, HashAssumption DEF HashAssumption, ParentSet
    <3>2. rank[p] \in 1 .. n /\ r[p] = rank[p] /\ r[u] = n + 1
      BY <1>1, <1>2, <2>1, <3>1 DEF Ranking
    <3> HIDE DEF r, n
    <3> QED BY <1>3, <3>2
  <2>2. CASE u # t
    <3>1. u \in d.txs /\ p \in d.txs
      BY <1>2, <2>2 DEF Formed, ParentClosed, HasParents, Grown
    <3> QED BY <1>1, <1>2, <3>1 DEF Ranking
  <2> QED BY <2>1, <2>2
<1> HIDE DEF r, e, n
<1>6. Ranking(r, e)
  BY <1>3, <1>4, <1>5 DEF Ranking
<1> QED BY <1>2, <1>6 DEF Grown, e

\* Some transaction has genesis for its only parent, and some has no child.
LEMMA FirstAndLast ==
    ASSUME NEW d, Grown(d), d.txs # {}
    PROVE  /\ Children(d, Root) # {}
           /\ \E t \in d.txs : Children(d, t) = {}
<1>1. PICK rank : Ranking(rank, d)
  BY DEF Grown
<1> DEFINE n == Cardinality(d.txs)
           Low == {rank[t] : t \in d.txs}
           High == {n - rank[t] : t \in d.txs}
<1>2. n \in Nat /\ \A t \in d.txs : rank[t] \in 1 .. n
  BY <1>1, TxsFinite DEF Ranking, Grown
<1> HIDE DEF n
<1>3. Low \subseteq Nat /\ Low # {} /\ High \subseteq Nat /\ High # {}
  BY <1>2
<1>4. PICK t \in d.txs : \A u \in d.txs : rank[t] <= rank[u]
  <2>1. PICK m \in Low : \A l \in Low : m <= l
    <3> HIDE DEF Low
    <3> QED BY <1>3, NatMin
  <2> QED BY <2>1
<1>5. ParentSet(t) \cap d.txs = {}
  <2> SUFFICES ASSUME NEW p \in ParentSet(t) \cap d.txs PROVE FALSE
    OBVIOUS
  <2>1. rank[p] < rank[t] /\ rank[t] <= rank[p]
    BY <1>1, <1>4 DEF Ranking
  <2> QED BY <1>2, <2>1
<1>6. Root \in ParentSet(t)
  <2>1. HasParents(d, t)
    BY DEF Grown, Formed, ParentClosed
  <2> QED BY <1>5, <2>1 DEF HasParents, ParentSet
<1>7. PICK u \in d.txs : \A v \in d.txs : n - rank[u] <= n - rank[v]
  <2>1. PICK m \in High : \A l \in High : m <= l
    <3> HIDE DEF High
    <3> QED BY <1>3, NatMin
  <2> QED BY <2>1
<1>8. Children(d, u) = {}
  <2> SUFFICES ASSUME NEW v \in Children(d, u) PROVE FALSE
    OBVIOUS
  <2>1. v \in d.txs /\ rank[u] < rank[v]
    BY <1>1 DEF Children, Ranking
  <2>2. n - rank[u] <= n - rank[v]
    BY <1>7, <2>1
  <2> QED BY <1>2, <2>1, <2>2
<1> QED BY <1>6, <1>8 DEF Children

-----------------------------------------------------------------------------
(* The random walk.                                                        *)
Onward(d, S) ==
    UNION {IF Children(d, p) = {} THEN {p} ELSE Children(d, p) : p \in S}

Walk(at, d) ==
    at = [k \in Nat |-> IF k = 0 THEN {Root} ELSE Onward(d, at[k - 1])]

\* With a transaction in the DAG the walk ends at one.
LEMMA WalkEndsIn ==
    ASSUME NEW d, Grown(d), d.txs # {}
    PROVE  WalkEnds(d) \subseteq d.txs
<1> DEFINE B == SUBSET (d.txs \cup {Root})
           F == [S \in B |-> Onward(d, S)]
           at == CHOOSE f : Walk(f, d)
<1>1. {Root} \in B /\ F \in [B -> B]
  BY DEF Onward, Children
<1>2. PICK f \in [Nat -> B] :
          \A k \in Nat : f[k] = IF k = 0 THEN {Root} ELSE F[f[k - 1]]
  <2> DEFINE base == {Root}
  <2>1. base \in B
    BY <1>1
  <2> HIDE DEF B, F, base
  <2>2. \E f \in [Nat -> B] :
           \A k \in Nat : f[k] = IF k = 0 THEN base ELSE F[f[k - 1]]
    BY <1>1, <2>1, Recursion
  <2> QED BY <2>2 DEF base
<1>3. f = [k \in Nat |-> IF k = 0 THEN {Root} ELSE Onward(d, f[k - 1])]
  <2>1. f = [k \in Nat |-> f[k]]
    BY <1>2
  <2>2. \A k \in Nat : k # 0 => f[k] = Onward(d, f[k - 1])
    <3> TAKE k \in Nat
    <3>1. k # 0 => k - 1 \in Nat
      OBVIOUS
    <3> QED BY <1>2, <3>1
  <2> QED BY <1>2, <2>1, <2>2
<1>4. Walk(at, d)
  BY <1>3 DEF Walk
<1> HIDE DEF at
<1>5. at[0] = {Root} /\ \A k \in 1 .. WalkDepth : at[k] = Onward(d, at[k - 1])
  <2>1. \A k \in Nat :
           at[k] = IF k = 0 THEN {Root} ELSE Onward(d, at[k - 1])
    BY <1>4 DEF Walk
  <2> QED BY <2>1
<1>6. WalkDepth \in Nat /\ 1 \in 1 .. WalkDepth
  BY QueriesAssumption DEF QueriesAssumption
<1>7. at[1] \in SUBSET (d.txs)
  <2>1. at[1] = Onward(d, at[1 - 1])
    BY <1>5, <1>6
  <2>2. at[1 - 1] = {Root}
    BY <1>5
  <2>3. Onward(d, {Root}) = Children(d, Root)
    BY FirstAndLast DEF Onward
  <2> QED BY <2>1, <2>2, <2>3 DEF Children
<1>8. at[WalkDepth] \in SUBSET (d.txs)
  <2> DEFINE one == 1
             T == SUBSET (d.txs)
  <2>1. \A k \in 1 .. WalkDepth : at[k - 1] \in T => at[k] \in T
    BY <1>5 DEF Onward, Children
  <2>2. \A k \in 1 .. WalkDepth : at[k - 1] \in B => at[k] \in B
    BY <1>5 DEF Onward, Children
  <2>3. at[0] \in B
    BY <1>5
  <2>4. one \in 1 .. WalkDepth /\ (at[one - 1] \in B => at[one] \in T)
    BY <1>6, <1>7
  <2> HIDE DEF one, T, B
  <2>5. at[WalkDepth] \in T
    BY <1>6, <2>1, <2>2, <2>3, <2>4, TraceReaches
  <2> QED BY <2>5 DEF T
<1>9. WalkEnds(d) = at[WalkDepth]
  BY DEF WalkEnds, Walk, Onward, at
<1> QED BY <1>8, <1>9

\* A transaction without children was named by no pair.
LEMMA ChildlessUnused ==
    ASSUME NEW d, NEW p, Children(d, p) = {}, NEW q
    PROVE  ~PairUsed(d, <<p, q>>)
<1> SUFFICES ASSUME NEW u \in d.txs, Parents[u] = <<p, q>> PROVE FALSE
  BY DEF PairUsed
<1>1. p \in ParentSet(u)
  BY DEF ParentSet
<1> QED BY <1>1 DEF Children

LEMMA SelectedUsable ==
    ASSUME NEW d, Grown(d), NEW pair \in SelectParents(d)
    PROVE  LET p == pair[1] q == pair[2] IN
           /\ {p, q} \subseteq d.txs \cup {Root}
           /\ d.tips # {} => p # q /\ p # Root
           /\ q # Root => Sender[p] # Sender[q]
           /\ (q # Root \/ p \in d.tips) => ~PairUsed(d, pair)
<1>1. /\ d.txs \subseteq Tx /\ Root \notin Tx
      /\ d.tips = {t \in d.txs : Children(d, t) = {}}
  BY TransactionsAssumption
  DEF Grown, DagType, Formed, TipsAreChildless, TransactionsAssumption
<1>2. CASE d.tips = {}
  <2>1. pair = <<Root, Root>>
    BY <1>2 DEF SelectParents
  <2> QED BY <1>2, <2>1
<1>3. CASE d.tips # {}
  <2>0. PICK p \in WalkEnds(d) :
            \E q \in SecondParents(d, p) \cup {Root} : pair = <<p, q>>
    BY <1>3 DEF SelectParents
  <2>1. PICK q \in SecondParents(d, p) \cup {Root} : pair = <<p, q>>
    BY <2>0
  <2>2. WalkEnds(d) \subseteq d.txs
    BY <1>1, <1>3, WalkEndsIn
  <2>3. CASE q \in SecondParents(d, p)
    <3>1. /\ q \in WalkEnds(d) /\ q # p /\ ~PairUsed(d, <<p, q>>)
          /\ ~DoubleSpendConflict(d, p, q)
      BY <2>3 DEF SecondParents
    <3>2. p \in d.txs /\ q \in d.txs
      BY <2>2, <3>1
    <3>3. Sender[p] # Sender[q]
      BY <3>1, <3>2 DEF DoubleSpendConflict
    <3> QED BY <1>1, <2>1, <3>1, <3>2, <3>3
  <2>4. CASE q = Root
    <3>1. p \in d.txs /\ p # Root
      BY <1>1, <2>2
    <3>2. p \in d.tips => ~PairUsed(d, <<p, q>>)
      BY <1>1, ChildlessUnused
    <3> QED BY <2>1, <2>4, <3>1, <3>2
  <2> QED BY <2>1, <2>3, <2>4
<1> QED BY <1>2, <1>3

LEMMA FaucetUsable ==
    ASSUME NEW d, Grown(d), NEW pair \in FaucetParents(d), d.txs # {}
    PROVE  ~PairUsed(d, pair)
<1> DEFINE tips == ReportedTips(d)
<1>1. tips = {t \in d.txs : Children(d, t) = {}} /\ tips # {}
  BY FirstAndLast DEF ReportedTips
<1>2. \E p \in tips : \E q : pair = <<p, q>>
  <2>1. CASE Cardinality(tips) = 1
    <3>1. pair = <<CHOOSE t \in tips : TRUE, Root>>
      BY <2>1 DEF FaucetParents
    <3>2. (CHOOSE t \in tips : TRUE) \in tips
      BY <1>1
    <3> QED BY <3>1, <3>2
  <2>2. CASE Cardinality(tips) # 1
    <3>1. pair \in tips \X tips
      BY <2>2 DEF FaucetParents
    <3> HIDE DEF tips
    <3> QED BY <3>1
  <2> QED BY <2>1, <2>2
<1> QED BY <1>1, <1>2, ChildlessUnused

-----------------------------------------------------------------------------
(* Descendants and confirmations.                                          *)
Downward(d, S) == S \cup {u \in d.txs : ParentSet(u) \cap S # {}}

Descent(reach, d, t) ==
    reach = [k \in Nat |-> IF k = 0 THEN {t} ELSE Downward(d, reach[k - 1])]

Descends(reach, d, t) ==
    /\ Descendants(d, t) = reach[Cardinality(d.txs)]
    /\ reach[0] = {t}
    /\ \A k \in Nat : k # 0 => reach[k] = Downward(d, reach[k - 1])

LEMMA DescentIs ==
    ASSUME NEW d, NEW t \in d.txs
    PROVE  \E reach : Descends(reach, d, t)
<1> DEFINE B == SUBSET (d.txs)
           F == [S \in B |-> Downward(d, S)]
           reach == CHOOSE f : Descent(f, d, t)
<1>1. {t} \in B /\ F \in [B -> B]
  BY DEF Downward
<1>2. PICK f \in [Nat -> B] :
          \A k \in Nat : f[k] = IF k = 0 THEN {t} ELSE F[f[k - 1]]
  <2> DEFINE base == {t}
  <2>1. base \in B
    BY <1>1
  <2> HIDE DEF B, F, base
  <2>2. \E f \in [Nat -> B] :
           \A k \in Nat : f[k] = IF k = 0 THEN base ELSE F[f[k - 1]]
    BY <1>1, <2>1, Recursion
  <2> QED BY <2>2 DEF base
<1>3. Descent(f, d, t)
  <2>1. f = [k \in Nat |-> f[k]]
    BY <1>2
  <2>2. \A k \in Nat : k # 0 => f[k] = Downward(d, f[k - 1])
    <3> TAKE k \in Nat
    <3>1. k # 0 => k - 1 \in Nat
      OBVIOUS
    <3> QED BY <1>2, <3>1
  <2> QED BY <1>2, <2>1, <2>2 DEF Descent
<1>4. Descent(reach, d, t)
  BY <1>3
<1>5. Descendants(d, t) = reach[Cardinality(d.txs)]
  BY DEF Descendants, Descent, Downward
<1> HIDE DEF reach
<1>6. Descends(reach, d, t)
  BY <1>4, <1>5 DEF Descent, Descends
<1> QED BY <1>6

\* Every descendant but t names one.
LEMMA DescendantsLinked ==
    ASSUME NEW d \in DagType, NEW t \in d.txs
    PROVE  /\ t \in Descendants(d, t) /\ Descendants(d, t) \subseteq d.txs
           /\ \A u \in Descendants(d, t) \ {t} :
                 ParentSet(u) \cap Descendants(d, t) # {}
<1> DEFINE n == Cardinality(d.txs)
           I == {S \in SUBSET (d.txs) :
                    /\ t \in S
                    /\ \A u \in S \ {t} : ParentSet(u) \cap S # {}}
<1>0. PICK reach : Descends(reach, d, t)
  BY DescentIs
<1>1. /\ Descendants(d, t) = reach[n]
      /\ reach[0] = {t}
      /\ \A k \in Nat : k # 0 => reach[k] = Downward(d, reach[k - 1])
  BY <1>0 DEF Descends
<1>2. n \in Nat
  BY TxsFinite
<1>3. reach[0] \in I
  BY <1>1
<1>4. \A k \in 1 .. n : reach[k - 1] \in I => reach[k] \in I
  <2> TAKE k \in 1 .. n
  <2> HAVE reach[k - 1] \in I
  <2>1. k \in Nat /\ k # 0
    BY <1>2
  <2>2. reach[k] = Downward(d, reach[k - 1])
    BY <1>1, <2>1
  <2> QED BY <2>2 DEF Downward
<1>5. reach[n] \in I
  <2> HIDE DEF I, n
  <2>1. \A k \in 0 .. n : reach[k] \in I
    BY <1>2, <1>3, <1>4, TraceKeeps
  <2> QED BY <1>2, <2>1
<1> QED BY <1>1, <1>5

LEMMA SlotsCount ==
    ASSUME NEW u, NEW S
    PROVE  /\ Slots(u, S) \in 0 .. 2
           /\ ParentSet(u) \cap S # {} => Slots(u, S) >= 1
           /\ \A T : S \subseteq T => Slots(u, S) <= Slots(u, T)
<1> DEFINE In(T) == {i \in 1 .. 2 : Parents[u][i] \in T}
<1>1. IsFiniteSet(1 .. 2) /\ Cardinality(1 .. 2) = 2
  <2>1. 1 .. 2 = {1} \cup {2} /\ 2 \notin {1}
    OBVIOUS
  <2>2. IsFiniteSet({1}) /\ Cardinality({1}) = 1
    BY FS_Singleton
  <2> QED BY <2>1, <2>2, FS_AddElement
<1>2. \A T : In(T) \in SUBSET (1 .. 2)
  OBVIOUS
<1>3. \A T : IsFiniteSet(In(T)) /\ Cardinality(In(T)) \in 0 .. 2
  <2> TAKE T
  <2> DEFINE A == In(T)
             two == 1 .. 2
  <2>1. A \in SUBSET two
    BY <1>2
  <2> HIDE DEF A, two
  <2>2. IsFiniteSet(two) /\ Cardinality(two) = 2
    BY <1>1 DEF two
  <2>3. IsFiniteSet(A) /\ Cardinality(A) <= 2 /\ Cardinality(A) \in Nat
    BY <2>1, <2>2, FS_Subset, FS_CardinalityType
  <2>4. Cardinality(A) \in 0 .. 2
    BY <2>3
  <2> QED BY <2>3, <2>4 DEF A
<1>4. ParentSet(u) \cap S # {} => In(S) # {}
  BY DEF ParentSet
<1>5. \A T : S \subseteq T => In(S) \subseteq In(T)
  OBVIOUS
<1>6. \A T : Slots(u, T) = Cardinality(In(T))
  BY DEF Slots
<1> HIDE DEF In
<1>7. In(S) # {} => Cardinality(In(S)) >= 1
  <2>1. Cardinality(In(S)) = 0 => In(S) = {}
    BY <1>3, FS_EmptySet
  <2> QED BY <1>3, <2>1
<1>8. \A T : S \subseteq T => Cardinality(In(S)) <= Cardinality(In(T))
  BY <1>3, <1>5, FS_Subset
<1> QED BY <1>3, <1>4, <1>6, <1>7, <1>8

-----------------------------------------------------------------------------
(* What growth does to the answers.                                        *)
LEMMA DescendantsGrow ==
    ASSUME NEW d \in DagType, NEW e \in DagType, d.txs \subseteq e.txs,
           NEW t \in d.txs
    PROVE  Descendants(d, t) \subseteq Descendants(e, t)
<1> DEFINE n == Cardinality(d.txs)
           m == Cardinality(e.txs)
<1>1. PICK g : Descends(g, d, t)
  BY DescentIs
<1>2. PICK h : Descends(h, e, t)
  BY DescentIs
<1>3. n \in Nat /\ m \in Nat /\ n <= m
  BY TxsFinite, FS_Subset
<1>4. /\ Descendants(d, t) = g[n] /\ Descendants(e, t) = h[m]
      /\ g[0] = {t} /\ h[0] = {t}
      /\ \A k \in Nat : k # 0 => /\ g[k] = Downward(d, g[k - 1])
                                 /\ h[k] = Downward(e, h[k - 1])
  BY <1>1, <1>2 DEF Descends
<1> HIDE DEF n, m
<1>5. g[n] \subseteq h[n]
  <2> DEFINE both == [k \in 0 .. n |-> <<g[k], h[k]>>]
             I == {pair \in {both[k] : k \in 0 .. n} :
                      pair[1] \subseteq pair[2]}
  <2>1. both[0] \in I
    BY <1>3, <1>4
  <2>2. \A k \in 1 .. n : both[k - 1] \in I => both[k] \in I
    <3> TAKE k \in 1 .. n
    <3>1. k \in 0 .. n /\ k - 1 \in 0 .. n /\ k \in Nat /\ k # 0
      BY <1>3
    <3>2. g[k - 1] \subseteq h[k - 1] => g[k] \subseteq h[k]
      BY <1>4, <3>1 DEF Downward
    <3> QED BY <3>1, <3>2
  <2>3. both[n] \in I
    <3>1. n \in 0 .. n
      BY <1>3
    <3> HIDE DEF both, I
    <3>2. \A k \in 0 .. n : both[k] \in I
      BY <1>3, <2>1, <2>2, TraceKeeps
    <3> QED BY <3>1, <3>2
  <2> QED BY <1>3, <2>3
<1>6. h[n] \subseteq h[m]
  <2> DEFINE l == m - n
             later == [k \in 0 .. l |-> h[n + k]]
             I == {S \in {h[k] : k \in Nat} : h[n] \subseteq S}
  <2>1. l \in Nat /\ l \in 0 .. l /\ n + l = m
    BY <1>3
  <2> HIDE DEF l
  <2>2. later[0] \in I
    BY <1>3, <2>1
  <2>3. \A k \in 1 .. l : later[k - 1] \in I => later[k] \in I
    <3> TAKE k \in 1 .. l
    <3>1. /\ k \in 0 .. l /\ k - 1 \in 0 .. l
          /\ n + k \in Nat /\ n + k # 0 /\ n + (k - 1) = (n + k) - 1
      BY <1>3, <2>1
    <3>2. later[k] = h[n + k] /\ later[k - 1] = h[(n + k) - 1]
      BY <3>1
    <3>3. h[(n + k) - 1] \subseteq h[n + k]
      BY <1>4, <3>1 DEF Downward
    <3> QED BY <3>1, <3>2, <3>3
  <2>4. later[l] \in I
    <3> HIDE DEF later, I
    <3>1. \A k \in 0 .. l : later[k] \in I
      BY <2>1, <2>2, <2>3, TraceKeeps
    <3> QED BY <2>1, <3>1
  <2> QED BY <2>1, <2>4
<1> QED BY <1>4, <1>5, <1>6

LEMMA CountsGrow ==
    ASSUME NEW d \in DagType, NEW e \in DagType, d.txs \subseteq e.txs,
           NEW t \in d.txs
    PROVE  /\ CumulativeWeight(d, t) <= CumulativeWeight(e, t)
           /\ CountConfirmations(d, t) <= CountConfirmations(e, t)
           /\ ReferenceCount(d, t) <= ReferenceCount(e, t)
           /\ ReferenceCount(d, t) \in Nat /\ ReferenceCount(e, t) \in Nat
           /\ CountConfirmations(d, t) \in Nat
           /\ CountConfirmations(e, t) \in Nat
<1> DEFINE D == Descendants(d, t)
           E == Descendants(e, t)
           S == D \ {t}
           T == E \ {t}
           f == [u \in S |-> Slots(u, D)]
           g == [u \in T |-> Slots(u, E)]
<1>1. /\ D \subseteq E /\ D \subseteq d.txs /\ E \subseteq e.txs
      /\ IsFiniteSet(d.txs) /\ IsFiniteSet(e.txs)
  BY DescendantsGrow, DescendantsLinked, TxsFinite
<1>2. /\ IsFiniteSet(D) /\ IsFiniteSet(E) /\ IsFiniteSet(S) /\ IsFiniteSet(T)
      /\ S \subseteq T
  BY <1>1, FS_Subset
<1>3. CumulativeWeight(d, t) <= CumulativeWeight(e, t)
  BY <1>1, <1>2, FS_Subset DEF CumulativeWeight
<1>4. \A u \in S : f[u] \in Nat /\ g[u] \in Nat /\ f[u] <= g[u]
  <2> TAKE u \in S
  <2>1. Slots(u, D) \in Nat /\ Slots(u, E) \in Nat
        /\ Slots(u, D) <= Slots(u, E)
    BY <1>1, SlotsCount
  <2> QED BY <1>2, <2>1
<1>5. \A u \in T : g[u] \in Nat
  BY SlotsCount
<1>6. /\ CountConfirmations(d, t) = SumFunctionOnSet(f, S)
      /\ CountConfirmations(e, t) = SumFunctionOnSet(g, T)
  BY DEF CountConfirmations, SumFunction
<1> HIDE DEF D, E, S, T, f, g
<1>7. /\ SumFunctionOnSet(f, S) <= SumFunctionOnSet(g, S)
      /\ SumFunctionOnSet(f, S) \in Nat
  BY <1>2, <1>4, SumLeq, SumNat
<1>8. /\ SumFunctionOnSet(g, S) <= SumFunctionOnSet(g, T)
      /\ SumFunctionOnSet(g, S) \in Nat /\ SumFunctionOnSet(g, T) \in Nat
  BY <1>2, <1>5, SumSubset
<1>9. /\ ReferenceCount(d, t) <= ReferenceCount(e, t)
      /\ ReferenceCount(d, t) \in Nat /\ ReferenceCount(e, t) \in Nat
  <2> DEFINE a == [u \in d.txs |-> Slots(u, {t})]
             b == [u \in e.txs |-> Slots(u, {t})]
  <2>1. /\ \A u \in d.txs : a[u] = b[u]
        /\ \A u \in e.txs : b[u] \in Nat
    BY SlotsCount
  <2>2. /\ ReferenceCount(d, t) = SumFunctionOnSet(a, d.txs)
        /\ ReferenceCount(e, t) = SumFunctionOnSet(b, e.txs)
    BY DEF ReferenceCount, SumFunction
  <2> HIDE DEF a, b
  <2>3. SumFunctionOnSet(a, d.txs) = SumFunctionOnSet(b, d.txs)
    BY <1>1, <2>1, SumEqual
  <2>4. /\ SumFunctionOnSet(b, d.txs) <= SumFunctionOnSet(b, e.txs)
        /\ SumFunctionOnSet(b, d.txs) \in Nat
        /\ SumFunctionOnSet(b, e.txs) \in Nat
    BY <1>1, <2>1, SumSubset
  <2> QED BY <2>2, <2>3, <2>4
<1> QED BY <1>3, <1>6, <1>7, <1>8, <1>9

-----------------------------------------------------------------------------
(* Ancestors: what the parents lead to.                                    *)
Upward(d, S) == S \cup UNION {ParentSet(u) : u \in S \cap d.txs}

Ascent(reach, d, t) ==
    reach = [k \in Nat |-> IF k = 0 THEN {t} ELSE Upward(d, reach[k - 1])]

Ascends(reach, d, t) ==
    /\ Ancestry(d, t) = reach[Cardinality(d.txs) + 1] \ {t}
    /\ reach[0] = {t}
    /\ \A k \in Nat : reach[k + 1] = Upward(d, reach[k])

LEMMA AscentIs ==
    ASSUME NEW d, d.txs \subseteq Tx, NEW t \in d.txs
    PROVE  \E reach : Ascends(reach, d, t)
<1> DEFINE B == SUBSET (Tx \cup {Root})
           F == [S \in B |-> Upward(d, S)]
           reach == CHOOSE f : Ascent(f, d, t)
<1>1. {t} \in B /\ F \in [B -> B]
  <2>1. ASSUME NEW S \in B PROVE Upward(d, S) \in B
    <3>1. \A u \in S \cap d.txs : ParentSet(u) \subseteq Tx \cup {Root}
      BY ParentsType
    <3> QED BY <3>1 DEF Upward
  <2> QED BY <2>1
<1>2. PICK f \in [Nat -> B] :
          \A k \in Nat : f[k] = IF k = 0 THEN {t} ELSE F[f[k - 1]]
  <2> DEFINE base == {t}
  <2>1. base \in B
    BY <1>1
  <2> HIDE DEF B, F, base
  <2>2. \E f \in [Nat -> B] :
           \A k \in Nat : f[k] = IF k = 0 THEN base ELSE F[f[k - 1]]
    BY <1>1, <2>1, Recursion
  <2> QED BY <2>2 DEF base
<1>3. Ascent(f, d, t)
  <2>1. f = [k \in Nat |-> f[k]]
    BY <1>2
  <2>2. \A k \in Nat : k # 0 => f[k] = Upward(d, f[k - 1])
    <3> TAKE k \in Nat
    <3>1. k # 0 => k - 1 \in Nat
      OBVIOUS
    <3> QED BY <1>2, <3>1
  <2> QED BY <1>2, <2>1, <2>2 DEF Ascent
<1>4. Ascent(reach, d, t)
  BY <1>3
<1>5. Ancestry(d, t) = reach[Cardinality(d.txs) + 1] \ {t}
  BY DEF Ancestry, Ascent, Upward
<1> HIDE DEF reach
<1>6. \A k \in Nat : reach[k + 1] = Upward(d, reach[k])
  <2> TAKE k \in Nat
  <2>1. k + 1 \in Nat /\ k + 1 # 0 /\ (k + 1) - 1 = k
    OBVIOUS
  <2>2. reach[k + 1] = Upward(d, reach[(k + 1) - 1])
    BY <1>4, <2>1 DEF Ascent
  <2> QED BY <2>1, <2>2
<1>7. Ascends(reach, d, t)
  BY <1>4, <1>5, <1>6 DEF Ascent, Ascends
<1> QED BY <1>7

\* Ancestry is the least set with the parents of t and of its own members: the
\* ways to genesis are no longer than there are transactions.
LEMMA AncestryClosed ==
    ASSUME NEW d, Grown(d), NEW t \in d.txs
    PROVE  /\ ParentSet(t) \subseteq Ancestry(d, t)
           /\ \A u \in Ancestry(d, t) \cap d.txs :
                 ParentSet(u) \subseteq Ancestry(d, t)
           /\ Ancestry(d, t) \subseteq (d.txs \ {t}) \cup {Root}
           /\ \A S : /\ ParentSet(t) \subseteq S
                     /\ \A u \in S \cap d.txs : ParentSet(u) \subseteq S
                     => Ancestry(d, t) \subseteq S
<1> DEFINE n == Cardinality(d.txs)
<1>1. PICK rank : Ranking(rank, d)
  BY DEF Grown
<1>2. /\ n \in Nat /\ \A u \in d.txs : rank[u] \in 1 .. n
      /\ \A u \in d.txs : \A p \in ParentSet(u) \cap d.txs : rank[p] < rank[u]
      /\ d.txs \subseteq Tx
  BY <1>1, TxsFinite DEF Ranking, Grown, DagType
<1>3. PICK reach : Ascends(reach, d, t)
  BY <1>2, AscentIs
<1>4. /\ Ancestry(d, t) = reach[n + 1] \ {t}
      /\ reach[0] = {t}
      /\ \A k \in Nat : reach[k + 1] = Upward(d, reach[k])
  BY <1>3 DEF Ascends
<1>5. \A u \in d.txs : ParentSet(u) \subseteq d.txs \cup {Root}
  BY DEF Grown, Formed, ParentClosed, HasParents
<1> HIDE DEF n
<1>6. n + 1 \in Nat /\ 0 \in Nat
  BY <1>2
\* Whoever is reached at k has its parents there, or a rank that k has lowered.
<1>7. /\ reach[n + 1] \subseteq d.txs \cup {Root} /\ t \in reach[n + 1]
      /\ \A u \in reach[n + 1] \cap d.txs :
            /\ u = t \/ rank[u] < rank[t]
            /\ \/ ParentSet(u) \subseteq reach[n + 1]
               \/ rank[u] <= rank[t] - (n + 1)
  <2> DEFINE Good(k) ==
          /\ reach[k] \subseteq d.txs \cup {Root} /\ t \in reach[k]
          /\ \A u \in reach[k] \cap d.txs :
                /\ u = t \/ rank[u] < rank[t]
                /\ ParentSet(u) \subseteq reach[k] \/ rank[u] <= rank[t] - k
             I == {k \in Nat : Good(k)}
  <2>1. 0 \in I
    <3>1. rank[t] <= rank[t] - 0
      BY <1>2
    <3>2. Good(0)
      BY <1>4, <3>1
    <3> QED BY <3>2
  <2>2. ASSUME NEW k \in Nat, k \in I PROVE k + 1 \in I
    <3>1. Good(k)
      BY <2>2
    <3>2. reach[k + 1] = reach[k] \cup
                             UNION {ParentSet(u) : u \in reach[k] \cap d.txs}
      BY <1>4 DEF Upward
    <3>3. reach[k + 1] \subseteq d.txs \cup {Root} /\ t \in reach[k + 1]
      BY <1>5, <3>1, <3>2
    <3>4. ASSUME NEW u \in reach[k + 1] \cap d.txs
          PROVE  /\ u = t \/ rank[u] < rank[t]
                 /\ ParentSet(u) \subseteq reach[k + 1]
                        \/ rank[u] <= rank[t] - (k + 1)
      <4>1. CASE u \in reach[k]
        <5>1. ParentSet(u) \subseteq reach[k + 1]
          BY <3>2, <3>4, <4>1
        <5> QED BY <3>1, <3>4, <4>1, <5>1
      <4>2. CASE u \notin reach[k]
        <5>1. PICK v \in reach[k] \cap d.txs : u \in ParentSet(v)
          BY <3>2, <4>2
        <5>2. rank[v] <= rank[t] - k /\ (v = t \/ rank[v] < rank[t])
          BY <3>1, <4>2, <5>1
        <5>3. /\ rank[u] < rank[v] /\ rank[u] \in 1 .. n /\ rank[v] \in 1 .. n
              /\ rank[t] \in 1 .. n
          BY <1>2, <3>4, <5>1
        <5>4. rank[u] < rank[t] /\ rank[u] <= rank[t] - (k + 1)
          BY <1>2, <5>2, <5>3
        <5> QED BY <5>4
      <4> QED BY <4>1, <4>2
    <3>5. Good(k + 1)
      BY <3>3, <3>4
    <3> HIDE DEF Good
    <3> QED BY <3>5
  <2>3. n + 1 \in I
    <3> HIDE DEF I
    <3>1. \A k \in Nat : k \in I
      BY <2>1, <2>2, NatSteps
    <3> QED BY <1>6, <3>1
  <2>4. Good(n + 1)
    <3> HIDE DEF Good
    <3> QED BY <2>3
  <2> QED BY <2>4
<1>8. \A u \in reach[n + 1] \cap d.txs :
         ParentSet(u) \subseteq reach[n + 1] /\ t \notin ParentSet(u)
  <2> TAKE u \in reach[n + 1] \cap d.txs
  <2>1. rank[u] \in 1 .. n /\ rank[t] \in 1 .. n
    BY <1>2
  <2>2. ~(rank[u] <= rank[t] - (n + 1))
    BY <1>2, <2>1
  <2>3. t \notin ParentSet(u)
    <3> SUFFICES ASSUME t \in ParentSet(u) PROVE FALSE
      OBVIOUS
    <3>1. rank[t] < rank[u]
      BY <1>2
    <3>2. u = t \/ rank[u] < rank[t]
      BY <1>7
    <3> QED BY <2>1, <3>1, <3>2
  <2> QED BY <1>7, <2>2, <2>3
<1>9. ASSUME NEW S, ParentSet(t) \subseteq S,
             \A u \in S \cap d.txs : ParentSet(u) \subseteq S
      PROVE  Ancestry(d, t) \subseteq S
  <2> DEFINE I == {k \in Nat : reach[k] \subseteq S \cup {t}}
  <2>1. 0 \in I
    BY <1>4
  <2>2. ASSUME NEW k \in Nat, k \in I PROVE k + 1 \in I
    <3>1. reach[k + 1] = Upward(d, reach[k]) /\ reach[k] \subseteq S \cup {t}
      BY <1>4, <2>2
    <3> QED BY <1>9, <3>1 DEF Upward
  <2>3. n + 1 \in I
    <3> HIDE DEF I
    <3>1. \A k \in Nat : k \in I
      BY <2>1, <2>2, NatSteps
    <3> QED BY <1>6, <3>1
  <2> QED BY <1>4, <2>3
<1>10. t # Root
  BY <1>2, TransactionsAssumption DEF TransactionsAssumption
<1> QED BY <1>4, <1>7, <1>8, <1>9, <1>10
=============================================================================
