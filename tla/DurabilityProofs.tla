-------------------------- MODULE DurabilityProofs --------------------------
(***************************************************************************)
(* Theorems about the node that crashes between any two of its writes, for *)
(* any number of workers, faults and accounts.  First what the folds of a  *)
(* boot compute: each is a trace of states, one per element.               *)
(***************************************************************************)
EXTENDS Durability, BankProofs

-----------------------------------------------------------------------------
(* Folds over a sequence, for an operator given as a function F.           *)
FoldsBy(it, F, base, n, seq) ==
    it = [s \in SUBSET (1 .. n) |->
             IF s = {} THEN base ELSE F[<<it[s \ {Max(s)}], seq[Max(s)]>>]]

LEMMA MaxIn ==
    ASSUME NEW n \in Nat, NEW s \in SUBSET (1 .. n), s # {}
    PROVE  Max(s) \in s /\ \A i \in s : i <= Max(s)
<1>1. \E m \in s : \A i \in s : i <= m
  BY NatMax
<1>2. \A i, m \in s : i <= m <=> m >= i
  OBVIOUS
<1>3. \E m \in s : \A i \in s : m >= i
  BY <1>1, <1>2
<1>4. Max(s) \in s /\ \A i \in s : Max(s) >= i
  BY <1>3 DEF Max
<1> QED BY <1>2, <1>4

\* A fold's states: F in [B \X T -> B] can be iterated over any sequence.
LEMMA FoldsExist ==
    ASSUME NEW B, NEW T, NEW F \in [B \X T -> B], NEW base \in B,
           NEW n \in Nat, NEW seq, \A i \in 1 .. n : seq[i] \in T
    PROVE  \E it \in [SUBSET (1 .. n) -> B] : FoldsBy(it, F, base, n, seq)
<1> DEFINE Has(m) == \E it \in [SUBSET (1 .. m) -> B] :
                        FoldsBy(it, F, base, m, seq)
           C == {m \in 0 .. n : ~Has(m)}
<1>1. Has(0)
  <2> DEFINE it == [s \in SUBSET (1 .. 0) |-> base]
  <2>1. 1 .. 0 = {}
    OBVIOUS
  <2>2. it \in [SUBSET (1 .. 0) -> B]
    OBVIOUS
  <2>3. FoldsBy(it, F, base, 0, seq)
    BY <2>1 DEF FoldsBy
  <2> QED BY <2>2, <2>3
<1>2. ASSUME NEW m \in 1 .. n, Has(m - 1) PROVE Has(m)
  <2> DEFINE k == m - 1
  <2>1. PICK it \in [SUBSET (1 .. k) -> B] : FoldsBy(it, F, base, k, seq)
    BY <1>2
  <2>2. /\ k \in Nat /\ m \in Nat /\ m \notin 1 .. k /\ m \in 1 .. n
        /\ 1 .. m = (1 .. k) \cup {m} /\ (1 .. k) = (1 .. m) \ {m}
    OBVIOUS
  <2> HIDE DEF k
  <2> DEFINE new == [s \in SUBSET (1 .. m) |->
                       IF m \in s THEN F[<<it[s \ {m}], seq[m]>>] ELSE it[s]]
  <2>3. \A s \in SUBSET (1 .. m) :
           /\ s \ {m} \in SUBSET (1 .. k)
           /\ m \notin s => s \in SUBSET (1 .. k)
    BY <2>2
  <2>4. \A s \in SUBSET (1 .. k) :
           it[s] = IF s = {} THEN base
                   ELSE F[<<it[s \ {Max(s)}], seq[Max(s)]>>]
    BY <2>1 DEF FoldsBy
  <2>5. new \in [SUBSET (1 .. m) -> B]
    BY <2>2, <2>3
  <2>6. \A s \in SUBSET (1 .. k) : new[s] = it[s]
    BY <2>2
  <2>7. ASSUME NEW s \in SUBSET (1 .. m)
        PROVE  new[s] = IF s = {} THEN base
                        ELSE F[<<new[s \ {Max(s)}], seq[Max(s)]>>]
    <3>1. CASE m \in s
      <4>1. Max(s) \in s /\ \A i \in s : i <= Max(s)
        BY <2>2, <3>1, MaxIn
      <4>2. Max(s) = m
        <5>1. Max(s) \in 1 .. m /\ m <= Max(s)
          BY <3>1, <4>1
        <5> QED BY <2>2, <5>1
      <4>3. new[s] = F[<<it[s \ {m}], seq[m]>>]
        BY <3>1
      <4>4. new[s \ {m}] = it[s \ {m}]
        BY <2>3, <2>6
      <4> HIDE DEF new
      <4> QED BY <3>1, <4>2, <4>3, <4>4
    <3>2. CASE m \notin s
      <4>1. s \in SUBSET (1 .. k) /\ s \ {Max(s)} \in SUBSET (1 .. k)
        BY <2>3, <3>2
      <4>2. new[s] = it[s] /\ new[s \ {Max(s)}] = it[s \ {Max(s)}]
        BY <2>6, <4>1
      <4> HIDE DEF new
      <4> QED BY <2>4, <4>1, <4>2
    <3> QED BY <3>1, <3>2
  <2>8. new = [s \in SUBSET (1 .. m) |-> new[s]]
    OBVIOUS
  <2> HIDE DEF new
  <2>9. FoldsBy(new, F, base, m, seq)
    BY <2>7, <2>8 DEF FoldsBy
  <2> QED BY <2>5, <2>9
<1>3. C = {}
  <2> SUFFICES ASSUME C # {} PROVE FALSE
    OBVIOUS
  <2>1. C \subseteq Nat
    OBVIOUS
  <2>2. PICK m \in C : \A j \in C : m <= j
    <3> HIDE DEF C
    <3> QED BY <2>1, NatMin
  <2>3. m \in 0 .. n /\ ~Has(m)
    OBVIOUS
  <2> HIDE DEF Has
  <2>4. m # 0
    BY <1>1, <2>3
  <2>5. m \in 1 .. n /\ m - 1 \in 0 .. n /\ ~(m <= m - 1)
    BY <2>3, <2>4
  <2>6. m - 1 \notin C
    BY <2>2, <2>5
  <2> QED BY <1>2, <2>3, <2>5, <2>6
<1>4. n \in 0 .. n
  OBVIOUS
<1> QED BY <1>3, <1>4

\* The states of a fold over the first k elements, for k up to n.
Trace(g, B, base, n) == g \in [0 .. n -> B] /\ g[0] = base

Traces(g, B, F, base, n, seq) ==
    Trace(g, B, base, n) /\ \A k \in 1 .. n : g[k] = F[<<g[k - 1], seq[k]>>]

\* x is the last of them.
Unfolds(x, B, F, base, n, seq) ==
    \E g : Traces(g, B, F, base, n, seq) /\ g[n] = x

\* h computes as the fold does, at least on the values of B.
Computes(h, B, F, base, n, seq) ==
    \A s \in SUBSET (1 .. n) :
       /\ s = {} => h[s] = base
       /\ s # {} /\ h[s \ {Max(s)}] \in B =>
             h[s] = F[<<h[s \ {Max(s)}], seq[Max(s)]>>]

\* Its values for the intervals are such states.
LEMMA FoldTrace ==
    ASSUME NEW B, NEW T, NEW F \in [B \X T -> B], NEW base \in B,
           NEW n \in Nat, NEW seq, \A i \in 1 .. n : seq[i] \in T,
           NEW h, Computes(h, B, F, base, n, seq)
    PROVE  Unfolds(h[1 .. n], B, F, base, n, seq)
<1> DEFINE C == {m \in 0 .. n : h[1 .. m] \notin B}
<1>1. h[1 .. 0] = base
  <2>1. 1 .. 0 = {}
    OBVIOUS
  <2> QED BY <2>1 DEF Computes
<1>2. ASSUME NEW k \in 1 .. n, h[1 .. (k - 1)] \in B
      PROVE  h[1 .. k] \in B /\ h[1 .. k] = F[<<h[1 .. (k - 1)], seq[k]>>]
  <2> DEFINE s == 1 .. k
             r == 1 .. (k - 1)
  <2>1. s \in SUBSET (1 .. n) /\ k \in s /\ s \ {k} = r
        /\ \A i \in s : i \in Nat /\ i <= k
    OBVIOUS
  <2> HIDE DEF s, r
  <2>2. s # {} /\ Max(s) \in s /\ k <= Max(s)
    BY <2>1, MaxIn
  <2>3. Max(s) = k
    <3>1. Max(s) \in Nat /\ Max(s) <= k
      BY <2>1, <2>2
    <3> QED BY <2>2, <3>1
  <2>4. h[r] \in B
    BY <1>2 DEF r
  <2>5. h[s] = F[<<h[r], seq[k]>>]
    BY <2>1, <2>2, <2>3, <2>4 DEF Computes
  <2> QED BY <2>4, <2>5 DEF s, r
<1>3. C = {}
  <2> SUFFICES ASSUME C # {} PROVE FALSE
    OBVIOUS
  <2>1. C \subseteq Nat
    OBVIOUS
  <2>2. PICK m \in C : \A j \in C : m <= j
    <3> HIDE DEF C
    <3> QED BY <2>1, NatMin
  <2>3. m \in 0 .. n /\ h[1 .. m] \notin B
    OBVIOUS
  <2>4. m # 0
    BY <1>1, <2>3
  <2>5. m \in 1 .. n /\ m - 1 \in 0 .. n /\ ~(m <= m - 1)
    BY <2>3, <2>4
  <2>6. m - 1 \notin C
    BY <2>2, <2>5
  <2> QED BY <1>2, <2>3, <2>5, <2>6
<1> DEFINE g == [k \in 0 .. n |-> h[1 .. k]]
<1>4. Trace(g, B, base, n)
  <2>1. \A k \in 0 .. n : h[1 .. k] \in B
    BY <1>3
  <2>2. 0 \in 0 .. n
    OBVIOUS
  <2> QED BY <1>1, <2>1, <2>2 DEF Trace
<1>5. ASSUME NEW k \in 1 .. n PROVE g[k] = F[<<g[k - 1], seq[k]>>]
  <2>1. k \in 0 .. n /\ k - 1 \in 0 .. n
    OBVIOUS
  <2>2. h[1 .. (k - 1)] \in B
    BY <1>3, <2>1
  <2> QED BY <1>2, <2>1, <2>2
<1>6. g[n] = h[1 .. n]
  OBVIOUS
<1> HIDE DEF g
<1> QED BY <1>4, <1>5, <1>6 DEF Traces, Unfolds

-----------------------------------------------------------------------------
(* The folds of a boot.                                                    *)
BuiltType == [dag : DagType, left : SUBSET Tx]

LEMMA PlaceType ==
    ASSUME NEW b \in BuiltType, NEW t \in Tx
    PROVE  Place(b, t) \in BuiltType
<1>1. b.dag \in DagType /\ b.left \in SUBSET Tx
  BY DEF BuiltType
<1>2. AddTx(b.dag, t) \in DagType
  BY <1>1, AddTxType
<1> QED BY <1>1, <1>2 DEF Place, BuiltType

\* One pass.
LEMMA PassTrace ==
    ASSUME NEW base \in BuiltType, NEW seq \in Seq(Tx)
    PROVE  \E g : /\ Trace(g, BuiltType, base, Len(seq))
                  /\ \A k \in 1 .. Len(seq) : g[k] = Place(g[k - 1], seq[k])
                  /\ FoldLeft(Place, base, seq) = g[Len(seq)]
<1> DEFINE n == Len(seq)
           F == [p \in BuiltType \X Tx |-> Place(p[1], p[2])]
           Is(it) == it = [s \in SUBSET (1 .. n) |->
                        IF s = {} THEN base
                          ELSE Place(it[s \ {Max(s)}], seq[Max(s)])]
           h == CHOOSE it : Is(it)
<1>1. n \in Nat /\ DOMAIN seq = 1 .. n /\ \A i \in 1 .. n : seq[i] \in Tx
  OBVIOUS
<1>2. FoldLeft(Place, base, seq) = h[1 .. n]
  BY <1>1 DEF FoldLeft, MapThenFoldSet
<1>3. F \in [BuiltType \X Tx -> BuiltType]
  BY PlaceType
<1>4. \A b \in BuiltType, t \in Tx : F[<<b, t>>] = Place(b, t)
  OBVIOUS
<1> HIDE DEF F, n
<1>5. \E it : Is(it)
  <2>1. PICK it \in [SUBSET (1 .. n) -> BuiltType] :
                FoldsBy(it, F, base, n, seq)
    BY <1>1, <1>3, FoldsExist
  <2>2. \A s \in SUBSET (1 .. n) :
           s # {} => /\ Max(s) \in 1 .. n
                     /\ s \ {Max(s)} \in SUBSET (1 .. n)
    BY <1>1, MaxIn
  <2>3. Is(it)
    BY <1>1, <1>4, <2>1, <2>2 DEF FoldsBy
  <2> QED BY <2>3
<1>6. Is(h)
  <2> HIDE DEF Is
  <2> QED BY <1>5
<1> HIDE DEF h
<1>7. Computes(h, BuiltType, F, base, n, seq)
  <2>1. \A s \in SUBSET (1 .. n) : s # {} => Max(s) \in 1 .. n
    BY <1>1, MaxIn
  <2> QED BY <1>1, <1>4, <1>6, <2>1 DEF Computes
<1> HIDE DEF Is
<1>8. PICK g : Traces(g, BuiltType, F, base, n, seq) /\ g[n] = h[1 .. n]
  <2>1. Unfolds(h[1 .. n], BuiltType, F, base, n, seq)
    BY <1>1, <1>3, <1>7, FoldTrace
  <2> QED BY <2>1 DEF Unfolds
<1>9. \A k \in 1 .. n : g[k] = Place(g[k - 1], seq[k])
  <2>1. \A k \in 1 .. n : k - 1 \in 0 .. n
    BY <1>1
  <2> QED BY <1>1, <1>4, <1>8, <2>1 DEF Trace, Traces
<1> QED BY <1>2, <1>8, <1>9 DEF n, Traces

Pass(b, seq) == FoldLeft(Place, b, seq)

LEMMA PassType ==
    ASSUME NEW base \in BuiltType, NEW seq \in Seq(Tx)
    PROVE  Pass(base, seq) \in BuiltType
<1>1. PICK g : /\ Trace(g, BuiltType, base, Len(seq))
               /\ FoldLeft(Place, base, seq) = g[Len(seq)]
  BY PassTrace
<1>2. Len(seq) \in 0 .. Len(seq)
  OBVIOUS
<1> QED BY <1>1, <1>2 DEF Pass, Trace

\* As many passes as there are elements.
LEMMA PassesTrace ==
    ASSUME NEW base \in BuiltType, NEW seq \in Seq(Tx)
    PROVE  \E g : /\ Trace(g, BuiltType, base, Len(seq))
                  /\ \A k \in 1 .. Len(seq) : g[k] = Pass(g[k - 1], seq)
                  /\ FoldLeft(LAMBDA b, t : Pass(b, seq), base, seq)
                        = g[Len(seq)]
<1> DEFINE n == Len(seq)
           F == [p \in BuiltType \X Tx |-> Pass(p[1], seq)]
           Is(it) == it = [s \in SUBSET (1 .. n) |->
                        IF s = {} THEN base
                          ELSE Pass(it[s \ {Max(s)}], seq)]
           h == CHOOSE it : Is(it)
<1>1. n \in Nat /\ DOMAIN seq = 1 .. n /\ \A i \in 1 .. n : seq[i] \in Tx
  OBVIOUS
<1>2. FoldLeft(LAMBDA b, t : Pass(b, seq), base, seq) = h[1 .. n]
  BY <1>1 DEF FoldLeft, MapThenFoldSet
<1>3. F \in [BuiltType \X Tx -> BuiltType]
  BY PassType
<1>4. \A b \in BuiltType, t \in Tx : F[<<b, t>>] = Pass(b, seq)
  OBVIOUS
<1> HIDE DEF F, n
<1>5. \E it : Is(it)
  <2>1. PICK it \in [SUBSET (1 .. n) -> BuiltType] :
                FoldsBy(it, F, base, n, seq)
    BY <1>1, <1>3, FoldsExist
  <2>2. \A s \in SUBSET (1 .. n) :
           s # {} => /\ Max(s) \in 1 .. n
                     /\ s \ {Max(s)} \in SUBSET (1 .. n)
    BY <1>1, MaxIn
  <2>3. Is(it)
    BY <1>1, <1>4, <2>1, <2>2 DEF FoldsBy
  <2> QED BY <2>3
<1>6. Is(h)
  <2> HIDE DEF Is
  <2> QED BY <1>5
<1> HIDE DEF h
<1>7. Computes(h, BuiltType, F, base, n, seq)
  <2>1. \A s \in SUBSET (1 .. n) : s # {} => Max(s) \in 1 .. n
    BY <1>1, MaxIn
  <2> QED BY <1>1, <1>4, <1>6, <2>1 DEF Computes
<1> HIDE DEF Is
<1>8. PICK g : Traces(g, BuiltType, F, base, n, seq) /\ g[n] = h[1 .. n]
  <2>1. Unfolds(h[1 .. n], BuiltType, F, base, n, seq)
    BY <1>1, <1>3, <1>7, FoldTrace
  <2> QED BY <2>1 DEF Unfolds
<1>9. \A k \in 1 .. n : g[k] = Pass(g[k - 1], seq)
  <2>1. \A k \in 1 .. n : k - 1 \in 0 .. n
    BY <1>1
  <2> QED BY <1>1, <1>4, <1>8, <2>1 DEF Trace, Traces
<1> QED BY <1>2, <1>8, <1>9 DEF n, Traces

Kept(q, t, S) == IF t \in S THEN Append(q, t) ELSE q

LEMMA KeptType ==
    ASSUME NEW S, NEW q \in Seq(Tx), NEW t \in Tx
    PROVE  Kept(q, t, S) \in Seq(Tx)
BY DEF Kept

\* The transactions of a set, in the order of their keys.
LEMMA KeyOrderTrace ==
    ASSUME NEW S, KeyOrder \in Seq(Tx)
    PROVE  \E g : /\ Trace(g, Seq(Tx), << >>, Len(KeyOrder))
                  /\ \A k \in 1 .. Len(KeyOrder) :
                        g[k] = Kept(g[k - 1], KeyOrder[k], S)
                  /\ InKeyOrder(S) = g[Len(KeyOrder)]
<1> DEFINE B == Seq(Tx)
           e == << >>
           n == Len(KeyOrder)
           F == [p \in B \X Tx |-> Kept(p[1], p[2], S)]
           Is(it) == it = [s \in SUBSET (1 .. n) |->
                        IF s = {} THEN e
                          ELSE Kept(it[s \ {Max(s)}], KeyOrder[Max(s)], S)]
           h == CHOOSE it : Is(it)
<1>0. e \in B
  OBVIOUS
<1>1. /\ n \in Nat /\ DOMAIN KeyOrder = 1 .. n
      /\ \A i \in 1 .. n : KeyOrder[i] \in Tx
  OBVIOUS
<1>2. InKeyOrder(S) = h[1 .. n]
  BY <1>1 DEF FoldLeft, MapThenFoldSet, InKeyOrder, Kept
<1>3. F \in [B \X Tx -> B]
  BY KeptType
<1>4. \A b \in B, t \in Tx : F[<<b, t>>] = Kept(b, t, S)
  OBVIOUS
<1> HIDE DEF F, n, B, e
<1>5. \E it : Is(it)
  <2>1. PICK it \in [SUBSET (1 .. n) -> B] :
                FoldsBy(it, F, e, n, KeyOrder)
    BY <1>0, <1>1, <1>3, FoldsExist
  <2>2. \A s \in SUBSET (1 .. n) :
           s # {} => /\ Max(s) \in 1 .. n
                     /\ s \ {Max(s)} \in SUBSET (1 .. n)
    BY <1>1, MaxIn
  <2>3. Is(it)
    BY <1>1, <1>4, <2>1, <2>2 DEF FoldsBy
  <2> QED BY <2>3
<1>6. Is(h)
  <2> HIDE DEF Is
  <2> QED BY <1>5
<1> HIDE DEF h
<1>7. Computes(h, B, F, e, n, KeyOrder)
  <2>1. \A s \in SUBSET (1 .. n) : s # {} => Max(s) \in 1 .. n
    BY <1>1, MaxIn
  <2> QED BY <1>1, <1>4, <1>6, <2>1 DEF Computes
<1> HIDE DEF Is
<1>8. PICK g : Traces(g, B, F, e, n, KeyOrder) /\ g[n] = h[1 .. n]
  <2>1. Unfolds(h[1 .. n], B, F, e, n, KeyOrder)
    BY <1>0, <1>1, <1>3, <1>7, FoldTrace
  <2> QED BY <2>1 DEF Unfolds
<1>9. \A k \in 1 .. n : g[k] = Kept(g[k - 1], KeyOrder[k], S)
  <2>1. \A k \in 1 .. n : k - 1 \in 0 .. n
    BY <1>1
  <2> QED BY <1>1, <1>4, <1>8, <2>1 DEF Trace, Traces
<1> QED BY <1>2, <1>8, <1>9 DEF n, Traces, B, e

Reloaded(q, t) == IF Len(q) < PoolSize /\ Fee[t] >= 1 THEN Append(q, t) ELSE q

LEMMA ReloadedType ==
    ASSUME NEW q \in Seq(Tx), NEW t \in Tx
    PROVE  Reloaded(q, t) \in Seq(Tx)
BY DEF Reloaded

\* The mempool that is read back.
LEMMA PoolType ==
    ASSUME NEW seq \in Seq(Tx)
    PROVE  FoldLeft(Reloaded, << >>, seq) \in Seq(Tx)
<1> DEFINE B == Seq(Tx)
           e == << >>
           n == Len(seq)
           F == [p \in B \X Tx |-> Reloaded(p[1], p[2])]
           Is(it) == it = [s \in SUBSET (1 .. n) |->
                        IF s = {} THEN e
                          ELSE Reloaded(it[s \ {Max(s)}], seq[Max(s)])]
           h == CHOOSE it : Is(it)
<1>0. e \in B
  OBVIOUS
<1>1. n \in Nat /\ DOMAIN seq = 1 .. n /\ \A i \in 1 .. n : seq[i] \in Tx
  OBVIOUS
<1>2. FoldLeft(Reloaded, << >>, seq) = h[1 .. n]
  BY <1>1 DEF FoldLeft, MapThenFoldSet
<1>3. F \in [B \X Tx -> B]
  BY ReloadedType
<1>4. \A b \in B, t \in Tx : F[<<b, t>>] = Reloaded(b, t)
  OBVIOUS
<1> HIDE DEF F, n, B, e
<1>5. \E it : Is(it)
  <2>1. PICK it \in [SUBSET (1 .. n) -> B] :
                FoldsBy(it, F, e, n, seq)
    BY <1>0, <1>1, <1>3, FoldsExist
  <2>2. \A s \in SUBSET (1 .. n) :
           s # {} => /\ Max(s) \in 1 .. n
                     /\ s \ {Max(s)} \in SUBSET (1 .. n)
    BY <1>1, MaxIn
  <2>3. Is(it)
    BY <1>1, <1>4, <2>1, <2>2 DEF FoldsBy
  <2> QED BY <2>3
<1>6. Is(h)
  <2> HIDE DEF Is
  <2> QED BY <1>5
<1> HIDE DEF h
<1>7. Computes(h, B, F, e, n, seq)
  <2>1. \A s \in SUBSET (1 .. n) : s # {} => Max(s) \in 1 .. n
    BY <1>1, MaxIn
  <2> QED BY <1>1, <1>4, <1>6, <2>1 DEF Computes
<1> HIDE DEF Is
<1>8. PICK g : Traces(g, B, F, e, n, seq) /\ g[n] = h[1 .. n]
  <2>1. Unfolds(h[1 .. n], B, F, e, n, seq)
    BY <1>0, <1>1, <1>3, <1>7, FoldTrace
  <2> QED BY <2>1 DEF Unfolds
<1>9. g[n] \in B
  <2>1. n \in 0 .. n
    BY <1>1
  <2> QED BY <1>8, <2>1 DEF Traces, Trace
<1> QED BY <1>2, <1>8, <1>9 DEF B

ReplayType == [ledger : LedgerType, left : SUBSET Tx, paid : SUBSET Tx,
               progress : BOOLEAN]

LEMMA ReplayTxType ==
    ASSUME NEW r \in ReplayType, NEW t \in Tx
    PROVE  ReplayTx(r, t) \in ReplayType
<1>1. /\ r.ledger \in LedgerType /\ r.left \in SUBSET Tx
      /\ r.paid \in SUBSET Tx /\ r.progress \in BOOLEAN
  BY DEF ReplayType
<1>2. CASE ReplayTx(r, t) = r
  BY <1>2
<1>3. CASE TransferFits(r.ledger, t)
           /\ ReplayTx(r, t) =
                 [ledger |-> RaiseNonce(Transfer(r.ledger, t), t),
                  left |-> r.left \ {t}, paid |-> r.paid \cup {t},
                  progress |-> TRUE]
  <2>1. Transfer(r.ledger, t) \in LedgerType
    BY <1>1, <1>3, TransferType
  <2>2. RaiseNonce(Transfer(r.ledger, t), t) \in LedgerType
    BY <2>1, TransactionsAssumption
    DEF TransactionsAssumption, RaiseNonce, LedgerType
  <2> QED BY <1>1, <1>3, <2>2 DEF ReplayType
<1>4. CASE ReplayTx(r, t) = [r EXCEPT !.left = @ \ {t}]
  BY <1>1, <1>4 DEF ReplayType
<1> QED BY <1>2, <1>3, <1>4 DEF ReplayTx

\* A pass of the replay, and all of them, stay in a set that each of its steps
\* stays in.
ReplayStays(B) ==
    \A r \in B : /\ [r EXCEPT !.progress = FALSE] \in B
                 /\ \A t \in Tx : ReplayTx(r, t) \in B

LEMMA ReplayPassStays ==
    ASSUME NEW B, ReplayStays(B), NEW base \in B, NEW seq \in Seq(Tx)
    PROVE  FoldLeft(ReplayTx, base, seq) \in B
<1> DEFINE n == Len(seq)
           F == [p \in B \X Tx |-> ReplayTx(p[1], p[2])]
           Is(it) == it = [s \in SUBSET (1 .. n) |->
                        IF s = {} THEN base
                          ELSE ReplayTx(it[s \ {Max(s)}], seq[Max(s)])]
           h == CHOOSE it : Is(it)
<1>1. n \in Nat /\ DOMAIN seq = 1 .. n /\ \A i \in 1 .. n : seq[i] \in Tx
  OBVIOUS
<1>2. FoldLeft(ReplayTx, base, seq) = h[1 .. n]
  BY <1>1 DEF FoldLeft, MapThenFoldSet
<1>3. F \in [B \X Tx -> B]
  BY DEF ReplayStays
<1>4. \A b \in B, t \in Tx : F[<<b, t>>] = ReplayTx(b, t)
  OBVIOUS
<1> HIDE DEF F, n
<1>5. \E it : Is(it)
  <2>1. PICK it \in [SUBSET (1 .. n) -> B] :
                FoldsBy(it, F, base, n, seq)
    BY <1>1, <1>3, FoldsExist
  <2>2. \A s \in SUBSET (1 .. n) :
           s # {} => /\ Max(s) \in 1 .. n
                     /\ s \ {Max(s)} \in SUBSET (1 .. n)
    BY <1>1, MaxIn
  <2>3. Is(it)
    BY <1>1, <1>4, <2>1, <2>2 DEF FoldsBy
  <2> QED BY <2>3
<1>6. Is(h)
  <2> HIDE DEF Is
  <2> QED BY <1>5
<1> HIDE DEF h
<1>7. Computes(h, B, F, base, n, seq)
  <2>1. \A s \in SUBSET (1 .. n) : s # {} => Max(s) \in 1 .. n
    BY <1>1, MaxIn
  <2> QED BY <1>1, <1>4, <1>6, <2>1 DEF Computes
<1> HIDE DEF Is
<1>8. PICK g : Traces(g, B, F, base, n, seq) /\ g[n] = h[1 .. n]
  <2>1. Unfolds(h[1 .. n], B, F, base, n, seq)
    BY <1>1, <1>3, <1>7, FoldTrace
  <2> QED BY <2>1 DEF Unfolds
<1>9. g[n] \in B
  <2>1. n \in 0 .. n
    BY <1>1
  <2> QED BY <1>8, <2>1 DEF Traces, Trace
<1> QED BY <1>2, <1>8, <1>9

ReplayPass(r, seq) ==
    IF r.progress THEN FoldLeft(ReplayTx, [r EXCEPT !.progress = FALSE], seq)
                  ELSE r

LEMMA PassReplayStays ==
    ASSUME NEW B, ReplayStays(B), NEW r \in B, NEW seq \in Seq(Tx)
    PROVE  ReplayPass(r, seq) \in B
<1>1. [r EXCEPT !.progress = FALSE] \in B
  BY DEF ReplayStays
<1> QED BY <1>1, ReplayPassStays DEF ReplayPass

LEMMA ReplaysStay ==
    ASSUME NEW B, ReplayStays(B), NEW base \in B, NEW seq \in Seq(Tx)
    PROVE  FoldLeft(LAMBDA r, t : ReplayPass(r, seq), base, seq) \in B
<1> DEFINE n == Len(seq)
           F == [p \in B \X Tx |-> ReplayPass(p[1], seq)]
           Is(it) == it = [s \in SUBSET (1 .. n) |->
                        IF s = {} THEN base
                          ELSE ReplayPass(it[s \ {Max(s)}], seq)]
           h == CHOOSE it : Is(it)
<1>1. n \in Nat /\ DOMAIN seq = 1 .. n /\ \A i \in 1 .. n : seq[i] \in Tx
  OBVIOUS
<1>2. FoldLeft(LAMBDA r, t : ReplayPass(r, seq), base, seq) = h[1 .. n]
  BY <1>1 DEF FoldLeft, MapThenFoldSet
<1>3. F \in [B \X Tx -> B]
  BY PassReplayStays
<1>4. \A b \in B, t \in Tx : F[<<b, t>>] = ReplayPass(b, seq)
  OBVIOUS
<1> HIDE DEF F, n
<1>5. \E it : Is(it)
  <2>1. PICK it \in [SUBSET (1 .. n) -> B] :
                FoldsBy(it, F, base, n, seq)
    BY <1>1, <1>3, FoldsExist
  <2>2. \A s \in SUBSET (1 .. n) :
           s # {} => /\ Max(s) \in 1 .. n
                     /\ s \ {Max(s)} \in SUBSET (1 .. n)
    BY <1>1, MaxIn
  <2>3. Is(it)
    BY <1>1, <1>4, <2>1, <2>2 DEF FoldsBy
  <2> QED BY <2>3
<1>6. Is(h)
  <2> HIDE DEF Is
  <2> QED BY <1>5
<1> HIDE DEF h
<1>7. Computes(h, B, F, base, n, seq)
  <2>1. \A s \in SUBSET (1 .. n) : s # {} => Max(s) \in 1 .. n
    BY <1>1, MaxIn
  <2> QED BY <1>1, <1>4, <1>6, <2>1 DEF Computes
<1> HIDE DEF Is
<1>8. PICK g : Traces(g, B, F, base, n, seq) /\ g[n] = h[1 .. n]
  <2>1. Unfolds(h[1 .. n], B, F, base, n, seq)
    BY <1>1, <1>3, <1>7, FoldTrace
  <2> QED BY <2>1 DEF Unfolds
<1>9. g[n] \in B
  <2>1. n \in 0 .. n
    BY <1>1
  <2> QED BY <1>8, <2>1 DEF Traces, Trace
<1> QED BY <1>2, <1>8, <1>9

\* In particular in the type, and among the states that leave an account alone.
LEMMA ReplayTypeStays == ReplayStays(ReplayType)
<1>1. \A r \in ReplayType : [r EXCEPT !.progress = FALSE] \in ReplayType
  BY DEF ReplayType
<1> QED BY <1>1, ReplayTxType DEF ReplayStays

Leaves(a) == {r \in ReplayType : r.ledger.bal[a] = GenesisBal[a]}

LEMMA LeavesStays ==
    ASSUME NEW a \in Addr \ {Burn},
           \A t \in Tx : a \notin {Sender[t], Receiver[t]}
    PROVE  ReplayStays(Leaves(a))
<1>1. ASSUME NEW r \in Leaves(a)
      PROVE  [r EXCEPT !.progress = FALSE] \in Leaves(a)
  BY DEF Leaves, ReplayType
<1>2. ASSUME NEW r \in Leaves(a), NEW t \in Tx
      PROVE  ReplayTx(r, t) \in Leaves(a)
  <2>1. r \in ReplayType /\ r.ledger \in LedgerType
        /\ r.ledger.bal[a] = GenesisBal[a]
    BY DEF Leaves, ReplayType
  <2>2. ReplayTx(r, t) \in ReplayType
    BY <2>1, ReplayTxType
  <2>3. RaiseNonce(Transfer(r.ledger, t), t).bal = Transfer(r.ledger, t).bal
    BY <2>1 DEF RaiseNonce, Transfer, LedgerType
  <2>4. Transfer(r.ledger, t).bal[a] = GenesisBal[a]
    BY <2>1 DEF Transfer, LedgerType
  <2> HIDE DEF RaiseNonce, Transfer
  <2>5. ReplayTx(r, t).ledger.bal[a] = GenesisBal[a]
    BY <2>1, <2>3, <2>4 DEF ReplayTx, ReplayType
  <2> QED BY <2>2, <2>5 DEF Leaves
<1> QED BY <1>1, <1>2 DEF ReplayStays

-----------------------------------------------------------------------------
(* What a rebuild brings back, whatever the disk holds.                    *)
LEMMA OrderType ==
    ASSUME NEW S
    PROVE  InKeyOrder(S) \in Seq(Tx)
<1>1. KeyOrder \in Seq(Tx)
  BY DurabilityAssumption DEF DurabilityAssumption
<1>2. PICK g : /\ Trace(g, Seq(Tx), << >>, Len(KeyOrder))
               /\ InKeyOrder(S) = g[Len(KeyOrder)]
  BY <1>1, KeyOrderTrace
<1>3. Len(KeyOrder) \in 0 .. Len(KeyOrder)
  BY <1>1
<1> QED BY <1>2, <1>3 DEF Trace

LEMMA BootOrderType == BootOrder \in Seq(Tx)
<1>1. /\ InKeyOrder(disk.txs) \in Seq(Tx)
      /\ InKeyOrder(Stored \ disk.txs) \in Seq(Tx)
  BY OrderType
<1> HIDE DEF InKeyOrder
<1> QED BY <1>1 DEF BootOrder

\* What Place keeps, a pass and the whole rebuild keep.
LEMMA PassKeeps ==
    ASSUME NEW I \in SUBSET BuiltType, \A b \in I, t \in Tx : Place(b, t) \in I,
           NEW base \in I, NEW seq \in Seq(Tx)
    PROVE  Pass(base, seq) \in I
<1> DEFINE n == Len(seq)
<1>1. PICK g : /\ Trace(g, BuiltType, base, n)
               /\ \A k \in 1 .. n : g[k] = Place(g[k - 1], seq[k])
               /\ FoldLeft(Place, base, seq) = g[n]
  BY PassTrace
<1>2. n \in Nat /\ \A k \in 1 .. n : seq[k] \in Tx
  OBVIOUS
<1>3. g[0] \in I
  BY <1>1 DEF Trace
<1> HIDE DEF n
<1>4. \A k \in 1 .. n : g[k - 1] \in I => g[k] \in I
  BY <1>1, <1>2
<1>5. \A k \in 0 .. n : g[k] \in I
  BY <1>2, <1>3, <1>4, TraceKeeps
<1>6. n \in 0 .. n
  BY <1>2
<1> QED BY <1>1, <1>5, <1>6 DEF Pass

RebuildStart == [dag |-> EmptyDag, left |-> Stored]

LEMMA RebuiltIs ==
    Rebuilt =
        FoldLeft(LAMBDA b, t : Pass(b, BootOrder), RebuildStart, BootOrder)
BY DEF Rebuilt, Pass, RebuildStart

LEMMA RebuildStartType ==
    ASSUME disk \in DiskType
    PROVE  RebuildStart \in BuiltType
BY EmptyFormed DEF RebuildStart, BuiltType, Stored, DiskType

LEMMA RebuiltKeeps ==
    ASSUME NEW I \in SUBSET BuiltType, \A b \in I, t \in Tx : Place(b, t) \in I,
           RebuildStart \in I
    PROVE  Rebuilt \in I
<1> DEFINE base == RebuildStart
           seq == BootOrder
           n == Len(seq)
<1>1. base \in I /\ base \in BuiltType /\ seq \in Seq(Tx)
  BY BootOrderType
<1> HIDE DEF base, seq
<1>2. n \in Nat /\ \A k \in 1 .. n : seq[k] \in Tx
  BY <1>1
<1>3. PICK g : /\ Trace(g, BuiltType, base, n)
               /\ \A k \in 1 .. n : g[k] = Pass(g[k - 1], seq)
               /\ FoldLeft(LAMBDA b, t : Pass(b, seq), base, seq) = g[n]
  BY <1>1, PassesTrace
<1>4. g[0] \in I
  BY <1>1, <1>3 DEF Trace
<1> HIDE DEF n
<1>5. \A k \in 1 .. n : g[k - 1] \in I => g[k] \in I
  BY <1>1, <1>3, PassKeeps
<1>6. \A k \in 0 .. n : g[k] \in I
  BY <1>2, <1>4, <1>5, TraceKeeps
<1>7. n \in 0 .. n
  BY <1>2
<1> QED BY <1>3, <1>6, <1>7, RebuiltIs DEF base, seq

\* The DAG that is built is well formed and acyclic, and made of what is stored.
Sound == {b \in BuiltType : /\ Formed(b.dag) /\ Grounded(b.dag.txs)
                            /\ b.dag.txs \cup b.left \subseteq Stored}

LEMMA PlaceSound ==
    ASSUME NEW b \in Sound, NEW t \in Tx
    PROVE  Place(b, t) \in Sound
<1>1. CASE Place(b, t) = b
  BY <1>1
<1>2. CASE t \in b.left /\ HasParents(b.dag, t)
  <2> DEFINE d == IF CanAdd(b.dag, t) THEN AddTx(b.dag, t) ELSE b.dag
  <2>1. Place(b, t) = [dag |-> d, left |-> b.left \ {t}]
    BY <1>2 DEF Place
  <2>2. /\ b \in BuiltType /\ Formed(b.dag) /\ Grounded(b.dag.txs)
        /\ b.dag \in DagType /\ b.dag.txs \in SUBSET Tx
        /\ b.dag.txs \cup b.left \subseteq Stored
    BY DEF Sound, BuiltType, DagType
  <2>3. Formed(d) /\ d.txs \subseteq b.dag.txs \cup {t}
    BY <2>2, AddTxFormed, AddTxType
  <2>4. Grounded(d.txs)
    <3>1. CASE ~CanAdd(b.dag, t)
      BY <2>2, <3>1
    <3>2. CASE CanAdd(b.dag, t)
      <4>1. d.txs = b.dag.txs \cup {t}
        BY <2>2, <3>2, AddTxType
      <4>2. Closed(b.dag.txs) /\ ParentSet(t) \subseteq b.dag.txs \cup {Root}
        BY <1>2, <2>2 DEF Closed, Formed, ParentClosed, HasParents
      <4> HIDE DEF d
      <4> QED BY <2>2, <4>1, <4>2, GroundedAdd
    <3> QED BY <3>1, <3>2
  <2>5. Place(b, t) \in BuiltType
    BY <2>2, PlaceType
  <2> HIDE DEF d
  <2> QED BY <1>2, <2>1, <2>2, <2>3, <2>4, <2>5 DEF Sound
<1> QED BY <1>1, <1>2 DEF Place

LEMMA RebuiltSound ==
    ASSUME disk \in DiskType
    PROVE  Rebuilt \in Sound
<1>1. Sound \in SUBSET BuiltType
  BY DEF Sound
<1>2. RebuildStart \in Sound
  <2>1. RebuildStart.dag = EmptyDag /\ RebuildStart.left = Stored
    BY DEF RebuildStart
  <2>2. EmptyDag.txs = {} /\ Grounded({})
    BY DEF EmptyDag, Grounded
  <2> QED BY <2>1, <2>2, RebuildStartType, EmptyFormed DEF Sound
<1> QED BY <1>1, <1>2, PlaceSound, RebuiltKeeps

-----------------------------------------------------------------------------
(* What a step of the durable node is: a step of the node that leaves the  *)
(* trees of ledger, transactions and consensus alone, one of the writes to *)
(* them, one of the two steps that only a booted node takes, or a boot.    *)
ForgottenType == [bal : SUBSET Addr, nonce : SUBSET Addr]

DurableInv ==
    /\ HolderInv
    /\ disk \in DiskType
    /\ faults \in Nat
    /\ forgotten \in ForgottenType

Less == /\ forgotten' \in ForgottenType
        /\ forgotten'.bal \subseteq forgotten.bal
        /\ forgotten'.nonce \subseteq forgotten.nonce

SameTrees == /\ disk'.bal = disk.bal /\ disk'.nonce = disk.nonce
             /\ disk'.txs = disk.txs /\ disk'.cons = disk.cons

Plain ==
    /\ [Next]_vars
    /\ SameTrees
    /\ \A w \in Workers :
          call'[w].pc \in {"putTx", "putCons"} => call'[w].pc = call[w].pc

Writes(w) ==
    \/ SaveBalance(w) \/ SaveNonce(w)
    \/ LedgerSaved /\ Save(w) /\ disk' = disk
    \/ PutTx(w) /\ disk' \in {disk, [disk EXCEPT !.txs = @ \cup {call[w].tx}]}
    \/ PutCons(w) /\ disk' \in {disk, [disk EXCEPT !.cons = {cons}]}

\* The ledger of a boot, with what it forgot.
BootLedger(l, missing) ==
    \/ l = RestoredLedger /\ missing = NothingForgotten
    \/ /\ Repairs
       /\ \E order \in Seq(Tx) :
             /\ l = RepairedLedger(Replay(order))
             /\ missing = Forgotten(Replay(order))

Booted == \E l, missing : Boot(l, missing) /\ BootLedger(l, missing)

LEMMA DiskParts ==
    ASSUME disk \in DiskType
    PROVE  /\ disk.bal \in [Addr -> U64] /\ disk.nonce \in [Addr -> Nat]
           /\ disk.txs \in SUBSET Tx /\ disk.orphans \in SUBSET Tx
           /\ disk.pool \in SUBSET Tx /\ disk.cons \in SUBSET ConsType
           /\ disk.json \in SUBSET Tx
BY DEF DiskType

LEMMA RecallLess ==
    ASSUME forgotten \in ForgottenType, Recall
    PROVE  Less
BY DEF ForgottenType, Recall, Less, NoBalance, NoNonce

LEMMA KeptLess ==
    ASSUME forgotten \in ForgottenType, forgotten' = forgotten
    PROVE  Less
BY DEF Less

\* Writes to the other trees.
Beside(d) ==
    /\ d \in DiskType
    /\ d.bal = disk.bal /\ d.nonce = disk.nonce
    /\ d.txs = disk.txs /\ d.cons = disk.cons

LEMMA PutsBeside ==
    ASSUME NEW d, Beside(d), NEW t \in Tx
    PROVE  /\ Beside(PutPool(d, t)) /\ Beside(RemoveOrphan(d, t))
           /\ Beside([d EXCEPT !.pool = @ \ {t}])
<1> USE DEF Beside, DiskType
<1>1. Beside(PutPool(d, t))
  BY DEF PutPool
<1>2. Beside(RemoveOrphan(d, t))
  BY DEF RemoveOrphan
<1>3. Beside([d EXCEPT !.pool = @ \ {t}])
  OBVIOUS
<1> QED BY <1>1, <1>2, <1>3

LEMMA WritesBeside ==
    ASSUME DurableInv, NEW whole, NEW parts, WrittenOr(whole, parts),
           \A d \in parts \cup {whole} : Beside(d)
    PROVE  /\ SameTrees /\ disk' \in DiskType /\ faults' \in Nat /\ Less
<1>1. disk' \in parts \cup {whole} /\ faults' \in {faults, faults + 1}
      /\ forgotten' = forgotten
  BY DEF WrittenOr, Fault
<1> QED BY <1>1, KeptLess DEF SameTrees, DurableInv, Beside

LEMMA NothingWritten ==
    ASSUME DurableInv, NoWrite
    PROVE  SameTrees /\ disk' = disk /\ disk' \in DiskType /\ faults' \in Nat
           /\ Less
BY KeptLess DEF NoWrite, SameTrees, DurableInv

\* The disk, the fault counter and the forgotten accounts keep their types.
DiskTyped == disk' \in DiskType /\ faults' \in Nat /\ Less

Cases ==
    \/ Plain
    \/ \E w \in Workers : Writes(w)
    \/ \E w \in Workers : ApplyNotQueued(w) /\ disk' = disk
    \/ \E s \in Solvers : StartBatchWith(s, disk.orphans) /\ disk' = disk
    \/ Booted

LEMMA MovedPlain ==
    ASSUME DurableInv, [Next]_vars, SameTrees, NEW w \in Workers,
           \A v \in Workers \ {w} : call'[v] = call[v],
           call'[w].pc \notin {"putTx", "putCons"}
    PROVE  Plain
BY DEF Plain

LEMMA FinishMoves ==
    ASSUME DurableInv, NEW w \in Workers, Finish(w)
    PROVE  /\ call'[w].pc \notin {"putTx", "putCons"}
           /\ \A v \in Workers \ {w} : call'[v] = call[v]
BY DEF DurableInv, HolderInv, Typed, TypeOK, Finish, Idle

LEMMA GotoMoves ==
    ASSUME DurableInv, NEW w \in Workers, NEW phase, Goto(w, phase)
    PROVE  /\ call'[w].pc = phase
           /\ \A v \in Workers \ {w} : call'[v] = call[v]
BY DEF DurableInv, HolderInv, Typed, TypeOK, CallType, Goto

LEMMA ComputeCases ==
    ASSUME DurableInv, NEW w \in Workers, Compute(w)
    PROVE  Cases /\ DiskTyped
<1>1. SameTrees /\ disk' = disk /\ DiskTyped
  BY NothingWritten DEF Compute, DiskTyped
<1>2. CASE ApplyNotQueued(w)
  BY <1>1, <1>2 DEF Cases
<1>3. ASSUME NEW t \in Tx, SubmitMissing(w, t) \/ SubmitReady(w, t)
      PROVE  Plain
  <2>1. /\ call'[w].pc \notin {"putTx", "putCons"}
        /\ \A v \in Workers \ {w} : call'[v] = call[v]
    BY <1>3 DEF DurableInv, HolderInv, Typed, TypeOK, SubmitMissing, SubmitReady
  <2>2. Next
    BY <1>3 DEF Next, Enter
  <2> QED BY <1>1, <2>1, <2>2, MovedPlain
<1>4. CASE Validate(w) \/ Apply(w) \/ Admit(w)
  <2>1. \E phase \in {"validated", "settle", "save"} : Goto(w, phase)
    BY <1>4 DEF Validate, Apply, Admit
  <2>2. Next
    BY <1>4 DEF Next, Pipeline
  <2> QED BY <1>1, <2>1, <2>2, GotoMoves, MovedPlain DEF Cases
<1>5. CASE LockBusy(w) \/ AdmitFails(w)
  <2>1. Finish(w)
    BY <1>5 DEF LockBusy, AdmitFails
  <2>2. Next
    BY <1>5 DEF Next, Pipeline
  <2> QED BY <1>1, <2>1, <2>2, FinishMoves, MovedPlain DEF Cases
<1>6. ASSUME NEW r \in settling, Settle(w, r) PROVE Plain
  <2>1. call' = call
    BY <1>6 DEF Settle
  <2>2. Next
    BY <1>6 DEF Next, Pipeline
  <2> QED BY <1>1, <2>1, <2>2 DEF Plain
<1> QED BY <1>1, <1>2, <1>3, <1>4, <1>5, <1>6 DEF Compute, Cases

LEMMA PersistCases ==
    ASSUME DurableInv, NEW w \in Workers, Persist(w)
    PROVE  Cases /\ DiskTyped
<1>0. /\ disk \in DiskType /\ Beside(disk) /\ Typed
      /\ forgotten \in ForgottenType /\ faults \in Nat
      /\ ledger \in LedgerType /\ cons \in ConsType
  BY DEF DurableInv, HolderInv, Typed, TypeOK, Beside
<1>1. CASE SaveBalance(w) \/ SaveNonce(w)
  <2>1. disk' \in DiskType
    BY <1>0, <1>1 DEF SaveBalance, SaveNonce, DiskType, LedgerType,
       BalancesToSave, NoncesToSave
  <2>2. UNCHANGED <<faults, forgotten>>
    BY <1>1 DEF SaveBalance, SaveNonce
  <2> QED BY <1>0, <1>1, <2>1, <2>2, KeptLess DEF Cases, Writes, DiskTyped
<1>2. CASE LedgerSaved /\ Save(w) /\ Recall /\ UNCHANGED <<disk, faults>>
  BY <1>0, <1>2, RecallLess DEF Cases, Writes, DiskTyped
<1>3. CASE SaveFails(w) /\ Fault /\ Recall /\ UNCHANGED disk
  <2>1. Finish(w) /\ SameTrees
    BY <1>3 DEF SaveFails, SameTrees
  <2>2. Next
    BY <1>3 DEF Next, Pipeline
  <2>3. faults' \in Nat
    BY <1>0, <1>3 DEF Fault
  <2> QED BY <1>0, <1>3, <2>1, <2>2, <2>3, RecallLess, FinishMoves, MovedPlain
      DEF Cases, DiskTyped
<1>4. CASE PutTx(w) /\ Written([disk EXCEPT !.txs = @ \cup {call[w].tx}])
  <2>1. call[w].tx \in Tx
    BY <1>0, <1>4 DEF PutTx, Typed, CallsCarry
  <2>2. [disk EXCEPT !.txs = @ \cup {call[w].tx}] \in DiskType
    BY <1>0, <2>1 DEF DiskType
  <2>3. /\ disk' \in {disk, [disk EXCEPT !.txs = @ \cup {call[w].tx}]}
        /\ faults' \in Nat /\ forgotten' = forgotten
    BY <1>0, <1>4 DEF Written, WrittenOr, Fault
  <2> QED BY <1>0, <1>4, <2>2, <2>3, KeptLess DEF Cases, Writes, DiskTyped
<1>5. CASE PutCons(w) /\ Written([disk EXCEPT !.cons = {cons}])
  <2>1. [disk EXCEPT !.cons = {cons}] \in DiskType
    BY <1>0 DEF DiskType
  <2>2. /\ disk' \in {disk, [disk EXCEPT !.cons = {cons}]}
        /\ faults' \in Nat /\ forgotten' = forgotten
    BY <1>0, <1>5 DEF Written, WrittenOr, Fault
  <2> QED BY <1>0, <1>5, <2>1, <2>2, KeptLess DEF Cases, Writes, DiskTyped
<1>6. CASE Publish(w) /\ Announce(w, call[w].tx)
  <2> DEFINE t == call[w].tx
             whole == RemoveOrphan(PutPool(disk, t), t)
             parts == {disk, PutPool(disk, t), RemoveOrphan(disk, t)}
  <2>1. t \in Tx
    BY <1>0, <1>6 DEF Publish, Typed, CallsCarry
  <2>2. \/ WrittenOr(PutPool(disk, t), {disk})
        \/ WrittenOr(whole, parts)
    BY <1>6 DEF Announce, Written
  <2>3. Beside(PutPool(disk, t)) /\ Beside(RemoveOrphan(disk, t))
    BY <1>0, <2>1, PutsBeside
  <2>4. Beside(whole)
    BY <2>1, <2>3, PutsBeside
  <2> HIDE DEF t
  <2>5. \A d \in {disk} \cup {PutPool(disk, t)} : Beside(d)
    BY <1>0, <2>3
  <2>6. \A d \in parts \cup {whole} : Beside(d)
    BY <1>0, <2>3, <2>4
  <2> HIDE DEF whole, parts
  <2>7. SameTrees /\ DiskTyped
    BY <2>2, <2>5, <2>6, WritesBeside DEF DiskTyped
  <2>8. Finish(w) /\ Next
    BY <1>6 DEF Publish, Next, Pipeline
  <2> QED BY <2>7, <2>8, FinishMoves, MovedPlain DEF Cases
<1> QED BY <1>1, <1>2, <1>3, <1>4, <1>5, <1>6 DEF Persist

LEMMA ShelveCases ==
    ASSUME DurableInv, NEW w \in Workers, Shelve(w)
    PROVE  Cases /\ DiskTyped
<1>0. Beside(disk) /\ Typed /\ disk \in DiskType
  BY DEF DurableInv, HolderInv, Beside
<1> DEFINE t == call[w].tx
<1>1. t \in Tx
  BY <1>0 DEF Shelve, StoreOrphan, Reject, ApplyFails, Typed, CallsCarry
<1>2. Finish(w) /\ Next
  BY DEF Shelve, StoreOrphan, Reject, ApplyFails, Next, Enter, Pipeline
<1>3. SameTrees /\ DiskTyped
  <2>1. CASE NoWrite
    BY <2>1, NothingWritten DEF DiskTyped
  <2>2. ASSUME NEW d \in {[disk EXCEPT !.orphans = @ \cup {t}],
                          RemoveOrphan(disk, t)},
               Written(d)
        PROVE  SameTrees /\ DiskTyped
    <3>1. Beside(d)
      <4>1. CASE d = [disk EXCEPT !.orphans = @ \cup {t}]
        <5> HIDE DEF t
        <5> QED BY <1>0, <1>1, <4>1 DEF Beside, DiskType
      <4>2. CASE d = RemoveOrphan(disk, t)
        <5> HIDE DEF t
        <5> QED BY <1>0, <1>1, <4>2, PutsBeside
      <4> QED BY <2>2, <4>1, <4>2
    <3>2. \A e \in {disk} \cup {d} : Beside(e)
      BY <1>0, <3>1
    <3>3. WrittenOr(d, {disk})
      BY <2>2 DEF Written
    <3> QED BY <3>2, <3>3, WritesBeside DEF DiskTyped
  <2> QED BY <2>1, <2>2 DEF Shelve
<1> QED BY <1>2, <1>3, FinishMoves, MovedPlain DEF Cases

LEMMA SolveCases ==
    ASSUME DurableInv, NEW s \in Solvers, SolveDurably(s)
    PROVE  Cases /\ DiskTyped
<1>0. s \in Workers /\ call \in [Workers -> CallType]
  BY DEF Workers, DurableInv, HolderInv, Typed, TypeOK
<1>1. SameTrees /\ disk' = disk /\ DiskTyped
  BY NothingWritten DEF SolveDurably, DiskTyped
<1>2. CASE StartBatchWith(s, disk.orphans)
  BY <1>1, <1>2 DEF Cases
<1>3. ASSUME NEW t \in Tx, SkipOrphan(s, t) PROVE Plain
  <2>1. call' = call
    BY <1>3 DEF SkipOrphan
  <2>2. Next
    BY <1>3 DEF Next, Solve
  <2> QED BY <1>1, <2>1, <2>2 DEF Plain
<1>4. CASE EndBatch(s)
  <2>1. /\ call'[s].pc \notin {"putTx", "putCons"}
        /\ \A v \in Workers \ {s} : call'[v] = call[v]
    BY <1>0, <1>4 DEF EndBatch, Idle
  <2>2. Next
    BY <1>4 DEF Next, Solve
  <2> QED BY <1>0, <1>1, <2>1, <2>2, MovedPlain DEF Cases
<1> QED BY <1>1, <1>2, <1>3, <1>4 DEF SolveDurably, Cases

LEMMA OtherCases ==
    ASSUME DurableInv, Mine \/ SaveJson
    PROVE  Cases /\ DiskTyped
<1>0. Beside(disk) /\ Typed /\ disk \in DiskType
  BY DEF DurableInv, HolderInv, Beside
<1>1. CASE MinePop /\ Written([disk EXCEPT !.pool = @ \ {mined'}])
  <2>1. mined' \in Tx
    <3>1. Typed'
      BY <1>0, <1>1, TypeStep DEF Next
    <3>2. mempool \in Seq(Tx) /\ mempool # << >> /\ mined' = Head(mempool)
      BY <1>0, <1>1 DEF MinePop, Typed, TypeOK
    <3> QED BY <3>2
  <2> DEFINE d == [disk EXCEPT !.pool = @ \ {mined'}]
  <2>2. Beside(d)
    BY <1>0, <2>1, PutsBeside
  <2>3. WrittenOr(d, {disk})
    BY <1>1 DEF Written
  <2> HIDE DEF d
  <2>4. \A e \in {disk} \cup {d} : Beside(e)
    BY <1>0, <2>2
  <2>5. SameTrees /\ DiskTyped
    BY <2>3, <2>4, WritesBeside DEF DiskTyped
  <2>6. call' = call /\ Next
    BY <1>1 DEF MinePop, Next
  <2> QED BY <2>5, <2>6 DEF Cases, Plain
<1>2. CASE MineAdd /\ NoWrite
  <2>1. call' = call /\ Next
    BY <1>2 DEF MineAdd, Next
  <2> QED BY <1>2, <2>1, NothingWritten DEF Cases, Plain, DiskTyped
<1>3. CASE SaveJson
  <2>1. dag.txs \in SUBSET Tx
    BY <1>0 DEF Typed, TypeOK, DagType
  <2>2. Beside([disk EXCEPT !.json = dag.txs])
    BY <1>0, <2>1 DEF Beside, DiskType
  <2>3. UNCHANGED vars /\ call' = call /\ UNCHANGED <<faults, forgotten>>
    BY <1>3 DEF SaveJson, vars
  <2>4. SameTrees /\ disk' \in DiskType
    BY <1>3, <2>2 DEF SaveJson, Beside, SameTrees
  <2> QED BY <2>3, <2>4, KeptLess DEF Cases, Plain, DiskTyped, DurableInv
<1> QED BY <1>1, <1>2, <1>3 DEF Mine

\* An order in which the replay goes through the DAG.
LEMMA OrdersType ==
    ASSUME NEW S \in SUBSET Tx, NEW order \in SetToSeqs(S)
    PROVE  order \in Seq(Tx)
<1>1. IsFiniteSet(S)
  BY FiniteAssumption, FS_Subset DEF FiniteAssumption
<1>2. Cardinality(S) \in Nat
  BY <1>1, FS_CardinalityType
<1>3. order \in [1 .. Cardinality(S) -> S]
  BY DEF SetToSeqs
<1>4. order \in [1 .. Cardinality(S) -> Tx]
  BY <1>3
<1> HIDE DEF SetToSeqs
<1> QED BY <1>2, <1>4, SeqDef

LEMMA BootCases ==
    ASSUME DurableInv, Crash \/ CrashRepair
    PROVE  Booted
<1>1. CASE Crash
  BY <1>1 DEF Crash, Booted, BootLedger
<1>2. CASE CrashRepair
  <2>1. PICK order \in SetToSeqs(Rebuilt.dag.txs) :
                Boot(RepairedLedger(Replay(order)), Forgotten(Replay(order)))
    BY <1>2 DEF CrashRepair
  <2>2. Rebuilt.dag.txs \in SUBSET Tx
    BY RebuiltSound DEF DurableInv, Sound, BuiltType, DagType
  <2>3. order \in Seq(Tx)
    BY <2>1, <2>2, OrdersType
  <2> QED BY <1>2, <2>1, <2>3 DEF CrashRepair, Booted, BootLedger
<1> QED BY <1>1, <1>2

LEMMA DurableCases ==
    ASSUME DurableInv, [DurableNext]_durableVars
    PROVE  Cases /\ (Booted \/ (DiskTyped /\ repaid' = repaid))
<1>1. CASE UNCHANGED durableVars
  <2>1. /\ UNCHANGED vars /\ call' = call /\ disk' = disk /\ faults' = faults
        /\ forgotten' = forgotten /\ repaid' = repaid
    BY <1>1 DEF durableVars, vars
  <2> QED BY <2>1, KeptLess DEF Cases, Plain, SameTrees, DiskTyped, DurableInv
<1>2. CASE Running /\ UNCHANGED repaid
  BY <1>2, ComputeCases, PersistCases, ShelveCases, SolveCases, OtherCases
  DEF Running
<1>3. CASE Crash \/ CrashRepair
  BY <1>3, BootCases DEF Cases
<1> QED BY <1>1, <1>2, <1>3 DEF DurableNext

-----------------------------------------------------------------------------
(* What a boot makes of any disk is a state of the node.                   *)
LEMMA SupplyOfType ==
    ASSUME NEW b \in [Addr -> U64]
    PROVE  SupplyOf(b) \in U64
<1> DEFINE S == Addr \ {Burn}
           n == SumFunctionOnSet(b, S)
<1>1. IsFiniteSet(S)
  BY FiniteAssumption, FS_Subset DEF FiniteAssumption
<1>2. U64Max \in Nat /\ \A a \in S : b[a] \in Nat
  BY LedgerAssumption DEF LedgerAssumption, U64
<1> HIDE DEF S
<1>3. n \in Nat
  BY <1>1, <1>2, SumNat
<1> HIDE DEF n
<1>4. n % (U64Max + 1) \in 0 .. U64Max
  BY <1>2, <1>3
<1> QED BY <1>4 DEF SupplyOf, U64, n, S

LEMMA RestoredType ==
    ASSUME disk \in DiskType
    PROVE  /\ RestoredBalances \in [Addr -> U64]
           /\ RestoredLedger \in LedgerType /\ BurnOK(RestoredLedger)
<1>1. /\ disk.bal \in [Addr -> U64] /\ disk.nonce \in [Addr -> Nat]
  BY DiskParts
<1>2. /\ Burn \in Addr /\ GenesisBal \in [Addr -> U64] /\ GenesisBal[Burn] = 0
  BY TransactionsAssumption, ProcessorAssumption
  DEF TransactionsAssumption, ProcessorAssumption
<1>3. /\ RestoredBalances \in [Addr -> U64]
      /\ RestoredBalances[Burn] = disk.bal[Burn]
  BY <1>1, <1>2 DEF RestoredBalances
<1>4. SupplyOf(disk.bal) \in U64 /\ disk.bal[Burn] \in U64
  BY <1>1, <1>2, SupplyOfType
<1> HIDE DEF RestoredBalances, SupplyOf
<1> QED BY <1>1, <1>3, <1>4 DEF RestoredLedger, LedgerType, BurnOK

LEMMA ReplayedType ==
    ASSUME disk \in DiskType, NEW order \in Seq(Tx)
    PROVE  Replay(order) \in ReplayType
<1> DEFINE base == ReplayStart
<1>1. base \in ReplayType
  <2>1. Rebuilt.dag.txs \in SUBSET Tx
    BY RebuiltSound DEF Sound, BuiltType, DagType
  <2> HIDE DEF Rebuilt
  <2> QED BY <2>1, InitLedgerType DEF ReplayStart, ReplayType
<1>2. Replay(order) = FoldLeft(LAMBDA r, t : ReplayPass(r, order), base, order)
  BY DEF Replay, ReplayPass
<1> HIDE DEF base
<1> QED BY <1>1, <1>2, ReplaysStay, ReplayTypeStays

LEMMA RepairedType ==
    ASSUME NEW r \in ReplayType
    PROVE  /\ RepairedLedger(r) \in LedgerType /\ BurnOK(RepairedLedger(r))
           /\ Forgotten(r) \in ForgottenType
<1>1. r.ledger \in LedgerType /\ r.ledger.bal \in [Addr -> U64]
  BY DEF ReplayType, LedgerType
<1>2. SupplyOf(r.ledger.bal) \in U64 /\ r.ledger.bal[Burn] \in U64
  BY <1>1, SupplyOfType, TransactionsAssumption DEF TransactionsAssumption
<1>3. Forgotten(r) \in ForgottenType
  BY DEF Forgotten, ForgottenType
<1> HIDE DEF SupplyOf
<1> QED BY <1>1, <1>2, <1>3 DEF RepairedLedger, LedgerType, BurnOK

LEMMA BootLedgerType ==
    ASSUME disk \in DiskType, NEW l, NEW missing, BootLedger(l, missing)
    PROVE  l \in LedgerType /\ BurnOK(l) /\ missing \in ForgottenType
<1>1. CASE l = RestoredLedger /\ missing = NothingForgotten
  BY <1>1, RestoredType DEF NothingForgotten, ForgottenType
<1>2. ASSUME NEW order \in Seq(Tx), l = RepairedLedger(Replay(order)),
             missing = Forgotten(Replay(order))
      PROVE  l \in LedgerType /\ BurnOK(l) /\ missing \in ForgottenType
  BY <1>2, ReplayedType, RepairedType
<1> QED BY <1>1, <1>2 DEF BootLedger

LEMMA RestoredConsType ==
    ASSUME disk \in DiskType
    PROVE  RestoredCons \in ConsType
<1>1. CASE disk.cons = {}
  <2>1. Rebuilt.dag.txs \in SUBSET Tx
    BY RebuiltSound DEF Sound, BuiltType, DagType
  <2>2. Cardinality(Rebuilt.dag.txs) \in Nat
    BY <2>1, FiniteAssumption, FS_Subset, FS_CardinalityType
    DEF FiniteAssumption
  <2> HIDE DEF Rebuilt
  <2> QED BY <1>1, <2>2 DEF RestoredCons, InitCons, ConsType
<1>2. CASE disk.cons # {}
  BY <1>2, DiskParts DEF RestoredCons
<1> QED BY <1>1, <1>2

LEMMA RestoredPoolType == RestoredPool \in Seq(Tx)
<1>1. InKeyOrder(disk.pool) \in Seq(Tx)
  BY OrderType
<1> HIDE DEF InKeyOrder
<1> QED BY <1>1, PoolType DEF RestoredPool, Reloaded

LEMMA BootInv ==
    ASSUME DurableInv, NEW l, NEW missing, Boot(l, missing),
           BootLedger(l, missing)
    PROVE  /\ DurableInv' /\ \A w \in Workers : call'[w] = Idle
           /\ Formed(dag') /\ dag'.txs = Rebuilt.dag.txs
<1>1. disk \in DiskType /\ Typed
  BY DEF DurableInv, HolderInv
<1>2. l \in LedgerType /\ missing \in ForgottenType
  BY <1>1, BootLedgerType
<1>3. /\ Rebuilt.dag \in DagType /\ Formed(Rebuilt.dag)
      /\ Rebuilt.left \in SUBSET Tx
  BY <1>1, RebuiltSound DEF Sound, BuiltType
<1> HIDE DEF Rebuilt, RestoredPool, RestoredCons, RestoredBalances
<1>4. /\ dag' \in DagType /\ dag'.txs = Rebuilt.dag.txs /\ Formed(dag')
  <2>1. dag' = [Rebuilt.dag EXCEPT !.tips =
                   {t \in Rebuilt.dag.txs : Children(Rebuilt.dag, t) = {}}]
    BY DEF Boot, RebuildTips
  <2>2. dag' = Rebuilt.dag
    BY <1>3, <2>1 DEF Formed, TipsAreChildless, DagType
  <2> QED BY <1>3, <2>2
<1>5. \A w \in Workers : call'[w] = Idle
  BY DEF Boot
<1>6. call' \in [Workers -> CallType] /\ CallsCarry'
  BY <1>5, IdleType DEF Boot, CallsCarry, Idle
<1>7. TypeOK'
  <2>1. /\ ledger' \in LedgerType /\ snap' \in LedgerType
        /\ settling' \in SUBSET Pending
    BY <1>2, InitLedgerType DEF Boot, DropSnapshot
  <2>2. mempool' \in Seq(Tx) /\ cons' \in ConsType /\ orphans' \in SUBSET Tx
    BY <1>1, <1>3, RestoredPoolType, RestoredConsType DEF Boot
  <2>3. /\ poolFee' \in Nat /\ oracle' \in Nat /\ mined' \in Tx \cup {NoTx}
        /\ batch' \in [Solvers -> SUBSET Tx]
        /\ staked' \in [Stakers -> [amount : Nat, paid : Nat]]
    BY <1>1 DEF Boot, Typed, TypeOK
  <2> QED BY <1>4, <1>6, <2>1, <2>2, <2>3 DEF TypeOK
<1>8. HolderInv'
  <2>1. "idle" \notin ConsPhases /\ "idle" \notin Entered
    BY DEF ConsPhases, WritePhases, Entered
  <2>2. \A w \in Workers : call'[w].pc = "idle"
    BY <1>5 DEF Idle
  <2> QED BY <1>6, <1>7, <2>1, <2>2 DEF HolderInv, Typed
<1>9. disk' \in DiskType
  <2>1. Inserted(RestoredBalances, l.bal, missing.bal) \in [Addr -> U64]
    BY <1>1, <1>2, RestoredType DEF Inserted, LedgerType
  <2>2. Inserted(disk.nonce, l.nonce, missing.nonce) \in [Addr -> Nat]
    BY <1>1, <1>2, DiskParts DEF Inserted, LedgerType
  <2> HIDE DEF Inserted
  <2> QED BY <1>1, <2>1, <2>2 DEF Boot, DiskType
<1>10. faults' \in Nat /\ forgotten' \in ForgottenType
  BY <1>2 DEF Boot, Fault, DurableInv
<1> QED BY <1>4, <1>5, <1>8, <1>9, <1>10 DEF DurableInv

LEMMA NotQueuedInv ==
    ASSUME DurableInv, NEW w \in Workers, ApplyNotQueued(w)
    PROVE  /\ HolderInv' /\ call[w].tx \in Tx /\ call[w].pc = "validated"
           /\ call'[w].pc \in {"idle", "batch"}
           /\ \A v \in Workers \ {w} : call'[v] = call[v]
           /\ CanAdd(dag, call[w].tx) /\ dag' = AddTx(dag, call[w].tx)
           /\ ledger' = CommitNonce(Transfer(ledger, call[w].tx), call[w].tx)
           /\ TransferFits(ledger, call[w].tx)
<1> DEFINE t == call[w].tx
<1>0. HolderInv /\ Typed /\ call \in [Workers -> CallType] /\ dag \in DagType
      /\ cons \in ConsType /\ ledger \in LedgerType
  BY DEF DurableInv, HolderInv, Typed, TypeOK
<1>1. /\ call[w].pc = "validated" /\ Applicable(t) /\ dag' = AddTx(dag, t)
      /\ ledger' = CommitNonce(Transfer(ledger, t), t)
      /\ cons' = [cons EXCEPT !.height = @ + 1] /\ Finish(w)
      /\ UNCHANGED <<mempool, poolFee, oracle, orphans, staked, batch, snap,
                     settling, mined>>
  BY DEF ApplyNotQueued
<1>2. t \in Tx
  BY <1>0, <1>1 DEF Typed, CallsCarry
<1>3. call' \in [Workers -> CallType] /\ CallsCarry'
  BY <1>0, <1>1, FinishTyped
<1>4. /\ call'[w].pc \in {"idle", "batch"}
      /\ \A v \in Workers \ {w} : call'[v] = call[v]
  BY <1>0, <1>1 DEF Finish, Idle
<1>5. TransferFits(ledger, t) /\ CanAdd(dag, t)
  BY <1>1 DEF Applicable
<1> HIDE DEF t
<1>6. ledger' \in LedgerType /\ dag' \in DagType /\ cons' \in ConsType
  <2>1. Transfer(ledger, t) \in LedgerType
    BY <1>0, <1>2, <1>5, TransferType
  <2>2. CommitNonce(Transfer(ledger, t), t) \in LedgerType
    BY <1>2, <2>1, CommitNonceType
  <2>3. cons' \in ConsType
    BY <1>0, <1>1 DEF ConsType
  <2> QED BY <1>0, <1>1, <1>2, <2>2, <2>3, AddTxType
<1>7. dag'.txs = dag.txs \cup {t}
  BY <1>0, <1>1, <1>2, AddTxType
<1>8. Typed'
  BY <1>0, <1>1, <1>3, <1>6 DEF Typed, TypeOK
<1>9. call'[w].pc \notin ConsPhases /\ call'[w].pc \notin Entered
  BY <1>4 DEF ConsPhases, WritePhases, Entered
<1>10. HolderInv'
  <2>1. \A u, v \in Workers :
           call'[u].pc \in ConsPhases /\ call'[v].pc \in ConsPhases => u = v
    BY <1>0, <1>4, <1>9 DEF HolderInv
  <2>2. \A v \in Workers : call'[v].pc \in Entered => call'[v].tx \in dag'.txs
    BY <1>0, <1>4, <1>7, <1>9 DEF HolderInv
  <2> QED BY <1>8, <2>1, <2>2 DEF HolderInv
<1> QED BY <1>1, <1>2, <1>4, <1>5, <1>10 DEF t

LEMMA BatchInv ==
    ASSUME DurableInv, NEW s \in Solvers, StartBatchWith(s, disk.orphans)
    PROVE  /\ HolderInv' /\ call[s].pc = "idle" /\ call'[s].pc = "batch"
           /\ \A v \in Workers \ {s} : call'[v] = call[v]
<1>0. /\ HolderInv /\ Typed /\ call \in [Workers -> CallType] /\ s \in Workers
      /\ disk.orphans \in SUBSET Tx /\ orphans \in SUBSET Tx
  BY DiskParts DEF DurableInv, HolderInv, Typed, TypeOK, Workers
<1>1. /\ call[s].pc = "idle" /\ call' = [call EXCEPT ![s].pc = "batch"]
      /\ orphans' = orphans \cup disk.orphans
      /\ batch' = [batch EXCEPT ![s] = {t \in orphans' : HasParents(dag, t)}]
      /\ UNCHANGED <<dag, ledger, mempool, poolFee, oracle, cons, staked, snap,
                     settling, mined>>
  BY DEF StartBatchWith, Goto
<1>2. /\ call' \in [Workers -> CallType] /\ call'[s].pc = "batch"
      /\ \A v \in Workers \ {s} : call'[v] = call[v]
  BY <1>0, <1>1 DEF CallType, Phases
<1>3. orphans' \in SUBSET Tx /\ batch' \in [Solvers -> SUBSET Tx]
  BY <1>0, <1>1 DEF Typed, TypeOK
<1>4. CallsCarry'
  BY <1>0, <1>2 DEF Typed, CallsCarry
<1>5. Typed'
  BY <1>0, <1>1, <1>2, <1>3, <1>4 DEF Typed, TypeOK
<1>6. "batch" \notin ConsPhases /\ "batch" \notin Entered
  BY DEF ConsPhases, WritePhases, Entered
<1>7. \A u, v \in Workers :
         call'[u].pc \in ConsPhases /\ call'[v].pc \in ConsPhases => u = v
  BY <1>0, <1>2, <1>6 DEF HolderInv
<1>8. \A v \in Workers : call'[v].pc \in Entered => call'[v].tx \in dag'.txs
  BY <1>0, <1>1, <1>2, <1>6 DEF HolderInv
<1> QED BY <1>1, <1>2, <1>5, <1>7, <1>8 DEF HolderInv

\* The step of the node in a step that writes.
LEMMA WritesNext ==
    ASSUME NEW w \in Workers, Writes(w)
    PROVE  [Next]_vars
<1>1. CASE SaveBalance(w) \/ SaveNonce(w)
  BY <1>1 DEF SaveBalance, SaveNonce
<1>2. CASE Save(w) \/ PutTx(w) \/ PutCons(w)
  BY <1>2 DEF Next, Pipeline
<1> QED BY <1>1, <1>2 DEF Writes

LEMMA DurableStep == DurableInv /\ [DurableNext]_durableVars => DurableInv'
<1> SUFFICES ASSUME DurableInv, [DurableNext]_durableVars PROVE DurableInv'
  OBVIOUS
<1>1. Cases /\ (Booted \/ DiskTyped)
  BY DurableCases
<1>2. CASE Booted
  BY <1>2, BootInv DEF Booted
<1>3. CASE Plain \/ \E w \in Workers : Writes(w)
  <2>1. [Next]_vars
    BY <1>3, WritesNext DEF Plain
  <2> QED BY <1>1, <1>2, <2>1, HolderStep DEF DurableInv, DiskTyped, Less
<1>4. ASSUME NEW w \in Workers, ApplyNotQueued(w) PROVE HolderInv'
  BY <1>4, NotQueuedInv
<1>5. ASSUME NEW s \in Solvers, StartBatchWith(s, disk.orphans) PROVE HolderInv'
  BY <1>5, BatchInv
<1> QED BY <1>1, <1>2, <1>3, <1>4, <1>5 DEF Cases, DurableInv, DiskTyped, Less

LEMMA DurableStart == DurableInit => DurableInv
<1> SUFFICES ASSUME DurableInit PROVE DurableInv
  OBVIOUS
<1>1. HolderInv
  BY HolderInit DEF DurableInit
<1>2. disk \in DiskType
  BY ProcessorAssumption
  DEF DurableInit, InitDisk, DiskType, ProcessorAssumption
<1> QED BY <1>1, <1>2
        DEF DurableInit, DurableInv, NothingForgotten, ForgottenType

\* Whatever a crash leaves of the writes, the next boot and every step after it
\* keep the types: in particular a balance, the burn counter and the supply
\* counter that the boot sums up stay within u64.
THEOREM DurableTypeCorrect == DurableSpec => [](TypeOK /\ disk \in DiskType)
<1>1. DurableInv => TypeOK /\ disk \in DiskType
  BY DEF DurableInv, HolderInv, Typed
<1> QED BY <1>1, DurableStart, DurableStep, PTL DEF DurableSpec

-----------------------------------------------------------------------------
(* The DAG and the burn counter, with crashes.                             *)
DurableDagInv == DurableInv /\ Formed(dag)

LEMMA DurableDagStep ==
    DurableDagInv /\ [DurableNext]_durableVars => DurableDagInv'
<1> SUFFICES ASSUME DurableDagInv, [DurableNext]_durableVars
             PROVE  Formed(dag)'
  BY DurableStep DEF DurableDagInv
<1>0. DurableInv /\ Typed /\ dag \in DagType /\ Formed(dag)
  BY DEF DurableDagInv, DurableInv, HolderInv, Typed, TypeOK
<1>1. CASE Booted
  BY <1>0, <1>1, BootInv DEF Booted
<1>2. CASE Plain \/ \E w \in Workers : Writes(w)
  <2>1. [Next]_vars
    BY <1>2, WritesNext DEF Plain
  <2> QED BY <1>0, <2>1, DagInductive DEF DagInv
<1>3. ASSUME NEW w \in Workers, ApplyNotQueued(w) PROVE Formed(dag)'
  <2>1. /\ call[w].tx \in Tx /\ CanAdd(dag, call[w].tx)
        /\ dag' = AddTx(dag, call[w].tx)
    BY <1>0, <1>3, NotQueuedInv
  <2>2. Formed(AddTx(dag, call[w].tx))
    BY <1>0, <2>1, AddTxFormed
  <2> QED BY <2>1, <2>2
<1>4. ASSUME NEW s \in Solvers, StartBatchWith(s, disk.orphans)
      PROVE  Formed(dag)'
  BY <1>0, <1>4 DEF StartBatchWith
<1> QED BY <1>0, <1>1, <1>2, <1>3, <1>4, DurableCases DEF Cases

\* A boot rebuilds a DAG in which no transaction lacks a parent or has a rival,
\* whatever subset of the writes had reached the disk and in whatever order the
\* keys are read; and no later insertion spoils that.
THEOREM DurableDagCorrect == DurableSpec => []DagWellFormed
<1>1. DurableInit => DurableDagInv
  BY DurableStart, EmptyFormed DEF DurableInit, Init, DurableDagInv
<1>2. DurableDagInv => DagWellFormed
  BY DEF DurableDagInv, Formed, DagWellFormed
<1> QED BY <1>1, <1>2, DurableDagStep, PTL DEF DurableSpec

DurableBurnInv == DurableInv /\ BurnOK(ledger) /\ BurnOK(snap)

LEMMA DurableBurnStep ==
    DurableBurnInv /\ [DurableNext]_durableVars => DurableBurnInv'
<1> SUFFICES ASSUME DurableBurnInv, [DurableNext]_durableVars
             PROVE  BurnOK(ledger)' /\ BurnOK(snap)'
  BY DurableStep DEF DurableBurnInv
<1>0. /\ DurableInv /\ Typed /\ ledger \in LedgerType /\ disk \in DiskType
      /\ BurnOK(ledger) /\ BurnOK(snap)
  BY DEF DurableBurnInv, DurableInv, HolderInv, Typed, TypeOK
<1>1. ASSUME NEW l, NEW missing, Boot(l, missing), BootLedger(l, missing)
      PROVE  BurnOK(ledger)' /\ BurnOK(snap)'
  <2>1. BurnOK(l) /\ ledger' = l /\ snap' = InitLedger
    BY <1>0, <1>1, BootLedgerType DEF Boot, DropSnapshot
  <2> QED BY <2>1, InitBurn
<1>2. CASE Plain \/ \E w \in Workers : Writes(w)
  <2>1. [Next]_vars
    BY <1>2, WritesNext DEF Plain
  <2> QED BY <1>0, <2>1, BurnStep DEF BurnInv
<1>3. ASSUME NEW w \in Workers, ApplyNotQueued(w)
      PROVE  BurnOK(ledger)' /\ BurnOK(snap)'
  <2>1. /\ call[w].tx \in Tx /\ snap' = snap
        /\ ledger' = CommitNonce(Transfer(ledger, call[w].tx), call[w].tx)
    BY <1>0, <1>3, NotQueuedInv DEF ApplyNotQueued
  <2>2. BurnOK(CommitNonce(Transfer(ledger, call[w].tx), call[w].tx))
    BY <1>0, <2>1, TransferBurn
  <2> QED BY <1>0, <2>1, <2>2
<1>4. ASSUME NEW s \in Solvers, StartBatchWith(s, disk.orphans)
      PROVE  BurnOK(ledger)' /\ BurnOK(snap)'
  BY <1>0, <1>4 DEF StartBatchWith
<1> QED BY <1>0, <1>1, <1>2, <1>3, <1>4, DurableCases DEF Cases, Booted

\* The burn counter is the balance of the burn address also after a crash in
\* the middle of ledger.save(), and after --repair-ledger, since a boot reads
\* the counter off the balance it has.
THEOREM DurableBurnCorrect == DurableSpec => []BurnAgrees
<1>1. DurableInit => DurableBurnInv
  BY DurableStart, InitBurn DEF DurableInit, Init, DurableBurnInv
<1>2. DurableBurnInv => BurnAgrees
  BY DEF DurableBurnInv, BurnOK, BurnAgrees
<1> QED BY <1>1, <1>2, DurableBurnStep, PTL DEF DurableSpec

-----------------------------------------------------------------------------
(* The consensus state that a crash brings back.  It is one that the node  *)
(* had before; what must hold of each state on its own is OwedOnce.        *)
OwedOnce(c) ==
    /\ QueuedBlocks(c) \cap c.rewarded = {}
    /\ \A r, q \in c.pending :
          r.block = q.block \/ r.height = q.height => r = q
    /\ \A r \in c.pending : r.height \in 1 .. c.height

SavedInv ==
    /\ DurableInv
    /\ \A c \in disk.cons : OwedOnce(c)
    /\ OwedOnce(cons)
    /\ settling \subseteq cons.pending

LEMMA ConsParts ==
    ASSUME NEW c \in ConsType
    PROVE  /\ c.height \in Nat /\ c.rewarded \in SUBSET Tx
           /\ \A r \in c.pending : r.block \in Tx /\ r.height \in Nat
BY DEF ConsType, Pending

LEMMA QueueOwed ==
    ASSUME NEW c \in ConsType, OwedOnce(c), NEW t \in Tx, CanQueue(c, t)
    PROVE  OwedOnce(Queue(c, t))
<1> DEFINE new == [block |-> t, height |-> c.height + 1]
           e   == Queue(c, t)
<1>1. /\ e.height = c.height + 1 /\ e.rewarded = c.rewarded
      /\ e.pending = c.pending \cup {new}
  BY DEF Queue, ConsType
<1>2. /\ new.block = t /\ new.height = c.height + 1 /\ c.height \in Nat
      /\ \A r \in c.pending : r.height \in Nat
  BY ConsParts
<1>3. t \notin c.rewarded /\ \A r \in c.pending : r.block # t
  BY DEF CanQueue, QueuedBlocks
<1> HIDE DEF new, e
<1>4. \A r \in c.pending : /\ r.height \in 1 .. c.height
                           /\ r.height # c.height + 1
                           /\ r.height \in 1 .. c.height + 1
  BY <1>2 DEF OwedOnce
<1>5. \A r \in e.pending : r.height \in 1 .. e.height
  BY <1>1, <1>2, <1>4
<1>6. \A r, q \in e.pending : r.block = q.block \/ r.height = q.height => r = q
  BY <1>1, <1>2, <1>3, <1>4 DEF OwedOnce
<1>7. QueuedBlocks(e) \cap e.rewarded = {}
  BY <1>1, <1>2, <1>3 DEF QueuedBlocks, OwedOnce
<1> QED BY <1>5, <1>6, <1>7 DEF OwedOnce, e

LEMMA SettledOwed ==
    ASSUME NEW c \in ConsType, OwedOnce(c), NEW r \in c.pending
    PROVE  /\ OwedOnce(Settled(c, r))
           /\ c.pending \ {r} \subseteq Settled(c, r).pending
<1> DEFINE e == Settled(c, r)
<1>1. /\ e.height = c.height /\ e.rewarded = c.rewarded \cup {r.block}
      /\ e.pending = {q \in c.pending : q.block # r.block}
  BY DEF Settled, ConsType
<1> HIDE DEF e
<1>2. OwedOnce(e) /\ c.pending \ {r} \subseteq e.pending
  BY <1>1 DEF OwedOnce, QueuedBlocks
<1> QED BY <1>2 DEF e

LEMMA SavedStep == SavedInv /\ [DurableNext]_durableVars => SavedInv'
<1> SUFFICES ASSUME SavedInv, [DurableNext]_durableVars
             PROVE  /\ \A c \in disk'.cons : OwedOnce(c)
                    /\ OwedOnce(cons') /\ settling' \subseteq cons'.pending
  BY DurableStep DEF SavedInv, OwedOnce, QueuedBlocks
<1> DEFINE Goal == /\ \A c \in disk'.cons : OwedOnce(c)
                   /\ OwedOnce(cons') /\ settling' \subseteq cons'.pending
<1>0. /\ DurableInv /\ HolderInv /\ Typed /\ cons \in ConsType
      /\ \A c \in disk.cons : OwedOnce(c)
      /\ OwedOnce(cons) /\ settling \subseteq cons.pending
  BY DEF SavedInv, DurableInv, HolderInv, Typed, TypeOK
<1>1. ASSUME cons' = cons, settling' \in {settling, {}},
             disk'.cons \in {disk.cons, {cons}}
      PROVE  Goal
  BY <1>0, <1>1
<1>2. CASE Plain
  <2>1. [Next]_vars /\ disk'.cons = disk.cons
    BY <1>2 DEF Plain, SameTrees
  <2>2. CASE Quiet
    BY <1>1, <2>1, <2>2 DEF Quiet
  <2>3. ASSUME NEW w \in Workers, Apply(w) PROVE Goal
    <3>1. call[w].tx \in Tx
      BY <1>0, <2>3 DEF Apply, Typed, CallsCarry
    <3>2. CASE Miner = NoMiner
      BY <1>1, <2>1, <2>3, <3>2 DEF Apply
    <3>3. CASE Miner # NoMiner
      <4>1. /\ CanQueue(cons, call[w].tx) /\ cons' = Queue(cons, call[w].tx)
            /\ settling' = FinalizedPending(cons')
        BY <2>3, <3>3 DEF Apply
      <4>2. OwedOnce(cons')
        BY <1>0, <3>1, <4>1, QueueOwed
      <4> QED BY <1>0, <2>1, <4>1, <4>2 DEF FinalizedPending
    <3> QED BY <3>2, <3>3
  <2>4. ASSUME NEW w \in Workers, NEW r \in settling, Settle(w, r) PROVE Goal
    <3>1. CASE CanSettle(r)
      <4>1. cons' = Settled(cons, r) /\ settling' = settling \ {r}
        BY <2>4, <3>1 DEF Settle
      <4>2. OwedOnce(cons') /\ cons.pending \ {r} \subseteq cons'.pending
        BY <1>0, <4>1, SettledOwed
      <4> QED BY <1>0, <2>1, <4>1, <4>2
    <3>2. CASE ~CanSettle(r)
      <4>1. cons' = cons /\ settling' = settling \ {r}
        BY <2>4, <3>2 DEF Settle
      <4> QED BY <1>0, <2>1, <4>1
    <3> QED BY <3>1, <3>2
  <2>5. ASSUME NEW w \in Workers,
               Admit(w) \/ AdmitFails(w) \/ SaveFails(w) \/ PutCons(w)
        PROVE  Goal
    BY <1>1, <2>1, <2>5 DEF Admit, AdmitFails, SaveFails, PutCons, DropSnapshot
  <2>6. CASE Staking
    BY <1>1, <2>1, <2>6 DEF Staking, Stake, Unstake
  <2> QED BY <1>0, <2>1, <2>2, <2>3, <2>4, <2>5, <2>6, BankCases
<1>3. ASSUME NEW w \in Workers, Writes(w) PROVE Goal
  <2>1. cons' = cons /\ settling' \in {settling, {}}
    BY <1>3 DEF Writes, SaveBalance, SaveNonce, Save, PutTx, PutCons,
       DropSnapshot, vars
  <2>2. disk'.cons \in {disk.cons, {cons}}
    BY <1>0, <1>3 DEF Writes, SaveBalance, SaveNonce, DurableInv, DiskType
  <2> QED BY <1>1, <2>1, <2>2
<1>4. ASSUME NEW w \in Workers, ApplyNotQueued(w), disk' = disk PROVE Goal
  <2>1. /\ cons'.height = cons.height + 1 /\ cons'.rewarded = cons.rewarded
        /\ cons'.pending = cons.pending /\ settling' = settling
        /\ cons.height \in Nat /\ \A r \in cons.pending : r.height \in Nat
    BY <1>0, <1>4, ConsParts DEF ApplyNotQueued, ConsType
  <2>2. \A r \in cons'.pending : r.height \in 1 .. cons'.height
    BY <1>0, <2>1 DEF OwedOnce
  <2>3. OwedOnce(cons')
    BY <1>0, <2>1, <2>2 DEF OwedOnce, QueuedBlocks
  <2> QED BY <1>0, <1>4, <2>1, <2>3
<1>5. ASSUME NEW s \in Solvers, StartBatchWith(s, disk.orphans), disk' = disk
      PROVE  Goal
  BY <1>1, <1>5 DEF StartBatchWith
<1>6. ASSUME NEW l, NEW missing, Boot(l, missing) PROVE Goal
  <2>1. disk'.cons = disk.cons /\ settling' = {} /\ cons' = RestoredCons
    BY <1>0, <1>6 DEF Boot, DropSnapshot, DurableInv, DiskType
  <2>2. OwedOnce(RestoredCons)
    <3>1. CASE disk.cons = {}
      <4> HIDE DEF Rebuilt
      <4> QED BY <3>1 DEF RestoredCons, InitCons, OwedOnce, QueuedBlocks
    <3>2. CASE disk.cons # {}
      BY <1>0, <3>2 DEF RestoredCons
    <3> QED BY <3>1, <3>2
  <2> QED BY <1>0, <2>1, <2>2
<1> QED BY <1>0, <1>2, <1>3, <1>4, <1>5, <1>6, DurableCases DEF Cases, Booted

\* The consensus state a crash brings back was put whole, so it owes no reward
\* twice and none that it marks as given, and neither does the one in memory.
THEOREM SavedCorrect == DurableSpec => []SavedRewards
<1>1. DurableInit => SavedInv
  BY DurableStart
  DEF DurableInit, Init, InitDisk, InitCons, SavedInv, OwedOnce, QueuedBlocks
<1>2. SavedInv => SavedRewards
  BY DEF SavedInv, OwedOnce, SavedRewards
<1> QED BY <1>1, <1>2, SavedStep, PTL DEF DurableSpec

-----------------------------------------------------------------------------
(* Debts that a crash brings back.  The balances are on disk before the    *)
(* consensus state, so what the disk gives the miner is measured against   *)
(* each consensus state that a boot may restore.                           *)
LEMMA EmissionOrder ==
    ASSUME NEW h \in Nat, NEW k \in Nat, h <= k
    PROVE  /\ Emission(h) \in Nat /\ Emission(k) \in Nat
           /\ Emission(h) <= Emission(k)
<1> DEFINE S == 1 .. h
           T == 1 .. k
           f == [n \in S |-> CalculateReward(n)]
           g == [n \in T |-> CalculateReward(n)]
<1>1. /\ IsFiniteSet(T) /\ IsFiniteSet(S) /\ S \in SUBSET T /\ T \subseteq Nat
  BY FS_Interval
<1>2. (\A n \in T : g[n] \in Nat) /\ \A n \in S : f[n] = g[n]
  BY <1>1, RewardNat
<1>3. /\ Emission(h) = SumFunctionOnSet(f, S)
      /\ Emission(k) = SumFunctionOnSet(g, T)
  BY DEF Emission, SumFunction
<1> HIDE DEF f, g, S, T
<1>4. SumFunctionOnSet(f, S) = SumFunctionOnSet(g, S)
  BY <1>1, <1>2, SumEqual
<1> QED BY <1>1, <1>2, <1>3, <1>4, SumSubset

LEMMA FinalOrder ==
    ASSUME NEW h \in Nat, NEW k \in Nat, h <= k
    PROVE  /\ FinalEmission(h) \in Nat /\ FinalEmission(k) \in Nat
           /\ FinalEmission(h) <= FinalEmission(k)
           /\ FinalEmission(h) <= Emission(h)
<1>1. Threshold \in Nat
  BY ProcessorAssumption DEF ProcessorAssumption
<1>2. Emission(h) \in Nat
  BY EmissionOrder
<1>3. CASE k < Threshold
  BY <1>1, <1>2, <1>3 DEF FinalEmission
<1>4. CASE h < Threshold /\ k >= Threshold
  <2>1. k - Threshold \in Nat
    BY <1>1, <1>4
  <2>2. Emission(k - Threshold) \in Nat
    BY <2>1, EmissionOrder
  <2> QED BY <1>1, <1>2, <1>4, <2>2 DEF FinalEmission
<1>5. CASE h >= Threshold
  <2>1. /\ h - Threshold \in Nat /\ k - Threshold \in Nat
        /\ h - Threshold <= k - Threshold /\ h - Threshold <= h
    BY <1>1, <1>5
  <2>2. /\ Emission(h - Threshold) \in Nat /\ Emission(k - Threshold) \in Nat
        /\ Emission(h - Threshold) <= Emission(k - Threshold)
        /\ Emission(h - Threshold) <= Emission(h)
    BY <2>1, EmissionOrder
  <2> QED BY <1>1, <1>5, <2>2 DEF FinalEmission
<1> QED BY <1>1, <1>3, <1>4, <1>5

LEMMA EmissionZero == Emission(0) = 0 /\ FinalEmission(0) = 0
<1>1. Emission(0) = 0
  <2>1. 1 .. 0 = {}
    OBVIOUS
  <2> QED BY <2>1, SumEmpty DEF Emission, SumFunction
<1>2. FinalEmission(0) \in Nat /\ FinalEmission(0) <= Emission(0)
  BY FinalOrder
<1> QED BY <1>1, <1>2

LEMMA RewardsOfNat ==
    ASSUME NEW S, S \subseteq Pending, IsFiniteSet(S)
    PROVE  RewardsOf(S) \in Nat
<1> DEFINE f == [r \in S |-> CalculateReward(r.height)]
<1>1. \A r \in S : f[r] \in Nat
  BY RewardNat DEF Pending
<1> HIDE DEF f
<1> QED BY <1>1, SumNat DEF RewardsOf, f

\* What is counted of a consensus state.
LEMMA ConsCounts ==
    ASSUME NEW c \in ConsType, IsFiniteSet(c.pending)
    PROVE  /\ c.height \in Nat /\ c.pending \subseteq Pending
           /\ FinalizedPending(c) \subseteq c.pending
           /\ IsFiniteSet(FinalizedPending(c))
           /\ RewardsOf(c.pending) \in Nat
           /\ RewardsOf(FinalizedPending(c)) \in Nat
           /\ Emission(c.height) \in Nat /\ FinalEmission(c.height) \in Nat
<1>1. /\ c.height \in Nat /\ c.pending \subseteq Pending
      /\ FinalizedPending(c) \subseteq c.pending
  BY DEF ConsType, FinalizedPending
<1>2. IsFiniteSet(FinalizedPending(c))
  BY <1>1, FS_Subset
<1>3. /\ RewardsOf(c.pending) \in Nat
      /\ RewardsOf(FinalizedPending(c)) \in Nat
  BY <1>1, <1>2, RewardsOfNat
<1>4. Emission(c.height) \in Nat /\ FinalEmission(c.height) \in Nat
  BY <1>1, EmissionOrder, FinalOrder
<1> QED BY <1>1, <1>2, <1>3, <1>4

\* A height more makes at most one reward final, that of one height.
LEMMA FinalJoins ==
    ASSUME NEW c \in ConsType, IsFiniteSet(c.pending),
           NEW e \in ConsType, IsFiniteSet(e.pending), OwedOnce(e),
           e.height = c.height + 1, c.pending \subseteq e.pending,
           \A r \in e.pending \ c.pending : r.height = e.height
    PROVE  RewardsOf(FinalizedPending(e)) + FinalEmission(c.height)
             <= RewardsOf(FinalizedPending(c)) + FinalEmission(e.height)
<1> DEFINE h == c.height
           C == FinalizedPending(c)
           D == FinalizedPending(e)
<1>1. /\ h \in Nat /\ e.height = h + 1 /\ Threshold \in Nat
      /\ C \subseteq Pending /\ D \subseteq Pending
      /\ IsFiniteSet(C) /\ IsFiniteSet(D)
      /\ RewardsOf(C) \in Nat /\ RewardsOf(D) \in Nat
      /\ D \subseteq e.pending
  BY ConsCounts, ProcessorAssumption DEF ProcessorAssumption
<1>2. \A r \in e.pending : r.height \in Nat /\ r.height \in 1 .. h + 1
  BY <1>1 DEF OwedOnce, ConsType, Pending
<1>3. C \subseteq D
  BY <1>1, <1>2 DEF FinalizedPending, Finalized
<1>4. \A r \in D \ C : r.height + Threshold = h + 1
  BY <1>1, <1>2 DEF FinalizedPending, Finalized
<1>5. /\ FinalEmission(h) \in Nat /\ FinalEmission(h + 1) \in Nat
      /\ FinalEmission(h) <= FinalEmission(h + 1)
  BY <1>1, FinalOrder
<1> HIDE DEF h, C, D
<1>6. CASE D = C
  BY <1>1, <1>5, <1>6 DEF h, C, D
<1>7. CASE D # C
  <2>1. PICK r \in D : r \notin C
    BY <1>3, <1>7
  <2>2. /\ r \in Pending /\ r.height \in Nat /\ r.height >= 1
        /\ r.height + Threshold = h + 1
    BY <1>1, <1>2, <1>4, <2>1
  <2>3. D = C \cup {r}
    <3>1. \A q \in D \ C : q = r
      <4> TAKE q \in D \ C
      <4>1. q.height = r.height
        BY <1>1, <1>2, <1>4, <2>1
      <4> QED BY <1>1, <2>1, <4>1 DEF OwedOnce
    <3> QED BY <1>3, <2>1, <3>1
  <2>4. RewardsOf(D) = RewardsOf(C) + CalculateReward(r.height)
    BY <1>1, <2>1, <2>2, <2>3, RewardsAdd
  <2> DEFINE k == h - Threshold
  <2>5. /\ k \in Nat /\ r.height = k + 1 /\ h >= Threshold
        /\ (h + 1) - Threshold = k + 1
    BY <1>1, <2>2
  <2>6. FinalEmission(h) = Emission(k) /\ FinalEmission(h + 1) = Emission(k + 1)
    BY <1>1, <2>5 DEF FinalEmission
  <2>7. /\ Emission(k + 1) = Emission(k) + CalculateReward(k + 1)
        /\ Emission(k) \in Nat /\ CalculateReward(k + 1) \in Nat
    BY <2>5, EmissionGrows
  <2> HIDE DEF k
  <2>8. RewardsOf(D) + FinalEmission(h) <= RewardsOf(C) + FinalEmission(h + 1)
    BY <1>1, <2>4, <2>5, <2>6, <2>7
  <2> QED BY <1>1, <2>8 DEF h, C, D
<1> QED BY <1>6, <1>7

\* A settled reward leaves the queue, and those of it that are final.
LEMMA SettledCounts ==
    ASSUME NEW c \in ConsType, IsFiniteSet(c.pending), OwedOnce(c),
           NEW r \in c.pending, Finalized(c, r)
    PROVE  LET e == Settled(c, r) IN
           /\ e \in ConsType /\ e.height = c.height /\ IsFiniteSet(e.pending)
           /\ CalculateReward(r.height) \in Nat
           /\ RewardsOf(c.pending)
                = RewardsOf(e.pending) + CalculateReward(r.height)
           /\ RewardsOf(FinalizedPending(c))
                = RewardsOf(FinalizedPending(e)) + CalculateReward(r.height)
<1> DEFINE e == Settled(c, r)
           P == c.pending
           C == FinalizedPending(c)
<1>1. /\ e \in ConsType /\ e.height = c.height
      /\ e.pending = {q \in P : q.block # r.block}
  BY DEF Settled, ConsType, Pending
<1>2. e.pending = P \ {r}
  BY <1>1 DEF OwedOnce
<1>3. FinalizedPending(e) = C \ {r} /\ r \in C
  BY <1>1, <1>2 DEF FinalizedPending, Finalized
<1>4. /\ P \subseteq Pending /\ IsFiniteSet(P) /\ C \subseteq P
      /\ IsFiniteSet(C) /\ r \in Pending /\ r \in P
  BY ConsCounts
<1>5. ASSUME NEW S, S \subseteq Pending, IsFiniteSet(S), r \in S
      PROVE  /\ IsFiniteSet(S \ {r})
             /\ RewardsOf(S) = RewardsOf(S \ {r}) + CalculateReward(r.height)
  <2>1. /\ IsFiniteSet(S \ {r}) /\ S \ {r} \subseteq Pending
        /\ r \notin S \ {r} /\ (S \ {r}) \cup {r} = S
    BY <1>5, FS_RemoveElement
  <2> QED BY <1>4, <2>1, RewardsAdd
<1>6. CalculateReward(r.height) \in Nat
  BY <1>4, RewardNat DEF Pending
<1> HIDE DEF e, P, C
<1>7. /\ IsFiniteSet(e.pending)
      /\ RewardsOf(P) = RewardsOf(e.pending) + CalculateReward(r.height)
      /\ RewardsOf(C)
           = RewardsOf(FinalizedPending(e)) + CalculateReward(r.height)
  BY <1>2, <1>3, <1>4, <1>5
<1> QED BY <1>1, <1>6, <1>7 DEF e, P, C

-----------------------------------------------------------------------------
\* The miner neither pays nor is paid.
Untouched ==
    Miner \in Addr /\ \A t \in Tx : Miner \notin {Sender[t], Receiver[t]}

\* The consensus states a boot may start from; the initial one stands for
\* whatever is restored without a saved one.
SavedCons == IF disk.cons = {} THEN {InitCons} ELSE disk.cons

\* The miner has x coins beside the consensus state c: with what c owes it,
\* no more than the emission, but for the rewards repaid.
Bounded(x, c, repeats) ==
    x + RewardsOf(c.pending)
        <= GenesisBal[Miner] + Emission(c.height) + repeats

\* The same for a consensus state c that a boot at height h may restore: then
\* what is final in c, and what became final up to h, counts as repaid.
Covered(x, c, h, repeats) ==
    x + RewardsOf(c.pending) + FinalEmission(c.height)
        <= GenesisBal[Miner] + Emission(c.height)
             + RewardsOf(FinalizedPending(c)) + repeats + FinalEmission(h)

\* The miner's balance with the rewards that are final and yet to be paid.
Settleable(x, c) == x + RewardsOf(FinalizedPending(c))

\* The miner's balance is put beside the consensus state in memory as the disk
\* has it: saved by this call, or passed over as forgotten.
Current ==
    \/ Miner \in forgotten.bal
    \/ \E w \in Workers : call[w].pc \in {"putTx", "putCons"}

RepaidInv ==
    /\ repaid \in Nat
    /\ IsFiniteSet(cons.pending)
    /\ \A c, e \in SavedCons : c = e
    /\ \A c \in SavedCons : IsFiniteSet(c.pending) /\ c.height <= cons.height
    /\ GenesisBal[Miner] <= snap.bal[Miner]
    /\ snap.bal[Miner] <= ledger.bal[Miner]
    /\ GenesisBal[Miner] <= disk.bal[Miner]
    /\ Bounded(ledger.bal[Miner], cons, repaid)
    /\ Current => Bounded(disk.bal[Miner], cons, repaid)
    /\ \A c \in SavedCons :
          /\ Covered(Settleable(ledger.bal[Miner], cons), c, cons.height,
                     repaid)
          /\ Covered(disk.bal[Miner], c, cons.height, repaid)

LEMMA InitConsParts ==
    /\ InitCons \in ConsType /\ OwedOnce(InitCons)
    /\ IsFiniteSet(InitCons.pending)
    /\ InitCons.height = 0 /\ RewardsOf(InitCons.pending) = 0
    /\ RewardsOf(FinalizedPending(InitCons)) = 0
    /\ Emission(InitCons.height) = 0 /\ FinalEmission(InitCons.height) = 0
<1>1. /\ InitCons \in ConsType /\ OwedOnce(InitCons)
      /\ InitCons.height = 0 /\ InitCons.pending = {}
      /\ FinalizedPending(InitCons) = {}
  BY DEF InitCons, ConsType, OwedOnce, QueuedBlocks, FinalizedPending
<1>2. RewardsOf({}) = 0 /\ IsFiniteSet({})
  BY SumEmpty, FS_EmptySet DEF RewardsOf
<1> QED BY <1>1, <1>2, EmissionZero

LEMMA SavedConsParts ==
    ASSUME SavedInv, RepaidInv
    PROVE  /\ \A c \in SavedCons :
                 /\ c \in ConsType /\ OwedOnce(c) /\ IsFiniteSet(c.pending)
                 /\ c.height \in Nat
                 /\ RewardsOf(c.pending) \in Nat
                 /\ RewardsOf(FinalizedPending(c)) \in Nat
                 /\ Emission(c.height) \in Nat
                 /\ FinalEmission(c.height) \in Nat
           /\ cons \in ConsType /\ OwedOnce(cons) /\ cons.height \in Nat
           /\ RewardsOf(cons.pending) \in Nat
           /\ RewardsOf(FinalizedPending(cons)) \in Nat
           /\ Emission(cons.height) \in Nat
           /\ FinalEmission(cons.height) \in Nat
<1>1. /\ \A c \in disk.cons : c \in ConsType /\ OwedOnce(c)
      /\ cons \in ConsType /\ OwedOnce(cons)
  BY DiskParts DEF SavedInv, DurableInv, HolderInv, Typed, TypeOK
<1>2. /\ \A c \in SavedCons :
            c \in ConsType /\ OwedOnce(c) /\ IsFiniteSet(c.pending)
      /\ IsFiniteSet(cons.pending)
  BY <1>1, InitConsParts DEF SavedCons, RepaidInv
<1> QED BY <1>1, <1>2, ConsCounts

LEMMA MinerParts ==
    ASSUME Untouched, SavedInv
    PROVE  /\ Miner \in Addr \ {Burn} /\ Miner # NoMiner
           /\ GenesisBal[Miner] \in Nat /\ ledger.bal[Miner] \in Nat
           /\ snap.bal[Miner] \in Nat /\ disk.bal[Miner] \in Nat
           /\ ledger \in LedgerType /\ snap \in LedgerType /\ disk \in DiskType
<1>1. Miner \in Addr \ {Burn} /\ Miner # NoMiner
  BY ProcessorAssumption DEF ProcessorAssumption, Untouched
<1>2. ledger \in LedgerType /\ snap \in LedgerType /\ disk \in DiskType
  BY DEF SavedInv, DurableInv, HolderInv, Typed, TypeOK
<1>3. \A n \in U64 : n \in Nat
  BY LedgerAssumption DEF LedgerAssumption, U64
<1> QED BY <1>1, <1>2, <1>3, GenesisNat, DiskParts DEF LedgerType

\* A transaction of others leaves the miner's balance alone.
LEMMA PaymentPasses ==
    ASSUME Untouched, NEW l \in LedgerType, NEW t \in Tx, TransferFits(l, t)
    PROVE  CommitNonce(Transfer(l, t), t).bal[Miner] = l.bal[Miner]
<1>1. Miner \in Addr \ {Burn} /\ Miner \notin {Sender[t], Receiver[t]}
  BY ProcessorAssumption DEF ProcessorAssumption, Untouched
<1>2. Transfer(l, t).bal[Miner] = l.bal[Miner]
  BY <1>1 DEF Transfer, LedgerType
<1>3. Transfer(l, t) \in LedgerType
  BY TransferType
<1> HIDE DEF Transfer
<1> QED BY <1>2, <1>3 DEF CommitNonce, LedgerType

\* A step that leaves the trees alone keeps the invariant if it does not raise
\* what the miner has and is owed more than the emission.
LEMMA RunOn ==
    ASSUME Untouched, SavedInv, SavedInv', RepaidInv,
           IsFiniteSet(cons'.pending), repaid' = repaid,
           disk'.bal[Miner] = disk.bal[Miner], disk'.cons = disk.cons,
           forgotten'.bal \subseteq forgotten.bal,
           \A w \in Workers : call'[w].pc \in {"putTx", "putCons"} =>
                                 call[w].pc \in {"putTx", "putCons"},
           cons.height <= cons'.height,
           GenesisBal[Miner] <= snap'.bal[Miner],
           snap'.bal[Miner] <= ledger'.bal[Miner],
           Bounded(ledger'.bal[Miner], cons', repaid),
           RewardsOf(cons'.pending) + Emission(cons.height)
               <= RewardsOf(cons.pending) + Emission(cons'.height),
           Settleable(ledger'.bal[Miner], cons') + FinalEmission(cons.height)
               <= Settleable(ledger.bal[Miner], cons)
                    + FinalEmission(cons'.height)
    PROVE  RepaidInv'
<1> DEFINE G  == GenesisBal[Miner]
           b  == ledger.bal[Miner]
           b1 == ledger'.bal[Miner]
           d  == disk.bal[Miner]
           h  == cons.height
           k  == cons'.height
<1>1. G \in Nat /\ b \in Nat /\ b1 \in Nat /\ d \in Nat /\ repaid \in Nat
  <2>1. Untouched'
    BY DEF Untouched
  <2>2. ledger'.bal[Miner] \in Nat
    <3>1. ledger' \in LedgerType
      BY DEF SavedInv, DurableInv, HolderInv, Typed, TypeOK
    <3> QED BY <3>1, BalanceNat DEF Untouched
  <2> QED BY <2>2, MinerParts DEF RepaidInv
<1>2. cons' \in ConsType
  BY DEF SavedInv, DurableInv, HolderInv, Typed, TypeOK
<1>3. /\ h \in Nat /\ k \in Nat /\ h <= k
      /\ RewardsOf(cons.pending) \in Nat /\ RewardsOf(cons'.pending) \in Nat
      /\ RewardsOf(FinalizedPending(cons)) \in Nat
      /\ RewardsOf(FinalizedPending(cons')) \in Nat
      /\ Emission(h) \in Nat /\ Emission(k) \in Nat
      /\ FinalEmission(h) \in Nat /\ FinalEmission(k) \in Nat
  BY <1>2, SavedConsParts, ConsCounts
<1>4. FinalEmission(h) <= FinalEmission(k)
  BY <1>3, FinalOrder
<1>5. SavedCons' = SavedCons
  BY DEF SavedCons
<1>6. ASSUME NEW c \in SavedCons
      PROVE  /\ IsFiniteSet(c.pending) /\ c.height <= k
             /\ Covered(Settleable(b1, cons'), c, k, repaid)
             /\ Covered(d, c, k, repaid)
  <2>1. /\ c.height \in Nat
        /\ RewardsOf(c.pending) \in Nat
        /\ RewardsOf(FinalizedPending(c)) \in Nat
        /\ Emission(c.height) \in Nat /\ FinalEmission(c.height) \in Nat
    BY <1>6, SavedConsParts
  <2>2. /\ IsFiniteSet(c.pending) /\ c.height <= h
        /\ Covered(Settleable(b, cons), c, h, repaid)
        /\ Covered(d, c, h, repaid)
    BY <1>6 DEF RepaidInv
  <2>3. Settleable(b, cons) \in Nat /\ Settleable(b1, cons') \in Nat
    BY <1>1, <1>3 DEF Settleable
  <2>4. /\ Settleable(b1, cons') + FinalEmission(h)
             <= Settleable(b, cons) + FinalEmission(k)
    OBVIOUS
  <2> HIDE DEF Settleable, G, b, b1, d, h, k
  <2>5. Covered(Settleable(b1, cons'), c, k, repaid)
    BY <1>1, <1>3, <2>1, <2>2, <2>3, <2>4 DEF Covered, G
  <2>6. Covered(d, c, k, repaid)
    BY <1>1, <1>3, <1>4, <2>1, <2>2 DEF Covered, G
  <2> QED BY <1>3, <2>1, <2>2, <2>5, <2>6
<1>7. Bounded(d, cons, repaid) => Bounded(d, cons', repaid)
  <2> HIDE DEF d
  <2> QED BY <1>1, <1>3 DEF Bounded
<1>8. Current' => Current
  BY DEF Current
<1> QED BY <1>1, <1>3, <1>5, <1>6, <1>7, <1>8 DEF RepaidInv

\* As above, for a step that leaves the ledger and what is owed alone.
LEMMA StandStill ==
    ASSUME Untouched, SavedInv, SavedInv', RepaidInv, repaid' = repaid,
           disk'.bal[Miner] = disk.bal[Miner], disk'.cons = disk.cons,
           forgotten'.bal \subseteq forgotten.bal,
           \A w \in Workers : call'[w].pc \in {"putTx", "putCons"} =>
                                 call[w].pc \in {"putTx", "putCons"},
           cons' = cons, ledger' = ledger, snap' \in {snap, InitLedger, ledger}
    PROVE  RepaidInv'
<1>1. /\ GenesisBal[Miner] <= snap.bal[Miner]
      /\ snap.bal[Miner] <= ledger.bal[Miner]
      /\ Bounded(ledger.bal[Miner], cons, repaid) /\ IsFiniteSet(cons.pending)
  BY DEF RepaidInv
<1>2. /\ GenesisBal[Miner] \in Nat /\ snap.bal[Miner] \in Nat
      /\ ledger.bal[Miner] \in Nat
      /\ RewardsOf(cons.pending) \in Nat
      /\ RewardsOf(FinalizedPending(cons)) \in Nat
      /\ cons.height \in Nat
      /\ Emission(cons.height) \in Nat /\ FinalEmission(cons.height) \in Nat
  BY MinerParts, SavedConsParts
<1>3. /\ GenesisBal[Miner] <= snap'.bal[Miner]
      /\ snap'.bal[Miner] <= ledger.bal[Miner]
  BY <1>1, <1>2 DEF InitLedger
<1>4. Settleable(ledger.bal[Miner], cons) \in Nat
  BY <1>2 DEF Settleable
<1> HIDE DEF Settleable
<1> QED BY <1>1, <1>2, <1>3, <1>4, RunOn

\* STEPs 2 to 6, with the block queued or known already.
LEMMA PaymentRunsOn ==
    ASSUME Untouched, SavedInv, SavedInv', RepaidInv, repaid' = repaid,
           disk'.bal[Miner] = disk.bal[Miner], disk'.cons = disk.cons,
           forgotten'.bal \subseteq forgotten.bal,
           \A w \in Workers : call'[w].pc \in {"putTx", "putCons"} =>
                                 call[w].pc \in {"putTx", "putCons"},
           NEW t \in Tx, TransferFits(ledger, t),
           ledger' = CommitNonce(Transfer(ledger, t), t),
           snap' \in {snap, ledger}, cons'.height = cons.height + 1,
           cons'.pending = cons.pending \/ (cons' = Queue(cons, t)
                                            /\ CanQueue(cons, t))
    PROVE  RepaidInv'
<1> DEFINE h == cons.height
           n == CalculateReward(h + 1)
<1>0. /\ cons \in ConsType /\ h \in Nat /\ IsFiniteSet(cons.pending)
      /\ cons.pending \subseteq Pending
      /\ RewardsOf(cons.pending) \in Nat
      /\ cons' \in ConsType /\ OwedOnce(cons')
  <2>1. cons' \in ConsType /\ OwedOnce(cons')
    BY DEF SavedInv, DurableInv, HolderInv, Typed, TypeOK, OwedOnce,
       QueuedBlocks
  <2> QED BY <2>1, SavedConsParts, ConsCounts DEF RepaidInv
<1>1. ledger \in LedgerType /\ ledger'.bal[Miner] = ledger.bal[Miner]
  BY MinerParts, PaymentPasses
<1>2. /\ Emission(h + 1) = Emission(h) + n
      /\ Emission(h) \in Nat /\ n \in Nat
  BY <1>0, EmissionGrows
<1>3. /\ IsFiniteSet(cons'.pending) /\ cons.pending \subseteq cons'.pending
      /\ \A r \in cons'.pending \ cons.pending : r.height = cons'.height
      /\ RewardsOf(cons'.pending) \in Nat
      /\ RewardsOf(cons'.pending) <= RewardsOf(cons.pending) + n
  <2>1. CASE cons'.pending = cons.pending
    BY <1>0, <1>2, <2>1
  <2>2. CASE cons' = Queue(cons, t) /\ CanQueue(cons, t)
    <3> DEFINE r == [block |-> t, height |-> h + 1]
               P == cons.pending
    <3>1. cons'.pending = P \cup {r} /\ cons'.height = h + 1
      BY <1>0, <2>2 DEF Queue, ConsType
    <3>2. r \in Pending /\ r.height = h + 1
      BY <1>0 DEF Pending
    <3>3. r \notin P
      BY <2>2 DEF CanQueue, QueuedBlocks
    <3> HIDE DEF r, P, n, h
    <3>4. /\ IsFiniteSet(P \cup {r})
          /\ RewardsOf(P \cup {r}) = RewardsOf(P) + CalculateReward(r.height)
      BY <1>0, <3>2, <3>3, RewardsAdd DEF P
    <3> QED BY <1>0, <1>2, <3>1, <3>2, <3>4 DEF P, n
  <2> QED BY <2>1, <2>2
<1>4. RewardsOf(FinalizedPending(cons')) + FinalEmission(h)
        <= RewardsOf(FinalizedPending(cons)) + FinalEmission(h + 1)
  BY <1>0, <1>3, FinalJoins
<1>5. /\ RewardsOf(FinalizedPending(cons)) \in Nat
      /\ RewardsOf(FinalizedPending(cons')) \in Nat
      /\ FinalEmission(h) \in Nat /\ FinalEmission(h + 1) \in Nat
  <2>1. h + 1 \in Nat
    BY <1>0
  <2> QED BY <1>0, <1>3, <2>1, ConsCounts, FinalOrder
<1>6. /\ GenesisBal[Miner] \in Nat /\ ledger.bal[Miner] \in Nat
      /\ snap.bal[Miner] \in Nat /\ repaid \in Nat
      /\ GenesisBal[Miner] <= snap.bal[Miner]
      /\ snap.bal[Miner] <= ledger.bal[Miner]
      /\ Bounded(ledger.bal[Miner], cons, repaid)
  BY MinerParts DEF RepaidInv
<1> HIDE DEF h, n
<1>7. Bounded(ledger'.bal[Miner], cons', repaid)
  BY <1>0, <1>1, <1>2, <1>3, <1>6 DEF Bounded, h
<1>8. RewardsOf(cons'.pending) + Emission(cons.height)
        <= RewardsOf(cons.pending) + Emission(cons'.height)
  BY <1>0, <1>2, <1>3 DEF h
<1>9. Settleable(ledger'.bal[Miner], cons') + FinalEmission(cons.height)
        <= Settleable(ledger.bal[Miner], cons) + FinalEmission(cons'.height)
  BY <1>1, <1>4, <1>5, <1>6 DEF Settleable, h
<1>10. /\ GenesisBal[Miner] <= snap'.bal[Miner]
       /\ snap'.bal[Miner] <= ledger'.bal[Miner]
  BY <1>1, <1>6
<1>11. cons.height <= cons'.height
  BY <1>0 DEF h
<1> QED BY <1>3, <1>7, <1>8, <1>9, <1>10, <1>11, RunOn

\* STEP 7.
LEMMA SettleRunsOn ==
    ASSUME Untouched, SavedInv, SavedInv', RepaidInv, repaid' = repaid,
           disk'.bal[Miner] = disk.bal[Miner], disk'.cons = disk.cons,
           forgotten'.bal \subseteq forgotten.bal,
           \A w \in Workers : call'[w].pc \in {"putTx", "putCons"} =>
                                 call[w].pc \in {"putTx", "putCons"},
           NEW w \in Workers, NEW r \in settling, Settle(w, r)
    PROVE  RepaidInv'
<1>1. CASE ~CanSettle(r)
  BY <1>1, StandStill DEF Settle
<1>2. CASE CanSettle(r)
  <2> DEFINE n == CalculateReward(r.height)
  <2>1. /\ ledger' = CreditReward(ledger, Miner, n) /\ cons' = Settled(cons, r)
        /\ snap' = snap /\ r \in cons.pending /\ Finalized(cons, r)
    BY <1>2 DEF Settle, SavedInv, CanSettle
  <2>2. /\ cons \in ConsType /\ OwedOnce(cons) /\ IsFiniteSet(cons.pending)
        /\ Miner \in Addr /\ ledger \in LedgerType
    BY SavedConsParts, MinerParts DEF RepaidInv
  <2>3. /\ cons' \in ConsType /\ cons'.height = cons.height
        /\ IsFiniteSet(cons'.pending) /\ n \in Nat
        /\ RewardsOf(cons.pending) = RewardsOf(cons'.pending) + n
        /\ RewardsOf(FinalizedPending(cons))
             = RewardsOf(FinalizedPending(cons')) + n
    BY <2>1, <2>2, SettledCounts
  <2>4. ledger'.bal[Miner] = ledger.bal[Miner] + n
    BY <2>1, <2>2 DEF CreditReward, LedgerType
  <2>5. /\ GenesisBal[Miner] \in Nat /\ ledger.bal[Miner] \in Nat
        /\ snap.bal[Miner] \in Nat /\ repaid \in Nat
        /\ GenesisBal[Miner] <= snap.bal[Miner]
        /\ snap.bal[Miner] <= ledger.bal[Miner]
        /\ Bounded(ledger.bal[Miner], cons, repaid)
    BY MinerParts DEF RepaidInv
  <2>6. /\ cons.height \in Nat /\ Emission(cons.height) \in Nat
        /\ FinalEmission(cons.height) \in Nat
        /\ RewardsOf(cons'.pending) \in Nat
        /\ RewardsOf(FinalizedPending(cons')) \in Nat
    BY <2>2, <2>3, ConsCounts
  <2> HIDE DEF n
  <2>7. Bounded(ledger'.bal[Miner], cons', repaid)
    BY <2>3, <2>4, <2>5, <2>6 DEF Bounded
  <2>8. RewardsOf(cons'.pending) + Emission(cons.height)
          <= RewardsOf(cons.pending) + Emission(cons'.height)
    BY <2>3, <2>6
  <2>9. Settleable(ledger'.bal[Miner], cons') + FinalEmission(cons.height)
          <= Settleable(ledger.bal[Miner], cons) + FinalEmission(cons'.height)
    BY <2>3, <2>4, <2>5, <2>6 DEF Settleable
  <2>10. /\ GenesisBal[Miner] <= snap'.bal[Miner]
         /\ snap'.bal[Miner] <= ledger'.bal[Miner]
    BY <2>1, <2>3, <2>4, <2>5
  <2>11. cons.height <= cons'.height
    BY <2>3, <2>6
  <2> QED BY <2>3, <2>7, <2>8, <2>9, <2>10, <2>11, RunOn
<1> QED BY <1>1, <1>2

\* A refusal by the mempool takes the rewards back that the call has settled.
LEMMA RollbackRunsOn ==
    ASSUME Untouched, SavedInv, SavedInv', RepaidInv, repaid' = repaid,
           disk'.bal[Miner] = disk.bal[Miner], disk'.cons = disk.cons,
           forgotten'.bal \subseteq forgotten.bal,
           \A w \in Workers : call'[w].pc \in {"putTx", "putCons"} =>
                                 call[w].pc \in {"putTx", "putCons"},
           cons' = cons, ledger' = snap, snap' = InitLedger
    PROVE  RepaidInv'
<1>1. /\ GenesisBal[Miner] \in Nat /\ ledger.bal[Miner] \in Nat
      /\ snap.bal[Miner] \in Nat /\ repaid \in Nat
      /\ GenesisBal[Miner] <= snap.bal[Miner]
      /\ snap.bal[Miner] <= ledger.bal[Miner]
      /\ Bounded(ledger.bal[Miner], cons, repaid) /\ IsFiniteSet(cons.pending)
  BY MinerParts DEF RepaidInv
<1>2. /\ cons.height \in Nat /\ Emission(cons.height) \in Nat
      /\ FinalEmission(cons.height) \in Nat
      /\ RewardsOf(cons.pending) \in Nat
      /\ RewardsOf(FinalizedPending(cons)) \in Nat
  BY SavedConsParts
<1>3. Bounded(snap.bal[Miner], cons, repaid)
  BY <1>1, <1>2 DEF Bounded
<1>4. Settleable(snap.bal[Miner], cons) + FinalEmission(cons.height)
        <= Settleable(ledger.bal[Miner], cons) + FinalEmission(cons.height)
  BY <1>1, <1>2 DEF Settleable
<1>5. InitLedger.bal[Miner] = GenesisBal[Miner]
  BY DEF InitLedger
<1> HIDE DEF Settleable
<1>6. /\ RewardsOf(cons.pending) + Emission(cons.height)
           <= RewardsOf(cons.pending) + Emission(cons.height)
      /\ cons.height <= cons.height
      /\ GenesisBal[Miner] <= snap'.bal[Miner]
      /\ snap'.bal[Miner] <= ledger'.bal[Miner]
  BY <1>1, <1>2, <1>5
<1> QED BY <1>1, <1>3, <1>4, <1>6, RunOn

\* STEP 9: the miner's balance is saved, or was and the call goes on.
LEMMA SaveRunsOn ==
    ASSUME Untouched, SavedInv, RepaidInv, repaid' = repaid,
           disk'.bal[Miner] \in {disk.bal[Miner], ledger.bal[Miner]},
           disk'.cons = disk.cons, UNCHANGED <<cons, ledger, snap>>,
           Current' => Current \/ disk'.bal[Miner] = ledger.bal[Miner]
    PROVE  RepaidInv'
<1> DEFINE b == ledger.bal[Miner]
           d == disk'.bal[Miner]
           h == cons.height
<1>1. /\ GenesisBal[Miner] \in Nat /\ b \in Nat /\ snap.bal[Miner] \in Nat
      /\ disk.bal[Miner] \in Nat /\ repaid \in Nat
      /\ RewardsOf(FinalizedPending(cons)) \in Nat /\ FinalEmission(h) \in Nat
  BY MinerParts, SavedConsParts DEF RepaidInv
<1>2. GenesisBal[Miner] <= d
  BY <1>1 DEF RepaidInv
<1>3. SavedCons' = SavedCons
  BY DEF SavedCons
<1>4. ASSUME NEW c \in SavedCons PROVE Covered(d, c, h, repaid)
  <2>1. /\ RewardsOf(c.pending) \in Nat
        /\ RewardsOf(FinalizedPending(c)) \in Nat
        /\ Emission(c.height) \in Nat /\ FinalEmission(c.height) \in Nat
    BY <1>4, SavedConsParts
  <2>2. /\ Covered(b + RewardsOf(FinalizedPending(cons)), c, h, repaid)
        /\ Covered(disk.bal[Miner], c, h, repaid)
    BY <1>4 DEF RepaidInv, Settleable
  <2>3. Covered(b, c, h, repaid)
    <3> HIDE DEF b, h
    <3> QED BY <1>1, <2>1, <2>2 DEF Covered
  <2> HIDE DEF Covered
  <2> QED BY <2>2, <2>3
<1>5. Current' => Bounded(d, cons, repaid)
  <2>1. Current => Bounded(disk.bal[Miner], cons, repaid)
    BY DEF RepaidInv
  <2>2. Bounded(b, cons, repaid)
    BY DEF RepaidInv
  <2> HIDE DEF Bounded
  <2> QED BY <2>1, <2>2
<1> QED BY <1>2, <1>3, <1>4, <1>5 DEF RepaidInv

\* STEP 9b puts the consensus state beside balances that are saved.
LEMMA PutRunsOn ==
    ASSUME Untouched, SavedInv, SavedInv', RepaidInv, repaid' = repaid,
           NEW w \in Workers, PutCons(w), disk' = [disk EXCEPT !.cons = {cons}],
           forgotten'.bal \subseteq forgotten.bal
    PROVE  RepaidInv'
<1> DEFINE b == ledger.bal[Miner]
           d == disk.bal[Miner]
<1>1. /\ GenesisBal[Miner] \in Nat /\ b \in Nat /\ d \in Nat /\ repaid \in Nat
      /\ disk \in DiskType
      /\ RewardsOf(cons.pending) \in Nat
      /\ RewardsOf(FinalizedPending(cons)) \in Nat
      /\ cons.height \in Nat
      /\ Emission(cons.height) \in Nat /\ FinalEmission(cons.height) \in Nat
  BY MinerParts, SavedConsParts DEF RepaidInv
<1>2. /\ UNCHANGED <<cons, ledger>> /\ snap' = InitLedger
      /\ call[w].pc = "putCons"
  BY DEF PutCons, DropSnapshot
<1>3. disk'.cons = {cons} /\ disk'.bal = disk.bal /\ SavedCons' = {cons}
  BY <1>1, <1>2 DEF DiskType, SavedCons
<1>4. Bounded(b, cons, repaid) /\ Bounded(d, cons, repaid)
  BY <1>2 DEF RepaidInv, Current
<1>5. /\ Covered(Settleable(b, cons), cons, cons.height, repaid)
      /\ Covered(d, cons, cons.height, repaid)
  <2> HIDE DEF b, d
  <2> QED BY <1>1, <1>4 DEF Bounded, Covered, Settleable
<1>6. /\ GenesisBal[Miner] <= snap.bal[Miner]
      /\ snap.bal[Miner] <= b /\ GenesisBal[Miner] <= d
      /\ snap.bal[Miner] \in Nat
  BY MinerParts DEF RepaidInv
<1>7. InitLedger.bal[Miner] = GenesisBal[Miner]
  BY DEF InitLedger
<1> HIDE DEF Covered, Bounded, Settleable
<1> QED BY <1>1, <1>2, <1>3, <1>4, <1>5, <1>6, <1>7 DEF RepaidInv

LEMMA WritesRunOn ==
    ASSUME Untouched, SavedInv, SavedInv', RepaidInv, repaid' = repaid,
           forgotten'.bal \subseteq forgotten.bal, NEW w \in Workers, Writes(w)
    PROVE  RepaidInv'
<1>0. /\ DurableInv /\ HolderInv /\ disk \in DiskType
      /\ call \in [Workers -> CallType] /\ Miner \in Addr
  BY DEF SavedInv, DurableInv, HolderInv, Typed, TypeOK, Untouched
<1>1. ASSUME NEW a \in BalancesToSave,
             disk' = [disk EXCEPT !.bal[a] = ledger.bal[a]],
             UNCHANGED <<vars, forgotten>>
      PROVE  RepaidInv'
  <2>1. disk'.cons = disk.cons /\ UNCHANGED <<cons, ledger, snap, call>>
    BY <1>0, <1>1 DEF DiskType, vars
  <2>2. disk'.bal[Miner] = IF a = Miner THEN ledger.bal[Miner]
                                        ELSE disk.bal[Miner]
    BY <1>0, <1>1 DEF DiskType, BalancesToSave
  <2>3. Current' = Current
    BY <1>1, <2>1 DEF Current
  <2> QED BY <2>1, <2>2, <2>3, SaveRunsOn
<1>2. CASE SaveNonce(w)
  <2>1. disk'.cons = disk.cons /\ disk'.bal = disk.bal
    BY <1>0, <1>2 DEF SaveNonce, DiskType
  <2>2. UNCHANGED <<cons, ledger, snap, call>>
    BY <1>2 DEF SaveNonce, vars
  <2> QED BY <2>1, <2>2, StandStill
<1>3. CASE LedgerSaved /\ Save(w) /\ disk' = disk
  <2>1. UNCHANGED <<cons, ledger, snap>>
    BY <1>3 DEF Save
  <2>2. Miner \in forgotten.bal \/ disk.bal[Miner] = ledger.bal[Miner]
    BY <1>0, <1>3 DEF LedgerSaved, BalancesToSave, NoBalance
  <2> QED BY <1>3, <2>1, <2>2, SaveRunsOn DEF Current
<1>4. CASE /\ PutTx(w)
           /\ disk' \in {disk, [disk EXCEPT !.txs = @ \cup {call[w].tx}]}
  <2>1. disk'.cons = disk.cons /\ disk'.bal = disk.bal
    BY <1>0, <1>4 DEF DiskType
  <2>2. /\ UNCHANGED <<cons, ledger, snap>> /\ call[w].pc = "putTx"
        /\ Goto(w, "putCons")
    BY <1>4 DEF PutTx
  <2>3. \A v \in Workers \ {w} : call'[v] = call[v]
    BY <1>0, <2>2, GotoMoves
  <2> QED BY <2>1, <2>2, <2>3, StandStill
<1>5. CASE PutCons(w) /\ disk' \in {disk, [disk EXCEPT !.cons = {cons}]}
  <2>1. CASE disk' = disk
    <3>1. /\ UNCHANGED <<cons, ledger>> /\ snap' = InitLedger
          /\ Goto(w, "publish")
      BY <1>5 DEF PutCons, DropSnapshot
    <3>2. /\ call'[w].pc = "publish"
          /\ \A v \in Workers \ {w} : call'[v] = call[v]
      BY <1>0, <3>1, GotoMoves
    <3> QED BY <2>1, <3>1, <3>2, StandStill
  <2>2. CASE disk' = [disk EXCEPT !.cons = {cons}]
    BY <1>5, <2>2, PutRunsOn
  <2> QED BY <1>5, <2>1, <2>2
<1>6. CASE SaveBalance(w)
  BY <1>1, <1>6 DEF SaveBalance
<1> QED BY <1>2, <1>3, <1>4, <1>5, <1>6 DEF Writes

\* What a boot gives the miner: what the disk has, or its genesis balance.
LEMMA BootGives ==
    ASSUME Untouched, SavedInv, RepaidInv, NEW l, NEW missing, Boot(l, missing),
           BootLedger(l, missing)
    PROVE  /\ ledger'.bal[Miner] \in {disk.bal[Miner], GenesisBal[Miner]}
           /\ disk'.bal[Miner] \in {disk.bal[Miner], GenesisBal[Miner]}
<1> DEFINE G == GenesisBal[Miner]
           d == disk.bal[Miner]
<1>0. /\ disk \in DiskType /\ Miner \in Addr \ {Burn} /\ G \in Nat /\ d \in Nat
      /\ G <= d /\ ledger' = l
  BY MinerParts DEF RepaidInv, Boot
<1>1. RestoredBalances[Miner] = d
  BY <1>0 DEF RestoredBalances
<1>2. l.bal[Miner] \in {d, G}
  <2>1. CASE l = RestoredLedger
    BY <1>1, <2>1 DEF RestoredLedger
  <2>2. ASSUME NEW order \in Seq(Tx), l = RepairedLedger(Replay(order))
        PROVE  l.bal[Miner] = G
    <3> DEFINE base == ReplayStart
    <3>1. base \in ReplayType /\ base.ledger = InitLedger
      <4>1. Rebuilt.dag.txs \in SUBSET Tx
        BY <1>0, RebuiltSound DEF Sound, BuiltType, DagType
      <4> HIDE DEF Rebuilt
      <4> QED BY <4>1, InitLedgerType DEF ReplayStart, ReplayType
    <3>2. base \in Leaves(Miner)
      BY <3>1 DEF Leaves, InitLedger
    <3>3. Replay(order)
            = FoldLeft(LAMBDA r, t : ReplayPass(r, order), base, order)
      BY DEF Replay, ReplayPass
    <3> HIDE DEF base
    <3>4. Replay(order) \in Leaves(Miner)
      <4>1. ReplayStays(Leaves(Miner))
        BY <1>0, LeavesStays DEF Untouched
      <4>2. order \in Seq(Tx)
        BY <2>2
      <4>3. FoldLeft(LAMBDA r, t : ReplayPass(r, order), base, order)
              \in Leaves(Miner)
        BY <3>2, <4>1, <4>2, ReplaysStay
      <4> HIDE DEF Replay
      <4> QED BY <3>3, <4>3
    <3> HIDE DEF Replay
    <3> QED BY <2>2, <3>4 DEF Leaves, ReplayType, LedgerType, RepairedLedger
  <2> QED BY <2>1, <2>2 DEF BootLedger
<1>3. disk'.bal[Miner] \in {d, G}
  <2>1. disk'.bal = Inserted(RestoredBalances, l.bal, missing.bal)
    BY <1>0 DEF Boot, DiskType
  <2>2. disk'.bal[Miner] = IF Miner \in missing.bal THEN RestoredBalances[Miner]
                                                    ELSE l.bal[Miner]
    BY <1>0, <2>1 DEF Inserted
  <2> QED BY <1>1, <1>2, <2>2
<1> QED BY <1>0, <1>2, <1>3

\* The boot counts as repaid what it may bring back.
LEMMA BootRunsOn ==
    ASSUME Untouched, SavedInv, SavedInv', RepaidInv, NEW l, NEW missing,
           Boot(l, missing), BootLedger(l, missing)
    PROVE  RepaidInv'
<1> DEFINE G == GenesisBal[Miner]
           d == disk.bal[Miner]
           b == ledger'.bal[Miner]
           e == disk'.bal[Miner]
           h == cons.height
           R == RestoredCons
           F == RewardsOf(FinalizedPending(R))
<1>0. /\ G \in Nat /\ d \in Nat /\ G <= d /\ repaid \in Nat
      /\ b \in {d, G} /\ e \in {d, G} /\ disk \in DiskType
      /\ h \in Nat /\ FinalEmission(h) \in Nat
  BY MinerParts, SavedConsParts, BootGives DEF RepaidInv
<1>1. G <= b /\ b <= d /\ G <= e /\ e <= d /\ b \in Nat /\ e \in Nat
  BY <1>0
<1>2. /\ cons' = R /\ snap' = InitLedger /\ disk'.cons = disk.cons
      /\ repaid' = repaid + PaidSince(R)
  BY <1>0 DEF Boot, DropSnapshot, DiskType
<1>3. SavedCons' = SavedCons
  BY <1>2 DEF SavedCons
<1>4. R \in ConsType /\ IsFiniteSet(R.pending)
  <2>1. R \in ConsType
    BY <1>0, RestoredConsType
  <2>2. CASE disk.cons = {}
    <3> HIDE DEF Rebuilt
    <3> QED BY <2>1, <2>2, FS_EmptySet DEF RestoredCons, InitCons
  <2>3. CASE disk.cons # {}
    BY <2>1, <2>3 DEF RestoredCons, RepaidInv, SavedCons
  <2> QED BY <2>1, <2>2, <2>3
<1>5. /\ R.height \in Nat
      /\ RewardsOf(R.pending) \in Nat /\ F \in Nat
      /\ Emission(R.height) \in Nat /\ FinalEmission(R.height) \in Nat
      /\ FinalEmission(R.height) <= Emission(R.height)
  BY <1>4, ConsCounts, FinalOrder
<1>6. Overdue(R) = F
  BY DEF Overdue, RewardsOf, SumFunction
<1>7. /\ repaid' \in Nat
      /\ repaid + F <= repaid'
      /\ repaid + F + FinalEmission(h) <= repaid' + FinalEmission(R.height)
  <2>1. CASE R.height < h
    <3>1. FinalEmission(R.height) <= FinalEmission(h)
      BY <1>0, <1>5, <2>1, FinalOrder
    <3> HIDE DEF R, F, h
    <3> QED BY <1>0, <1>2, <1>5, <1>6, <2>1, <3>1 DEF PaidSince, h
  <2>2. CASE ~(R.height < h)
    <3>1. FinalEmission(h) <= FinalEmission(R.height)
      BY <1>0, <1>5, <2>2, FinalOrder
    <3> HIDE DEF R, F, h
    <3> QED BY <1>0, <1>2, <1>5, <1>6, <2>2, <3>1 DEF PaidSince, h
  <2> QED BY <2>1, <2>2
\* What the disk gives, beside what is restored.
<1>8. Bounded(d, R, repaid')
  <2>1. CASE disk.cons = {}
    <3>1. Covered(d, InitCons, h, repaid)
      BY <2>1 DEF RepaidInv, SavedCons
    <3>2. d <= G + repaid + FinalEmission(h)
      <4> HIDE DEF d, h, G
      <4> QED BY <1>0, <3>1, InitConsParts DEF Covered, G
    <3>3. R.pending = {} /\ RewardsOf({}) = 0
      <4> HIDE DEF Rebuilt
      <4> QED BY <2>1, SumEmpty DEF RestoredCons, InitCons, RewardsOf
    <3> HIDE DEF R, F, d, h, G
    <3> QED BY <1>0, <1>5, <1>7, <3>2, <3>3 DEF Bounded, G
  <2>2. CASE disk.cons # {}
    <3>1. R \in SavedCons
      BY <2>2 DEF RestoredCons, SavedCons
    <3>2. Covered(d, R, h, repaid)
      BY <3>1 DEF RepaidInv
    <3> HIDE DEF R, F, d, h, G
    <3> QED BY <1>0, <1>5, <1>7, <3>2 DEF Bounded, Covered, G, F
  <2> QED BY <2>1, <2>2
<1>9. Bounded(b, R, repaid') /\ Bounded(e, R, repaid')
  <2> HIDE DEF R, d, b, e
  <2> QED BY <1>0, <1>1, <1>5, <1>7, <1>8 DEF Bounded, G
<1>10. ASSUME NEW c \in SavedCons
       PROVE  /\ IsFiniteSet(c.pending) /\ c.height <= R.height
              /\ Covered(Settleable(b, R), c, R.height, repaid')
              /\ Covered(e, c, R.height, repaid')
  <2>1. CASE disk.cons = {}
    <3>1. c = InitCons
      BY <1>10, <2>1 DEF SavedCons
    <3>2. Covered(d, InitCons, h, repaid)
      BY <2>1 DEF RepaidInv, SavedCons
    <3>3. d <= G + repaid + FinalEmission(h)
      <4> HIDE DEF d, h, G
      <4> QED BY <1>0, <3>2, InitConsParts DEF Covered, G
    <3>4. F = 0
      <4>1. FinalizedPending(R) = {}
        <5> HIDE DEF Rebuilt
        <5> QED BY <2>1 DEF RestoredCons, InitCons, FinalizedPending
      <4> QED BY <4>1, SumEmpty DEF RewardsOf
    <3>5. Settleable(b, R) = b
      BY <1>1, <3>4 DEF Settleable
    <3> HIDE DEF R, F, d, h, G, b, e
    <3>6. /\ Covered(b, InitCons, R.height, repaid')
          /\ Covered(e, InitCons, R.height, repaid')
      BY <1>0, <1>1, <1>5, <1>7, <3>3, <3>4, InitConsParts DEF Covered, G
    <3> QED BY <1>5, <3>1, <3>5, <3>6, InitConsParts
  <2>2. CASE disk.cons # {}
    <3>1. R \in disk.cons
      BY <2>2 DEF RestoredCons
    <3>2. c = R
      BY <1>10, <2>2, <3>1 DEF RepaidInv, SavedCons
    <3> HIDE DEF R, d, h, b, e
    <3>3. /\ Covered(Settleable(b, R), R, R.height, repaid')
          /\ Covered(e, R, R.height, repaid')
      BY <1>0, <1>1, <1>5, <1>7, <1>9 DEF Bounded, Covered, Settleable, G, F
    <3> QED BY <1>4, <1>5, <3>2, <3>3
  <2> QED BY <2>1, <2>2
<1>11. InitLedger.bal[Miner] = G
  BY DEF InitLedger
<1> HIDE DEF R, F, Covered, Bounded, Settleable
<1> QED BY <1>0, <1>1, <1>2, <1>3, <1>4, <1>7, <1>9, <1>10, <1>11 DEF RepaidInv

LEMMA RepaidStep ==
    ASSUME Untouched, SavedInv, RepaidInv, [DurableNext]_durableVars
    PROVE  RepaidInv'
<1>0. /\ SavedInv' /\ DurableInv /\ HolderInv /\ Typed
      /\ call \in [Workers -> CallType] /\ disk \in DiskType
      /\ ledger \in LedgerType
  BY SavedStep DEF SavedInv, DurableInv, HolderInv, Typed, TypeOK
<1>1. Cases /\ (Booted \/ (DiskTyped /\ repaid' = repaid))
  BY <1>0, DurableCases
<1>2. CASE Booted
  BY <1>0, <1>2, BootRunsOn DEF Booted
<1>3. CASE DiskTyped /\ repaid' = repaid
  <2>0. repaid' = repaid /\ forgotten'.bal \subseteq forgotten.bal
    BY <1>3 DEF DiskTyped, Less
  <2>1. CASE Plain
    <3>1. /\ [Next]_vars /\ disk'.bal = disk.bal /\ disk'.cons = disk.cons
          /\ \A w \in Workers : call'[w].pc \in {"putTx", "putCons"} =>
                                   call[w].pc \in {"putTx", "putCons"}
      BY <2>1 DEF Plain, SameTrees
    <3>2. CASE Quiet
      BY <1>0, <2>0, <3>1, <3>2, StandStill DEF Quiet
    <3>3. ASSUME NEW w \in Workers, Apply(w) PROVE RepaidInv'
      <4> DEFINE t == call[w].tx
      <4>1. /\ Miner # NoMiner /\ t \in Tx
        BY <1>0, <3>3, MinerParts DEF Apply, Typed, CallsCarry
      <4>2. /\ TransferFits(ledger, t) /\ CanQueue(cons, t)
            /\ ledger' = CommitNonce(Transfer(ledger, t), t) /\ snap' = ledger
            /\ cons' = Queue(cons, t)
        BY <3>3, <4>1 DEF Apply, Applicable
      <4>3. cons'.height = cons.height + 1
        BY <1>0, <4>2 DEF Queue, Typed, TypeOK, ConsType
      <4> HIDE DEF t
      <4> QED BY <1>0, <2>0, <3>1, <4>1, <4>2, <4>3, PaymentRunsOn
    <3>4. ASSUME NEW w \in Workers, NEW r \in settling, Settle(w, r)
          PROVE  RepaidInv'
      BY <1>0, <2>0, <3>1, <3>4, SettleRunsOn
    <3>5. ASSUME NEW w \in Workers, Admit(w) \/ SaveFails(w) \/ PutCons(w)
          PROVE  RepaidInv'
      <4>1. cons' = cons /\ ledger' = ledger /\ snap' \in {snap, InitLedger}
        BY <3>5 DEF Admit, SaveFails, PutCons, DropSnapshot
      <4> QED BY <1>0, <2>0, <3>1, <4>1, StandStill
    <3>6. ASSUME NEW w \in Workers, AdmitFails(w) PROVE RepaidInv'
      <4>1. cons' = cons /\ ledger' = snap /\ snap' = InitLedger
        BY <3>6 DEF AdmitFails, Rollback, DropSnapshot
      <4> QED BY <1>0, <2>0, <3>1, <4>1, RollbackRunsOn
    <3>7. ~Staking
      BY DurabilityAssumption DEF DurabilityAssumption, Staking
    <3> QED BY <1>0, <3>1, <3>2, <3>3, <3>4, <3>5, <3>6, <3>7, BankCases
  <2>2. ASSUME NEW w \in Workers, Writes(w) PROVE RepaidInv'
    BY <1>0, <2>0, <2>2, WritesRunOn
  <2>3. ASSUME NEW w \in Workers, ApplyNotQueued(w), disk' = disk
        PROVE  RepaidInv'
    <3> DEFINE t == call[w].tx
    <3>1. /\ call'[w].pc \in {"idle", "batch"} /\ t \in Tx
          /\ \A v \in Workers \ {w} : call'[v] = call[v]
          /\ ledger' = CommitNonce(Transfer(ledger, t), t)
          /\ TransferFits(ledger, t)
      BY <1>0, <2>3, NotQueuedInv
    <3>2. /\ cons'.height = cons.height + 1 /\ cons'.pending = cons.pending
          /\ snap' = snap
      BY <1>0, <2>3 DEF ApplyNotQueued, Typed, TypeOK, ConsType
    <3> HIDE DEF t
    <3> QED BY <1>0, <2>0, <2>3, <3>1, <3>2, PaymentRunsOn
  <2>4. ASSUME NEW s \in Solvers, StartBatchWith(s, disk.orphans), disk' = disk
        PROVE  RepaidInv'
    <3>1. /\ call'[s].pc = "batch" /\ s \in Workers
          /\ \A v \in Workers \ {s} : call'[v] = call[v]
      BY <1>0, <2>4, BatchInv DEF Workers
    <3>2. cons' = cons /\ ledger' = ledger /\ snap' = snap
      BY <2>4 DEF StartBatchWith
    <3> QED BY <1>0, <2>0, <2>4, <3>1, <3>2, StandStill
  <2> QED BY <1>0, <1>1, <1>2, <2>1, <2>2, <2>3, <2>4 DEF Cases
<1> QED BY <1>1, <1>2, <1>3

LEMMA RepaidStart ==
    ASSUME Untouched, DurableInit
    PROVE  RepaidInv
<1> DEFINE G == GenesisBal[Miner]
<1>1. /\ ledger = InitLedger /\ snap = InitLedger /\ cons = InitCons
      /\ disk.bal = GenesisBal /\ disk.cons = {} /\ repaid = 0
      /\ forgotten.bal = {} /\ \A w \in Workers : call[w].pc = "idle"
  BY DEF DurableInit, Init, InitDisk, NothingForgotten, Idle
<1>2. SavedCons = {InitCons} /\ ~Current /\ InitLedger.bal[Miner] = G
  BY <1>1 DEF SavedCons, Current, InitLedger
<1>3. G \in Nat
  BY GenesisNat DEF Untouched
<1>4. /\ Bounded(G, InitCons, 0) /\ Covered(G, InitCons, InitCons.height, 0)
      /\ Settleable(G, InitCons) = G
  <2> HIDE DEF G
  <2> QED BY <1>3, InitConsParts DEF Bounded, Covered, Settleable, G
<1>5. IsFiniteSet(InitCons.pending) /\ InitCons.height <= InitCons.height
  BY InitConsParts
<1> HIDE DEF G
<1> QED BY <1>1, <1>2, <1>3, <1>4, <1>5 DEF RepaidInv, G

\* A crash between the save of the ledger and that of the consensus state makes
\* the node owe what it has paid, but no more than was final in the state it
\* restores and became final at the heights it lost: whatever the order of
\* crashes, failed puts, repairs, refusals by the mempool and settlements.
THEOREM RepaidCorrect == DurableSpec => []RewardsRepeated
<1> DEFINE Inv == SavedInv /\ (Untouched => RepaidInv)
<1>1. DurableInit => Inv
  BY DurableStart, RepaidStart
  DEF DurableInit, Init, InitDisk, InitCons, SavedInv, OwedOnce, QueuedBlocks
<1>2. Inv /\ [DurableNext]_durableVars => Inv'
  BY SavedStep, RepaidStep DEF Untouched
<1>3. Inv => RewardsRepeated
  BY OwedIs DEF Untouched, RewardsRepeated, RepaidInv, Bounded
<1> HIDE DEF Inv
<1> QED BY <1>1, <1>2, <1>3, PTL DEF DurableSpec

-----------------------------------------------------------------------------
(* The order of the writes.  Between STEP 2 and the put of the transaction *)
(* the ledger in memory already has the transaction's nonce.               *)
Held == {"settle", "save", "putTx"}

\* A step that leaves the nonces alone, and past STEP 2 only ends calls or
\* moves them on.
Still ==
    /\ ledger'.nonce = ledger.nonce
    /\ \A v \in Workers :
          /\ call'[v].pc = "settle" => call[v].pc = "settle" /\ snap' = snap
          /\ call'[v].pc \in Held => /\ call[v].pc \in Held
                                     /\ call'[v].tx = call[v].tx

LEMMA OneHolder ==
    ASSUME HolderInv, NEW w \in Workers, call[w].pc \in ConsPhases,
           NEW v \in Workers \ {w}
    PROVE  call[v].pc \notin ConsPhases /\ call[v].pc \notin Held
BY DEF HolderInv, ConsPhases, WritePhases, Held

LEMMA HeldCases ==
    ASSUME HolderInv, [Next]_vars
    PROVE  \/ Still
           \/ \E w \in Workers : Apply(w) \/ AdmitFails(w)
<1>0. /\ call \in [Workers -> CallType] /\ Solvers \subseteq Workers
      /\ ledger \in LedgerType
  BY DEF HolderInv, Typed, TypeOK, Workers
<1>1. ASSUME UNCHANGED <<ledger, snap, call>> PROVE Still
  BY <1>1 DEF Still
<1>2. ASSUME UNCHANGED <<ledger, snap>>, NEW w \in Workers,
             \A v \in Workers \ {w} : call'[v] = call[v],
             \/ call'[w].pc \notin Held
             \/ /\ call'[w].pc \in {"save", "putTx"} /\ call[w].pc \in Held
                /\ call'[w].tx = call[w].tx
      PROVE  Still
  <2>1. "settle" \in Held
    BY DEF Held
  <2> QED BY <1>2, <2>1 DEF Still
<1>3. ASSUME NEW w \in Workers, Finish(w)
      PROVE  /\ call'[w].pc \notin Held
             /\ \A v \in Workers \ {w} : call'[v] = call[v]
  BY <1>0, <1>3 DEF Finish, Idle, Held
<1>4. ASSUME NEW w \in Workers, NEW phase, Goto(w, phase)
      PROVE  /\ call'[w].pc = phase /\ call'[w].tx = call[w].tx
             /\ \A v \in Workers \ {w} : call'[v] = call[v]
  BY <1>0, <1>4 DEF Goto, CallType
<1>5. CASE UNCHANGED vars
  BY <1>1, <1>5 DEF vars
<1>6. ASSUME NEW w \in Workers, Enter(w) PROVE Still
  <2>1. ASSUME NEW t \in Tx, SubmitMissing(w, t) \/ SubmitReady(w, t)
        PROVE  Still
    <3>1. /\ UNCHANGED <<ledger, snap>> /\ call'[w].pc \notin Held
          /\ \A v \in Workers \ {w} : call'[v] = call[v]
      BY <1>0, <2>1 DEF SubmitMissing, SubmitReady, Held
    <3> QED BY <1>2, <3>1
  <2>2. CASE StoreOrphan(w)
    BY <1>2, <1>3, <2>2 DEF StoreOrphan
  <2> QED BY <1>6, <2>1, <2>2 DEF Enter
<1>7. ASSUME NEW s \in Solvers, Solve(s) PROVE Still
  <2>1. s \in Workers
    BY <1>0
  <2>2. CASE StartBatch(s)
    <3>1. "batch" \notin Held
      BY DEF Held
    <3> QED BY <1>2, <1>4, <2>1, <2>2, <3>1 DEF StartBatch, StartBatchWith
  <2>3. CASE EndBatch(s)
    <3>1. /\ UNCHANGED <<ledger, snap>> /\ call'[s].pc \notin Held
          /\ \A v \in Workers \ {s} : call'[v] = call[v]
      BY <1>0, <2>1, <2>3 DEF EndBatch, Idle, Held
    <3> QED BY <1>2, <2>1, <3>1
  <2>4. ASSUME NEW t \in Tx, SkipOrphan(s, t) PROVE Still
    BY <1>1, <2>4 DEF SkipOrphan
  <2> QED BY <1>7, <2>2, <2>3, <2>4 DEF Solve
<1>8. ASSUME NEW w \in Workers,
             Reject(w) \/ LockBusy(w) \/ ApplyFails(w) \/ Publish(w)
      PROVE  Still
  BY <1>2, <1>3, <1>8 DEF Reject, LockBusy, ApplyFails, Publish
<1>9. ASSUME NEW w \in Workers, Validate(w) \/ PutTx(w) PROVE Still
  <2>1. /\ UNCHANGED <<ledger, snap>>
        /\ \E phase \in {"validated", "putCons"} : Goto(w, phase)
    BY <1>9 DEF Validate, PutTx
  <2>2. "validated" \notin Held /\ "putCons" \notin Held
    BY DEF Held
  <2> QED BY <1>2, <1>4, <2>1, <2>2
<1>10. ASSUME NEW w \in Workers, Admit(w) \/ Save(w) PROVE Still
  <2>1. /\ UNCHANGED <<ledger, snap>> /\ call[w].pc \in Held
        /\ \E phase \in {"save", "putTx"} : Goto(w, phase)
    BY <1>10 DEF Admit, Save, Held
  <2> QED BY <1>2, <1>4, <2>1
<1>11. ASSUME NEW w \in Workers, SaveFails(w) \/ PutCons(w) PROVE Still
  <2>1. /\ ledger' = ledger /\ call[w].pc \in ConsPhases
        /\ call'[w].pc \notin Held
        /\ \A v \in Workers \ {w} : call'[v] = call[v]
    <3>1. "publish" \notin Held /\ {"save", "putCons"} \subseteq ConsPhases
      BY DEF Held, ConsPhases, WritePhases
    <3> QED BY <1>3, <1>4, <1>11, <3>1 DEF SaveFails, PutCons
  <2>2. \A v \in Workers : call'[v].pc \notin Held
    BY <2>1, OneHolder
  <2> QED BY <2>1, <2>2 DEF Still, Held
<1>12. ASSUME NEW w \in Workers, NEW r \in settling, Settle(w, r) PROVE Still
  <2>1. snap' = snap /\ call' = call
    BY <1>12 DEF Settle
  <2>2. ledger'.nonce = ledger.nonce
    BY <1>0, <1>12 DEF Settle, CreditReward, LedgerType
  <2> QED BY <2>1, <2>2 DEF Still
<1>13. CASE MinePop \/ MineAdd
  BY <1>1, <1>13 DEF MinePop, MineAdd
<1>14. CASE Staking
  <2>1. snap' = snap /\ call' = call
    BY <1>14 DEF Staking, Stake, Unstake
  <2>2. ledger'.nonce = ledger.nonce
    BY <1>0, <1>14
    DEF Staking, Stake, Unstake, Subtract, AddBalance, LedgerType
  <2> QED BY <2>1, <2>2 DEF Still
<1> QED BY <1>5, <1>6, <1>7, <1>8, <1>9, <1>10, <1>11, <1>12, <1>13, <1>14
        DEF Next, Pipeline

\* A payment that fits never lowers a nonce, and leaves its sender's at its own.
LEMMA CommitGrows ==
    ASSUME NEW l \in LedgerType, NEW t \in Tx, TransferFits(l, t),
           NonceFits(l, t)
    PROVE  /\ \A a \in Addr :
                 l.nonce[a] <= CommitNonce(Transfer(l, t), t).nonce[a]
           /\ Sender[t] # Faucet =>
                 /\ CommitNonce(Transfer(l, t), t).nonce[Sender[t]]
                       = AccountNonce[t]
                 /\ AccountNonce[t] = l.nonce[Sender[t]] + 1
<1>1. /\ Transfer(l, t).nonce = l.nonce /\ Transfer(l, t) \in LedgerType
      /\ l.nonce \in [Addr -> Nat]
      /\ Sender[t] \in Addr /\ AccountNonce[t] \in Nat
  BY TransferType, TransferNonce, CostNat DEF LedgerType
<1>2. CASE Sender[t] = Faucet
  BY <1>1, <1>2 DEF CommitNonce, LedgerType
<1>3. CASE Sender[t] # Faucet
  BY <1>1, <1>3 DEF CommitNonce, LedgerType, NonceFits
<1> QED BY <1>2, <1>3

Precedes(l) == \A a \in Addr : disk.nonce[a] <= l.nonce[a]

\* What is past STEP 2 has its nonce in the ledger, and no rival on the disk.
Ahead(w) ==
    LET t == call[w].tx IN
    call[w].pc \in Held /\ Sender[t] # Faucet =>
        /\ AccountNonce[t] <= ledger.nonce[Sender[t]]
        /\ \A u \in disk.txs :
              Sender[u] = Sender[t] => AccountNonce[u] # AccountNonce[t]

SavedFirst ==
    \A t \in disk.txs :
        Sender[t] # Faucet => AccountNonce[t] <= disk.nonce[Sender[t]]

SavedOnce ==
    \A t, u \in disk.txs :
        Sender[t] = Sender[u] /\ Sender[t] # Faucet
            /\ AccountNonce[t] = AccountNonce[u] => t = u

PersistInv ==
    /\ DurableInv
    /\ forgotten = NothingForgotten
    /\ Precedes(ledger)
    /\ \A w \in Workers : call[w].pc = "settle" => Precedes(snap)
    /\ \A w \in Workers : call[w].pc = "putTx" => disk.nonce = ledger.nonce
    /\ \A w \in Workers : Ahead(w)
    /\ SavedFirst /\ SavedOnce

LEMMA PersistParts ==
    ASSUME DurableInv
    PROVE  /\ HolderInv /\ Typed /\ call \in [Workers -> CallType]
           /\ ledger \in LedgerType /\ ledger.nonce \in [Addr -> Nat]
           /\ snap \in LedgerType /\ snap.nonce \in [Addr -> Nat]
           /\ disk \in DiskType /\ disk.nonce \in [Addr -> Nat]
           /\ disk.txs \in SUBSET Tx
           /\ \A w \in Workers : call[w].pc \in Held => call[w].tx \in Tx
<1>1. HolderInv /\ Typed /\ disk \in DiskType
  BY DEF DurableInv, HolderInv
<1>2. \A w \in Workers : call[w].pc \in Held => call[w].tx \in Tx
  BY <1>1 DEF Typed, CallsCarry, Held
<1> QED BY <1>1, <1>2, DiskParts DEF Typed, TypeOK, LedgerType

\* Nothing is forgotten before a repair.
LEMMA NeverForgets ==
    ASSUME ~Repairs, PersistInv, [DurableNext]_durableVars
    PROVE  forgotten' = NothingForgotten
<1>1. forgotten = NothingForgotten /\ DurableInv
  BY DEF PersistInv
<1>2. CASE DiskTyped
  BY <1>1, <1>2 DEF DiskTyped, Less, ForgottenType, NothingForgotten
<1>3. CASE Booted
  BY <1>3 DEF Booted, Boot, BootLedger
<1> QED BY <1>1, <1>2, <1>3, DurableCases

LEMMA BootPersist ==
    ASSUME ~Repairs, PersistInv, NEW l, NEW missing, Boot(l, missing),
           BootLedger(l, missing)
    PROVE  /\ Precedes(ledger)' /\ SavedFirst' /\ SavedOnce'
           /\ disk'.txs = disk.txs
           /\ \A w \in Workers : call'[w].pc \notin Held
<1>1. DurableInv /\ disk \in DiskType /\ disk.nonce \in [Addr -> Nat]
      /\ SavedFirst /\ SavedOnce
  BY PersistParts DEF PersistInv
<1>2. ledger' = RestoredLedger /\ missing = NothingForgotten
  BY DEF Boot, BootLedger
<1>3. ledger'.nonce = disk.nonce
  BY <1>2 DEF RestoredLedger
<1>4. Inserted(disk.nonce, ledger'.nonce, missing.nonce) = disk.nonce
  BY <1>1, <1>2, <1>3 DEF Inserted, NothingForgotten
<1>5. disk'.nonce = disk.nonce /\ disk'.txs = disk.txs
  <2>1. ledger' = l
    BY DEF Boot
  <2> HIDE DEF Inserted
  <2> QED BY <1>1, <1>4, <2>1 DEF Boot, DiskType
<1>6. \A w \in Workers : call'[w].pc \notin Held
  BY <1>1, BootInv DEF Idle, Held
<1>7. Precedes(ledger)'
  BY <1>1, <1>3, <1>5 DEF Precedes
<1> QED BY <1>1, <1>5, <1>6, <1>7 DEF SavedFirst, SavedOnce

\* A step that leaves these trees and the nonces alone.
LEMMA StillPersist ==
    ASSUME PersistInv, Still,
           disk'.nonce = disk.nonce, disk'.txs = disk.txs,
           \A w \in Workers : call'[w].pc = "putTx" => call[w].pc = "putTx"
    PROVE  /\ Precedes(ledger)' /\ SavedFirst' /\ SavedOnce'
           /\ \A w \in Workers : call'[w].pc = "settle" => Precedes(snap)'
           /\ \A w \in Workers :
                 call'[w].pc = "putTx" => disk'.nonce = ledger'.nonce
           /\ \A w \in Workers : Ahead(w)'
<1>1. disk'.nonce = disk.nonce /\ disk'.txs = disk.txs
      /\ ledger'.nonce = ledger.nonce
  BY DEF Still
<1>2. Precedes(ledger)' /\ SavedFirst' /\ SavedOnce'
  BY <1>1 DEF PersistInv, Precedes, SavedFirst, SavedOnce
<1>3. \A w \in Workers : call'[w].pc = "settle" => Precedes(snap)'
  BY <1>1 DEF PersistInv, Precedes, Still
<1>4. \A w \in Workers : Ahead(w)'
  BY <1>1 DEF PersistInv, Ahead, Still
<1> QED BY <1>1, <1>2, <1>3, <1>4 DEF PersistInv

\* STEPs 2 to 6: the ledger moves ahead of the disk.
LEMMA ApplyPersist ==
    ASSUME PersistInv, NEW w \in Workers, Apply(w), SameTrees
    PROVE  /\ Precedes(ledger)' /\ SavedFirst' /\ SavedOnce'
           /\ \A v \in Workers : call'[v].pc = "settle" => Precedes(snap)'
           /\ \A v \in Workers : call'[v].pc # "putTx"
           /\ \A v \in Workers : Ahead(v)'
<1> DEFINE t == call[w].tx
<1>0. DurableInv /\ HolderInv /\ Precedes(ledger) /\ SavedFirst /\ SavedOnce
  BY PersistParts DEF PersistInv
<1>1. /\ call[w].pc = "validated" /\ Applicable(t)
      /\ ledger' = CommitNonce(Transfer(ledger, t), t) /\ snap' = ledger
      /\ Goto(w, "settle")
  BY DEF Apply
<1>2. t \in Tx
  BY <1>0, <1>1, PersistParts DEF Typed, CallsCarry
<1>3. /\ call'[w].pc = "settle" /\ call'[w].tx = t
      /\ \A v \in Workers \ {w} : call'[v] = call[v]
  BY <1>0, <1>1, PersistParts DEF Goto, CallType
<1>4. \A v \in Workers \ {w} : call'[v].pc \notin Held
  BY <1>0, <1>1, <1>3, OneHolder DEF ConsPhases
<1>5. disk'.nonce = disk.nonce /\ disk'.txs = disk.txs
  BY DEF SameTrees
<1> HIDE DEF t
<1>6. /\ \A a \in Addr : ledger.nonce[a] <= ledger'.nonce[a]
      /\ Sender[t] # Faucet =>
            /\ ledger'.nonce[Sender[t]] = AccountNonce[t]
            /\ AccountNonce[t] = ledger.nonce[Sender[t]] + 1
  BY <1>0, <1>1, <1>2, CommitGrows, PersistParts DEF Applicable
<1>7. ledger' \in LedgerType /\ ledger'.nonce \in [Addr -> Nat]
  BY <1>0, <1>1, <1>2, PaidType, CommitNonceType, TransferType, PersistParts
  DEF Applicable, LedgerType
<1>8. Precedes(ledger)' /\ Precedes(snap)'
  BY <1>0, <1>1, <1>5, <1>6, <1>7, PersistParts DEF Precedes
<1>9. Sender[t] # Faucet =>
         /\ AccountNonce[t] <= ledger'.nonce[Sender[t]]
         /\ \A u \in disk.txs :
               Sender[u] = Sender[t] => AccountNonce[u] # AccountNonce[t]
  <2> SUFFICES ASSUME Sender[t] # Faucet
               PROVE  /\ AccountNonce[t] <= ledger'.nonce[Sender[t]]
                      /\ \A u \in disk.txs : Sender[u] = Sender[t] =>
                            AccountNonce[u] # AccountNonce[t]
    OBVIOUS
  <2>1. /\ AccountNonce[t] \in Nat /\ Sender[t] \in Addr
        /\ disk.nonce[Sender[t]] \in Nat /\ ledger.nonce[Sender[t]] \in Nat
        /\ disk.nonce[Sender[t]] <= ledger.nonce[Sender[t]]
    BY <1>0, <1>2, CostNat, PersistParts DEF Precedes
  <2>2. ASSUME NEW u \in disk.txs, Sender[u] = Sender[t]
        PROVE  AccountNonce[u] # AccountNonce[t]
    <3>1. AccountNonce[u] \in Nat /\ AccountNonce[u] <= disk.nonce[Sender[t]]
      BY <1>0, <2>2, CostNat, PersistParts DEF SavedFirst
    <3> QED BY <1>6, <2>1, <3>1
  <2> QED BY <1>6, <2>1, <2>2
<1>10. \A v \in Workers : Ahead(v)'
  <2>1. Ahead(w)'
    BY <1>3, <1>5, <1>9 DEF Ahead
  <2> QED BY <1>4, <2>1 DEF Ahead
<1>11. SavedFirst' /\ SavedOnce'
  BY <1>0, <1>5 DEF SavedFirst, SavedOnce
<1>12. \A v \in Workers : call'[v].pc # "putTx"
  BY <1>3, <1>4 DEF Held
<1> QED BY <1>8, <1>10, <1>11, <1>12

\* The error path of STEP 8 goes back to the snapshot, which the disk precedes.
LEMMA AdmitFailsPersist ==
    ASSUME PersistInv, NEW w \in Workers, AdmitFails(w), SameTrees
    PROVE  /\ Precedes(ledger)' /\ SavedFirst' /\ SavedOnce'
           /\ \A v \in Workers : call'[v].pc \notin Held
<1>0. DurableInv /\ HolderInv /\ SavedFirst /\ SavedOnce
  BY PersistParts DEF PersistInv
<1>1. call[w].pc = "settle" /\ ledger' = snap /\ Finish(w)
  BY DEF AdmitFails, Rollback
<1>2. disk'.nonce = disk.nonce /\ disk'.txs = disk.txs
  BY DEF SameTrees
<1>3. \A v \in Workers : call'[v].pc \notin Held
  <2>1. call'[w].pc \notin Held /\ \A v \in Workers \ {w} : call'[v] = call[v]
    BY <1>0, <1>1, PersistParts DEF Finish, Idle, Held
  <2>2. call[w].pc \in ConsPhases
    BY <1>1 DEF ConsPhases, WritePhases
  <2> QED BY <1>0, <2>1, <2>2, OneHolder
<1>4. Precedes(ledger)'
  BY <1>1, <1>2 DEF PersistInv, Precedes
<1> QED BY <1>0, <1>2, <1>3, <1>4 DEF SavedFirst, SavedOnce

\* A transaction whose block was known already: the same, in one step.
LEMMA NotQueuedPersist ==
    ASSUME PersistInv, NEW w \in Workers, ApplyNotQueued(w), disk' = disk
    PROVE  /\ Precedes(ledger)' /\ SavedFirst' /\ SavedOnce'
           /\ \A v \in Workers : call'[v].pc \notin Held
<1>0. DurableInv /\ HolderInv /\ Precedes(ledger) /\ SavedFirst /\ SavedOnce
  BY PersistParts DEF PersistInv
<1>1. /\ call[w].tx \in Tx /\ call[w].pc = "validated"
      /\ call'[w].pc \in {"idle", "batch"}
      /\ \A v \in Workers \ {w} : call'[v] = call[v]
      /\ ledger' = CommitNonce(Transfer(ledger, call[w].tx), call[w].tx)
      /\ TransferFits(ledger, call[w].tx)
  BY <1>0, NotQueuedInv
<1>2. NonceFits(ledger, call[w].tx)
  BY DEF ApplyNotQueued, Applicable
<1>3. \A v \in Workers : call'[v].pc \notin Held
  <2>1. call[w].pc \in ConsPhases /\ call'[w].pc \notin Held
    BY <1>1 DEF ConsPhases, Held
  <2> QED BY <1>0, <1>1, <2>1, OneHolder
<1>4. \A a \in Addr : ledger.nonce[a] <= ledger'.nonce[a]
  BY <1>0, <1>1, <1>2, CommitGrows, PersistParts
<1>5. ledger'.nonce \in [Addr -> Nat]
  BY <1>0, <1>1, CommitNonceType, TransferType, PersistParts DEF LedgerType
<1>6. Precedes(ledger)'
  BY <1>0, <1>4, <1>5, PersistParts DEF Precedes
<1> QED BY <1>0, <1>3, <1>6 DEF SavedFirst, SavedOnce

LEMMA WritesHeld ==
    ASSUME DurableInv, NEW w \in Workers, Writes(w)
    PROVE  /\ Still /\ call[w].pc \in ConsPhases
           /\ \A v \in Workers \ {w} : /\ call[v].pc \notin Held
                                       /\ call'[v].pc \notin Held
<1>1. HolderInv /\ [Next]_vars
  BY WritesNext DEF DurableInv
<1>2. call[w].pc \in {"save", "putTx", "putCons"}
  BY DEF Writes, SaveBalance, SaveNonce, Save, PutTx, PutCons
<1>3. call[w].pc \in ConsPhases
  BY <1>2 DEF ConsPhases, WritePhases
<1>4. \A v \in Workers : call[v].pc \in {"validated", "settle"} =>
                            call[v].pc \in ConsPhases
  BY DEF ConsPhases, WritePhases
<1>5. \A v \in Workers : ~Apply(v) /\ ~AdmitFails(v)
  BY <1>1, <1>2, <1>3, <1>4, OneHolder DEF Apply, AdmitFails
<1>6. Still
  BY <1>1, <1>5, HeldCases
<1> QED BY <1>1, <1>3, <1>6, OneHolder DEF Still

LEMMA WritesPersist ==
    ASSUME PersistInv, NEW w \in Workers, Writes(w)
    PROVE  /\ Precedes(ledger)' /\ SavedFirst' /\ SavedOnce'
           /\ \A v \in Workers : call'[v].pc = "settle" => Precedes(snap)'
           /\ \A v \in Workers :
                 call'[v].pc = "putTx" => disk'.nonce = ledger'.nonce
           /\ \A v \in Workers : Ahead(v)'
<1> DEFINE Goal ==
           /\ Precedes(ledger)' /\ SavedFirst' /\ SavedOnce'
           /\ \A v \in Workers : call'[v].pc = "settle" => Precedes(snap)'
           /\ \A v \in Workers :
                 call'[v].pc = "putTx" => disk'.nonce = ledger'.nonce
           /\ \A v \in Workers : Ahead(v)'
<1>0. /\ DurableInv /\ HolderInv /\ Precedes(ledger) /\ Ahead(w)
      /\ SavedFirst /\ SavedOnce
      /\ call \in [Workers -> CallType]
      /\ ledger.nonce \in [Addr -> Nat] /\ disk.nonce \in [Addr -> Nat]
      /\ disk \in DiskType /\ disk.txs \in SUBSET Tx
  BY PersistParts DEF PersistInv
<1>1. /\ Still
      /\ \A v \in Workers \ {w} : /\ call[v].pc \notin Held
                                  /\ call'[v].pc \notin Held
  BY <1>0, WritesHeld
<1>2. \A phase : Goto(w, phase) =>
         call'[w].pc = phase /\ call'[w].tx = call[w].tx
  BY <1>0 DEF Goto, CallType
<1>3. CASE SaveBalance(w) \/ PutCons(w) \/ (PutTx(w) /\ disk' = disk)
  <2>1. disk'.nonce = disk.nonce /\ disk'.txs = disk.txs
    BY <1>0, <1>3
    DEF Writes, SaveBalance, PutCons, PutTx, SaveNonce, Save, DiskType
  <2>2. call'[w].pc = "putTx" => call[w].pc = "putTx"
    BY <1>2, <1>3 DEF SaveBalance, PutCons, PutTx, vars
  <2>3. \A v \in Workers : call'[v].pc = "putTx" => call[v].pc = "putTx"
    BY <1>1, <2>2 DEF Held
  <2> QED BY <1>1, <2>1, <2>3, StillPersist
<1>4. CASE LedgerSaved /\ Save(w) /\ disk' = disk
  <2>1. disk.nonce = ledger.nonce
    <3>1. NoNonce = {}
      BY DEF PersistInv, NothingForgotten, NoNonce
    <3> QED BY <1>0, <1>4, <3>1 DEF LedgerSaved, NoncesToSave
  <2>2. ledger' = ledger /\ Ahead(w)' /\ call'[w].pc = "putTx"
    <3>1. ledger' = ledger /\ call[w].pc = "save" /\ Goto(w, "putTx")
      BY <1>4 DEF Save
    <3>2. call'[w].pc = "putTx" /\ call'[w].tx = call[w].tx
      BY <1>2, <3>1
    <3> QED BY <1>0, <1>4, <3>1, <3>2 DEF Ahead, Held
  <2>3. \A v \in Workers : Ahead(v)'
    BY <1>1, <2>2 DEF Ahead
  <2>4. \A v \in Workers : call'[v].pc # "settle"
    BY <1>1, <2>2 DEF Held
  <2>5. Precedes(ledger)' /\ SavedFirst' /\ SavedOnce'
    BY <1>0, <1>4, <2>2 DEF Precedes, SavedFirst, SavedOnce
  <2> QED BY <1>4, <2>1, <2>2, <2>3, <2>4, <2>5
<1>5. CASE SaveNonce(w)
  <2>1. PICK a \in Addr : disk' = [disk EXCEPT !.nonce[a] = ledger.nonce[a]]
    BY <1>5 DEF SaveNonce, NoncesToSave
  <2>2. /\ disk'.nonce = [disk.nonce EXCEPT ![a] = ledger.nonce[a]]
        /\ disk'.txs = disk.txs
    BY <1>0, <2>1 DEF DiskType
  <2>3. /\ ledger' = ledger /\ snap' = snap /\ call' = call
        /\ call[w].pc = "save"
    BY <1>5 DEF SaveNonce, vars
  <2>4. \A b \in Addr : /\ disk.nonce[b] <= disk'.nonce[b]
                        /\ disk'.nonce[b] <= ledger.nonce[b]
                        /\ disk'.nonce[b] \in Nat
    BY <1>0, <2>2 DEF Precedes
  <2>5. Precedes(ledger)' /\ SavedOnce'
    BY <1>0, <2>2, <2>3, <2>4 DEF Precedes, SavedOnce
  <2>6. SavedFirst'
    <3> SUFFICES ASSUME NEW t \in disk.txs, Sender[t] # Faucet
                 PROVE  AccountNonce[t] <= disk'.nonce[Sender[t]]
      BY <2>2 DEF SavedFirst
    <3>1. /\ AccountNonce[t] \in Nat /\ Sender[t] \in Addr
          /\ disk.nonce[Sender[t]] \in Nat
          /\ AccountNonce[t] <= disk.nonce[Sender[t]]
      BY <1>0, CostNat DEF SavedFirst
    <3> QED BY <2>4, <3>1
  <2>7. \A v \in Workers : call'[v].pc # "settle" /\ call'[v].pc # "putTx"
    BY <1>1, <2>3 DEF Held
  <2>8. \A v \in Workers : Ahead(v)'
    BY <2>2, <2>3 DEF PersistInv, Ahead
  <2> QED BY <2>5, <2>6, <2>7, <2>8
<1>6. CASE PutTx(w) /\ disk' = [disk EXCEPT !.txs = @ \cup {call[w].tx}]
  <2> DEFINE t == call[w].tx
  <2>1. /\ call[w].pc = "putTx" /\ ledger' = ledger /\ Goto(w, "putCons")
        /\ disk'.nonce = disk.nonce /\ disk'.txs = disk.txs \cup {t}
    BY <1>0, <1>6 DEF PutTx, DiskType
  <2>2. /\ disk.nonce = ledger.nonce
        /\ Sender[t] # Faucet =>
              /\ AccountNonce[t] <= ledger.nonce[Sender[t]]
              /\ \A u \in disk.txs :
                    Sender[u] = Sender[t] => AccountNonce[u] # AccountNonce[t]
    BY <1>0, <2>1 DEF PersistInv, Ahead, Held
  <2>3. \A v \in Workers : call'[v].pc \notin Held
    BY <1>1, <1>2, <2>1 DEF Held
  <2> HIDE DEF t
  <2>4. SavedFirst'
    BY <1>0, <2>1, <2>2 DEF SavedFirst
  <2>5. SavedOnce'
    BY <1>0, <2>1, <2>2 DEF SavedOnce
  <2>6. Precedes(ledger)'
    BY <1>0, <2>1 DEF Precedes
  <2> QED BY <2>3, <2>4, <2>5, <2>6 DEF Ahead, Held
<1> QED BY <1>3, <1>4, <1>5, <1>6 DEF Writes

LEMMA PersistStep ==
    ASSUME ~Repairs, PersistInv, [DurableNext]_durableVars
    PROVE  PersistInv'
<1> DEFINE Goal ==
           /\ Precedes(ledger)' /\ SavedFirst' /\ SavedOnce'
           /\ \A v \in Workers : call'[v].pc = "settle" => Precedes(snap)'
           /\ \A v \in Workers :
                 call'[v].pc = "putTx" => disk'.nonce = ledger'.nonce
           /\ \A v \in Workers : Ahead(v)'
<1>0. DurableInv
  BY DEF PersistInv
<1>1. DurableInv' /\ forgotten' = NothingForgotten
  BY <1>0, DurableStep, NeverForgets
<1> SUFFICES Goal
  BY <1>1 DEF PersistInv
<1>2. ASSUME \A v \in Workers : call'[v].pc \notin Held,
             Precedes(ledger)' /\ SavedFirst' /\ SavedOnce'
      PROVE  Goal
  BY <1>2 DEF Ahead, Held
<1>3. CASE Plain
  <2>1. [Next]_vars /\ SameTrees /\ HolderInv
        /\ disk'.nonce = disk.nonce /\ disk'.txs = disk.txs
        /\ \A w \in Workers : call'[w].pc = "putTx" => call[w].pc = "putTx"
    BY <1>0, <1>3 DEF Plain, SameTrees, DurableInv
  <2>2. CASE Still
    BY <2>1, <2>2, StillPersist
  <2>3. ASSUME NEW w \in Workers, Apply(w) PROVE Goal
    BY <2>1, <2>3, ApplyPersist
  <2>4. ASSUME NEW w \in Workers, AdmitFails(w) PROVE Goal
    BY <1>2, <2>1, <2>4, AdmitFailsPersist
  <2> QED BY <2>1, <2>2, <2>3, <2>4, HeldCases
<1>4. ASSUME NEW w \in Workers, Writes(w) PROVE Goal
  BY <1>4, WritesPersist
<1>5. ASSUME NEW w \in Workers, ApplyNotQueued(w), disk' = disk PROVE Goal
  BY <1>2, <1>5, NotQueuedPersist
<1>6. ASSUME NEW s \in Solvers, StartBatchWith(s, disk.orphans), disk' = disk
      PROVE  Goal
  <2>1. /\ call'[s].pc \notin Held
        /\ \A v \in Workers \ {s} : call'[v] = call[v]
        /\ ledger' = ledger /\ snap' = snap /\ s \in Workers
    BY <1>0, <1>6, BatchInv DEF StartBatchWith, Held, Workers
  <2>2. Still
    BY <2>1 DEF Still, Held
  <2> QED BY <1>6, <2>1, <2>2, StillPersist DEF Held
<1>7. CASE Booted
  BY <1>2, <1>7, BootPersist DEF Booted
<1> QED BY <1>0, <1>3, <1>4, <1>5, <1>6, <1>7, DurableCases DEF Cases

LEMMA PersistStart == DurableInit => PersistInv
<1> SUFFICES ASSUME DurableInit PROVE PersistInv
  OBVIOUS
<1>1. /\ ledger = InitLedger /\ disk = InitDisk
      /\ \A w \in Workers : call[w] = Idle
  BY DEF DurableInit, Init
<1>2. \A w \in Workers : call[w].pc \notin Held
  BY <1>1 DEF Idle, Held
<1>3. Precedes(ledger)
  BY <1>1 DEF Precedes, InitLedger, InitDisk
<1>4. SavedFirst /\ SavedOnce
  BY <1>1 DEF SavedFirst, SavedOnce, InitDisk
<1> QED BY <1>2, <1>3, <1>4, DurableStart
        DEF PersistInv, Ahead, Held, DurableInit

\* Without --repair-ledger: what is on the disk has had its nonce saved, and no
\* saved nonce is ahead of what readers see, wherever a crash or a failed put
\* cuts STEPs 9 and 9b; so a transaction on the disk is never accepted again.
THEOREM PersistCorrect ==
    ASSUME ~Repairs
    PROVE  DurableSpec => []PersistOrder
<1>1. PersistInv => PersistOrder
  <2> SUFFICES ASSUME PersistInv PROVE PersistOrder
    OBVIOUS
  <2>1. \A a \in Addr : disk.nonce[a] <= VisibleLedger.nonce[a]
    BY DEF PersistInv, Precedes, VisibleLedger
  <2> QED BY <2>1 DEF PersistInv, SavedFirst, PersistOrder, DurableInv
<1>2. PersistInv /\ [DurableNext]_durableVars => PersistInv'
  BY PersistStep
<1> QED BY <1>1, <1>2, PersistStart, PTL DEF DurableSpec

-----------------------------------------------------------------------------
(* The rebuild is complete.                                                *)

\* Every transaction of a set is among its keys' order.
LEMMA OrderHolds ==
    ASSUME NEW S, NEW t \in Tx, t \in S
    PROVE  \E i \in 1 .. Len(InKeyOrder(S)) : InKeyOrder(S)[i] = t
<1> DEFINE n == Len(KeyOrder)
           I == {q \in Seq(Tx) : \E i \in 1 .. Len(q) : q[i] = t}
<1>1. KeyOrder \in Seq(Tx) /\ ToSet(KeyOrder) = Tx
  BY DurabilityAssumption DEF DurabilityAssumption
<1>2. PICK g : /\ Trace(g, Seq(Tx), << >>, n)
               /\ \A k \in 1 .. n : g[k] = Kept(g[k - 1], KeyOrder[k], S)
               /\ InKeyOrder(S) = g[n]
  BY <1>1, KeyOrderTrace
<1>3. PICK k \in 1 .. n : KeyOrder[k] = t
  BY <1>1 DEF ToSet
<1>4. n \in Nat /\ g[0] \in Seq(Tx) /\ \A j \in 1 .. n : KeyOrder[j] \in Tx
  BY <1>1, <1>2 DEF Trace
<1> HIDE DEF n
<1>5. \A j \in 1 .. n : g[j - 1] \in Seq(Tx) => g[j] \in Seq(Tx)
  BY <1>2, <1>4, KeptType
<1>6. ASSUME g[k - 1] \in Seq(Tx) PROVE g[k] \in I
  <2>1. g[k] = Append(g[k - 1], t)
    BY <1>2, <1>3 DEF Kept
  <2>2. /\ g[k] \in Seq(Tx) /\ Len(g[k]) = Len(g[k - 1]) + 1
        /\ g[k][Len(g[k - 1]) + 1] = t /\ Len(g[k - 1]) \in Nat
    BY <1>6, <2>1
  <2>3. Len(g[k - 1]) + 1 \in 1 .. Len(g[k])
    BY <2>2
  <2> QED BY <2>2, <2>3
<1>7. ASSUME NEW q \in I, NEW u \in Tx PROVE Kept(q, u, S) \in I
  <2>1. CASE u \in S
    <3>1. Kept(q, u, S) = Append(q, u)
      BY <2>1 DEF Kept
    <3>2. PICK i \in 1 .. Len(q) : q[i] = t
      BY <1>7
    <3>3. /\ Append(q, u) \in Seq(Tx) /\ i \in 1 .. Len(Append(q, u))
          /\ Append(q, u)[i] = t
      BY <1>7, <3>2
    <3> QED BY <3>1, <3>3
  <2>2. CASE u \notin S
    BY <1>7, <2>2 DEF Kept
  <2> QED BY <2>1, <2>2
<1> HIDE DEF I
<1>8. \A j \in 1 .. n : g[j - 1] \in I => g[j] \in I
  BY <1>2, <1>4, <1>7
<1>9. g[n] \in I
  BY <1>3, <1>4, <1>5, <1>6, <1>8, TraceReaches
<1> HIDE DEF InKeyOrder
<1> QED BY <1>2, <1>9 DEF I

LEMMA BootOrderHolds ==
    ASSUME NEW t \in Tx, t \in disk.txs
    PROVE  \E i \in 1 .. Len(BootOrder) : BootOrder[i] = t
<1> DEFINE p == InKeyOrder(disk.txs)
           q == InKeyOrder(Stored \ disk.txs)
<1>1. p \in Seq(Tx) /\ q \in Seq(Tx) /\ BootOrder = p \o q
  BY OrderType DEF BootOrder
<1>2. PICK i \in 1 .. Len(p) : p[i] = t
  BY OrderHolds
<1> HIDE DEF p, q
<1>3. i \in 1 .. Len(p \o q) /\ (p \o q)[i] = t
  BY <1>1, <1>2
<1> QED BY <1>1, <1>3

\* There are as many passes as transactions, if not more.
LEMMA PassesSuffice ==
    ASSUME disk \in DiskType
    PROVE  /\ IsFiniteSet(disk.txs)
           /\ Cardinality(disk.txs) \in Nat
           /\ Cardinality(disk.txs) <= Len(BootOrder)
<1> DEFINE n == Len(BootOrder)
           S == 1 .. n
           T == {BootOrder[i] : i \in S}
           f == [i \in S |-> BootOrder[i]]
<1>1. n \in Nat /\ disk.txs \in SUBSET Tx
  BY BootOrderType, DiskParts
<1>2. disk.txs \subseteq T
  BY <1>1, BootOrderHolds
<1>3. 1 \in Int /\ n \in Int
  BY <1>1
<1> HIDE DEF n
<1>4. IsFiniteSet(S) /\ Cardinality(S) = n
  <2>1. /\ IsFiniteSet(1 .. n)
        /\ Cardinality(1 .. n) = IF 1 > n THEN 0 ELSE n - 1 + 1
    BY <1>3, FS_Interval
  <2> QED BY <1>1, <2>1
<1>5. f \in Surjection(S, T)
  BY DEF Surjection
<1> HIDE DEF f, T, S
<1>6. IsFiniteSet(T) /\ Cardinality(T) <= n
  BY <1>4, <1>5, FS_Surjection
<1>7. IsFiniteSet(disk.txs) /\ Cardinality(disk.txs) <= Cardinality(T)
  BY <1>2, <1>6, FS_Subset
<1>8. Cardinality(T) \in Nat /\ Cardinality(disk.txs) \in Nat
  BY <1>6, <1>7, FS_CardinalityType
<1>9. Cardinality(disk.txs) <= n
  BY <1>1, <1>6, <1>7, <1>8
<1> QED BY <1>7, <1>8, <1>9 DEF n

\* A rebuild under way when nothing that is stored conflicts: what is not yet
\* placed is left.
Underway == {b \in BuiltType : /\ b.left \subseteq disk.txs
                               /\ b.dag.txs = disk.txs \ b.left}

NoConflict ==
    /\ disk.txs \in SUBSET Tx
    /\ SavedOnce
    /\ \A t, u \in disk.txs : Parents[t] = Parents[u] /\ ~IsRoot(t) => t = u

LEMMA PlaceUnderway ==
    ASSUME NoConflict, NEW b \in Underway, NEW t \in Tx
    PROVE  /\ Place(b, t) \in Underway /\ Place(b, t).left \subseteq b.left
           /\ HasParents(b.dag, t) => t \notin Place(b, t).left
<1>1. CASE t \notin b.left \/ ~HasParents(b.dag, t)
  <2>1. Place(b, t) = b
    BY <1>1 DEF Place
  <2> QED BY <1>1, <2>1
<1>2. CASE t \in b.left /\ HasParents(b.dag, t)
  <2>1. /\ b \in BuiltType /\ b.left \subseteq disk.txs
        /\ b.dag.txs = disk.txs \ b.left
        /\ b.dag \in DagType /\ b.dag.txs \in SUBSET Tx
    BY DEF Underway, BuiltType, DagType
  <2>2. CanAdd(b.dag, t)
    <3>1. t \in disk.txs /\ t \notin b.dag.txs /\ b.dag.txs \subseteq disk.txs
      BY <1>2, <2>1
    <3>2. ~ParentsUsed(b.dag, t)
      BY <3>1 DEF NoConflict, ParentsUsed
    <3>3. ~SenderConflict(b.dag, t)
      BY <3>1 DEF NoConflict, SavedOnce, SenderConflict
    <3> QED BY <1>2, <3>1, <3>2, <3>3 DEF CanAdd, Conflicts
  <2>3. Place(b, t) = [dag |-> AddTx(b.dag, t), left |-> b.left \ {t}]
    BY <1>2, <2>2 DEF Place
  <2>4. AddTx(b.dag, t).txs = b.dag.txs \cup {t}
    BY <2>1, AddTxType
  <2>5. b.dag.txs \cup {t} = disk.txs \ (b.left \ {t})
    BY <1>2, <2>1
  <2>6. Place(b, t) \in BuiltType
    BY <2>1, PlaceType
  <2> QED BY <2>1, <2>3, <2>4, <2>5, <2>6 DEF Underway
<1> QED BY <1>1, <1>2

\* A pass places at least one transaction, if one is left: the first of its
\* ancestors that is left has its parents in the DAG.
LEMMA PassPlaces ==
    ASSUME NoConflict, Closed(disk.txs), Grounded(disk.txs),
           NEW base \in Underway, base.left # {}
    PROVE  \E t \in base.left :
              /\ Pass(base, BootOrder) \in Underway
              /\ Pass(base, BootOrder).left \subseteq base.left \ {t}
<1> DEFINE seq == BootOrder
           n == Len(seq)
           I1 == {b \in Underway : b.left \subseteq base.left}
<1>1. /\ base.left \subseteq disk.txs /\ disk.txs \in SUBSET Tx
      /\ base \in BuiltType /\ base.dag.txs = disk.txs \ base.left
  BY DEF NoConflict, Underway
<1>2. PICK t \in base.left : ParentSet(t) \cap base.left = {}
  BY <1>1 DEF Grounded
<1> DEFINE I2 == {b \in I1 : t \notin b.left}
<1>3. t \in Tx /\ t \in disk.txs /\ ParentSet(t) \subseteq disk.txs \cup {Root}
  BY <1>1, <1>2 DEF Closed
<1>4. \A b \in I1 : HasParents(b.dag, t)
  <2> SUFFICES ASSUME NEW b \in I1 PROVE HasParents(b.dag, t)
    OBVIOUS
  <2>1. b.left \subseteq base.left /\ b.dag.txs = disk.txs \ b.left
    BY DEF Underway
  <2> QED BY <1>2, <1>3, <2>1 DEF HasParents
<1>5. seq \in Seq(Tx)
  BY BootOrderType
<1>6. PICK k \in 1 .. n : seq[k] = t
  BY <1>3, BootOrderHolds
<1> HIDE DEF seq
<1>7. PICK g : /\ Trace(g, BuiltType, base, n)
               /\ \A j \in 1 .. n : g[j] = Place(g[j - 1], seq[j])
               /\ FoldLeft(Place, base, seq) = g[n]
  BY <1>1, <1>5, PassTrace
<1>8. n \in Nat /\ (\A j \in 1 .. n : seq[j] \in Tx)
  BY <1>5
<1>9. g[0] \in I1
  BY <1>7 DEF Trace
<1>10. ASSUME NEW b \in I1, NEW u \in Tx PROVE Place(b, u) \in I1
  BY <1>10, PlaceUnderway
<1>11. ASSUME NEW b \in I2, NEW u \in Tx PROVE Place(b, u) \in I2
  BY <1>11, PlaceUnderway
<1>12. ASSUME NEW b \in I1 PROVE Place(b, t) \in I2
  BY <1>3, <1>4, <1>12, PlaceUnderway
<1>13. \A b \in I2 : b \in Underway /\ b.left \subseteq base.left \ {t}
  OBVIOUS
<1> HIDE DEF I1, I2, n
<1>14. \A j \in 1 .. n : g[j - 1] \in I1 => g[j] \in I1
  BY <1>7, <1>8, <1>10
<1>15. \A j \in 1 .. n : g[j - 1] \in I2 => g[j] \in I2
  BY <1>7, <1>8, <1>11
<1>16. g[k - 1] \in I1 => g[k] \in I2
  BY <1>6, <1>7, <1>12
<1>17. g[n] \in I2
  BY <1>6, <1>8, <1>9, <1>14, <1>15, <1>16, TraceReaches
<1>18. Pass(base, seq) = g[n]
  BY <1>7 DEF Pass
<1> QED BY <1>13, <1>17, <1>18 DEF seq

\* After k passes at most all but k transactions are left.
Shrinking(k) ==
    {b \in Underway :
        b.left = {} \/ Cardinality(b.left) + k <= Cardinality(disk.txs)}

LEMMA PassShrinks ==
    ASSUME disk \in DiskType, NoConflict, Closed(disk.txs), Grounded(disk.txs),
           NEW k \in Nat, NEW b \in Shrinking(k)
    PROVE  Pass(b, BootOrder) \in Shrinking(k + 1)
<1> DEFINE c == Pass(b, BootOrder)
<1>1. b \in Underway /\ b \in BuiltType /\ b.left \subseteq disk.txs
  BY DEF Shrinking, Underway
<1>2. CASE b.left = {}
  <2> DEFINE I == {e \in Underway : e.left = {}}
  <2>1. \A e \in I, t \in Tx : Place(e, t) \in I
    BY PlaceUnderway
  <2>2. I \in SUBSET BuiltType /\ b \in I
    BY <1>1, <1>2 DEF Underway
  <2> HIDE DEF I
  <2>3. c \in I
    BY <2>1, <2>2, BootOrderType, PassKeeps
  <2> QED BY <2>3 DEF I, Shrinking
<1>3. CASE b.left # {}
  <2>1. PICK t \in b.left : c \in Underway /\ c.left \subseteq b.left \ {t}
    BY <1>1, <1>3, PassPlaces
  <2> HIDE DEF c
  <2>2. IsFiniteSet(disk.txs) /\ Cardinality(disk.txs) \in Nat
    BY PassesSuffice
  <2>3. IsFiniteSet(b.left)
    BY <1>1, <2>2, FS_Subset
  <2>4. /\ IsFiniteSet(b.left \ {t})
        /\ Cardinality(b.left \ {t}) = Cardinality(b.left) - 1
    BY <2>3, FS_RemoveElement
  <2>5. IsFiniteSet(c.left) /\ Cardinality(c.left) <= Cardinality(b.left \ {t})
    BY <2>1, <2>4, FS_Subset
  <2>6. Cardinality(b.left) \in Nat /\ Cardinality(c.left) \in Nat
    BY <2>3, <2>5, FS_CardinalityType
  <2>7. Cardinality(b.left) + k <= Cardinality(disk.txs)
    BY <1>3 DEF Shrinking
  <2>8. Cardinality(c.left) + (k + 1) <= Cardinality(disk.txs)
    BY <2>2, <2>4, <2>5, <2>6, <2>7
  <2> QED BY <2>1, <2>8 DEF Shrinking, c
<1> HIDE DEF c
<1> QED BY <1>2, <1>3 DEF c

LEMMA RebuiltWhole ==
    ASSUME disk \in DiskType, NoConflict, Closed(disk.txs), Grounded(disk.txs),
           Stored = disk.txs
    PROVE  Rebuilt.dag.txs = disk.txs /\ Rebuilt.left = {}
<1> DEFINE base == RebuildStart
           seq == BootOrder
           n == Len(seq)
<1>1. base \in BuiltType /\ seq \in Seq(Tx) /\ n \in Nat
  BY RebuildStartType, BootOrderType
<1>2. PICK g : /\ Trace(g, BuiltType, base, n)
               /\ \A k \in 1 .. n : g[k] = Pass(g[k - 1], seq)
               /\ FoldLeft(LAMBDA b, t : Pass(b, seq), base, seq) = g[n]
  BY <1>1, PassesTrace
<1>3. IsFiniteSet(disk.txs) /\ Cardinality(disk.txs) \in Nat
      /\ Cardinality(disk.txs) <= n
  BY PassesSuffice
<1>4. g[0] \in Shrinking(0)
  <2>1. g[0] = base /\ base.dag.txs = {} /\ base.left = disk.txs
    BY <1>2 DEF Trace, RebuildStart, EmptyDag
  <2>2. base \in Underway
    BY <1>1, <2>1 DEF Underway
  <2>3. Cardinality(base.left) + 0 <= Cardinality(disk.txs)
    BY <1>3, <2>1
  <2> QED BY <2>1, <2>2, <2>3 DEF Shrinking
<1> DEFINE h == [k \in 0 .. n |-> <<k, g[k]>>]
           I == {p \in Nat \X BuiltType : p[2] \in Shrinking(p[1])}
<1>5. \A k \in 0 .. n : g[k] \in BuiltType
  BY <1>2 DEF Trace
<1>6. Rebuilt = g[n]
  BY <1>2, RebuiltIs
<1> HIDE DEF base, n
<1>7. h[0] \in I
  <2>1. 0 \in 0 .. n
    BY <1>1
  <2> QED BY <1>4, <1>5, <2>1
<1>8. ASSUME NEW k \in 1 .. n, h[k - 1] \in I PROVE h[k] \in I
  <2>1. k - 1 \in Nat /\ k - 1 \in 0 .. n /\ k \in 0 .. n /\ k - 1 + 1 = k
    BY <1>1
  <2>2. g[k - 1] \in Shrinking(k - 1)
    BY <1>8, <2>1
  <2>3. Pass(g[k - 1], seq) \in Shrinking(k - 1 + 1)
    BY <2>1, <2>2, PassShrinks
  <2>4. g[k] \in Shrinking(k)
    BY <1>2, <2>1, <2>3
  <2> QED BY <1>5, <2>1, <2>4
<1>9. \A k \in 0 .. n : h[k] \in I
  <2> HIDE DEF h, I
  <2> QED BY <1>1, <1>7, <1>8, TraceKeeps
<1>10. g[n] \in Shrinking(n)
  <2>1. n \in 0 .. n
    BY <1>1
  <2> QED BY <1>9, <2>1
<1>11. g[n].left = {}
  <2> SUFFICES ASSUME g[n].left # {} PROVE FALSE
    OBVIOUS
  <2>1. /\ g[n].left \subseteq disk.txs
        /\ Cardinality(g[n].left) + n <= Cardinality(disk.txs)
    BY <1>10 DEF Shrinking, Underway
  <2>2. IsFiniteSet(g[n].left)
    BY <1>3, <2>1, FS_Subset
  <2>3. Cardinality(g[n].left) \in Nat /\ Cardinality(g[n].left) # 0
    BY <2>2, FS_CardinalityType, FS_EmptySet
  <2> QED BY <1>1, <1>3, <2>1, <2>3
<1>12. g[n].dag.txs = disk.txs \ g[n].left
  BY <1>10 DEF Shrinking, Underway
<1> QED BY <1>6, <1>11, <1>12

\* The DAG and the disk lie in a set of transactions without a cycle.
GroundInv ==
    \E S \in SUBSET Tx : /\ Closed(S) /\ Grounded(S)
                         /\ dag.txs \cup disk.txs \subseteq S

LEMMA GroundGrows ==
    ASSUME GroundInv, NEW t \in Tx, HasParents(dag, t),
           dag'.txs \subseteq dag.txs \cup {t}, disk'.txs = disk.txs
    PROVE  GroundInv'
<1>1. PICK S \in SUBSET Tx : /\ Closed(S) /\ Grounded(S)
                             /\ dag.txs \cup disk.txs \subseteq S
  BY DEF GroundInv
<1>2. ParentSet(t) \subseteq S \cup {Root}
  BY <1>1 DEF HasParents
<1>3. Closed(S \cup {t}) /\ Grounded(S \cup {t})
  BY <1>1, <1>2, GroundedAdd
<1> QED BY <1>1, <1>3 DEF GroundInv

LEMMA GroundStays ==
    ASSUME GroundInv, dag'.txs = dag.txs,
           disk'.txs \subseteq disk.txs \cup dag.txs
    PROVE  GroundInv'
BY DEF GroundInv

LEMMA GroundBooted ==
    ASSUME DurableInv, GroundInv, NEW l, NEW missing, Boot(l, missing),
           BootLedger(l, missing)
    PROVE  GroundInv'
<1>1. /\ dag'.txs = Rebuilt.dag.txs /\ disk'.txs = disk.txs /\ disk \in DiskType
  BY BootInv DEF DurableInv, Boot, DiskType
<1>2. PICK S \in SUBSET Tx : /\ Closed(S) /\ Grounded(S)
                             /\ dag.txs \cup disk.txs \subseteq S
  BY DEF GroundInv
<1> DEFINE T == Rebuilt.dag.txs
<1>3. Closed(T) /\ Grounded(T) /\ T \in SUBSET Tx
  BY <1>1, RebuiltSound
  DEF Sound, BuiltType, DagType, Formed, ParentClosed, HasParents, Closed
<1>4. Root \notin S \cup T
  BY <1>3, TransactionsAssumption DEF TransactionsAssumption
<1>5. dag'.txs = T
  BY <1>1
<1> HIDE DEF T
<1>6. Closed(S \cup T) /\ Grounded(S \cup T)
  BY <1>2, <1>3, <1>4, GroundedUnion
<1>7. S \cup T \in SUBSET Tx /\ dag'.txs \cup disk'.txs \subseteq S \cup T
  BY <1>1, <1>2, <1>3, <1>5
<1> QED BY <1>6, <1>7 DEF GroundInv

LEMMA GroundStep ==
    DurableInv /\ GroundInv /\ [DurableNext]_durableVars => GroundInv'
<1> SUFFICES ASSUME DurableInv, GroundInv, [DurableNext]_durableVars
             PROVE  GroundInv'
  OBVIOUS
<1>0. HolderInv /\ Typed /\ dag \in DagType /\ disk \in DiskType
  BY DEF DurableInv, HolderInv, Typed, TypeOK
<1>1. CASE Plain
  <2>1. [Next]_vars /\ disk'.txs = disk.txs
    BY <1>1 DEF Plain, SameTrees
  <2>2. ASSUME NEW t \in Tx, CanAdd(dag, t), dag' = AddTx(dag, t)
        PROVE  GroundInv'
    <3>1. HasParents(dag, t) /\ dag'.txs = dag.txs \cup {t}
      BY <1>0, <2>2, AddTxType DEF CanAdd
    <3> QED BY <2>1, <3>1, GroundGrows
  <2> QED BY <1>0, <2>1, <2>2, DagStep, GroundStays
<1>2. ASSUME NEW w \in Workers, Writes(w) PROVE GroundInv'
  <2>1. dag' = dag
    BY <1>2 DEF Writes, SaveBalance, SaveNonce, Save, PutTx, PutCons, vars
  <2>2. call[w].pc = "putTx" => call[w].tx \in dag.txs
    BY <1>0 DEF HolderInv, Entered, WritePhases
  <2>3. disk'.txs \subseteq disk.txs \cup dag.txs
    <3>1. CASE SaveBalance(w) \/ SaveNonce(w) \/ disk' = disk
               \/ disk' = [disk EXCEPT !.cons = {cons}]
      BY <1>0, <3>1 DEF SaveBalance, SaveNonce, DiskType
    <3>2. CASE PutTx(w) /\ disk' = [disk EXCEPT !.txs = @ \cup {call[w].tx}]
      <4>1. call[w].tx \in dag.txs
        BY <2>2, <3>2 DEF PutTx
      <4> QED BY <1>0, <3>2, <4>1 DEF DiskType
    <3> QED BY <1>2, <3>1, <3>2 DEF Writes
  <2> QED BY <2>1, <2>3, GroundStays
<1>3. ASSUME NEW w \in Workers, ApplyNotQueued(w), disk' = disk
      PROVE  GroundInv'
  <2>1. /\ call[w].tx \in Tx /\ CanAdd(dag, call[w].tx)
        /\ dag' = AddTx(dag, call[w].tx)
    BY <1>3, NotQueuedInv
  <2>2. HasParents(dag, call[w].tx) /\ dag'.txs = dag.txs \cup {call[w].tx}
    BY <1>0, <2>1, AddTxType DEF CanAdd
  <2> QED BY <1>3, <2>1, <2>2, GroundGrows
<1>4. ASSUME NEW s \in Solvers, StartBatchWith(s, disk.orphans), disk' = disk
      PROVE  GroundInv'
  BY <1>4, GroundStays DEF StartBatchWith
<1>5. CASE Booted
  BY <1>5, GroundBooted DEF Booted
<1> QED BY <1>1, <1>2, <1>3, <1>4, <1>5, DurableCases DEF Cases

\* Without --repair-ledger: whatever the order of the Sled keys, the passes of a
\* rebuild bring back every transaction of the disk if none misses a parent, no
\* two are refused beside each other and no orphan is left: the number of passes
\* is enough, and nothing that reached the disk has a cycle or two nonces alike.
THEOREM RebuildCorrect ==
    ASSUME ~Repairs
    PROVE  DurableSpec => []RebuildComplete
<1> DEFINE Inv == PersistInv /\ GroundInv
<1>1. DurableInit => Inv
  <2> SUFFICES ASSUME DurableInit PROVE GroundInv
    BY PersistStart
  <2>1. dag.txs \cup disk.txs = {}
    BY DEF DurableInit, Init, EmptyDag, InitDisk
  <2>2. Closed({}) /\ Grounded({})
    BY DEF Closed, Grounded
  <2> QED BY <2>1, <2>2 DEF GroundInv
<1>2. Inv /\ [DurableNext]_durableVars => Inv'
  BY PersistStep, GroundStep DEF PersistInv
<1>3. Inv => RebuildComplete
  <2> DEFINE saved == [txs |-> disk.txs, tips |-> {}]
  <2> SUFFICES ASSUME Inv, disk.orphans = {}, disk.txs # {},
                      ParentClosed(saved), ParentPairUnique(saved)
               PROVE  Rebuilt.dag.txs = disk.txs /\ Rebuilt.left = {}
    BY DEF RebuildComplete
  <2>1. /\ disk \in DiskType /\ disk.txs \in SUBSET Tx /\ SavedOnce
        /\ saved.txs = disk.txs
    BY PersistParts DEF PersistInv
  <2>2. NoConflict
    BY <2>1 DEF NoConflict, ParentPairUnique
  <2>3. Closed(disk.txs)
    BY <2>1 DEF ParentClosed, HasParents, Closed
  <2>4. Grounded(disk.txs)
    <3>1. PICK S \in SUBSET Tx : Grounded(S) /\ disk.txs \subseteq S
      BY DEF GroundInv
    <3>2. SUBSET disk.txs \subseteq SUBSET S
      BY <3>1
    <3> QED BY <3>1, <3>2 DEF Grounded
  <2>5. Stored = disk.txs
    BY DEF Stored
  <2> QED BY <2>1, <2>2, <2>3, <2>4, <2>5, RebuiltWhole
<1> HIDE DEF Inv
<1> QED BY <1>1, <1>2, <1>3, PTL DEF DurableSpec

-----------------------------------------------------------------------------
(* Without faults the disk makes no difference: the durable node takes the *)
(* steps of module Processor.                                              *)
\* No write has failed and the node has not died.
Faultless == faults = 0

FaultlessInv ==
    /\ RewardInv
    /\ faults = 0
    /\ disk.orphans \subseteq orphans
    /\ disk \in DiskType

\* What a write does when none fails.
LEMMA WritesWhole ==
    ASSUME faults = 0, faults' = 0
    PROVE  /\ ~Fault
           /\ \A d : Written(d) => disk' = d
           /\ \A whole, parts : WrittenOr(whole, parts) => disk' = whole
BY DEF Fault, Written, WrittenOr

\* A block that the DAG takes has been neither queued nor rewarded.
LEMMA NewBlock ==
    ASSUME RewardInv, NEW t, CanAdd(dag, t)
    PROVE  CanQueue(cons, t)
BY DEF RewardInv, RewardOnce, CanAdd, Conflicts, CanQueue

LEMMA WorkerFaultless ==
    ASSUME FaultlessInv, faults' = 0, NEW w \in Workers,
           Compute(w) \/ Persist(w) \/ Shelve(w)
    PROVE  /\ [Next]_vars
           /\ disk'.orphans \subseteq orphans' /\ disk' \in DiskType
<1> DEFINE t == call[w].tx
<1>0. /\ faults = 0 /\ faults' = 0
      /\ disk \in DiskType /\ disk.orphans \subseteq orphans
      /\ Typed /\ RewardInv
  BY DEF FaultlessInv, RewardInv
<1>1. CASE Compute(w)
  <2>1. ~ApplyNotQueued(w)
    BY <1>0, NewBlock DEF ApplyNotQueued, Applicable
  <2>2. Next
    BY <1>1, <2>1 DEF Compute, Next, Enter, Pipeline
  <2>3. orphans' = orphans
    BY <1>1, <2>1 DEF Compute, SubmitMissing, SubmitReady, Validate, LockBusy,
       Apply, Settle, Admit, AdmitFails
  <2> QED BY <1>0, <1>1, <2>2, <2>3 DEF Compute, NoWrite
<1>2. CASE Persist(w)
  <2>1. CASE SaveBalance(w) \/ SaveNonce(w)
    <3>1. disk' \in DiskType /\ disk'.orphans = disk.orphans
      <4>1. ledger \in LedgerType
        BY <1>0 DEF Typed, TypeOK
      <4>2. CASE SaveBalance(w)
        BY <1>0, <4>1, <4>2
        DEF SaveBalance, DiskType, LedgerType, BalancesToSave
      <4>3. CASE SaveNonce(w)
        BY <1>0, <4>1, <4>3 DEF SaveNonce, DiskType, LedgerType, NoncesToSave
      <4> QED BY <2>1, <4>2, <4>3
    <3>2. UNCHANGED vars /\ faults' = faults
      BY <2>1 DEF SaveBalance, SaveNonce
    <3> QED BY <1>0, <3>1, <3>2 DEF vars
  <2>2. CASE LedgerSaved /\ Save(w) /\ Recall /\ UNCHANGED <<disk, faults>>
    BY <1>0, <2>2 DEF Save, Next, Pipeline
  <2>3. ~(SaveFails(w) /\ Fault)
    BY <1>0, WritesWhole
  <2>4. CASE PutTx(w) /\ Written([disk EXCEPT !.txs = @ \cup {call[w].tx}])
    <3>1. disk' = [disk EXCEPT !.txs = @ \cup {t}]
      BY <1>0, <2>4, WritesWhole
    <3>2. t \in Tx /\ orphans' = orphans /\ Next
      BY <1>0, <2>4 DEF PutTx, Typed, CallsCarry, Next, Pipeline
    <3> HIDE DEF t
    <3> QED BY <1>0, <3>1, <3>2 DEF DiskType
  <2>5. CASE PutCons(w) /\ Written([disk EXCEPT !.cons = {cons}])
    <3>1. disk' = [disk EXCEPT !.cons = {cons}]
      BY <1>0, <2>5, WritesWhole
    <3>2. orphans' = orphans /\ Next /\ cons \in ConsType
      BY <1>0, <2>5 DEF PutCons, Typed, TypeOK, Next, Pipeline
    <3> QED BY <1>0, <3>1, <3>2 DEF DiskType
  <2>6. CASE Publish(w) /\ Announce(w, t)
    <3>1. t \in Tx /\ Resolve(w, TRUE) /\ Next
      BY <1>0, <2>6 DEF Publish, Typed, CallsCarry, Next, Pipeline
    <3>2. CASE w \in Clients
      <4>1. w \notin Solvers
        BY <3>2, ProcessorAssumption DEF ProcessorAssumption
      <4>2. disk' = PutPool(disk, t)
        BY <1>0, <2>6, <3>2, WritesWhole DEF Announce
      <4> HIDE DEF t
      <4> QED BY <1>0, <3>1, <4>1, <4>2 DEF PutPool, DiskType, Resolve
    <3>3. CASE w \notin Clients
      <4>1. w \in Solvers /\ orphans' = orphans \ {t}
        BY <3>1, <3>3 DEF Workers, Resolve
      <4>2. disk' = RemoveOrphan(PutPool(disk, t), t)
        BY <1>0, <2>6, <3>3, WritesWhole DEF Announce
      <4> HIDE DEF t
      <4>3. disk'.orphans = disk.orphans \ {t} /\ disk' \in DiskType
        BY <1>0, <3>1, <4>2 DEF PutPool, RemoveOrphan, DiskType
      <4> QED BY <1>0, <3>1, <4>1, <4>2, <4>3
    <3> QED BY <3>2, <3>3
  <2> QED BY <1>2, <2>1, <2>2, <2>3, <2>4, <2>5, <2>6 DEF Persist
<1>3. CASE Shelve(w)
  <2>1. CASE /\ StoreOrphan(w)
             /\ Written([disk EXCEPT !.orphans = @ \cup {call[w].tx}])
    <3>1. disk' = [disk EXCEPT !.orphans = @ \cup {t}]
      BY <1>0, <2>1, WritesWhole
    <3>2. t \in Tx /\ orphans' = orphans \cup {t} /\ Next
      BY <1>0, <2>1 DEF StoreOrphan, Typed, CallsCarry, Next, Enter
    <3> HIDE DEF t
    <3> QED BY <1>0, <3>1, <3>2 DEF DiskType
  <2>2. CASE /\ Reject(w) \/ ApplyFails(w)
             /\ IF orphans' = orphans
                THEN NoWrite ELSE Written(RemoveOrphan(disk, call[w].tx))
    <3>1. /\ t \in Tx /\ Next
          /\ orphans' = orphans \/ orphans' = orphans \ {t}
      BY <1>0, <2>2 DEF Reject, ApplyFails, Resolve, Typed, CallsCarry, Next,
         Pipeline
    <3>2. CASE orphans' = orphans
      BY <1>0, <2>2, <3>1, <3>2 DEF NoWrite
    <3>3. CASE orphans' # orphans
      <4>1. disk' = RemoveOrphan(disk, t)
        BY <1>0, <2>2, <3>3, WritesWhole
      <4> HIDE DEF t
      <4> QED BY <1>0, <3>1, <3>3, <4>1 DEF RemoveOrphan, DiskType
    <3> QED BY <3>2, <3>3
  <2> QED BY <1>3, <2>1, <2>2 DEF Shelve
<1> QED BY <1>1, <1>2, <1>3

LEMMA SolverFaultless ==
    ASSUME FaultlessInv, faults' = 0, NEW s \in Solvers, SolveDurably(s)
    PROVE  /\ [Next]_vars
           /\ disk'.orphans \subseteq orphans' /\ disk' \in DiskType
<1>0. /\ disk' = disk /\ disk' \in DiskType
      /\ disk.orphans \subseteq orphans
  BY DEF SolveDurably, NoWrite, FaultlessInv
<1>1. CASE StartBatchWith(s, disk.orphans)
  <2>1. orphans \cup disk.orphans = orphans \cup {}
    BY <1>0
  <2>2. StartBatch(s)
    BY <1>1, <2>1 DEF StartBatch, StartBatchWith
  <2>3. orphans' = orphans \cup {}
    BY <2>2 DEF StartBatch, StartBatchWith
  <2>4. Next
    BY <2>2 DEF Next, Solve
  <2> QED BY <1>0, <2>3, <2>4
<1>2. CASE EndBatch(s) \/ \E t \in Tx : SkipOrphan(s, t)
  <2>1. orphans' = orphans
    BY <1>2 DEF EndBatch, SkipOrphan
  <2>2. Next
    BY <1>2 DEF Next, Solve
  <2> QED BY <1>0, <2>1, <2>2
<1> QED BY <1>1, <1>2 DEF SolveDurably

LEMMA OthersFaultless ==
    ASSUME FaultlessInv, faults' = 0, Mine \/ SaveJson
    PROVE  /\ [Next]_vars
           /\ disk'.orphans \subseteq orphans' /\ disk' \in DiskType
<1>0. /\ faults = 0 /\ faults' = 0
      /\ disk \in DiskType /\ disk.orphans \subseteq orphans
      /\ Typed
  BY DEF FaultlessInv, RewardInv
<1>1. CASE MinePop /\ Written([disk EXCEPT !.pool = @ \ {mined'}])
  <2>1. disk' = [disk EXCEPT !.pool = @ \ {mined'}]
    BY <1>0, <1>1, WritesWhole
  <2>2. disk'.orphans = disk.orphans /\ disk' \in DiskType
    BY <1>0, <2>1 DEF DiskType
  <2>3. orphans' = orphans /\ Next
    BY <1>1 DEF MinePop, Next
  <2> QED BY <1>0, <2>1, <2>2, <2>3
<1>2. CASE MineAdd /\ NoWrite
  BY <1>0, <1>2 DEF MineAdd, NoWrite, Next
<1>3. CASE SaveJson
  <2>1. dag.txs \in SUBSET Tx
    BY <1>0 DEF Typed, TypeOK, DagType
  <2>2. disk'.orphans = disk.orphans /\ disk' \in DiskType
    BY <1>0, <1>3, <2>1 DEF SaveJson, DiskType
  <2>3. UNCHANGED vars /\ faults' = faults
    BY <1>3 DEF SaveJson
  <2> QED BY <1>0, <2>2, <2>3 DEF vars
<1> QED BY <1>1, <1>2, <1>3 DEF Mine

LEMMA FaultlessStep ==
    ASSUME FaultlessInv, faults' = 0, [DurableNext]_durableVars
    PROVE  FaultlessInv' /\ [Next]_vars
<1> DEFINE Goal == /\ [Next]_vars
                   /\ disk'.orphans \subseteq orphans' /\ disk' \in DiskType
<1>1. CASE UNCHANGED durableVars
  <2>1. UNCHANGED vars /\ disk' = disk /\ faults' = faults
    BY <1>1 DEF durableVars
  <2> QED BY <2>1, RewardStep DEF FaultlessInv, vars
<1>2. CASE Running
  <2>1. Goal
    BY <1>2, WorkerFaultless, SolverFaultless, OthersFaultless DEF Running
  <2> QED BY <2>1, RewardStep DEF FaultlessInv
<1>3. ~Crash /\ ~CrashRepair
  <2>1. ~Fault
    BY WritesWhole DEF FaultlessInv
  <2> QED BY <2>1 DEF Crash, CrashRepair, Boot
<1> QED BY <1>1, <1>2, <1>3 DEF DurableNext

\* As long as nothing fails, persistence is invisible: the node that writes to
\* its disk between the steps of the pipeline, and merges the stored orphans
\* into its queue, behaves as the node of module Processor, and never comes on
\* a block it knows already (STEP 7's error is for booted nodes alone).
THEOREM FaultlessCorrect == DurableSpec /\ []Faultless => Spec
<1>1. DurableInit => Init /\ FaultlessInv
  BY RewardInit, DurableStart
  DEF DurableInit, FaultlessInv, InitDisk, DurableInv
<1>2. FaultlessInv /\ Faultless' /\ [DurableNext]_durableVars
        => FaultlessInv' /\ [Next]_vars
  BY FaultlessStep DEF Faultless
<1> QED BY <1>1, <1>2, PTL DEF DurableSpec, Spec

\* So no reader of that node sees half a payment either.
COROLLARY FaultlessBank == DurableSpec /\ []Faultless => ImplementsBank
BY FaultlessCorrect, BankCorrect
=============================================================================
