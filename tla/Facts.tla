-------------------------------- MODULE Facts --------------------------------
(***************************************************************************)
(* Facts about data that know nothing of the node: the least and the       *)
(* greatest element of a set of naturals; sums of a function over a finite *)
(* set, as SumFunctionOnSet computes them by choosing one element after the *)
(* other; and sequences of states, each computed from the one before.      *)
(***************************************************************************)
EXTENDS Functions, FiniteSetTheorems, TLAPS

\* The least element of a set of naturals.
LEMMA NatMin ==
    ASSUME NEW S, S \subseteq Nat, S # {}
    PROVE  \E m \in S : \A n \in S : m <= n
<1> DEFINE R == {ss \in Nat \X Nat : ss[1] < ss[2]}
<1>1. IsWellFoundedOn(R, Nat)
  BY NatLessThanWellFounded DEF OpToRel
<1>2. \E m \in S : \A n \in S : ~(<<n, m>> \in R)
  <2> HIDE DEF R
  <2> QED BY <1>1, WFMin
<1>3. \A m, n \in S : ~(<<n, m>> \in R) => m <= n
  <2> SUFFICES ASSUME NEW m \in S, NEW n \in S, n < m
               PROVE  <<n, m>> \in R
    OBVIOUS
  <2> QED BY <<n, m>>[1] = n, <<n, m>>[2] = m
<1> QED BY <1>2, <1>3

\* The greatest element of a bounded one.
LEMMA NatMax ==
    ASSUME NEW n \in Nat, NEW S \in SUBSET (1 .. n), S # {}
    PROVE  \E m \in S : \A i \in S : i <= m
<1> DEFINE D == {n - i : i \in S}
<1>1. D \subseteq Nat /\ D # {}
  <2>1. \A i \in S : n - i \in Nat
    OBVIOUS
  <2> QED BY <2>1
<1>2. PICK d \in D : \A e \in D : d <= e
  <2> HIDE DEF D
  <2> QED BY <1>1, NatMin
<1>3. PICK m \in S : d = n - m
  BY <1>2
<1>4. ASSUME NEW i \in S PROVE i <= m
  <2>1. n - m <= n - i
    BY <1>2, <1>3
  <2>2. m \in 1 .. n /\ i \in 1 .. n
    OBVIOUS
  <2> QED BY <2>1, <2>2
<1> QED BY <1>4

\* A set of naturals with zero and the successors of its members.
LEMMA NatSteps ==
    ASSUME NEW S, 0 \in S, \A k \in Nat : k \in S => k + 1 \in S
    PROVE  \A k \in Nat : k \in S
<1> DEFINE C == {k \in Nat : k \notin S}
<1> SUFFICES ASSUME C # {} PROVE FALSE
  OBVIOUS
<1>1. PICK m \in C : \A k \in C : m <= k
  <2>1. C \subseteq Nat
    OBVIOUS
  <2> HIDE DEF C
  <2> QED BY <2>1, NatMin
<1>2. m \in Nat /\ m # 0 /\ m - 1 \in Nat /\ ~(m <= m - 1)
  OBVIOUS
<1>3. m - 1 \in S
  BY <1>1, <1>2
<1>4. (m - 1) + 1 \in S /\ (m - 1) + 1 = m
  BY <1>2, <1>3
<1> QED BY <1>4

\* Of some finite sets, one has no smaller one among them.
LEMMA SmallestSet ==
    ASSUME NEW C, C # {}, \A S \in C : IsFiniteSet(S)
    PROVE  \E S \in C : \A T \in C : Cardinality(S) <= Cardinality(T)
<1> DEFINE N == {Cardinality(S) : S \in C}
<1>1. N \subseteq Nat /\ N # {}
  BY FS_CardinalityType
<1>2. PICK n \in N : \A m \in N : n <= m
  <2> HIDE DEF N
  <2> QED BY <1>1, NatMin
<1> QED BY <1>2

-----------------------------------------------------------------------------
(* The recursion behind the sum.                                           *)
First(S) == CHOOSE x \in S : TRUE

\* it[s] is the sum over s, for every subset s of S.
Sums(it, f, S) ==
    it = [s \in SUBSET S |-> IF s = {} THEN 0
                             ELSE f[First(s)] + it[s \ {First(s)}]]

LEMMA SumIsChosen ==
    ASSUME NEW f, NEW S
    PROVE  SumFunctionOnSet(f, S) = (CHOOSE it : Sums(it, f, S))[S]
BY DEF SumFunctionOnSet, FoldFunctionOnSet, MapThenFoldSet, Sums, First

\* There is at most one such function.
LEMMA SumsUnique ==
    ASSUME NEW f, NEW S, IsFiniteSet(S), NEW g, Sums(g, f, S),
           NEW h, Sums(h, f, S)
    PROVE  g = h
<1> DEFINE C == {s \in SUBSET S : g[s] # h[s]}
<1>1. /\ g = [s \in SUBSET S |-> g[s]] /\ h = [s \in SUBSET S |-> h[s]]
      /\ \A s \in SUBSET S : s = {} => g[s] = 0 /\ h[s] = 0
      /\ \A s \in SUBSET S : s # {} =>
            /\ g[s] = f[First(s)] + g[s \ {First(s)}]
            /\ h[s] = f[First(s)] + h[s \ {First(s)}]
  BY DEF Sums
<1>2. \A s \in SUBSET S : IsFiniteSet(s)
  BY FS_Subset
<1>3. C = {}
  <2> SUFFICES ASSUME C # {} PROVE FALSE
    OBVIOUS
  <2>1. PICK s \in C : \A t \in C : Cardinality(s) <= Cardinality(t)
    <3>1. \A t \in C : IsFiniteSet(t)
      BY <1>2
    <3> HIDE DEF C
    <3> QED BY <3>1, SmallestSet
  <2>2. s \in SUBSET S /\ g[s] # h[s] /\ s # {} /\ IsFiniteSet(s)
    BY <1>1, <1>2
  <2> DEFINE t == s \ {First(s)}
  <2>3. First(s) \in s
    BY <2>2 DEF First
  <2>4. t \in SUBSET S /\ Cardinality(t) = Cardinality(s) - 1
        /\ Cardinality(s) \in Nat
    BY <2>2, <2>3, FS_RemoveElement, FS_CardinalityType
  <2>5. t \notin C
    BY <2>1, <2>4
  <2>6. g[t] = h[t]
    BY <2>4, <2>5
  <2> QED BY <1>1, <2>2, <2>6
<1> QED BY <1>1, <1>3

LEMMA SumsRestrict ==
    ASSUME NEW f, NEW S, NEW T \in SUBSET S, NEW g, Sums(g, f, S)
    PROVE  Sums([s \in SUBSET T |-> g[s]], f, T)
<1> DEFINE r == [s \in SUBSET T |-> g[s]]
<1>1. \A s \in SUBSET T : s # {} => s \ {First(s)} \in SUBSET T
  OBVIOUS
<1>2. \A s \in SUBSET S :
         g[s] = IF s = {} THEN 0 ELSE f[First(s)] + g[s \ {First(s)}]
  BY DEF Sums
<1>3. \A s \in SUBSET T :
         r[s] = IF s = {} THEN 0 ELSE f[First(s)] + r[s \ {First(s)}]
  BY <1>1, <1>2
<1>4. r = [s \in SUBSET T |-> r[s]]
  OBVIOUS
<1> HIDE DEF r
<1> QED BY <1>3, <1>4 DEF Sums

LEMMA SumsExist ==
    ASSUME NEW f, NEW S, IsFiniteSet(S)
    PROVE  \E it : Sums(it, f, S)
<1> DEFINE C == {T \in SUBSET S : ~\E it : Sums(it, f, T)}
<1> SUFFICES ASSUME C # {} PROVE FALSE
  OBVIOUS
<1>1. \A T \in SUBSET S : IsFiniteSet(T)
  BY FS_Subset
<1>2. PICK T \in C : \A U \in C : Cardinality(T) <= Cardinality(U)
  <2>1. \A U \in C : IsFiniteSet(U)
    BY <1>1
  <2> HIDE DEF C
  <2> QED BY <2>1, SmallestSet
<1>3. T \in SUBSET S /\ IsFiniteSet(T) /\ ~\E it : Sums(it, f, T)
  BY <1>1
<1> DEFINE Sum(s) == SumFunctionOnSet(f, s)
           it == [s \in SUBSET T |-> IF s = {} THEN 0
                     ELSE f[First(s)] + Sum(s \ {First(s)})]
<1>4. ASSUME NEW s \in SUBSET T, s # T
      PROVE  Sums(CHOOSE g : Sums(g, f, s), f, s)
  <2>1. s \in SUBSET S /\ Cardinality(s) < Cardinality(T)
    <3>1. /\ Cardinality(s) \in Nat /\ Cardinality(T) \in Nat
          /\ Cardinality(s) <= Cardinality(T)
          /\ Cardinality(T) = Cardinality(s) => T = s
      BY <1>1, <1>3, FS_Subset, FS_CardinalityType
    <3> QED BY <1>3, <1>4, <3>1
  <2>2. Cardinality(s) \in Nat /\ Cardinality(T) \in Nat
    BY <1>1, <1>3, <2>1, FS_CardinalityType
  <2>3. \E g : Sums(g, f, s)
    BY <1>2, <2>1, <2>2
  <2> QED BY <2>3
<1>5. ASSUME NEW s \in SUBSET T, s # T
      PROVE  Sum(s) = IF s = {} THEN 0
                      ELSE f[First(s)] + Sum(s \ {First(s)})
  <2> DEFINE g == CHOOSE g : Sums(g, f, s)
             u == s \ {First(s)}
             h == CHOOSE h : Sums(h, f, u)
  <2>1. Sums(g, f, s)
    BY <1>4, <1>5
  <2>2. Sum(s) = g[s]
    BY SumIsChosen
  <2>3. u \in SUBSET T /\ u # T /\ u \in SUBSET s /\ IsFiniteSet(u)
    BY <1>1, <1>3, <1>5
  <2>4. Sums(h, f, u) /\ Sum(u) = h[u]
    BY <1>4, <2>3, SumIsChosen
  <2> HIDE DEF g, h
  <2>5. Sums([v \in SUBSET u |-> g[v]], f, u)
    BY <2>1, <2>3, SumsRestrict
  <2>6. [v \in SUBSET u |-> g[v]] = h
    BY <2>3, <2>4, <2>5, SumsUnique
  <2>7. g[u] = h[u]
    <3>1. [v \in SUBSET u |-> g[v]][u] = g[u]
      OBVIOUS
    <3> QED BY <2>6, <3>1
  <2>8. g[s] = IF s = {} THEN 0 ELSE f[First(s)] + g[s \ {First(s)}]
    BY <2>1 DEF Sums
  <2> QED BY <2>2, <2>4, <2>7, <2>8
<1>6. Sums(it, f, T)
  <2>1. ASSUME NEW s \in SUBSET T, s # {}
        PROVE  it[s \ {First(s)}] = Sum(s \ {First(s)})
    <3> DEFINE u == s \ {First(s)}
    <3>1. First(s) \in s
      BY <2>1 DEF First
    <3>2. u \in SUBSET T /\ u # T
      BY <3>1
    <3>3. it[u] = IF u = {} THEN 0 ELSE f[First(u)] + Sum(u \ {First(u)})
      BY <3>2
    <3> HIDE DEF it, u, Sum
    <3>4. Sum(u) = IF u = {} THEN 0 ELSE f[First(u)] + Sum(u \ {First(u)})
      BY <1>5, <3>2
    <3>5. it[u] = Sum(u)
      BY <3>3, <3>4
    <3> QED BY <3>5 DEF u
  <2>2. /\ it = [s \in SUBSET T |-> it[s]]
        /\ \A s \in SUBSET T : it[s] = IF s = {} THEN 0
                     ELSE f[First(s)] + Sum(s \ {First(s)})
    OBVIOUS
  <2> HIDE DEF it, Sum
  <2>3. \A s \in SUBSET T : it[s] = IF s = {} THEN 0
                     ELSE f[First(s)] + it[s \ {First(s)}]
    BY <2>1, <2>2
  <2> QED BY <2>2, <2>3 DEF Sums
<1> HIDE DEF it
<1> QED BY <1>3, <1>6

LEMMA SumUnfold ==
    ASSUME NEW f, NEW S, IsFiniteSet(S)
    PROVE  SumFunctionOnSet(f, S) =
              IF S = {} THEN 0
              ELSE f[First(S)] + SumFunctionOnSet(f, S \ {First(S)})
<1> DEFINE U == S \ {First(S)}
           g == CHOOSE g : Sums(g, f, S)
           h == CHOOSE h : Sums(h, f, U)
<1>1. U \in SUBSET S /\ IsFiniteSet(U)
  BY FS_Subset
<1>2. Sums(g, f, S) /\ Sums(h, f, U)
  BY <1>1, SumsExist
<1>3. SumFunctionOnSet(f, S) = g[S] /\ SumFunctionOnSet(f, U) = h[U]
  BY SumIsChosen
<1> HIDE DEF g, h
<1>4. [s \in SUBSET U |-> g[s]] = h
  <2>1. Sums([s \in SUBSET U |-> g[s]], f, U)
    BY <1>1, <1>2, SumsRestrict
  <2> QED BY <1>1, <1>2, <2>1, SumsUnique
<1>5. h[U] = g[U]
  <2>1. [s \in SUBSET U |-> g[s]][U] = g[U]
    OBVIOUS
  <2> QED BY <1>4, <2>1
<1>6. g[S] = IF S = {} THEN 0 ELSE f[First(S)] + g[U]
  BY <1>2 DEF Sums
<1> QED BY <1>3, <1>5, <1>6

-----------------------------------------------------------------------------
(* What the proofs use.                                                    *)
LEMMA SumEmpty ==
    ASSUME NEW f
    PROVE  SumFunctionOnSet(f, {}) = 0
BY SumUnfold, FS_EmptySet

LEMMA SumNat ==
    ASSUME NEW f, NEW S, IsFiniteSet(S), \A x \in S : f[x] \in Nat
    PROVE  SumFunctionOnSet(f, S) \in Nat
<1> DEFINE Sum(s) == SumFunctionOnSet(f, s)
           C == {T \in SUBSET S : Sum(T) \notin Nat}
<1>1. \A T \in SUBSET S : IsFiniteSet(T)
  BY FS_Subset
<1> SUFFICES ASSUME C # {} PROVE FALSE
  OBVIOUS
<1>2. PICK T \in C : \A U \in C : Cardinality(T) <= Cardinality(U)
  <2>1. \A U \in C : IsFiniteSet(U)
    BY <1>1
  <2> HIDE DEF C
  <2> QED BY <2>1, SmallestSet
<1>3. T \in SUBSET S /\ IsFiniteSet(T) /\ Sum(T) \notin Nat
  BY <1>1
<1>4. Sum(T) = IF T = {} THEN 0 ELSE f[First(T)] + Sum(T \ {First(T)})
  BY <1>3, SumUnfold
<1>5. T # {}
  <2> HIDE DEF Sum
  <2> QED BY <1>3, <1>4
<1>6. First(T) \in T
  BY <1>5 DEF First
<1> DEFINE U == T \ {First(T)}
<1>7. U \in SUBSET S /\ Cardinality(U) = Cardinality(T) - 1
      /\ Cardinality(T) \in Nat
  BY <1>3, <1>6, FS_RemoveElement, FS_CardinalityType
<1>8. U \notin C
  BY <1>2, <1>7
<1>9. Sum(U) \in Nat
  BY <1>7, <1>8
<1> HIDE DEF Sum
<1> QED BY <1>3, <1>4, <1>5, <1>6, <1>9

\* Any element may be taken out: the order of choices does not matter.
LEMMA SumRemove ==
    ASSUME NEW f, NEW S, IsFiniteSet(S), \A x \in S : f[x] \in Nat, NEW x \in S
    PROVE  SumFunctionOnSet(f, S) = f[x] + SumFunctionOnSet(f, S \ {x})
<1> DEFINE Sum(s) == SumFunctionOnSet(f, s)
           Bad(T) == \E y \in T : Sum(T) # f[y] + Sum(T \ {y})
           C == {T \in SUBSET S : Bad(T)}
<1>1. \A T \in SUBSET S : IsFiniteSet(T) /\ Sum(T) \in Nat
  BY FS_Subset, SumNat
<1>2. C = {}
  <2> SUFFICES ASSUME C # {} PROVE FALSE
    OBVIOUS
  <2>1. PICK T \in C : \A U \in C : Cardinality(T) <= Cardinality(U)
    <3>1. \A U \in C : IsFiniteSet(U)
      BY <1>1
    <3> HIDE DEF C
    <3> QED BY <3>1, SmallestSet
  <2>2. T \in SUBSET S /\ IsFiniteSet(T) /\ Bad(T)
    BY <1>1
  <2>3. PICK y \in T : Sum(T) # f[y] + Sum(T \ {y})
    BY <2>2
  <2> DEFINE c == First(T)
  <2>4. c \in T /\ Sum(T) = f[c] + Sum(T \ {c})
    <3>1. c \in T
      BY <2>3 DEF First
    <3> QED BY <2>2, <3>1, SumUnfold
  <2>5. ASSUME NEW z \in T
        PROVE  T \ {z} \in SUBSET S /\ ~Bad(T \ {z})
    <3>1. Cardinality(T \ {z}) = Cardinality(T) - 1 /\ Cardinality(T) \in Nat
      BY <2>2, FS_RemoveElement, FS_CardinalityType
    <3>2. T \ {z} \notin C
      BY <2>1, <3>1
    <3> QED BY <2>2, <3>2
  <2> HIDE DEF c, Sum, C
  <2>6. CASE y = c
    BY <2>3, <2>4, <2>6
  <2>7. CASE y # c
    <3>1. Sum(T \ {c}) = f[y] + Sum((T \ {c}) \ {y})
      BY <2>4, <2>5, <2>7
    <3>2. Sum(T \ {y}) = f[c] + Sum((T \ {y}) \ {c})
      BY <2>4, <2>5, <2>7
    <3>3. (T \ {c}) \ {y} = (T \ {y}) \ {c}
      OBVIOUS
    <3> DEFINE rest == Sum((T \ {c}) \ {y})
    <3>4. rest \in Nat /\ f[y] \in Nat /\ f[c] \in Nat
      BY <1>1, <2>2, <2>4
    <3> HIDE DEF rest
    <3>5. f[c] + (f[y] + rest) = f[y] + (f[c] + rest)
      BY <3>4
    <3> QED BY <2>3, <2>4, <3>1, <3>2, <3>3, <3>5 DEF rest
  <2> QED BY <2>6, <2>7
<1>3. ~Bad(S)
  BY <1>2
<1> QED BY <1>3

LEMMA SumAdd ==
    ASSUME NEW f, NEW S, IsFiniteSet(S), NEW x, x \notin S,
           \A y \in S \cup {x} : f[y] \in Nat
    PROVE  SumFunctionOnSet(f, S \cup {x}) = f[x] + SumFunctionOnSet(f, S)
<1>1. IsFiniteSet(S \cup {x}) /\ x \in S \cup {x} /\ (S \cup {x}) \ {x} = S
  BY FS_AddElement
<1> QED BY <1>1, SumRemove

\* Functions that agree on the set have the same sum, whatever their domains.
LEMMA SumEqual ==
    ASSUME NEW f, NEW g, NEW S, IsFiniteSet(S), \A x \in S : f[x] = g[x]
    PROVE  SumFunctionOnSet(f, S) = SumFunctionOnSet(g, S)
<1> DEFINE A(s) == SumFunctionOnSet(f, s)
           B(s) == SumFunctionOnSet(g, s)
           C == {T \in SUBSET S : A(T) # B(T)}
<1>1. \A T \in SUBSET S : IsFiniteSet(T)
  BY FS_Subset
<1> SUFFICES ASSUME C # {} PROVE FALSE
  OBVIOUS
<1>2. PICK T \in C : \A U \in C : Cardinality(T) <= Cardinality(U)
  <2>1. \A U \in C : IsFiniteSet(U)
    BY <1>1
  <2> HIDE DEF C
  <2> QED BY <2>1, SmallestSet
<1>3. T \in SUBSET S /\ IsFiniteSet(T) /\ A(T) # B(T)
  BY <1>1
<1>4. /\ A(T) = IF T = {} THEN 0 ELSE f[First(T)] + A(T \ {First(T)})
      /\ B(T) = IF T = {} THEN 0 ELSE g[First(T)] + B(T \ {First(T)})
  BY <1>3, SumUnfold
<1>5. T # {}
  <2> HIDE DEF A, B
  <2> QED BY <1>3, <1>4
<1>6. First(T) \in T
  BY <1>5 DEF First
<1> DEFINE U == T \ {First(T)}
<1>7. U \in SUBSET S /\ Cardinality(U) = Cardinality(T) - 1
      /\ Cardinality(T) \in Nat
  BY <1>3, <1>6, FS_RemoveElement, FS_CardinalityType
<1>8. U \notin C
  BY <1>2, <1>7
<1>9. A(U) = B(U)
  BY <1>7, <1>8
<1> HIDE DEF A, B
<1> QED BY <1>3, <1>4, <1>5, <1>6, <1>9

\* One element more, under a function that agrees on the others.
LEMMA SumGrows ==
    ASSUME NEW f, NEW g, NEW S, IsFiniteSet(S), NEW x, x \notin S,
           \A y \in S : f[y] \in Nat /\ g[y] = f[y], g[x] \in Nat
    PROVE  SumFunctionOnSet(g, S \cup {x}) = SumFunctionOnSet(f, S) + g[x]
<1>1. SumFunctionOnSet(g, S \cup {x}) = g[x] + SumFunctionOnSet(g, S)
  BY SumAdd
<1>2. SumFunctionOnSet(g, S) = SumFunctionOnSet(f, S)
  BY SumEqual
<1>3. SumFunctionOnSet(f, S) \in Nat
  BY SumNat
<1> QED BY <1>1, <1>2, <1>3

\* One value changed.
LEMMA SumChange ==
    ASSUME NEW f, NEW g, NEW S, IsFiniteSet(S), NEW x \in S,
           \A y \in S : f[y] \in Nat /\ g[y] \in Nat,
           \A y \in S \ {x} : g[y] = f[y]
    PROVE  /\ SumFunctionOnSet(f, S) \in Nat /\ SumFunctionOnSet(g, S) \in Nat
           /\ SumFunctionOnSet(g, S) + f[x] = SumFunctionOnSet(f, S) + g[x]
<1>1. IsFiniteSet(S \ {x})
  BY FS_RemoveElement
<1>2. /\ SumFunctionOnSet(g, S) = g[x] + SumFunctionOnSet(g, S \ {x})
      /\ SumFunctionOnSet(f, S) = f[x] + SumFunctionOnSet(f, S \ {x})
  BY SumRemove
<1>3. SumFunctionOnSet(g, S \ {x}) = SumFunctionOnSet(f, S \ {x})
  BY <1>1, SumEqual
<1>4. SumFunctionOnSet(f, S \ {x}) \in Nat
  BY <1>1, SumNat
<1> QED BY <1>2, <1>3, <1>4

\* Disjoint sets.
LEMMA SumUnion ==
    ASSUME NEW f, NEW S, NEW T, IsFiniteSet(S), IsFiniteSet(T), S \cap T = {},
           \A x \in S \cup T : f[x] \in Nat
    PROVE  SumFunctionOnSet(f, S \cup T) =
              SumFunctionOnSet(f, S) + SumFunctionOnSet(f, T)
<1> DEFINE Sum(s) == SumFunctionOnSet(f, s)
           C == {U \in SUBSET T : Sum(S \cup U) # Sum(S) + Sum(U)}
<1>1. \A U \in SUBSET T : IsFiniteSet(U) /\ IsFiniteSet(S \cup U)
  BY FS_Subset, FS_Union
<1>2. \A U \in SUBSET T : Sum(U) \in Nat
  BY <1>1, SumNat
<1>3. Sum(S) \in Nat
  BY SumNat
<1>4. C = {}
  <2> SUFFICES ASSUME C # {} PROVE FALSE
    OBVIOUS
  <2>1. PICK U \in C : \A V \in C : Cardinality(U) <= Cardinality(V)
    <3>1. \A V \in C : IsFiniteSet(V)
      BY <1>1
    <3> HIDE DEF C
    <3> QED BY <3>1, SmallestSet
  <2>2. /\ U \in SUBSET T /\ IsFiniteSet(U) /\ IsFiniteSet(S \cup U)
        /\ Sum(S \cup U) # Sum(S) + Sum(U)
    BY <1>1
  <2>3. U # {}
    <3> SUFFICES ASSUME U = {} PROVE FALSE
      OBVIOUS
    <3>1. Sum({}) = 0 /\ S \cup U = S
      BY SumEmpty
    <3> HIDE DEF Sum
    <3> QED BY <1>3, <2>2, <3>1
  <2>4. PICK x \in U : TRUE
    BY <2>3
  <2> DEFINE V == U \ {x}
  <2>5. V \in SUBSET T /\ x \in S \cup U /\ (S \cup U) \ {x} = S \cup V
    BY <2>2
  <2>6. Cardinality(V) = Cardinality(U) - 1 /\ Cardinality(U) \in Nat
    BY <2>2, FS_RemoveElement, FS_CardinalityType
  <2>7. V \notin C
    BY <2>1, <2>6
  <2>8. Sum(S \cup V) = Sum(S) + Sum(V)
    BY <2>5, <2>7
  <2>9. Sum(S \cup U) = f[x] + Sum(S \cup V) /\ Sum(U) = f[x] + Sum(V)
    BY <2>2, <2>5, SumRemove
  <2>10. Sum(V) \in Nat /\ f[x] \in Nat
    BY <1>2, <2>2, <2>5
  <2> HIDE DEF Sum, C, V
  <2> QED BY <1>3, <2>2, <2>8, <2>9, <2>10
<1>5. T \notin C
  BY <1>4
<1> QED BY <1>5

LEMMA SumSubset ==
    ASSUME NEW f, NEW S, IsFiniteSet(S), NEW T \in SUBSET S,
           \A x \in S : f[x] \in Nat
    PROVE  /\ SumFunctionOnSet(f, T) \in Nat /\ SumFunctionOnSet(f, S) \in Nat
           /\ SumFunctionOnSet(f, T) <= SumFunctionOnSet(f, S)
<1>1. IsFiniteSet(T) /\ IsFiniteSet(S \ T) /\ T \cup (S \ T) = S
      /\ T \cap (S \ T) = {}
  BY FS_Subset
<1>2. SumFunctionOnSet(f, S) =
         SumFunctionOnSet(f, T) + SumFunctionOnSet(f, S \ T)
  BY <1>1, SumUnion
<1>3. SumFunctionOnSet(f, T) \in Nat /\ SumFunctionOnSet(f, S \ T) \in Nat
  BY <1>1, SumNat
<1> QED BY <1>2, <1>3

\* A sum of zeros, and one with a single term.
LEMMA SumZero ==
    ASSUME NEW f, NEW S, IsFiniteSet(S), \A x \in S : f[x] = 0
    PROVE  SumFunctionOnSet(f, S) = 0
<1> DEFINE Sum(s) == SumFunctionOnSet(f, s)
           C == {T \in SUBSET S : Sum(T) # 0}
<1>1. \A T \in SUBSET S : IsFiniteSet(T)
  BY FS_Subset
<1> SUFFICES ASSUME C # {} PROVE FALSE
  OBVIOUS
<1>2. PICK T \in C : \A U \in C : Cardinality(T) <= Cardinality(U)
  <2>1. \A U \in C : IsFiniteSet(U)
    BY <1>1
  <2> HIDE DEF C
  <2> QED BY <2>1, SmallestSet
<1>3. T \in SUBSET S /\ IsFiniteSet(T) /\ Sum(T) # 0
  BY <1>1
<1>4. T # {}
  BY <1>3, SumEmpty
<1>5. PICK x \in T : TRUE
  BY <1>4
<1> DEFINE U == T \ {x}
<1>6. Cardinality(U) = Cardinality(T) - 1 /\ Cardinality(T) \in Nat
  BY <1>3, <1>5, FS_RemoveElement, FS_CardinalityType
<1>7. U \notin C
  BY <1>2, <1>6
<1>8. Sum(U) = 0 /\ f[x] = 0
  BY <1>3, <1>5, <1>7
<1>9. Sum(T) = f[x] + Sum(U)
  BY <1>3, <1>5, SumRemove
<1> HIDE DEF Sum, C, U
<1> QED BY <1>3, <1>8, <1>9

LEMMA SumSingle ==
    ASSUME NEW f, NEW S, IsFiniteSet(S), NEW x \in S, f[x] \in Nat,
           \A y \in S \ {x} : f[y] = 0
    PROVE  SumFunctionOnSet(f, S) = f[x]
<1>1. SumFunctionOnSet(f, S \ {x}) = 0
  <2>1. IsFiniteSet(S \ {x})
    BY FS_Subset
  <2> QED BY <2>1, SumZero
<1>2. \A y \in S : f[y] \in Nat
  OBVIOUS
<1>3. SumFunctionOnSet(f, S) = f[x] + SumFunctionOnSet(f, S \ {x})
  BY <1>2, SumRemove
<1> QED BY <1>1, <1>3

LEMMA SumLeq ==
    ASSUME NEW f, NEW g, NEW S, IsFiniteSet(S),
           \A x \in S : f[x] \in Nat /\ g[x] \in Nat /\ f[x] <= g[x]
    PROVE  SumFunctionOnSet(f, S) <= SumFunctionOnSet(g, S)
<1> DEFINE A(s) == SumFunctionOnSet(f, s)
           B(s) == SumFunctionOnSet(g, s)
           C == {T \in SUBSET S : ~(A(T) <= B(T))}
<1>1. \A T \in SUBSET S : IsFiniteSet(T) /\ A(T) \in Nat /\ B(T) \in Nat
  BY FS_Subset, SumNat
<1> SUFFICES ASSUME C # {} PROVE FALSE
  OBVIOUS
<1>2. PICK T \in C : \A U \in C : Cardinality(T) <= Cardinality(U)
  <2>1. \A T \in C : IsFiniteSet(T)
    BY <1>1
  <2> HIDE DEF C
  <2> QED BY <2>1, SmallestSet
<1>3. T # {}
  <2>1. A({}) = 0 /\ B({}) = 0
    BY SumEmpty
  <2> QED BY <2>1
<1>4. PICK x \in T : TRUE
  BY <1>3
<1>5. /\ T \ {x} \in SUBSET S /\ x \in S /\ IsFiniteSet(T)
      /\ Cardinality(T \ {x}) = Cardinality(T) - 1 /\ Cardinality(T) \in Nat
  BY <1>1, <1>4, FS_RemoveElement, FS_CardinalityType
<1>6. A(T \ {x}) <= B(T \ {x})
  BY <1>2, <1>5
<1>7. A(T) = f[x] + A(T \ {x}) /\ B(T) = g[x] + B(T \ {x})
  BY <1>4, <1>5, SumRemove
<1>8. A(T \ {x}) \in Nat /\ B(T \ {x}) \in Nat
  BY <1>1, <1>5
<1> HIDE DEF A, B
<1>9. A(T) <= B(T)
  BY <1>5, <1>6, <1>7, <1>8
<1> QED BY <1>9

\* A sum of ones, and one of twos.
LEMMA SumBetween ==
    ASSUME NEW f, NEW S, IsFiniteSet(S), \A x \in S : f[x] \in 1 .. 2
    PROVE  /\ SumFunctionOnSet(f, S) \in Nat
           /\ Cardinality(S) <= SumFunctionOnSet(f, S)
           /\ SumFunctionOnSet(f, S) <= 2 * Cardinality(S)
<1> DEFINE A(s) == SumFunctionOnSet(f, s)
           n(s) == Cardinality(s)
           C == {T \in SUBSET S : ~(n(T) <= A(T) /\ A(T) <= 2 * n(T))}
<1>1. \A T \in SUBSET S : IsFiniteSet(T) /\ A(T) \in Nat
  BY FS_Subset, SumNat
<1>2. ASSUME C # {} PROVE FALSE
  <2>1. PICK T \in C : \A U \in C : n(T) <= n(U)
    <3>1. \A T \in C : IsFiniteSet(T)
      BY <1>1
    <3> HIDE DEF C
    <3> QED BY <1>2, <3>1, SmallestSet
  <2>2. T # {}
    <3>1. A({}) = 0 /\ n({}) = 0
      BY SumEmpty, FS_EmptySet
    <3> QED BY <3>1
  <2>3. PICK x \in T : TRUE
    BY <2>2
  <2>4. /\ T \ {x} \in SUBSET S /\ x \in S /\ IsFiniteSet(T)
        /\ n(T \ {x}) = n(T) - 1 /\ n(T) \in Nat
    BY <1>1, <2>3, FS_RemoveElement, FS_CardinalityType
  <2>5. n(T \ {x}) <= A(T \ {x}) /\ A(T \ {x}) <= 2 * n(T \ {x})
    BY <2>1, <2>4
  <2>6. A(T) = f[x] + A(T \ {x})
    BY <2>3, <2>4, SumRemove
  <2>7. A(T \ {x}) \in Nat /\ f[x] \in 1 .. 2
    BY <1>1, <2>4
  <2> HIDE DEF A, n
  <2>8. n(T) <= A(T) /\ A(T) <= 2 * n(T)
    BY <2>4, <2>5, <2>6, <2>7
  <2> QED BY <2>8
<1> QED BY <1>1, <1>2

\* A sum over an interval, one further.
LEMMA SumShift ==
    ASSUME NEW f, NEW g, NEW a \in Nat, NEW b \in Nat,
           \A i \in a .. b : f[i] \in Nat /\ g[i + 1] = f[i]
    PROVE  SumFunctionOnSet(g, (a + 1) .. (b + 1)) =
              SumFunctionOnSet(f, a .. b)
<1> DEFINE F(n) == SumFunctionOnSet(f, a .. n)
           G(n) == SumFunctionOnSet(g, (a + 1) .. (n + 1))
           C == {n \in a .. b : F(n) # G(n)}
<1>1. CASE b < a
  <2>1. a .. b = {} /\ (a + 1) .. (b + 1) = {}
    BY <1>1
  <2> QED BY <2>1, SumEmpty
<1>2. ASSUME a <= b, C # {} PROVE FALSE
  <2>1. C \subseteq Nat
    OBVIOUS
  <2>2. PICK n \in C : \A m \in C : n <= m
    <3> HIDE DEF C
    <3> QED BY <1>2, <2>1, NatMin
  <2>3. n \in Nat /\ a <= n /\ n <= b /\ F(n) # G(n)
    OBVIOUS
  <2>4. f[n] \in Nat /\ g[n + 1] = f[n]
    BY <2>3
  <2>5. CASE n = a
    <3>1. a .. n = {n} /\ (a + 1) .. (n + 1) = {n + 1}
      BY <2>5
    <3>2. IsFiniteSet({n}) /\ IsFiniteSet({n + 1})
      BY FS_Singleton
    <3>3. SumFunctionOnSet(f, {n}) = f[n]
      BY <2>4, <3>2, SumSingle
    <3>4. SumFunctionOnSet(g, {n + 1}) = g[n + 1]
      BY <2>4, <3>2, SumSingle
    <3> QED BY <2>3, <2>4, <3>1, <3>3, <3>4
  <2>6. CASE n > a
    <3> DEFINE m == n - 1
    <3>1. m \in a .. b /\ m < n /\ n = m + 1 /\ m \in Nat
      BY <2>3, <2>6
    <3>2. F(m) = G(m)
      BY <2>2, <3>1
    <3>3. /\ a .. n = (a .. m) \cup {n} /\ n \notin a .. m
          /\ (a + 1) .. (n + 1) = ((a + 1) .. (m + 1)) \cup {n + 1}
          /\ n + 1 \notin (a + 1) .. (m + 1)
      <4> HIDE DEF F, G, C, m
      <4>1. a .. n = (a .. m) \cup {n} /\ n \notin a .. m
        BY <2>3, <3>1
      <4>2. n + 1 \notin (a + 1) .. (m + 1)
        BY <2>3, <3>1
      <4>3. (a + 1) .. (n + 1) = ((a + 1) .. (m + 1)) \cup {n + 1}
        BY <2>3, <3>1
      <4> QED BY <4>1, <4>2, <4>3
    <3>4. \A i \in (a .. m) \cup {n} : f[i] \in Nat
      BY <2>3, <3>1
    <3>5. \A i \in ((a + 1) .. (m + 1)) \cup {n + 1} : g[i] \in Nat
      <4> SUFFICES ASSUME NEW i \in (a + 1) .. (n + 1) PROVE g[i] \in Nat
        BY <3>3
      <4>1. i - 1 \in a .. b /\ (i - 1) + 1 = i
        BY <2>3
      <4> QED BY <4>1
    <3>6. IsFiniteSet(a .. m) /\ IsFiniteSet((a + 1) .. (m + 1))
      BY <3>1, FS_Interval
    <3> HIDE DEF m
    <3>7. SumFunctionOnSet(f, (a .. m) \cup {n}) =
             f[n] + SumFunctionOnSet(f, a .. m)
      BY <3>3, <3>4, <3>6, SumAdd
    <3>8. SumFunctionOnSet(g, ((a + 1) .. (m + 1)) \cup {n + 1}) =
             g[n + 1] + SumFunctionOnSet(g, (a + 1) .. (m + 1))
      BY <3>3, <3>5, <3>6, SumAdd
    <3>9. F(n) = G(n)
      BY <2>4, <3>2, <3>3, <3>7, <3>8
    <3> QED BY <2>3, <3>9
  <2> QED BY <2>3, <2>5, <2>6
<1>3. CASE a <= b
  <2>1. b \in a .. b
    BY <1>3
  <2> QED BY <1>2, <1>3, <2>1
<1> QED BY <1>1, <1>3

-----------------------------------------------------------------------------
\* What each step of a trace keeps, all of it keeps.
LEMMA TraceKeeps ==
    ASSUME NEW n \in Nat, NEW g, NEW I, g[0] \in I,
           \A k \in 1 .. n : g[k - 1] \in I => g[k] \in I
    PROVE  \A k \in 0 .. n : g[k] \in I
<1> DEFINE C == {m \in 0 .. n : g[m] \notin I}
<1> SUFFICES ASSUME C # {} PROVE FALSE
  OBVIOUS
<1>1. C \subseteq Nat
  OBVIOUS
<1>2. PICK m \in C : \A j \in C : m <= j
  <2> HIDE DEF C
  <2> QED BY <1>1, NatMin
<1>3. m \in 1 .. n /\ m - 1 \in 0 .. n /\ ~(m <= m - 1)
  <2>1. m \in 0 .. n /\ m # 0
    OBVIOUS
  <2> QED BY <2>1
<1>4. m - 1 \notin C
  BY <1>2, <1>3
<1> QED BY <1>3, <1>4

\* A trace that keeps I1, and enters I2 at k and does not leave it.
LEMMA TraceReaches ==
    ASSUME NEW n \in Nat, NEW g, NEW I1, NEW I2, NEW k \in 1 .. n,
           g[0] \in I1, \A j \in 1 .. n : g[j - 1] \in I1 => g[j] \in I1,
           g[k - 1] \in I1 => g[k] \in I2,
           \A j \in 1 .. n : g[j - 1] \in I2 => g[j] \in I2
    PROVE  g[n] \in I2
<1> DEFINE C == {m \in k .. n : g[m] \notin I2}
<1> SUFFICES ASSUME C # {} PROVE FALSE
  OBVIOUS
<1>1. g[k] \in I2
  <2>1. \A j \in 0 .. n : g[j] \in I1
    BY TraceKeeps
  <2> QED BY <2>1
<1>2. C \subseteq Nat
  OBVIOUS
<1>3. PICK m \in C : \A j \in C : m <= j
  <2> HIDE DEF C
  <2> QED BY <1>2, NatMin
<1>4. m \in 1 .. n /\ m - 1 \in k .. n /\ ~(m <= m - 1)
  <2>1. m \in k .. n /\ m # k
    BY <1>1
  <2> QED BY <2>1
<1>5. m - 1 \notin C
  BY <1>3, <1>4
<1> QED BY <1>4, <1>5

\* it[k] is what k applications of F make of base, for every k up to n.
Iterates(it, F, base, n) ==
    it = [k \in 0 .. n |-> IF k = 0 THEN base ELSE F[it[k - 1]]]

LEMMA IteratesExist ==
    ASSUME NEW F, NEW base, NEW n \in Nat
    PROVE  \E it : Iterates(it, F, base, n)
<1> DEFINE C == {m \in Nat : ~\E it : Iterates(it, F, base, m)}
<1> SUFFICES ASSUME C # {} PROVE FALSE
  OBVIOUS
<1>1. PICK m \in C : \A k \in C : m <= k
  <2>1. C \subseteq Nat
    OBVIOUS
  <2> HIDE DEF C
  <2> QED BY <2>1, NatMin
<1>2. m \in Nat /\ ~\E it : Iterates(it, F, base, m)
  OBVIOUS
<1>3. m # 0
  <2> SUFFICES ASSUME m = 0 PROVE \E it : Iterates(it, F, base, m)
    BY <1>2
  <2> DEFINE it == [k \in 0 .. 0 |-> base]
  <2>1. it = [k \in 0 .. 0 |-> IF k = 0 THEN base ELSE F[it[k - 1]]]
    OBVIOUS
  <2> HIDE DEF it
  <2> QED BY <2>1 DEF Iterates
<1>4. m - 1 \in Nat /\ m - 1 \notin C
  BY <1>1, <1>2, <1>3
<1>5. PICK g : Iterates(g, F, base, m - 1)
  BY <1>4
<1> DEFINE it == [k \in 0 .. m |-> IF k < m THEN g[k] ELSE F[g[m - 1]]]
<1>6. \A k \in 0 .. m : it[k] = IF k = 0 THEN base ELSE F[it[k - 1]]
  <2> TAKE k \in 0 .. m
  <2>1. \A j \in 0 .. m - 1 : it[j] = g[j]
    BY <1>2, <1>3
  <2>2. \A j \in 0 .. m - 1 : g[j] = IF j = 0 THEN base ELSE F[g[j - 1]]
    BY <1>5 DEF Iterates
  <2>3. CASE k = 0
    BY <1>2, <1>3, <2>1, <2>2, <2>3
  <2>4. CASE k # 0 /\ k < m
    <3>1. k - 1 \in 0 .. m - 1 /\ k \in 0 .. m - 1
      BY <1>2, <2>4
    <3> HIDE DEF it
    <3> QED BY <2>1, <2>2, <2>4, <3>1
  <2>5. CASE k = m
    <3>1. m - 1 \in 0 .. m - 1
      BY <1>2, <1>3
    <3>2. it[m] = F[g[m - 1]]
      BY <1>2
    <3> HIDE DEF it
    <3> QED BY <1>3, <2>1, <2>5, <3>1, <3>2
  <2> QED BY <1>2, <2>3, <2>4, <2>5
<1>7. it = [k \in 0 .. m |-> it[k]]
  OBVIOUS
<1> HIDE DEF it
<1>8. Iterates(it, F, base, m)
  BY <1>6, <1>7 DEF Iterates
<1> QED BY <1>2, <1>8

LEMMA IteratesAgree ==
    ASSUME NEW F, NEW base, NEW n \in Nat, NEW g, Iterates(g, F, base, n),
           NEW m \in Nat, NEW h, Iterates(h, F, base, m),
           NEW k \in 0 .. n, k <= m
    PROVE  g[k] = h[k]
<1> DEFINE C == {j \in 0 .. n : j <= m /\ g[j] # h[j]}
<1>1. ASSUME C # {} PROVE FALSE
  <2>1. PICK j \in C : \A i \in C : j <= i
    <3>1. C \subseteq Nat
      OBVIOUS
    <3> HIDE DEF C
    <3> QED BY <1>1, <3>1, NatMin
  <2>2. j \in 0 .. n /\ j \in 0 .. m /\ g[j] # h[j]
    OBVIOUS
  <2>3. /\ g[j] = IF j = 0 THEN base ELSE F[g[j - 1]]
        /\ h[j] = IF j = 0 THEN base ELSE F[h[j - 1]]
    BY <2>2 DEF Iterates
  <2>4. j # 0
    BY <2>2, <2>3
  <2>5. j - 1 \in 0 .. n /\ j - 1 <= m /\ j - 1 < j
    BY <2>2, <2>4
  <2>6. j - 1 \notin C
    BY <2>1, <2>2, <2>5
  <2>7. g[j - 1] = h[j - 1]
    BY <2>5, <2>6
  <2> QED BY <2>2, <2>3, <2>4, <2>7
<1> QED BY <1>1

\* A function on the naturals may be defined by its step.
LEMMA Recursion ==
    ASSUME NEW B, NEW base \in B, NEW F \in [B -> B]
    PROVE  \E f \in [Nat -> B] :
               \A k \in Nat : f[k] = IF k = 0 THEN base ELSE F[f[k - 1]]
<1> DEFINE f == [k \in Nat |-> (CHOOSE it : Iterates(it, F, base, k))[k]]
<1>1. \A k \in Nat : f[k] = IF k = 0 THEN base ELSE F[f[k - 1]]
  <2> TAKE k \in Nat
  <2>1. PICK g : Iterates(g, F, base, k) /\ f[k] = g[k]
    <3>1. Iterates(CHOOSE it : Iterates(it, F, base, k), F, base, k)
      BY IteratesExist
    <3> QED BY <3>1
  <2> HIDE DEF f
  <2>2. k \in 0 .. k
    OBVIOUS
  <2>3. g[k] = IF k = 0 THEN base ELSE F[g[k - 1]]
    BY <2>1, <2>2 DEF Iterates
  <2>4. CASE k = 0
    BY <2>1, <2>3, <2>4
  <2>5. CASE k # 0
    <3>1. k - 1 \in Nat /\ k - 1 \in 0 .. k - 1 /\ k - 1 <= k
      BY <2>5
    <3>2. PICK h : Iterates(h, F, base, k - 1) /\ f[k - 1] = h[k - 1]
      <4>1. Iterates(CHOOSE it : Iterates(it, F, base, k - 1), F, base, k - 1)
        BY <3>1, IteratesExist
      <4> QED BY <3>1, <4>1 DEF f
    <3>3. h[k - 1] = g[k - 1]
      BY <2>1, <3>1, <3>2, IteratesAgree
    <3> QED BY <2>1, <2>3, <2>5, <3>2, <3>3
  <2> QED BY <2>4, <2>5
<1>2. f = [k \in Nat |-> f[k]]
  OBVIOUS
<1> HIDE DEF f
<1>3. \A k \in Nat : f[k] \in B
  <2> SUFFICES ASSUME NEW k \in Nat PROVE f[k] \in B
    OBVIOUS
  <2>1. \A j \in 0 .. k : f[j] \in B
    <3>1. f[0] \in B
      BY <1>1
    <3>2. \A j \in 1 .. k : f[j - 1] \in B => f[j] \in B
      <4> TAKE j \in 1 .. k
      <4>1. j \in Nat /\ j # 0
        OBVIOUS
      <4> QED BY <1>1, <4>1
    <3> QED BY <3>1, <3>2, TraceKeeps
  <2> QED BY <2>1
<1> QED BY <1>1, <1>2, <1>3
=============================================================================
