-------------------------- MODULE CalculationsProofs -------------------------
(***************************************************************************)
(* Theorems about the calculations, for every input: amounts, rates, loans *)
(* and tax documents of any size.  The lemmas that they rest on, on        *)
(* induction, sums and powers, come first.                                 *)
(***************************************************************************)
EXTENDS Calculations, FiniteSetTheorems, SequenceTheorems, WellFoundedInduction, TLAPS

-----------------------------------------------------------------------------
(* Induction over a set of numbers, and over the subsets of a finite set.  *)

\* A set of naturals that is not empty has a least element.
LEMMA LeastExists ==
    ASSUME NEW S \in SUBSET Nat, S # {}
    PROVE  \E m \in S : \A x \in S : m <= x
<1> DEFINE R == {p \in Nat \X Nat : p[1] < p[2]}
<1>1. IsWellFoundedOn(R, Nat)
  BY NatLessThanWellFounded DEF OpToRel
<1> HIDE DEF R
<1>2. PICK m \in S : \A x \in S : ~(<<x, m>> \in R)
  BY <1>1, WFMin
<1>3. \A x \in S : x \in Nat /\ m \in Nat /\ ~(x < m)
  BY <1>2 DEF R
<1> QED BY <1>3

LEMMA MinIsLeast ==
    ASSUME NEW S \in SUBSET Nat, S # {}
    PROVE  Min(S) \in S /\ \A x \in S : Min(S) <= x
  BY LeastExists DEF Min

LEMMA NumbersInOrder ==
    ASSUME NEW G \in SUBSET Nat, 0 \in G, \A n \in G : n + 1 \in G
    PROVE  G = Nat
<1> SUFFICES ASSUME Nat \ G # {} PROVE FALSE
  OBVIOUS
<1>1. PICK m \in Nat \ G : \A x \in Nat \ G : m <= x
  BY LeastExists
<1>2. m # 0 /\ m - 1 \in Nat /\ m - 1 + 1 = m
  BY <1>1
<1>3. m - 1 \in G
  BY <1>1, <1>2
<1> QED BY <1>1, <1>2, <1>3

LEMMA OneLess ==
    ASSUME NEW S, IsFiniteSet(S), NEW x \in S
    PROVE  /\ IsFiniteSet(S \ {x}) /\ Cardinality(S \ {x}) \in Nat /\ Cardinality(S) \in Nat
           /\ Cardinality(S \ {x}) = Cardinality(S) - 1
<1>1. IsFiniteSet(S \ {x}) /\ Cardinality(S \ {x}) = Cardinality(S) - 1
  BY FS_RemoveElement
<1> QED BY <1>1, FS_CardinalityType

LEMMA SubsetsInOrder ==
    ASSUME NEW S, IsFiniteSet(S), NEW G \in SUBSET (SUBSET S), {} \in G,
           \A s \in G : \A x \in S \ s : s \cup {x} \in G
    PROVE  S \in G
<1> SUFFICES ASSUME S \notin G PROVE FALSE
  OBVIOUS
<1> DEFINE Bad == {n \in Nat : \E s \in (SUBSET S) \ G : Cardinality(s) = n}
<1>1. \A s \in SUBSET S : IsFiniteSet(s) /\ Cardinality(s) \in Nat
  BY FS_Subset, FS_CardinalityType
<1>2. Cardinality(S) \in Bad
  BY <1>1
<1>3. PICK m \in Bad : \A n \in Bad : m <= n
  BY <1>2, LeastExists
<1>4. PICK s \in (SUBSET S) \ G : Cardinality(s) = m
  BY <1>3
<1>5. PICK x \in s : TRUE
  BY <1>4
<1>6. Cardinality(s \ {x}) = m - 1 /\ m - 1 \in Nat
  BY <1>1, <1>4, <1>5, OneLess
<1>7. s \ {x} \in G
  BY <1>3, <1>4, <1>6
<1>8. s = (s \ {x}) \cup {x} /\ x \in S \ (s \ {x})
  BY <1>4, <1>5
<1> QED BY <1>4, <1>7, <1>8

-----------------------------------------------------------------------------
(* Sums.                                                                   *)

First(s) == CHOOSE x \in s : TRUE
IsSumOf(f, D, g) == g = [s \in D |-> IF s = {} THEN 0 ELSE f[First(s)] + g[s \ {First(s)}]]
SumTable(f, S) == CHOOSE g : IsSumOf(f, SUBSET S, g)

LEMMA SumUnfolds ==
    ASSUME NEW f, NEW S
    PROVE  SumFunctionOnSet(f, S) = SumTable(f, S)[S]
  BY DEF SumFunctionOnSet, FoldFunctionOnSet, MapThenFoldSet, SumTable, IsSumOf, First

LEMMA FirstIsIn == ASSUME NEW s, s # {} PROVE First(s) \in s
  BY DEF First

\* The table of the sums of the subsets exists.
LEMMA SumTableExists ==
    ASSUME NEW f, NEW S, IsFiniteSet(S)
    PROVE  IsSumOf(f, SUBSET S, SumTable(f, S))
<1> DEFINE Small(n) == {s \in SUBSET S : Cardinality(s) <= n}
           G == {n \in Nat : \E g : IsSumOf(f, Small(n), g)}
<1>1. \A s \in SUBSET S : IsFiniteSet(s) /\ Cardinality(s) \in Nat
  BY FS_Subset, FS_CardinalityType
<1>2. 0 \in G
  <2>1. \A s \in Small(0) : s = {}
    BY <1>1, FS_EmptySet
  <2> DEFINE g == [s \in Small(0) |-> 0]
  <2>2. IsSumOf(f, Small(0), g)
    BY <2>1 DEF IsSumOf
  <2> QED BY <2>2
<1>3. ASSUME NEW n \in G PROVE n + 1 \in G
  <2>1. PICK g : IsSumOf(f, Small(n), g)
    BY <1>3
  <2> DEFINE h == [s \in Small(n + 1) |->
                     IF s = {} THEN 0 ELSE f[First(s)] + g[s \ {First(s)}]]
  <2>2. ASSUME NEW s \in Small(n + 1), s # {}
        PROVE  s \ {First(s)} \in Small(n) /\ s \ {First(s)} \in Small(n + 1)
    <3>1. First(s) \in s
      BY <2>2, FirstIsIn
    <3>2. Cardinality(s \ {First(s)}) = Cardinality(s) - 1
      BY <1>1, <3>1, OneLess
    <3>3. Cardinality(s) \in Nat /\ n \in Nat /\ Cardinality(s) <= n + 1
      BY <1>1, <1>3
    <3>4. s \ {First(s)} \in SUBSET S
      OBVIOUS
    <3> QED BY <3>2, <3>3, <3>4
  <2>3. \A s \in Small(n) : s \in Small(n + 1)
    BY <1>1, <1>3
  <2>4. \A s \in Small(n) : h[s] = g[s]
    BY <2>1, <2>3 DEF IsSumOf
  <2> HIDE DEF Small
  <2>5. IsSumOf(f, Small(n + 1), h)
    BY <2>2, <2>4 DEF IsSumOf
  <2> HIDE DEF h
  <2>6. n + 1 \in Nat
    BY <1>3
  <2> QED BY <2>5, <2>6
<1>4. G = Nat
  <2> HIDE DEF G
  <2>1. G \in SUBSET Nat
    BY DEF G
  <2> QED BY <1>2, <1>3, <2>1, NumbersInOrder
<1>5. Cardinality(S) \in G
  BY <1>1, <1>4
<1>6. Small(Cardinality(S)) = SUBSET S
  BY <1>1, FS_Subset
<1>7. \E g : IsSumOf(f, SUBSET S, g)
  BY <1>5, <1>6
<1> QED BY <1>7 DEF SumTable

\* The tables of a set and of a part of it agree.
LEMMA SumTablesAgree ==
    ASSUME NEW f, NEW S, NEW T, IsFiniteSet(S), T \subseteq S
    PROVE  SumTable(f, S)[T] = SumTable(f, T)[T]
<1> DEFINE g == SumTable(f, S)
           h == SumTable(f, T)
           Bad == {n \in Nat : \E s \in SUBSET T : Cardinality(s) = n /\ g[s] # h[s]}
<1>0. IsSumOf(f, SUBSET S, g) /\ IsSumOf(f, SUBSET T, h)
  BY SumTableExists, FS_Subset
<1> HIDE DEF g, h
<1>1. \A s \in SUBSET T : IsFiniteSet(s) /\ Cardinality(s) \in Nat
  BY FS_Subset, FS_CardinalityType
<1> SUFFICES ASSUME g[T] # h[T] PROVE FALSE
  BY DEF g, h
<1>2. Bad # {} /\ Bad \in SUBSET Nat
  BY <1>1
<1>3. PICK m \in Bad : \A n \in Bad : m <= n
  BY <1>2, LeastExists
<1>4. PICK s \in SUBSET T : Cardinality(s) = m /\ g[s] # h[s]
  BY <1>3
<1> HIDE DEF Bad
<1>5. s # {}
  BY <1>0, <1>4 DEF IsSumOf
<1>6. /\ g[s] = f[First(s)] + g[s \ {First(s)}]
      /\ h[s] = f[First(s)] + h[s \ {First(s)}]
  BY <1>0, <1>4, <1>5 DEF IsSumOf
<1>7. Cardinality(s \ {First(s)}) = m - 1 /\ m - 1 \in Nat /\ s \ {First(s)} \in SUBSET T
  BY <1>1, <1>4, <1>5, FirstIsIn, OneLess
<1>8. g[s \ {First(s)}] = h[s \ {First(s)}]
  BY <1>1, <1>3, <1>7 DEF Bad
<1> QED BY <1>4, <1>6, <1>8

LEMMA SumOfNothing == ASSUME NEW f PROVE SumFunctionOnSet(f, {}) = 0
<1> DEFINE N == {}
<1>1. IsFiniteSet(N) /\ N \in SUBSET N
  BY FS_EmptySet
<1> HIDE DEF N
<1>2. SumFunctionOnSet(f, N) = SumTable(f, N)[N] /\ IsSumOf(f, SUBSET N, SumTable(f, N))
  BY <1>1, SumUnfolds, SumTableExists
<1> QED BY <1>1, <1>2 DEF IsSumOf, N

LEMMA SumStep ==
    ASSUME NEW f, NEW S, IsFiniteSet(S), S # {}
    PROVE  SumFunctionOnSet(f, S) = f[First(S)] + SumFunctionOnSet(f, S \ {First(S)})
<1> DEFINE T == S \ {First(S)}
<1>1. IsFiniteSet(T) /\ T \subseteq S /\ T \in SUBSET T /\ S \in SUBSET S
  BY FS_Subset
<1>2. /\ IsSumOf(f, SUBSET S, SumTable(f, S)) /\ SumFunctionOnSet(f, S) = SumTable(f, S)[S]
      /\ IsSumOf(f, SUBSET T, SumTable(f, T)) /\ SumFunctionOnSet(f, T) = SumTable(f, T)[T]
  BY <1>1, SumUnfolds, SumTableExists
<1>3. SumTable(f, S)[T] = SumTable(f, T)[T]
  BY <1>1, SumTablesAgree
<1>4. SumTable(f, S)[S] = f[First(S)] + SumTable(f, S)[T]
  BY <1>1, <1>2 DEF IsSumOf
<1> QED BY <1>2, <1>3, <1>4

\* A function with whole values on a finite set.
Whole(f, S) == IsFiniteSet(S) /\ \A x \in S : f[x] \in Int

LEMMA SumIsWhole ==
    ASSUME NEW f, NEW S, Whole(f, S)
    PROVE  SumFunctionOnSet(f, S) \in Int
<1> DEFINE Bad == {n \in Nat : \E s \in SUBSET S :
                      Cardinality(s) = n /\ SumFunctionOnSet(f, s) \notin Int}
<1> SUFFICES ASSUME SumFunctionOnSet(f, S) \notin Int PROVE FALSE
  OBVIOUS
<1>1. \A s \in SUBSET S : IsFiniteSet(s) /\ Cardinality(s) \in Nat
  BY FS_Subset, FS_CardinalityType DEF Whole
<1>2. Bad # {} /\ Bad \in SUBSET Nat
  BY <1>1
<1>3. PICK m \in Bad : \A n \in Bad : m <= n
  BY <1>2, LeastExists
<1>4. PICK s \in SUBSET S : Cardinality(s) = m /\ SumFunctionOnSet(f, s) \notin Int
  BY <1>3
<1>5. s # {}
  BY <1>4, SumOfNothing
<1>6. First(s) \in s /\ f[First(s)] \in Int /\ s \ {First(s)} \in SUBSET S
  BY <1>5, FirstIsIn DEF Whole
<1>7. Cardinality(s \ {First(s)}) = m - 1 /\ m - 1 \in Nat
  BY <1>1, <1>4, <1>6, OneLess
<1>8. SumFunctionOnSet(f, s \ {First(s)}) \in Int
  BY <1>3, <1>6, <1>7
<1>9. SumFunctionOnSet(f, s) = f[First(s)] + SumFunctionOnSet(f, s \ {First(s)})
  BY <1>1, <1>5, SumStep
<1> HIDE DEF Bad
<1> QED BY <1>4, <1>6, <1>8, <1>9

\* The order in which a sum is taken does not matter.
LEMMA SumTakes ==
    ASSUME NEW f, NEW S, Whole(f, S), NEW y \in S
    PROVE  SumFunctionOnSet(f, S) = f[y] + SumFunctionOnSet(f, S \ {y})
<1> DEFINE Amount(s) == SumFunctionOnSet(f, s)
           Bad == {n \in Nat : \E s \in SUBSET S : Cardinality(s) = n /\
                                  \E x \in s : Amount(s) # f[x] + Amount(s \ {x})}
<1> SUFFICES ASSUME Amount(S) # f[y] + Amount(S \ {y}) PROVE FALSE
  OBVIOUS
<1>1. \A s \in SUBSET S : IsFiniteSet(s) /\ Cardinality(s) \in Nat
  BY FS_Subset, FS_CardinalityType DEF Whole
<1>2. \A s \in SUBSET S : Amount(s) \in Int
  BY <1>1, SumIsWhole DEF Whole
<1>3. Bad # {} /\ Bad \in SUBSET Nat
  BY <1>1
<1>4. PICK m \in Bad : \A n \in Bad : m <= n
  BY <1>3, LeastExists
<1>5. PICK s \in SUBSET S : Cardinality(s) = m /\ \E x \in s : Amount(s) # f[x] + Amount(s \ {x})
  BY <1>4
<1>6. PICK x \in s : Amount(s) # f[x] + Amount(s \ {x})
  BY <1>5
<1> DEFINE z == First(s)
<1>7. z \in s /\ Amount(s) = f[z] + Amount(s \ {z})
  BY <1>1, <1>6, FirstIsIn, SumStep
<1>8. x # z
  BY <1>6, <1>7
<1> HIDE DEF z
<1>9. ASSUME NEW u \in s, NEW v \in s \ {u} PROVE Amount(s \ {u}) = f[v] + Amount((s \ {u}) \ {v})
  <2>1. Cardinality(s \ {u}) = m - 1 /\ m - 1 \in Nat /\ s \ {u} \in SUBSET S
    BY <1>1, <1>5, OneLess
  <2>2. m - 1 \notin Bad
    BY <1>4, <2>1
  <2> QED BY <2>1, <2>2
<1>10. /\ Amount(s \ {z}) = f[x] + Amount((s \ {z}) \ {x})
       /\ Amount(s \ {x}) = f[z] + Amount((s \ {x}) \ {z})
  BY <1>7, <1>8, <1>9
<1>11. (s \ {z}) \ {x} = (s \ {x}) \ {z}
  OBVIOUS
<1>12. f[x] \in Int /\ f[z] \in Int /\ Amount((s \ {x}) \ {z}) \in Int
  BY <1>2, <1>7 DEF Whole
<1>13. Amount(s) = f[z] + (f[x] + Amount((s \ {x}) \ {z}))
  BY <1>7, <1>10, <1>11
<1>14. f[x] + Amount(s \ {x}) = f[x] + (f[z] + Amount((s \ {x}) \ {z}))
  BY <1>10
<1> HIDE DEF Amount, Bad
<1>15. f[z] + (f[x] + Amount((s \ {x}) \ {z})) = f[x] + (f[z] + Amount((s \ {x}) \ {z}))
  BY <1>12
<1> QED BY <1>6, <1>13, <1>14, <1>15

LEMMA SumAdds ==
    ASSUME NEW f, NEW S, NEW y, Whole(f, S \cup {y}), y \notin S
    PROVE  SumFunctionOnSet(f, S \cup {y}) = f[y] + SumFunctionOnSet(f, S)
<1>1. (S \cup {y}) \ {y} = S
  OBVIOUS
<1> QED BY <1>1, SumTakes

LEMMA WholePart == ASSUME NEW f, NEW S, Whole(f, S), NEW T \in SUBSET S PROVE Whole(f, T)
  BY FS_Subset DEF Whole

\* The sum over a set is the sums over two parts of it.
LEMMA SumSplits ==
    ASSUME NEW f, NEW S, Whole(f, S), NEW T \in SUBSET S
    PROVE  SumFunctionOnSet(f, S) = SumFunctionOnSet(f, T) + SumFunctionOnSet(f, S \ T)
<1> DEFINE A(s) == SumFunctionOnSet(f, s)
           U == S \ T
           G == {s \in SUBSET U : A(T \cup s) = A(T) + A(s)}
<1>1. \A s \in SUBSET S : Whole(f, s) /\ A(s) \in Int
  BY WholePart, SumIsWhole
<1>2. {} \in G
  <2>1. T \cup {} = T /\ A(T) \in Int /\ A({}) = 0
    BY <1>1, SumOfNothing
  <2> QED BY <2>1
<1>3. ASSUME NEW s \in G, NEW x \in U \ s PROVE s \cup {x} \in G
  <2>1. A(s \cup {x}) = f[x] + A(s)
    BY <1>1, <1>3, SumAdds
  <2>2. A((T \cup s) \cup {x}) = f[x] + A(T \cup s)
    BY <1>1, <1>3, SumAdds
  <2>3. T \cup (s \cup {x}) = (T \cup s) \cup {x}
    OBVIOUS
  <2>4. f[x] \in Int /\ A(T) \in Int /\ A(s) \in Int /\ A(T \cup s) = A(T) + A(s)
    BY <1>1, <1>3 DEF Whole
  <2> HIDE DEF A
  <2>5. A(T \cup (s \cup {x})) = A(T) + A(s \cup {x})
    <3>1. A(T \cup (s \cup {x})) = f[x] + (A(T) + A(s))
      BY <2>2, <2>3, <2>4
    <3>2. f[x] + (A(T) + A(s)) = A(T) + (f[x] + A(s))
      BY <2>4
    <3> QED BY <2>1, <3>1, <3>2
  <2> QED BY <1>3, <2>5
<1>4. IsFiniteSet(U)
  BY FS_Subset DEF Whole
<1>5. U \in G
  <2> HIDE DEF U, A
  <2>1. G \in SUBSET (SUBSET U)
    OBVIOUS
  <2> HIDE DEF G
  <2> QED BY <1>2, <1>3, <1>4, <2>1, SubsetsInOrder
<1>6. T \cup U = S
  OBVIOUS
<1> QED BY <1>5, <1>6

\* What is added up may be exchanged for what is equal.
LEMMA SumsOfEquals ==
    ASSUME NEW f, NEW g, NEW S, Whole(f, S), \A x \in S : f[x] = g[x]
    PROVE  SumFunctionOnSet(f, S) = SumFunctionOnSet(g, S)
<1> DEFINE G == {s \in SUBSET S : SumFunctionOnSet(f, s) = SumFunctionOnSet(g, s)}
<1>1. \A s \in SUBSET S : Whole(f, s) /\ Whole(g, s)
  BY WholePart DEF Whole
<1>2. {} \in G
  BY SumOfNothing
<1>3. ASSUME NEW s \in G, NEW x \in S \ s PROVE s \cup {x} \in G
  <2>0. s \cup {x} \in SUBSET S /\ x \notin s /\ f[x] = g[x]
    BY <1>3
  <2>1. SumFunctionOnSet(f, s \cup {x}) = f[x] + SumFunctionOnSet(f, s)
    BY <1>1, <2>0, SumAdds
  <2>2. SumFunctionOnSet(g, s \cup {x}) = g[x] + SumFunctionOnSet(g, s)
    BY <1>1, <2>0, SumAdds
  <2> QED BY <1>3, <2>0, <2>1, <2>2
<1>4. S \in G
  <2>1. G \in SUBSET (SUBSET S)
    OBVIOUS
  <2> HIDE DEF G
  <2> QED BY <1>2, <1>3, <2>1, SubsetsInOrder DEF Whole
<1> QED BY <1>4

\* Term by term: h adds f and g.
LEMMA SumOfSums ==
    ASSUME NEW f, NEW g, NEW h, NEW S, Whole(f, S), Whole(g, S), \A x \in S : h[x] = f[x] + g[x]
    PROVE  SumFunctionOnSet(h, S) = SumFunctionOnSet(f, S) + SumFunctionOnSet(g, S)
<1> DEFINE F(s) == SumFunctionOnSet(f, s)
           E(s) == SumFunctionOnSet(g, s)
           H(s) == SumFunctionOnSet(h, s)
           G == {s \in SUBSET S : H(s) = F(s) + E(s)}
<1>1. \A s \in SUBSET S : /\ Whole(f, s) /\ Whole(g, s) /\ Whole(h, s)
                          /\ F(s) \in Int /\ E(s) \in Int
  <2>1. Whole(h, S)
    BY DEF Whole
  <2> QED BY <2>1, WholePart, SumIsWhole
<1>2. {} \in G
  BY SumOfNothing
<1>3. ASSUME NEW s \in G, NEW x \in S \ s PROVE s \cup {x} \in G
  <2>1. F(s \cup {x}) = f[x] + F(s) /\ E(s \cup {x}) = g[x] + E(s) /\ H(s \cup {x}) = h[x] + H(s)
    BY <1>1, <1>3, SumAdds
  <2>2. h[x] = f[x] + g[x] /\ f[x] \in Int /\ g[x] \in Int
    BY DEF Whole
  <2>3. F(s) \in Int /\ E(s) \in Int /\ H(s) = F(s) + E(s)
    BY <1>1, <1>3
  <2> HIDE DEF F, E, H
  <2> QED BY <1>3, <2>1, <2>2, <2>3
<1>4. S \in G
  <2>1. G \in SUBSET (SUBSET S)
    OBVIOUS
  <2> HIDE DEF G
  <2> QED BY <1>2, <1>3, <2>1, SubsetsInOrder DEF Whole
<1> QED BY <1>4

LEMMA SumOfZeros ==
    ASSUME NEW f, NEW S, IsFiniteSet(S), \A x \in S : f[x] = 0
    PROVE  SumFunctionOnSet(f, S) = 0
<1>1. Whole(f, S)
  BY DEF Whole
<1>2. SumFunctionOnSet(f, S) = SumFunctionOnSet(f, S) + SumFunctionOnSet(f, S)
  BY <1>1, SumOfSums
<1> QED BY <1>1, <1>2, SumIsWhole

LEMMA SumOfOpposites ==
    ASSUME NEW f, NEW g, NEW S, Whole(f, S), \A x \in S : g[x] = -f[x]
    PROVE  SumFunctionOnSet(g, S) = -SumFunctionOnSet(f, S)
<1> DEFINE h == [x \in S |-> 0]
<1>1. Whole(g, S) /\ \A x \in S : h[x] = f[x] + g[x]
  BY DEF Whole
<1>2. SumFunctionOnSet(h, S) = 0
  BY SumOfZeros DEF Whole
<1> HIDE DEF h
<1>3. SumFunctionOnSet(h, S) = SumFunctionOnSet(f, S) + SumFunctionOnSet(g, S)
  BY <1>1, SumOfSums
<1> QED BY <1>1, <1>2, <1>3, SumIsWhole

\* Adding up class by class: c says in which class of K a member of S is, and t
\* what each class adds up to.
LEMMA SumByClass ==
    ASSUME NEW f, NEW S, Whole(f, S), NEW K, IsFiniteSet(K),
           NEW c, \A x \in S : c[x] \in K,
           NEW t, \A k \in K : t[k] = SumFunctionOnSet(f, {x \in S : c[x] = k})
    PROVE  SumFunctionOnSet(t, K) = SumFunctionOnSet(f, S)
<1> DEFINE In(k) == {x \in S : c[x] \in k}
           F(s) == SumFunctionOnSet(f, s)
           T(k) == SumFunctionOnSet(t, k)
           G == {k \in SUBSET K : T(k) = F(In(k))}
<1>1. \A s \in SUBSET S : Whole(f, s) /\ F(s) \in Int
  BY WholePart, SumIsWhole
<1>2. \A k \in SUBSET K : Whole(t, k)
  <2>1. \A k \in K : t[k] \in Int
    BY <1>1
  <2> QED BY <2>1, WholePart DEF Whole
<1>3. {} \in G
  <2>1. In({}) = {}
    OBVIOUS
  <2> QED BY <2>1, SumOfNothing
<1>4. ASSUME NEW k \in G, NEW y \in K \ k PROVE k \cup {y} \in G
  <2> DEFINE A == In(k \cup {y})
             B == {x \in S : c[x] = y}
  <2>1. A \in SUBSET S /\ B \in SUBSET A /\ A \ B = In(k)
    OBVIOUS
  <2>2. F(A) = F(B) + F(A \ B)
    <3> HIDE DEF A, B, In
    <3> QED BY <1>1, <2>1, SumSplits
  <2>3. T(k \cup {y}) = t[y] + T(k)
    <3>1. k \cup {y} \in SUBSET K /\ y \notin k
      BY <1>4
    <3> QED BY <1>2, <3>1, SumAdds
  <2>4. t[y] = F(B) /\ T(k) = F(In(k))
    BY <1>4
  <2> HIDE DEF F, T, In, B
  <2> QED BY <1>4, <2>1, <2>2, <2>3, <2>4
<1>5. K \in G
  <2>1. G \in SUBSET (SUBSET K)
    OBVIOUS
  <2> HIDE DEF G
  <2> QED BY <1>3, <1>4, <2>1, SubsetsInOrder
<1>6. In(K) = S
  OBVIOUS
<1> QED BY <1>5, <1>6

-----------------------------------------------------------------------------
(* The loan estimate is a whole number of minor units.                     *)

IsPowers(b, n, P) == P = [k \in 0 .. n |-> IF k = 0 THEN 1 ELSE b * P[k - 1]]
Powers(b, n) == CHOOSE P : IsPowers(b, n, P)

LEMMA PowerUnfolds == ASSUME NEW b, NEW n PROVE Power(b, n) = Powers(b, n)[n]
  BY DEF Power, Powers, IsPowers

LEMMA PowersExist ==
    ASSUME NEW b, NEW n \in Nat
    PROVE  IsPowers(b, n, Powers(b, n))
<1> DEFINE G == {m \in Nat : \E P : IsPowers(b, m, P)}
<1>1. 0 \in G
  <2> DEFINE P == [k \in 0 .. 0 |-> 1]
  <2>1. IsPowers(b, 0, P)
    BY DEF IsPowers
  <2> QED BY <2>1
<1>2. ASSUME NEW m \in G PROVE m + 1 \in G
  <2>1. PICK P : IsPowers(b, m, P)
    BY <1>2
  <2> DEFINE Q == [k \in 0 .. m + 1 |-> IF k = 0 THEN 1 ELSE b * P[k - 1]]
  <2>2. m \in Nat /\ m + 1 \in Nat
    BY <1>2
  <2>3. \A k \in 0 .. m : Q[k] = P[k]
    BY <2>1, <2>2 DEF IsPowers
  <2>4. \A k \in 0 .. m + 1 : k # 0 => k - 1 \in 0 .. m
    BY <2>2
  <2>5. IsPowers(b, m + 1, Q)
    BY <2>3, <2>4 DEF IsPowers
  <2> HIDE DEF Q
  <2> QED BY <2>2, <2>5
<1>3. G = Nat
  <2>1. G \in SUBSET Nat
    OBVIOUS
  <2> HIDE DEF G
  <2> QED BY <1>1, <1>2, <2>1, NumbersInOrder
<1>4. \E P : IsPowers(b, n, P)
  BY <1>3
<1> QED BY <1>4 DEF Powers

LEMMA ProductsGrow ==
    ASSUME NEW a \in Nat, NEW b \in Nat, NEW x \in Nat, NEW y \in Nat, a > b, x >= y, y > 0
    PROVE  a * x > b * y
<1>1. PICK r \in Nat, s \in Nat : a = b + r /\ x = y + s /\ r > 0
  <2>1. a - b \in Nat /\ x - y \in Nat /\ a = b + (a - b) /\ x = y + (x - y) /\ a - b > 0
    OBVIOUS
  <2> QED BY <2>1
<1>2. a * x = b * y + (b * s + r * y + r * s)
  BY <1>1
<1>3. b * s \in Nat /\ r * y \in Nat /\ r * s \in Nat /\ b * y \in Nat
  BY <1>1
<1>4. r * y > 0
  BY <1>1
<1> QED BY <1>2, <1>3, <1>4

\* A power is positive, and grows with its base.
LEMMA PowersGrow ==
    ASSUME NEW a \in Nat, NEW b \in Nat, a > b, b > 0, NEW n \in Nat, n > 0
    PROVE  Power(a, n) \in Nat /\ Power(b, n) \in Nat /\ Power(b, n) > 0
           /\ Power(a, n) > Power(b, n)
<1> DEFINE A == Powers(a, n)
           B == Powers(b, n)
           Good(k) == /\ A[k] \in Nat /\ B[k] \in Nat /\ B[k] > 0 /\ A[k] >= B[k]
                      /\ k > 0 => A[k] > B[k]
           G == {k \in Nat : k <= n => Good(k)}
<1>1. IsPowers(a, n, A) /\ IsPowers(b, n, B)
  BY PowersExist
<1> HIDE DEF A, B
<1>2. 0 \in G
  BY <1>1 DEF IsPowers
<1>3. ASSUME NEW k \in G PROVE k + 1 \in G
  <2> SUFFICES ASSUME k + 1 <= n PROVE Good(k + 1)
    OBVIOUS
  <2>1. k \in Nat /\ k <= n /\ Good(k)
    BY <1>3
  <2>2. A[k + 1] = a * A[k] /\ B[k + 1] = b * B[k]
    BY <1>1, <2>1 DEF IsPowers
  <2>3. a * A[k] > b * B[k]
    BY <2>1, ProductsGrow
  <2>4. a * A[k] \in Nat /\ b * B[k] \in Nat /\ b * B[k] > 0
    BY <2>1
  <2> QED BY <2>2, <2>3, <2>4
<1>4. G = Nat
  <2>1. G \in SUBSET Nat
    OBVIOUS
  <2> HIDE DEF G
  <2> QED BY <1>2, <1>3, <2>1, NumbersInOrder
<1>5. Good(n)
  BY <1>4
<1> QED BY <1>5, PowerUnfolds DEF A, B

LEMMA RoundIsWhole ==
    ASSUME NEW n \in Int, NEW d \in Nat \ {0}
    PROVE  /\ Round(n, d) \in Int /\ Ceiling(n, d) \in Int
           /\ n >= 0 => Round(n, d) \in Nat /\ Ceiling(n, d) \in Nat
<1>1. d \div 2 \in Nat
  OBVIOUS
<1>2. n + d \div 2 \in Int /\ n + d - 1 \in Int
  BY <1>1
<1>3. n >= 0 => n + d \div 2 \in Nat /\ n + d - 1 \in Nat
  BY <1>1
<1>4. \A x \in Nat : x \div d \in Nat
  OBVIOUS
<1> QED BY <1>2, <1>3, <1>4 DEF Round, Ceiling

LEMMA InstalmentIsWhole ==
    ASSUME NEW p, NEW terms, TermsAreValid(p, terms), Projected(terms)
    PROVE  Instalment(p, terms) \in Nat
<1> DEFINE d == Denominator(terms)
           growth == Power(d + terms.rate, terms.months)
           base == Power(d, terms.months)
<1>1. p \in Nat /\ terms.months \in Nat \ {0} /\ terms.rate \in Nat
  BY WorksheetsAssumption DEF TermsAreValid
<1>2. d \in Nat \ {0}
  BY WorksheetsAssumption DEF Denominator
<1>3. CASE terms.rate = 0
  BY <1>1, <1>3, RoundIsWhole DEF Instalment
<1>4. CASE terms.rate # 0
  <2> HIDE DEF d
  <2>1. growth \in Nat /\ base \in Nat /\ growth > base
    <3>1. d + terms.rate \in Nat /\ d + terms.rate > d /\ d \in Nat /\ d > 0
      BY <1>1, <1>2, <1>4
    <3>2. PICK a, m : a = d + terms.rate /\ m = terms.months
      OBVIOUS
    <3>3. a \in Nat /\ a > d /\ d \in Nat /\ d > 0 /\ m \in Nat /\ m > 0
      BY <1>1, <3>1, <3>2
    <3>4. Power(a, m) \in Nat /\ Power(d, m) \in Nat /\ Power(a, m) > Power(d, m)
      BY <3>3, PowersGrow
    <3> QED BY <3>2, <3>4
  <2> HIDE DEF growth, base
  <2>2. growth - base \in Nat \ {0}
    BY <2>1
  <2>3. d * (growth - base) \in Nat \ {0}
    BY <1>2, <2>2
  <2>4. p * terms.rate * growth \in Nat
    BY <1>1, <2>1
  <2>5. Ceiling(p * terms.rate * growth, d * (growth - base)) \in Nat
    BY <2>3, <2>4, RoundIsWhole
  <2> QED BY <1>4, <2>5 DEF Instalment, d, growth, base
<1> QED BY <1>3, <1>4

\* The schedule, month by month.
FirstMonth(p) == [balance |-> p, interest |-> 0, paid |-> 0]
MonthAfter(terms, payment, k, s) ==
    LET b == s.balance
        charged == Round(b * terms.rate, Denominator(terms))
        due == b + charged
        paid == IF k = terms.months \/ payment >= due THEN due ELSE payment IN
    IF b = 0 THEN [s EXCEPT !.paid = 0]
    ELSE [balance |-> due - paid, interest |-> s.interest + charged, paid |-> paid]
IsSchedule(p, terms, payment, n, S) ==
    S = [k \in 0 .. n |-> IF k = 0 THEN FirstMonth(p) ELSE MonthAfter(terms, payment, k, S[k - 1])]

LEMMA ScheduleUnfolds ==
    ASSUME NEW p, NEW terms, NEW payment
    PROVE  Schedule(p, terms, payment) = CHOOSE S : IsSchedule(p, terms, payment, terms.months, S)
  BY DEF Schedule, IsSchedule, FirstMonth, MonthAfter

LEMMA ScheduleExists ==
    ASSUME NEW p, NEW terms, NEW payment, terms.months \in Nat
    PROVE  IsSchedule(p, terms, payment, terms.months, Schedule(p, terms, payment))
<1> DEFINE Is(m, S) == IsSchedule(p, terms, payment, m, S)
           G == {m \in Nat : \E S : Is(m, S)}
<1>1. 0 \in G
  <2> DEFINE S == [k \in 0 .. 0 |-> FirstMonth(p)]
  <2>1. Is(0, S)
    BY DEF IsSchedule
  <2> QED BY <2>1
<1>2. ASSUME NEW m \in G PROVE m + 1 \in G
  <2>1. PICK S : Is(m, S)
    BY <1>2
  <2> DEFINE Q == [k \in 0 .. m + 1 |-> IF k = 0 THEN FirstMonth(p)
                                         ELSE MonthAfter(terms, payment, k, S[k - 1])]
  <2>2. m \in Nat /\ m + 1 \in Nat
    BY <1>2
  <2>3. \A k \in 0 .. m : Q[k] = S[k]
    BY <2>1, <2>2 DEF IsSchedule
  <2>4. \A k \in 0 .. m + 1 : k # 0 => k - 1 \in 0 .. m
    BY <2>2
  <2>5. Is(m + 1, Q)
    BY <2>3, <2>4 DEF IsSchedule
  <2> HIDE DEF Q, Is
  <2> QED BY <2>2, <2>5
<1>3. G = Nat
  <2>1. G \in SUBSET Nat
    OBVIOUS
  <2> HIDE DEF G
  <2> QED BY <1>1, <1>2, <2>1, NumbersInOrder
<1>4. \E S : Is(terms.months, S)
  BY <1>3
<1> QED BY <1>4, ScheduleUnfolds

LEMMA ScheduleIsWhole ==
    ASSUME NEW p, NEW terms, TermsAreValid(p, terms), Projected(terms), NEW payment \in Int
    PROVE  Schedule(p, terms, payment)[terms.months].interest \in Int
<1> DEFINE S == Schedule(p, terms, payment)
           R == [balance : Int, interest : Int, paid : Int]
           G == {k \in Nat : k <= terms.months => S[k] \in R}
<1>1. p \in Int /\ terms.months \in Nat /\ terms.rate \in Nat
  BY WorksheetsAssumption DEF TermsAreValid
<1>2. IsSchedule(p, terms, payment, terms.months, S)
  BY <1>1, ScheduleExists
<1> HIDE DEF S
<1>3. 0 \in G
  BY <1>1, <1>2 DEF IsSchedule, FirstMonth
<1>4. ASSUME NEW k \in G PROVE k + 1 \in G
  <2> SUFFICES ASSUME k + 1 <= terms.months PROVE S[k + 1] \in R
    OBVIOUS
  <2>1. k \in Nat /\ S[k] \in R
    BY <1>1, <1>4
  <2> DEFINE s == S[k]
  <2>2. S[k + 1] = MonthAfter(terms, payment, k + 1, s)
    <3>1. k + 1 \in 0 .. terms.months /\ k + 1 # 0 /\ (k + 1) - 1 = k
      BY <1>1, <2>1
    <3>2. S[k + 1] = MonthAfter(terms, payment, k + 1, S[(k + 1) - 1])
      BY <1>2, <3>1 DEF IsSchedule
    <3> QED BY <3>1, <3>2
  <2> HIDE DEF s
  <2>3. s \in R
    BY <2>1 DEF s
  <2> DEFINE charged == Round(s.balance * terms.rate, Denominator(terms))
  <2>4. charged \in Int
    <3>1. Denominator(terms) \in Nat \ {0}
      BY WorksheetsAssumption DEF Denominator
    <3>2. s.balance * terms.rate \in Int
      BY <1>1, <2>3
    <3> QED BY <3>1, <3>2, RoundIsWhole
  <2> HIDE DEF charged
  <2>5. MonthAfter(terms, payment, k + 1, s) \in R
    BY <2>3, <2>4 DEF MonthAfter, charged
  <2> QED BY <2>2, <2>5
<1>5. G = Nat
  <2>1. G \in SUBSET Nat
    OBVIOUS
  <2> HIDE DEF G
  <2> QED BY <1>3, <1>4, <2>1, NumbersInOrder
<1>6. S[terms.months] \in R
  BY <1>1, <1>5
<1> QED BY <1>6 DEF S

\* An estimate that is not refused is a whole number.
LEMMA EstimateIsWhole ==
    ASSUME NEW p, NEW terms, CalculateDebtInterest(p, terms).ok
    PROVE  CalculateDebtInterest(p, terms).total \in Int
<1>1. TermsAreValid(p, terms) /\ p \in Int
  BY WorksheetsAssumption DEF CalculateDebtInterest, NoEstimate, TermsAreValid
<1>2. CASE ~Projected(terms)
  BY <1>1, <1>2 DEF CalculateDebtInterest
<1>3. CASE Projected(terms)
  <2> DEFINE flat == FlatInterest(p, terms)
             payment == Instalment(p, terms)
             last == Schedule(p, terms, payment)[terms.months].interest
             interest == IF terms.method = "FLAT" THEN flat ELSE last
  <2>1. flat \in Int
    <3>1. terms.rate \in Int /\ terms.months \in Int /\ Denominator(terms) \in Nat \ {0}
      BY <1>1, <1>3, WorksheetsAssumption DEF TermsAreValid, Denominator
    <3>2. p * terms.rate * terms.months \in Int
      BY <1>1, <3>1
    <3> QED BY <3>1, <3>2, RoundIsWhole DEF FlatInterest
  <2>2. last \in Int
    BY <1>1, <1>3, InstalmentIsWhole, ScheduleIsWhole
  <2>3. CalculateDebtInterest(p, terms).total = p + interest
    <3> HIDE DEF flat, last, interest
    <3> QED BY <1>1, <1>3 DEF CalculateDebtInterest, NoEstimate, flat, payment, last, interest
  <2> HIDE DEF flat, last
  <2> QED BY <1>1, <2>1, <2>2, <2>3
<1> QED BY <1>2, <1>3

-----------------------------------------------------------------------------
(* The loan estimate does what it says.                                    *)

LEMMA Quotient ==
    ASSUME NEW x \in Int, NEW d \in Nat \ {0}
    PROVE  (x \div d) \in Int /\ (x \div d) * d <= x /\ x < (x \div d) * d + d
  OBVIOUS

LEMMA RoundIsNearest ==
    ASSUME NEW n \in Int, NEW d \in Nat \ {0}
    PROVE  Nearest(Round(n, d), n, d)
<1> DEFINE h == d \div 2
           q == (n + h) \div d
<1>1. h \in Int /\ 2 * h <= d /\ d < 2 * h + 2
  OBVIOUS
<1> HIDE DEF h
<1>2. n + h \in Int
  BY <1>1
<1>3. q \in Int /\ q * d <= n + h /\ n + h < q * d + d
  BY <1>2, Quotient
<1>4. Round(n, d) = q
  BY DEF Round, h
<1> HIDE DEF q
<1>5. PICK m \in Int : m = q * d
  BY <1>3
<1>6. 2 * (m - n) \in -d .. d
  BY <1>1, <1>3, <1>5
<1> QED BY <1>4, <1>5, <1>6 DEF Nearest

LEMMA CeilingIsEnough ==
    ASSUME NEW n \in Int, NEW d \in Nat \ {0}
    PROVE  d * (Ceiling(n, d) - 1) < n /\ n <= d * Ceiling(n, d)
<1> DEFINE q == (n + d - 1) \div d
<1>1. q \in Int /\ q * d <= n + d - 1 /\ n + d - 1 < q * d + d
  <2>1. n + d - 1 \in Int
    OBVIOUS
  <2> QED BY <2>1, Quotient
<1>2. Ceiling(n, d) = q
  BY DEF Ceiling
<1> HIDE DEF q
<1>3. d * (q - 1) = q * d - d /\ d * q = q * d /\ q * d \in Int
  BY <1>1
<1> QED BY <1>1, <1>2, <1>3

\* An estimate that is not refused adds its interest to the principal.
LEMMA EstimateAddsUp ==
    ASSUME NEW p, NEW terms, CalculateDebtInterest(p, terms).ok, Projected(terms)
    PROVE  LET e == CalculateDebtInterest(p, terms)
               flat == FlatInterest(p, terms)
               payment == Instalment(p, terms) IN
           /\ TermsAreValid(p, terms) /\ p \in Nat /\ terms.rate \in Nat
           /\ terms.months \in Nat \ {0} /\ Denominator(terms) \in Nat \ {0}
           /\ e.total = p + e.interest
           /\ terms.method = "FLAT" => /\ e.interest = flat
                                       /\ e.payment = Ceiling(p + flat, terms.months)
           /\ terms.method # "FLAT" =>
                 /\ e.interest = Schedule(p, terms, payment)[terms.months].interest
                 /\ e.payment = payment
<1>1. TermsAreValid(p, terms)
  BY WorksheetsAssumption DEF CalculateDebtInterest, NoEstimate
<1>2. p \in Nat /\ terms.rate \in Nat /\ terms.months \in Nat \ {0}
  BY <1>1, WorksheetsAssumption DEF TermsAreValid
<1>3. Denominator(terms) \in Nat \ {0}
  BY WorksheetsAssumption DEF Denominator
<1>4. PICK flat, payment, last : /\ flat = FlatInterest(p, terms) /\ payment = Instalment(p, terms)
                                 /\ last = Schedule(p, terms, payment)[terms.months].interest
  OBVIOUS
<1>5. CalculateDebtInterest(p, terms) =
         LET interest == IF terms.method = "FLAT" THEN flat ELSE last IN
         [ok |-> TRUE, interest |-> interest, total |-> p + interest,
          payment |-> IF terms.method = "FLAT" THEN Ceiling(p + flat, terms.months) ELSE payment]
  BY <1>1, <1>4 DEF CalculateDebtInterest, NoEstimate
<1> QED BY <1>1, <1>2, <1>3, <1>4, <1>5

\* A flat loan: the interest of calculateDebtInterest is the exact one rounded to
\* the nearest minor unit, and its instalment is the least that covers the total
\* (debt-interest.ts).
THEOREM FlatLoansAgree ==
    ASSUME NEW p, NEW terms, CalculateDebtInterest(p, terms).ok, terms.method = "FLAT"
    PROVE  FlatAgrees(p, terms, CalculateDebtInterest(p, terms))
<1> DEFINE num == p * terms.rate * terms.months
           d == Denominator(terms)
           flat == FlatInterest(p, terms)
<1>1. PICK e : e = CalculateDebtInterest(p, terms)
  OBVIOUS
<1>2. /\ p \in Nat /\ terms.rate \in Nat /\ terms.months \in Nat \ {0} /\ d \in Nat \ {0}
      /\ e.total = p + e.interest /\ e.interest = flat
      /\ e.payment = Ceiling(p + flat, terms.months)
  BY <1>1, EstimateAddsUp DEF Projected
<1>3. num \in Int
  BY <1>2
<1>4. flat = Round(num, d)
  BY DEF FlatInterest
<1> HIDE DEF num, d, flat
<1>5. flat \in Int /\ Nearest(flat, num, d)
  BY <1>2, <1>3, <1>4, RoundIsWhole, RoundIsNearest
<1>6. p + flat \in Int
  BY <1>2, <1>5
<1>7. /\ terms.months * (e.payment - 1) < p + flat /\ p + flat <= terms.months * e.payment
  BY <1>2, <1>6, CeilingIsEnough
<1> QED BY <1>1, <1>2, <1>5, <1>7 DEF FlatAgrees, num, d

\* A reducing balance: the months of the schedule leave nothing to pay, no
\* balance is negative, no month but the last pays more than the instalment, and
\* the payments add up to the total that the estimate reports (debt-interest.ts).
LEMMA LoansAreRepaid ==
    ASSUME NEW p, NEW terms, CalculateDebtInterest(p, terms).ok, terms.method = "REDUCING"
    PROVE  LET e == CalculateDebtInterest(p, terms)
               s == Schedule(p, terms, e.payment)
               n == terms.months IN
           /\ s[n].balance = 0
           /\ \A k \in 0 .. n : s[k].balance >= 0
           /\ \A k \in 1 .. n - 1 : s[k].paid <= e.payment
           /\ SumFunctionOnSet([k \in 1 .. n |-> s[k].paid], 1 .. n) = e.total
<1>1. PICK e, n, d : /\ e = CalculateDebtInterest(p, terms) /\ n = terms.months
                     /\ d = Denominator(terms)
  OBVIOUS
<1>2. PICK s : s = Schedule(p, terms, e.payment)
  OBVIOUS
<1>3. /\ p \in Nat /\ terms.rate \in Nat /\ n \in Nat \ {0} /\ d \in Nat \ {0}
      /\ e.total = p + e.interest /\ e.interest = s[n].interest /\ e.payment \in Nat
  BY <1>1, <1>2, EstimateAddsUp, InstalmentIsWhole DEF Projected
<1>4. s = [k \in 0 .. n |-> IF k = 0 THEN FirstMonth(p)
                            ELSE MonthAfter(terms, e.payment, k, s[k - 1])]
  BY <1>1, <1>2, <1>3, ScheduleExists DEF IsSchedule
<1> DEFINE paid == [k \in 1 .. n |-> s[k].paid]
           R == [balance : Int, interest : Int, paid : Int]
           Sofar(k) == SumFunctionOnSet(paid, 1 .. k)
           Fine(k) == /\ s[k] \in R /\ s[k].balance >= 0
                      /\ p + s[k].interest = s[k].balance + Sofar(k)
                      /\ \A i \in 1 .. k : s[i].paid \in Int
                      /\ \A i \in 1 .. k : i < n => s[i].paid <= e.payment
           G == {k \in Nat : k <= n => Fine(k)}
<1>5. s[0] = FirstMonth(p) /\ \A k \in 1 .. n : s[k] = MonthAfter(terms, e.payment, k, s[k - 1])
  BY <1>3, <1>4
<1>6. 0 \in G
  <2>1. 1 .. 0 = {}
    OBVIOUS
  <2>2. Sofar(0) = 0
    BY <2>1, SumOfNothing
  <2> HIDE DEF Sofar, paid
  <2> QED BY <1>3, <1>5, <2>1, <2>2 DEF FirstMonth
<1>7. ASSUME NEW k \in G PROVE k + 1 \in G
  <2> SUFFICES ASSUME k + 1 <= n PROVE Fine(k + 1)
    BY <1>7
  <2>1. k \in Nat /\ k + 1 \in 1 .. n /\ k \in 0 .. n /\ Fine(k) /\ k + 1 \in Nat
    BY <1>3, <1>7
  <2>2. PICK a, b : a = s[k] /\ b = s[k + 1]
    OBVIOUS
  <2>3. b = MonthAfter(terms, e.payment, k + 1, a)
    BY <1>5, <2>1, <2>2
  <2>4. PICK charged : charged = Round(a.balance * terms.rate, d)
    OBVIOUS
  <2>5. a \in R /\ a.balance >= 0
    BY <2>1, <2>2
  <2>6. charged \in Int /\ charged >= 0
    <3>1. a.balance * terms.rate \in Nat
      <4>1. PICK m \in Nat, r \in Nat : m = a.balance /\ r = terms.rate
        BY <1>3, <2>5
      <4>2. m * r \in Nat
        OBVIOUS
      <4> QED BY <4>1, <4>2
    <3>2. PICK x \in Nat : x = a.balance * terms.rate
      BY <3>1
    <3>3. d \div 2 \in Nat /\ x + d \div 2 \in Nat
      BY <1>3, <3>2
    <3>4. (x + d \div 2) \div d \in Nat
      <4>1. PICK y \in Nat : y = x + d \div 2
        BY <3>3
      <4>2. PICK v \in Nat \ {0} : v = d
        BY <1>3
      <4>3. y \div v \in Nat
        OBVIOUS
      <4> QED BY <4>1, <4>2, <4>3
    <3>5. charged = (x + d \div 2) \div d
      BY <2>4, <3>2 DEF Round
    <3> QED BY <3>4, <3>5
  <2>7. /\ b \in R /\ b.balance >= 0
        /\ b.interest - a.interest = b.balance + b.paid - a.balance
        /\ k + 1 < n => b.paid <= e.payment
    <3>1. CASE a.balance = 0
      <4>1. b = [a EXCEPT !.paid = 0]
        BY <2>3, <3>1 DEF MonthAfter
      <4>2. /\ b.balance = a.balance /\ b.interest = a.interest /\ b.paid = 0
            /\ b = [balance |-> a.balance, interest |-> a.interest, paid |-> 0]
        BY <2>5, <4>1
      <4>3. b \in R
        BY <2>5, <4>2
      <4>4. 0 <= e.payment
        BY <1>3
      <4> QED BY <2>5, <3>1, <4>2, <4>3, <4>4
    <3>2. CASE a.balance # 0
      <4> DEFINE due == a.balance + charged
                 pay == IF k + 1 = n \/ e.payment >= due THEN due ELSE e.payment
      <4>1. b = [balance |-> due - pay, interest |-> a.interest + charged, paid |-> pay]
        BY <1>1, <2>3, <2>4, <3>2 DEF MonthAfter
      <4>2. due \in Int /\ pay \in Int /\ pay <= due /\ (k + 1 < n => pay <= e.payment)
        <5>1. PICK m \in Int, c \in Int, y \in Int :
                 m = a.balance /\ c = charged /\ y = e.payment
          BY <1>3, <2>5, <2>6
        <5>2. due = m + c /\ pay = IF k + 1 = n \/ y >= m + c THEN m + c ELSE y
          BY <5>1
        <5> HIDE DEF due, pay
        <5>3. due \in Int /\ pay \in Int /\ pay <= due /\ (k + 1 < n => pay <= y)
          <6>1. CASE k + 1 = n
            <7>1. ~(k + 1 < n)
              BY <1>3, <2>1, <6>1
            <7> QED BY <5>2, <6>1, <7>1
          <6>2. CASE k + 1 # n
            BY <5>2, <6>2
          <6> QED BY <6>1, <6>2
        <5> QED BY <5>1, <5>3
      <4>3. due = a.balance + charged
        OBVIOUS
      <4> HIDE DEF due, pay
      <4>4. /\ b.balance = due - pay /\ b.interest = a.interest + charged /\ b.paid = pay
            /\ b \in R
        BY <2>5, <2>6, <4>1, <4>2
      <4>5. PICK m \in Int, i \in Int, c \in Int : m = a.balance /\ i = a.interest /\ c = charged
        BY <2>5, <2>6
      <4>6. b.balance >= 0
        BY <4>2, <4>4
      <4>7. b.interest - a.interest = b.balance + b.paid - a.balance
        <5>1. (i + c) - i = (m + c - pay) + pay - m
          BY <4>2
        <5>2. /\ b.interest - a.interest = (i + c) - i
              /\ b.balance + b.paid - a.balance = (m + c - pay) + pay - m
          BY <4>3, <4>4, <4>5
        <5> QED BY <5>1, <5>2
      <4>8. k + 1 < n => b.paid <= e.payment
        BY <4>2, <4>4
      <4> QED BY <4>4, <4>6, <4>7, <4>8
    <3> QED BY <3>1, <3>2
  <2>8. Sofar(k + 1) = b.paid + Sofar(k) /\ Sofar(k) \in Int
    <3>1. 1 .. (k + 1) = (1 .. k) \cup {k + 1} /\ k + 1 \notin 1 .. k
      BY <2>1
    <3>2. \A i \in 1 .. (k + 1) : paid[i] \in Int
      <4>1. \A i \in 1 .. (k + 1) : i \in 1 .. n /\ (i = k + 1 \/ i \in 1 .. k)
        BY <1>3, <2>1
      <4>2. b.paid \in Int
        BY <2>7
      <4>3. \A i \in 1 .. k : s[i].paid \in Int
        BY <2>1
      <4>4. \A i \in 1 .. (k + 1) : s[i].paid \in Int
        BY <2>2, <4>1, <4>2, <4>3
      <4> QED BY <4>1, <4>4
    <3>3. IsFiniteSet(1 .. (k + 1)) /\ IsFiniteSet(1 .. k)
      BY <2>1, FS_Interval
    <3>4. paid[k + 1] = b.paid
      BY <2>1, <2>2
    <3> HIDE DEF paid
    <3>5. Whole(paid, (1 .. k) \cup {k + 1}) /\ Whole(paid, 1 .. k)
      BY <3>1, <3>2, <3>3 DEF Whole
    <3>6. SumFunctionOnSet(paid, (1 .. k) \cup {k + 1}) = paid[k + 1] + SumFunctionOnSet(paid, 1 .. k)
      BY <3>1, <3>5, SumAdds
    <3> QED BY <3>1, <3>4, <3>5, <3>6, SumIsWhole
  <2> HIDE DEF Sofar
  <2>9. p + b.interest = b.balance + Sofar(k + 1)
    <3>1. p + a.interest = a.balance + Sofar(k)
      BY <2>1, <2>2
    <3> QED BY <1>3, <2>5, <2>7, <2>8, <3>1
  <2>10. \A i \in 1 .. k + 1 : i = k + 1 \/ i \in 1 .. k
    BY <2>1
  <2>11. \A i \in 1 .. k + 1 : s[i].paid \in Int
    BY <2>1, <2>2, <2>7, <2>10
  <2>12. \A i \in 1 .. k + 1 : i < n => s[i].paid <= e.payment
    BY <2>1, <2>2, <2>7, <2>10
  <2>13. s[k + 1] \in R /\ s[k + 1].balance >= 0
         /\ p + s[k + 1].interest = s[k + 1].balance + Sofar(k + 1)
    BY <2>2, <2>7, <2>9
  <2> QED BY <2>11, <2>12, <2>13
<1>8. G = Nat
  <2>1. G \in SUBSET Nat
    OBVIOUS
  <2> HIDE DEF G
  <2> QED BY <1>6, <1>7, <2>1, NumbersInOrder
<1>9. \A k \in 0 .. n : Fine(k)
  <2> HIDE DEF Fine
  <2>1. \A k \in 0 .. n : k \in Nat /\ k <= n
    BY <1>3
  <2>2. \A k \in Nat : k <= n => Fine(k)
    BY <1>8
  <2> QED BY <2>1, <2>2
<1>10. s[n].balance = 0
  <2>1. n - 1 \in 0 .. n /\ n \in 1 .. n
    BY <1>3
  <2>2. s[n - 1] \in R /\ s[n] = MonthAfter(terms, e.payment, n, s[n - 1])
    BY <1>5, <1>9, <2>1
  <2>3. PICK a, charged : a = s[n - 1] /\ charged = Round(a.balance * terms.rate, d)
    OBVIOUS
  <2>4. a.balance \in Int /\ charged \in Int
    <3>1. a.balance \in Int /\ a.balance * terms.rate \in Int
      BY <1>3, <2>2, <2>3
    <3> QED BY <1>3, <2>3, <3>1, RoundIsWhole
  <2>5. CASE a.balance = 0
    BY <2>2, <2>3, <2>5 DEF MonthAfter
  <2>6. CASE a.balance # 0
    <3>1. s[n].balance = (a.balance + charged) - (a.balance + charged)
      BY <1>1, <2>2, <2>3, <2>6 DEF MonthAfter
    <3> QED BY <2>4, <3>1
  <2> QED BY <2>5, <2>6
<1>11. Sofar(n) = e.total
  <2>1. n \in 0 .. n
    BY <1>3
  <2>2. p + s[n].interest = s[n].balance + Sofar(n)
    BY <1>9, <2>1
  <2>3. Whole(paid, 1 .. n)
    <3>1. \A i \in 1 .. n : s[i].paid \in Int
      BY <1>9, <2>1
    <3>2. IsFiniteSet(1 .. n)
      BY <1>3, FS_Interval
    <3> QED BY <3>1, <3>2 DEF Whole
  <2> HIDE DEF paid
  <2>4. Sofar(n) \in Int
    BY <2>3, SumIsWhole
  <2> QED BY <1>3, <1>10, <2>2, <2>4
<1>12. \A k \in 0 .. n : s[k].balance >= 0
  BY <1>9
<1>13. \A k \in 1 .. n - 1 : s[k].paid <= e.payment
  <2>1. n \in 0 .. n /\ \A k \in 1 .. n - 1 : k \in 1 .. n /\ k < n
    BY <1>3
  <2> QED BY <1>9, <2>1
<1> QED BY <1>1, <1>2, <1>10, <1>11, <1>12, <1>13

\* The documents of calculateKenyaEmploymentTax are accepted, one after the other,
\* exactly when an employer has one annual form and nothing else, or one payslip
\* a month, in whatever order they were entered (kenya-tax.ts).
THEOREM DocumentsInAnyOrder ==
    ASSUME NEW docs, NEW n \in Nat, DOMAIN docs = 1 .. n,
           \A i \in 1 .. n : docs[i].kind \in {"P9", "PAYSLIP"} /\ docs[i].month \in 1 .. 12
    PROVE  DocumentsAreValid(docs) <=> CoverageIsClean(docs)
<1> DEFINE Before(k, i) == k < i /\ docs[k].employer = docs[i].employer
<1>1. \A i \in 1 .. n : /\ PeriodOf(docs[i]) = Annual <=> docs[i].kind = "P9"
                        /\ docs[i].kind = "PAYSLIP" => PeriodOf(docs[i]) = docs[i].month
  BY DEF PeriodOf, Annual
<1>2. \A i \in 1 .. n : Seen(docs, i) = {PeriodOf(docs[k]) : k \in {j \in 1 .. n : Before(j, i)}}
  <2>1. ASSUME NEW i \in 1 .. n
        PROVE  Seen(docs, i) = {PeriodOf(docs[k]) : k \in {j \in 1 .. n : Before(j, i)}}
    <3>1. {j \in 1 .. i - 1 : docs[j].employer = docs[i].employer} = {j \in 1 .. n : Before(j, i)}
      OBVIOUS
    <3> QED BY <3>1 DEF Seen
  <2> QED BY <2>1
<1>3. ASSUME DocumentsAreValid(docs) PROVE CoverageIsClean(docs)
  <2>1. ASSUME NEW k \in 1 .. n, NEW i \in 1 .. n, Before(k, i)
        PROVE  /\ docs[i].kind = "PAYSLIP" /\ docs[k].kind = "PAYSLIP"
               /\ docs[i].month # docs[k].month
    <3>1. PeriodOf(docs[k]) \in Seen(docs, i)
      BY <1>2, <2>1
    <3>2. /\ PeriodOf(docs[i]) \notin Seen(docs, i) /\ Annual \notin Seen(docs, i)
          /\ PeriodOf(docs[i]) = Annual => Seen(docs, i) = {}
      BY <1>3 DEF DocumentsAreValid
    <3>3. docs[k].kind \in {"P9", "PAYSLIP"} /\ docs[i].kind \in {"P9", "PAYSLIP"}
      OBVIOUS
    <3> QED BY <1>1, <3>1, <3>2, <3>3
  <2>2. ASSUME NEW i \in 1 .. n, NEW k \in 1 .. n, i # k, docs[i].employer = docs[k].employer
        PROVE  /\ docs[i].kind = "PAYSLIP" /\ docs[k].kind = "PAYSLIP"
               /\ docs[i].month # docs[k].month
    <3>1. Before(i, k) \/ Before(k, i)
      BY <2>2
    <3> QED BY <2>1, <3>1
  <2> QED BY <1>3, <2>2 DEF DocumentsAreValid, CoverageIsClean
<1>4. ASSUME CoverageIsClean(docs) PROVE DocumentsAreValid(docs)
  <2>1. ASSUME NEW i \in 1 .. n, NEW x \in Seen(docs, i)
        PROVE  docs[i].kind = "PAYSLIP" /\ x # Annual /\ x # PeriodOf(docs[i])
    <3>1. PICK k \in 1 .. n : Before(k, i) /\ x = PeriodOf(docs[k])
      BY <1>2
    <3>2. i # k /\ docs[i].employer = docs[k].employer
      BY <3>1
    <3>3. /\ docs[i].kind = "PAYSLIP" /\ docs[k].kind = "PAYSLIP"
          /\ docs[i].month # docs[k].month
      BY <1>4, <3>2 DEF CoverageIsClean
    <3> QED BY <1>1, <3>1, <3>3
  <2>2. ASSUME NEW i \in 1 .. n
        PROVE  /\ PeriodOf(docs[i]) \notin Seen(docs, i) /\ Annual \notin Seen(docs, i)
               /\ PeriodOf(docs[i]) = Annual => Seen(docs, i) = {}
    <3>1. PeriodOf(docs[i]) = Annual => docs[i].kind # "PAYSLIP"
      BY <1>1
    <3> QED BY <2>1, <3>1
  <2> QED BY <1>4, <2>2 DEF DocumentsAreValid, CoverageIsClean
<1> QED BY <1>3, <1>4

-----------------------------------------------------------------------------
(* Tables: what a recursive function over 0 .. n computes; and powers.     *)

\* Counting up to n.
LEMMA NumbersUpTo ==
    ASSUME NEW n \in Nat, NEW G, 0 \in G, \A k \in 0 .. n - 1 : k \in G => k + 1 \in G
    PROVE  0 .. n \subseteq G
<1> DEFINE H == {k \in Nat : k <= n => k \in G}
<1>1. 0 \in H /\ \A k \in H : k + 1 \in H
  <2>1. ASSUME NEW k \in H, k + 1 <= n PROVE k + 1 \in G
    <3>1. k \in 0 .. n - 1 /\ k \in G
      BY <2>1
    <3> QED BY <3>1
  <2> QED BY <2>1
<1>2. H = Nat
  <2>1. H \in SUBSET Nat
    OBVIOUS
  <2> HIDE DEF H
  <2> QED BY <1>1, <2>1, NumbersInOrder
<1> QED BY <1>2

\* A table that starts with a and goes on with what h makes of the place and of
\* the value before it.
IsTable(n, S, a, h, f) ==
    /\ f \in [0 .. n -> S] /\ f[0] = a
    /\ \A k \in 1 .. n : f[k] = h[<<k, f[k - 1]>>]

LEMMA TableExists ==
    ASSUME NEW n \in Nat, NEW S, NEW a \in S, NEW h \in [(1 .. n) \X S -> S]
    PROVE  \E f : IsTable(n, S, a, h, f)
<1> DEFINE Is(m, f) == /\ f \in [0 .. m -> S] /\ f[0] = a
                       /\ \A k \in 1 .. m : f[k] = h[<<k, f[k - 1]>>]
           G == {m \in Nat : \E f : Is(m, f)}
<1>1. 0 \in G
  <2> DEFINE f == [k \in 0 .. 0 |-> a]
  <2>1. Is(0, f)
    OBVIOUS
  <2> QED BY <2>1
<1>2. ASSUME NEW m \in 0 .. n - 1, m \in G PROVE m + 1 \in G
  <2>1. PICK f : Is(m, f)
    BY <1>2
  <2> DEFINE g == [k \in 0 .. m + 1 |-> IF k <= m THEN f[k] ELSE h[<<m + 1, f[m]>>]]
  <2>2. m \in Nat /\ m + 1 \in 1 .. n
    BY <1>2
  <2>3. h[<<m + 1, f[m]>>] \in S
    BY <2>1, <2>2
  <2>4. g \in [0 .. m + 1 -> S]
    BY <2>1, <2>3
  <2>5. ASSUME NEW k \in 1 .. m + 1 PROVE g[k] = h[<<k, g[k - 1]>>]
    <3>1. k - 1 \in 0 .. m /\ g[k - 1] = f[k - 1]
      BY <2>2
    <3>2. CASE k <= m
      BY <2>1, <3>1, <3>2
    <3>3. CASE k = m + 1
      <4>1. g[k] = h[<<m + 1, f[m]>>]
        BY <2>2, <3>3
      <4>2. k - 1 = m
        BY <2>2, <3>3
      <4> HIDE DEF g
      <4> QED BY <3>1, <3>3, <4>1, <4>2
    <3> QED BY <2>2, <3>2, <3>3
  <2>6. g[0] = a
    BY <2>1, <2>2
  <2>7. Is(m + 1, g)
    <3> HIDE DEF g
    <3> QED BY <2>4, <2>5, <2>6
  <2> HIDE DEF Is, g
  <2> QED BY <2>2, <2>7
<1>3. n \in G
  <2> HIDE DEF G
  <2> QED BY <1>1, <1>2, NumbersUpTo
<1> QED BY <1>3 DEF IsTable

LEMMA PowerStarts == ASSUME NEW b PROVE Power(b, 0) = 1
<1>1. IsPowers(b, 0, Powers(b, 0)) /\ 0 \in 0 .. 0
  BY PowersExist
<1>2. Powers(b, 0)[0] = 1
  BY <1>1 DEF IsPowers
<1> QED BY <1>2, PowerUnfolds

LEMMA PowerGoesOn ==
    ASSUME NEW b, NEW n \in Nat
    PROVE  Power(b, n + 1) = b * Power(b, n)
<1> DEFINE P == Powers(b, n)
           Q == Powers(b, n + 1)
           G == {k \in 0 .. n : P[k] = Q[k]}
<1>1. IsPowers(b, n, P) /\ IsPowers(b, n + 1, Q)
  BY PowersExist
<1> HIDE DEF P, Q
<1>2. 0 \in G
  BY <1>1 DEF IsPowers
<1>3. ASSUME NEW k \in 0 .. n - 1, k \in G PROVE k + 1 \in G
  <2>1. k + 1 \in 0 .. n /\ k + 1 \in 0 .. n + 1 /\ k + 1 # 0 /\ (k + 1) - 1 = k
    BY <1>3
  <2> QED BY <1>1, <1>3, <2>1 DEF IsPowers
<1>4. n \in G
  <2> HIDE DEF G
  <2> QED BY <1>2, <1>3, NumbersUpTo
<1>5. Q[n + 1] = b * Q[n]
  <2>1. n + 1 \in 0 .. n + 1 /\ n + 1 # 0 /\ (n + 1) - 1 = n
    OBVIOUS
  <2> QED BY <1>1, <2>1 DEF IsPowers
<1> QED BY <1>4, <1>5, PowerUnfolds DEF P, Q

LEMMA PowerIsWhole ==
    ASSUME NEW b \in Nat, NEW n \in Nat
    PROVE  Power(b, n) \in Nat /\ (b > 0 => Power(b, n) > 0)
<1> DEFINE G == {k \in Nat : Power(b, k) \in Nat /\ (b > 0 => Power(b, k) > 0)}
<1>1. 0 \in G
  BY PowerStarts
<1>2. ASSUME NEW k \in G PROVE k + 1 \in G
  <2>1. Power(b, k + 1) = b * Power(b, k)
    BY <1>2, PowerGoesOn
  <2>2. PICK x \in Nat : x = Power(b, k) /\ (b > 0 => x > 0)
    BY <1>2
  <2>3. b * x \in Nat /\ (b > 0 => b * x > 0)
    BY <2>2
  <2> QED BY <1>2, <2>1, <2>2, <2>3
<1>3. G = Nat
  <2>1. G \in SUBSET Nat
    OBVIOUS
  <2> HIDE DEF G
  <2> QED BY <1>1, <1>2, <2>1, NumbersInOrder
<1> QED BY <1>3

LEMMA PowersMultiply ==
    ASSUME NEW b \in Nat, NEW m \in Nat, NEW n \in Nat
    PROVE  Power(b, m + n) = Power(b, m) * Power(b, n)
<1> DEFINE G == {k \in Nat : Power(b, m + k) = Power(b, m) * Power(b, k)}
<1>1. 0 \in G
  BY PowerStarts, PowerIsWhole
<1>2. ASSUME NEW k \in G PROVE k + 1 \in G
  <2>1. /\ Power(b, k + 1) = b * Power(b, k)
        /\ Power(b, (m + k) + 1) = b * Power(b, m + k)
    BY <1>2, PowerGoesOn
  <2>2. PICK x \in Nat, y \in Nat : x = Power(b, m) /\ y = Power(b, k)
    BY <1>2, PowerIsWhole
  <2>3. Power(b, m + k) = x * y
    BY <1>2, <2>2
  <2>4. b * (x * y) = x * (b * y)
    BY <2>2
  <2>5. (m + k) + 1 = m + (k + 1)
    BY <1>2
  <2> QED BY <1>2, <2>1, <2>2, <2>3, <2>4, <2>5
<1>3. G = Nat
  <2>1. G \in SUBSET Nat
    OBVIOUS
  <2> HIDE DEF G
  <2> QED BY <1>1, <1>2, <2>1, NumbersInOrder
<1> QED BY <1>3

-----------------------------------------------------------------------------
(* The whole number that a string of digits reads as.                      *)

\* The number that the first digits of a row are, for each number of them.
IsReading(d, V) == V = [i \in 0 .. Len(d) |-> IF i = 0 THEN 0 ELSE 10 * V[i - 1] + d[i]]
Reading(d) == CHOOSE V : IsReading(d, V)

LEMMA ReadingExists ==
    ASSUME NEW d \in Seq(Nat)
    PROVE  /\ Reading(d) \in [0 .. Len(d) -> Nat] /\ Reading(d)[0] = 0
           /\ \A k \in 1 .. Len(d) : Reading(d)[k] = 10 * Reading(d)[k - 1] + d[k]
           /\ Value(d) = Reading(d)[Len(d)] /\ Value(d) \in Nat /\ Len(d) \in Nat
<1> DEFINE n == Len(d)
           h == [p \in (1 .. n) \X Nat |-> 10 * p[2] + d[p[1]]]
<1>1. n \in Nat /\ \A k \in 1 .. n : d[k] \in Nat
  BY LenProperties, ElementOfSeq
<1> HIDE DEF n
<1>2. h \in [(1 .. n) \X Nat -> Nat]
  <2>1. \A p \in (1 .. n) \X Nat : 10 * p[2] + d[p[1]] \in Nat
    BY <1>1
  <2> QED BY <2>1
<1>3. PICK f : IsTable(n, Nat, 0, h, f)
  <2> HIDE DEF h
  <2> QED BY <1>1, <1>2, TableExists
<1>4. \A k \in 1 .. n : k - 1 \in 0 .. n /\ f[k] = 10 * f[k - 1] + d[k]
  <2>1. \A k \in 1 .. n : k - 1 \in 0 .. n /\ <<k, f[k - 1]>> \in (1 .. n) \X Nat
    BY <1>1, <1>3 DEF IsTable
  <2> QED BY <1>3, <2>1 DEF IsTable
<1> HIDE DEF h
<1>5. f = [i \in 0 .. n |-> IF i = 0 THEN 0 ELSE 10 * f[i - 1] + d[i]]
  <2>1. \A i \in 0 .. n : i = 0 \/ i \in 1 .. n
    BY <1>1
  <2> QED BY <1>3, <1>4, <2>1 DEF IsTable
<1>6. IsReading(d, Reading(d))
  <2>1. IsReading(d, f)
    BY <1>5 DEF IsReading, n
  <2> QED BY <2>1 DEF Reading
<1>7. PICK V : V = Reading(d)
  OBVIOUS
<1>8. V = [i \in 0 .. n |-> IF i = 0 THEN 0 ELSE 10 * V[i - 1] + d[i]]
  BY <1>6, <1>7 DEF IsReading, n
<1>9. V[0] = 0 /\ \A k \in 1 .. n : V[k] = 10 * V[k - 1] + d[k]
  BY <1>1, <1>8
<1>10. \A k \in 0 .. n : V[k] \in Nat
  <2> DEFINE G == {k \in 0 .. n : V[k] \in Nat}
  <2>1. 0 \in G
    BY <1>1, <1>9
  <2>2. ASSUME NEW k \in 0 .. n - 1, k \in G PROVE k + 1 \in G
    <3>1. k + 1 \in 1 .. n /\ (k + 1) - 1 = k
      BY <1>1, <2>2
    <3>2. V[k + 1] = 10 * V[k] + d[k + 1] /\ d[k + 1] \in Nat /\ V[k] \in Nat
      BY <1>1, <1>9, <2>2, <3>1
    <3> QED BY <1>1, <3>1, <3>2
  <2> HIDE DEF G
  <2>3. 0 .. n \subseteq G
    BY <1>1, <2>1, <2>2, NumbersUpTo
  <2> QED BY <2>3 DEF G
<1>11. V \in [0 .. n -> Nat]
  BY <1>8, <1>10
<1>12. Value(d) = V[n]
  BY <1>7 DEF Value, Reading, IsReading, n
<1>13. V[n] \in Nat
  BY <1>1, <1>10
<1> QED BY <1>1, <1>7, <1>9, <1>11, <1>12, <1>13 DEF n

\* The number that the first m digits of a row are.
LEMMA ValueOfPart ==
    ASSUME NEW d \in Seq(Nat), NEW m \in 0 .. Len(d)
    PROVE  Value(SubSeq(d, 1, m)) = Reading(d)[m]
<1> DEFINE s == SubSeq(d, 1, m)
<1>1. Len(d) \in Nat /\ \A i \in 1 .. Len(d) : d[i] \in Nat
  BY LenProperties, ElementOfSeq
<1>2. s \in Seq(Nat) /\ Len(s) = m /\ \A i \in 1 .. m : s[i] = d[i]
  <2>1. \A i \in 1 .. m : d[i] \in Nat
    BY <1>1
  <2>2. /\ s \in Seq(Nat) /\ Len(s) = IF 1 <= m THEN m - 1 + 1 ELSE 0
        /\ \A i \in 1 .. m - 1 + 1 : s[i] = d[1 + i - 1]
    <3>1. 1 \in Int /\ m \in Int
      BY <1>1
    <3> QED BY <2>1, <3>1, SubSeqProperties
  <2>3. m \in Int /\ m >= 0 /\ m - 1 + 1 = m /\ \A i \in 1 .. m : 1 + i - 1 = i
    BY <1>1
  <2> HIDE DEF s
  <2> QED BY <2>2, <2>3
<1> HIDE DEF s
<1>3. PICK V, W : V = Reading(d) /\ W = Reading(s)
  OBVIOUS
<1>4. /\ W[0] = 0 /\ V[0] = 0 /\ Value(s) = W[m]
      /\ \A k \in 1 .. m : W[k] = 10 * W[k - 1] + s[k]
      /\ \A k \in 1 .. Len(d) : V[k] = 10 * V[k - 1] + d[k]
  BY <1>2, <1>3, ReadingExists
<1> DEFINE G == {k \in 0 .. m : W[k] = V[k]}
<1>5. 0 \in G
  BY <1>1, <1>4
<1>6. ASSUME NEW k \in 0 .. m - 1, k \in G PROVE k + 1 \in G
  <2>1. k + 1 \in 1 .. m /\ k + 1 \in 1 .. Len(d) /\ (k + 1) - 1 = k /\ k + 1 \in 0 .. m
    BY <1>1, <1>6
  <2>2. W[k + 1] = 10 * W[k] + s[k + 1] /\ V[k + 1] = 10 * V[k] + d[k + 1] /\ s[k + 1] = d[k + 1]
    BY <1>2, <1>4, <2>1
  <2> QED BY <1>6, <2>1, <2>2
<1>7. m \in G
  <2> HIDE DEF G
  <2>1. m \in Nat /\ m \in 0 .. m
    BY <1>1
  <2>2. 0 .. m \subseteq G
    BY <1>5, <1>6, <2>1, NumbersUpTo
  <2> QED BY <2>1, <2>2
<1> QED BY <1>3, <1>4, <1>7 DEF s

LEMMA TensAreWhole ==
    ASSUME NEW n \in Nat
    PROVE  TenTo(n) \in Nat \ {0} /\ TenTo(0) = 1 /\ TenTo(n + 1) = 10 * TenTo(n)
  BY PowerIsWhole, PowerStarts, PowerGoesOn DEF TenTo

LEMMA TenTimes ==
    ASSUME NEW x \in Nat, NEW y \in Nat, NEW w \in Nat, NEW c \in 0 .. 9, x * w <= y, y < (x + 1) * w
    PROVE  x * (10 * w) <= 10 * y + c /\ 10 * y + c < (x + 1) * (10 * w)
<1>1. PICK a \in Nat : a = x * w
  OBVIOUS
<1>2. (x + 1) * w = a + w /\ x * (10 * w) = 10 * a /\ (x + 1) * (10 * w) = 10 * a + 10 * w
  BY <1>1
<1>3. a <= y /\ y < a + w
  BY <1>1, <1>2
<1>4. 10 * a <= 10 * y + c /\ 10 * y + c < 10 * a + 10 * w
  BY <1>3
<1> QED BY <1>2, <1>4

\* More digits refine the number that the first ones are.
LEMMA DigitsRefine ==
    ASSUME NEW d \in Seq(Digit), NEW i \in 0 .. Len(d), NEW j \in 0 .. Len(d), i <= j
    PROVE  /\ Reading(d)[i] * TenTo(j - i) <= Reading(d)[j]
           /\ Reading(d)[j] < (Reading(d)[i] + 1) * TenTo(j - i)
<1>0. d \in Seq(Nat) /\ Len(d) \in Nat /\ \A k \in 1 .. Len(d) : d[k] \in 0 .. 9
  <2>1. Digit \subseteq Nat
    BY DEF Digit
  <2> QED BY <2>1, SeqMonotonic, LenProperties, ElementOfSeq DEF Digit
<1>1. PICK V, n : V = Reading(d) /\ n = j - i
  OBVIOUS
<1>2. /\ V \in [0 .. Len(d) -> Nat]
      /\ \A k \in 1 .. Len(d) : V[k] = 10 * V[k - 1] + d[k]
  BY <1>0, <1>1, ReadingExists
<1>3. n \in Nat /\ j = i + n
  BY <1>0, <1>1
<1> DEFINE Refines(k) == V[i] * TenTo(k) <= V[i + k] /\ V[i + k] < (V[i] + 1) * TenTo(k)
           G == {k \in 0 .. n : Refines(k)}
<1>4. V[i] \in Nat
  BY <1>2
<1>5. 0 \in G
  <2>1. TenTo(0) = 1 /\ i + 0 = i /\ 0 \in 0 .. n
    BY <1>0, <1>3, TensAreWhole
  <2>2. Refines(0)
    BY <1>4, <2>1
  <2> HIDE DEF Refines
  <2> QED BY <2>1, <2>2
<1>6. ASSUME NEW k \in 0 .. n - 1, k \in G PROVE k + 1 \in G
  <2>1. /\ k \in Nat /\ k + 1 \in 0 .. n /\ i + k + 1 \in 1 .. Len(d) /\ i + k \in 0 .. Len(d)
        /\ (i + k + 1) - 1 = i + k /\ i + (k + 1) = i + k + 1
    BY <1>0, <1>3, <1>6
  <2>2. PICK x \in Nat, y \in Nat, c \in 0 .. 9 :
            x = V[i] /\ y = V[i + k] /\ c = d[i + k + 1] /\ V[i + k + 1] = 10 * y + c
    BY <1>0, <1>2, <1>4, <2>1
  <2>3. PICK w \in Nat : w = TenTo(k) /\ TenTo(k + 1) = 10 * w
    BY <2>1, TensAreWhole
  <2>4. x * w <= y /\ y < (x + 1) * w
    BY <1>6, <2>2, <2>3
  <2>5. x * (10 * w) <= 10 * y + c /\ 10 * y + c < (x + 1) * (10 * w)
    BY <2>4, TenTimes
  <2>8. Refines(k + 1)
    BY <2>1, <2>2, <2>3, <2>5
  <2> HIDE DEF Refines
  <2> QED BY <2>1, <2>8
<1>7. n \in G
  <2> HIDE DEF G
  <2>1. 0 .. n \subseteq G
    BY <1>3, <1>5, <1>6, NumbersUpTo
  <2> QED BY <1>3, <2>1
<1> QED BY <1>1, <1>3, <1>7

-----------------------------------------------------------------------------
(* Rounding a decimal half up is looking at the first digit cut off.       *)

\* Half of what is cut off decides, and its first digit says on which side of the
\* half it is: v is the number, w what a unit of that digit stands for, k the
\* digits that stay, c the first that is cut.
LEMMA FirstDigitDecides ==
    ASSUME NEW v \in Nat, NEW w \in Nat \ {0}, NEW k \in Nat, NEW c \in 0 .. 9, NEW n,
           (10 * k + c) * w <= v, v < (10 * k + c + 1) * w,
           n = IF c >= 5 THEN k + 1 ELSE k
    PROVE  2 * n * (10 * w) <= 2 * v + 10 * w /\ 2 * v + 10 * w < 2 * (n + 1) * (10 * w)
<1>1. PICK a \in Nat, b \in Nat : a = k * w /\ b = c * w
  OBVIOUS
<1>2. (10 * k + c) * w = 10 * a + b /\ (10 * k + c + 1) * w = 10 * a + b + w
  BY <1>1
<1>3. 10 * a + b <= v /\ v < 10 * a + b + w
  BY <1>2
<1>4. CASE c >= 5
  <2>1. b >= 5 * w /\ b <= 9 * w
    <3>1. PICK e \in Nat, g \in Nat : c = 5 + e /\ c + g = 9
      <4>1. c - 5 \in Nat /\ 9 - c \in Nat /\ c = 5 + (c - 5) /\ c + (9 - c) = 9
        BY <1>4
      <4> QED BY <4>1
    <3>2. e * w \in Nat /\ g * w \in Nat /\ c * w = 5 * w + e * w /\ c * w + g * w = 9 * w
      <4>1. (5 + e) * w = 5 * w + e * w /\ (c + g) * w = c * w + g * w
        OBVIOUS
      <4> QED BY <3>1, <4>1
    <3>3. PICK x \in Nat, y \in Nat : x = e * w /\ y = g * w
      BY <3>2
    <3> QED BY <1>1, <3>2, <3>3
  <2>2. n = k + 1 /\ 2 * n * (10 * w) = 20 * a + 20 * w /\ 2 * (n + 1) * (10 * w) = 20 * a + 40 * w
    <3>1. n = k + 1
      BY <1>4
    <3>2. 2 * (k + 1) * (10 * w) = 20 * (k * w) + 20 * w
          /\ 2 * (k + 1 + 1) * (10 * w) = 20 * (k * w) + 40 * w
      OBVIOUS
    <3> QED BY <1>1, <3>1, <3>2
  <2> QED BY <1>3, <2>1, <2>2
<1>5. CASE c < 5
  <2>1. b <= 4 * w
    <3>1. PICK g \in Nat : c + g = 4
      <4>1. 4 - c \in Nat /\ c + (4 - c) = 4
        BY <1>5
      <4> QED BY <4>1
    <3>2. g * w \in Nat /\ c * w + g * w = 4 * w
      <4>1. (c + g) * w = c * w + g * w
        OBVIOUS
      <4> QED BY <3>1, <4>1
    <3>3. PICK y \in Nat : y = g * w
      BY <3>2
    <3> QED BY <1>1, <3>2, <3>3
  <2>2. n = k /\ 2 * n * (10 * w) = 20 * a /\ 2 * (n + 1) * (10 * w) = 20 * a + 20 * w
    <3>1. n = k
      BY <1>5
    <3>2. 2 * k * (10 * w) = 20 * (k * w)
          /\ 2 * (k + 1) * (10 * w) = 20 * (k * w) + 20 * w
      OBVIOUS
    <3> QED BY <1>1, <3>1, <3>2
  <2> QED BY <1>3, <2>1, <2>2
<1> QED BY <1>4, <1>5

LEMMA CoefficientIsDigits ==
    ASSUME NEW a \in Decimal
    PROVE  /\ Coefficient(a) \in Seq(Digit) /\ Coefficient(a) \in Seq(Nat)
           /\ Len(Coefficient(a)) \in Nat \ {0}
<1>1. a.int \in Seq(Digit) /\ a.frac \in Seq(Digit) /\ Digit \subseteq Nat /\ 0 \in Digit
  BY DEF Decimal, Digit
<1> DEFINE whole == IF a.int = <<>> THEN <<0>> ELSE a.int
<1>2. whole \in Seq(Digit) /\ Len(whole) \in Nat \ {0}
  BY <1>1, EmptySeq
<1> HIDE DEF whole
<1>3. /\ whole \o a.frac \in Seq(Digit)
      /\ Len(whole \o a.frac) = Len(whole) + Len(a.frac) /\ Len(a.frac) \in Nat
  BY <1>1, <1>2, ConcatProperties, LenProperties
<1>4. whole \o a.frac \in Seq(Nat)
  BY <1>1, <1>3, SeqMonotonic
<1>5. Coefficient(a) = whole \o a.frac
  BY DEF Coefficient, whole
<1> QED BY <1>2, <1>3, <1>4, <1>5

\* The digits kept, the cut and the roundup: nearest to the number with its point
\* cut places further left.
LEMMA CutRoundsHalfUp ==
    ASSUME NEW d \in Seq(Digit), Len(d) # 0, NEW cut \in Nat \ {0}
    PROVE  LET kept == Value(SubSeq(d, 1, Len(d) - cut))
               n == kept + (IF RoundsUp(d, cut) THEN 1 ELSE 0) IN
           /\ n \in Nat
           /\ 2 * n * TenTo(cut) <= 2 * Value(d) + TenTo(cut)
           /\ 2 * Value(d) + TenTo(cut) < 2 * (n + 1) * TenTo(cut)
<1>1. PICK L, V : L = Len(d) /\ V = Reading(d)
  OBVIOUS
<1>2. d \in Seq(Nat) /\ L \in Nat \ {0} /\ \A k \in 1 .. L : d[k] \in 0 .. 9
  <2>1. Digit \subseteq Nat
    BY DEF Digit
  <2> QED BY <1>1, <2>1, SeqMonotonic, LenProperties, ElementOfSeq DEF Digit
<1>3. /\ V \in [0 .. L -> Nat] /\ V[0] = 0 /\ \A k \in 1 .. L : V[k] = 10 * V[k - 1] + d[k]
      /\ Value(d) = V[L]
  BY <1>1, <1>2, ReadingExists
<1>4. PICK kept, up, n : /\ kept = Value(SubSeq(d, 1, Len(d) - cut))
                         /\ up = (IF RoundsUp(d, cut) THEN 1 ELSE 0) /\ n = kept + up
  OBVIOUS
<1>5. CASE cut <= L
  <2> DEFINE m == L - cut
             c == d[m + 1]
             w == TenTo(cut - 1)
  <2>1. m \in 0 .. L /\ m + 1 \in 1 .. L /\ m + 1 \in 0 .. L /\ cut - 1 \in Nat
        /\ L - (m + 1) = cut - 1 /\ (m + 1) - 1 = m
    BY <1>2, <1>5
  <2>2. kept = V[m] /\ V[m] \in Nat
    BY <1>1, <1>2, <1>3, <1>4, <2>1, ValueOfPart
  <2>3. up = IF c >= 5 THEN 1 ELSE 0
    <3>1. CASE cut = L
      <4>1. m + 1 = 1
        BY <1>2, <3>1
      <4> QED BY <1>1, <1>4, <3>1, <4>1 DEF RoundsUp
    <3>2. CASE cut < L
      BY <1>1, <1>2, <1>4, <3>2 DEF RoundsUp
    <3> QED BY <1>2, <1>5, <3>1, <3>2
  <2>4. w \in Nat \ {0} /\ TenTo(cut) = 10 * w
    <3>1. (cut - 1) + 1 = cut
      BY <1>2
    <3> QED BY <2>1, <3>1, TensAreWhole
  <2>5. c \in 0 .. 9 /\ V[m + 1] = 10 * kept + c
    BY <1>2, <1>3, <2>1, <2>2
  <2>6. V[m + 1] * w <= V[L] /\ V[L] < (V[m + 1] + 1) * w
    <3>1. m + 1 <= L /\ L \in 0 .. L
      BY <1>2, <2>1
    <3> QED BY <1>1, <2>1, <3>1, DigitsRefine
  <2> HIDE DEF m, c, w
  <2>7. (10 * kept + c) * w <= V[L] /\ V[L] < (10 * kept + c + 1) * w
    BY <2>5, <2>6
  <2>8. kept \in Nat /\ V[L] \in Nat
    BY <1>2, <1>3, <2>2
  <2>9. n = IF c >= 5 THEN kept + 1 ELSE kept
    BY <1>4, <2>3, <2>8
  <2>10. 2 * n * (10 * w) <= 2 * V[L] + 10 * w /\ 2 * V[L] + 10 * w < 2 * (n + 1) * (10 * w)
    <3>1. PICK v : v = V[L]
      OBVIOUS
    <3> QED BY <2>4, <2>5, <2>7, <2>8, <2>9, <3>1, FirstDigitDecides
  <2>11. n \in Nat
    BY <2>8, <2>9
  <2> QED BY <1>3, <1>4, <2>4, <2>10, <2>11
<1>6. CASE cut > L
  <2>1. kept = 0 /\ up = 0
    <3>1. L - cut < 1 /\ L - cut \in Int /\ 1 \in Int
      BY <1>2, <1>6
    <3>2. SubSeq(d, 1, L - cut) = <<>>
      BY <3>1, SubSeqEmpty
    <3>3. 0 \in 0 .. L /\ 0 < 1 /\ 0 \in Int
      BY <1>2
    <3>4. SubSeq(d, 1, 0) = <<>>
      BY <3>3, SubSeqEmpty
    <3>5. Value(<<>>) = 0
      BY <1>1, <1>2, <1>3, <3>3, <3>4, ValueOfPart
    <3>6. ~RoundsUp(d, cut)
      BY <1>1, <1>2, <1>6 DEF RoundsUp
    <3> QED BY <1>1, <1>4, <3>2, <3>5, <3>6
  <2>2. V[L] \in Nat /\ V[L] < TenTo(L)
    <3>1. 0 \in 0 .. L /\ L \in 0 .. L /\ 0 <= L /\ L - 0 = L /\ V[L] \in Nat
      BY <1>2, <1>3
    <3>2. V[L] < (V[0] + 1) * TenTo(L)
      BY <1>1, <3>1, DigitsRefine
    <3>3. TenTo(L) \in Nat
      BY <1>2, TensAreWhole
    <3> QED BY <1>3, <3>1, <3>2, <3>3
  <2>3. TenTo(cut) \in Nat /\ TenTo(cut) >= 10 * TenTo(L)
    <3>1. PICK e \in Nat : cut = L + 1 + e
      <4>1. cut - L - 1 \in Nat /\ cut = L + 1 + (cut - L - 1)
        BY <1>2, <1>6
      <4> QED BY <4>1
    <3>2. TenTo(cut) = TenTo(L + 1) * TenTo(e) /\ TenTo(L + 1) = 10 * TenTo(L)
      <4>1. L + 1 \in Nat /\ 10 \in Nat
        BY <1>2
      <4>2. Power(10, (L + 1) + e) = Power(10, L + 1) * Power(10, e)
        BY <4>1, PowersMultiply
      <4>3. TenTo(L + 1) = 10 * TenTo(L)
        BY <1>2, TensAreWhole
      <4> QED BY <3>1, <4>2, <4>3 DEF TenTo
    <3>3. PICK x \in Nat, y \in Nat \ {0} : x = TenTo(L) /\ y = TenTo(e)
      BY <1>2, <3>1, TensAreWhole
    <3>4. (10 * x) * y >= 10 * x /\ (10 * x) * y \in Nat
      <4>1. PICK z \in Nat : y = z + 1
        <5>1. y - 1 \in Nat /\ y = (y - 1) + 1
          BY <3>3
        <5> QED BY <5>1
      <4>2. (10 * x) * (z + 1) = (10 * x) * z + 10 * x /\ (10 * x) * z \in Nat
        BY <3>3, <4>1
      <4>3. PICK q \in Nat, w \in Nat : q = (10 * x) * z /\ w = 10 * x
        BY <3>3, <4>2
      <4>4. (10 * x) * y = q + w
        BY <4>1, <4>2, <4>3
      <4>5. q + w >= w /\ q + w \in Nat
        OBVIOUS
      <4> QED BY <4>3, <4>4, <4>5
    <3> QED BY <3>2, <3>3, <3>4
  <2>4. PICK v \in Nat, x \in Nat, t \in Nat : v = V[L] /\ x = TenTo(L) /\ t = TenTo(cut)
    BY <1>2, <2>2, <2>3, TensAreWhole
  <2>5. n = 0 /\ 0 <= 2 * v + t /\ 2 * v + t < 2 * t
    BY <1>4, <2>1, <2>2, <2>3, <2>4
  <2>6. 2 * 0 * t = 0 /\ 2 * (0 + 1) * t = 2 * t
    BY <2>4
  <2>7. n \in Nat /\ 2 * n * t <= 2 * v + t /\ 2 * v + t < 2 * (n + 1) * t
    <3>1. n = 0
      BY <2>5
    <3> QED BY <2>5, <2>6, <3>1
  <2> QED BY <1>3, <1>4, <2>4, <2>7
<1> QED BY <1>2, <1>5, <1>6

LEMMA MinorUnitsAreNearest ==
    ASSUME NEW a \in Decimal, NEW digits \in Nat
    PROVE  LET x == ExactMinor(a, digits) IN
           \E n \in Nat :
             /\ x.num \in Nat /\ x.den \in Nat \ {0}
             /\ 2 * n * x.den <= 2 * x.num + x.den /\ 2 * x.num + x.den < 2 * (n + 1) * x.den
             /\ ParseMoneyToMinorUnits(a, digits) =
                  IF Magnitude(a.exp) > MaxExponent THEN RangeError ELSE InRange(Signed(a.neg, n))
<1> DEFINE d == Coefficient(a)
           t == TotalExp(a, digits)
<1>1. d \in Seq(Digit) /\ Len(d) \in Nat \ {0} /\ Value(d) \in Nat
  BY CoefficientIsDigits, ReadingExists
<1>2. t \in Int
  <2>1. a.exp \in Int /\ a.frac \in Seq(Digit)
    BY DEF Decimal
  <2>2. Len(a.frac) \in Nat
    BY <2>1, LenProperties
  <2> QED BY <2>1, <2>2 DEF TotalExp
<1> HIDE DEF d, t
<1>3. CASE t >= 0
  <2> DEFINE n == Value(d) * TenTo(t)
  <2>1. n \in Nat
    <3>0. t \in Nat
      BY <1>2, <1>3
    <3>1. PICK v \in Nat, w \in Nat : v = Value(d) /\ w = TenTo(t)
      BY <1>1, <3>0, TensAreWhole
    <3>2. v * w \in Nat
      OBVIOUS
    <3> QED BY <3>1, <3>2
  <2>2. ParseMoneyToMinorUnits(a, digits) =
            IF Magnitude(a.exp) > MaxExponent THEN RangeError ELSE InRange(Signed(a.neg, n + 0))
    BY <1>2, <1>3 DEF ParseMoneyToMinorUnits, d, t
  <2>3. ExactMinor(a, digits) = [num |-> n, den |-> 1]
    BY <1>3 DEF ExactMinor, d, t
  <2> HIDE DEF n
  <2>4. n + 0 = n /\ 2 * n * 1 <= 2 * n + 1 /\ 2 * n + 1 < 2 * (n + 1) * 1
    BY <2>1
  <2>5. PICK x : x = ExactMinor(a, digits) /\ x.num = n /\ x.den = 1
    BY <2>3
  <2> QED BY <2>1, <2>2, <2>4, <2>5
<1>4. CASE t < 0
  <2> DEFINE n == Value(SubSeq(d, 1, Len(d) + t)) + (IF RoundsUp(d, -t) THEN 1 ELSE 0)
  <2>1. -t \in Nat \ {0} /\ Len(d) - (-t) = Len(d) + t
    BY <1>1, <1>2, <1>4
  <2>2. /\ n \in Nat
        /\ 2 * n * TenTo(-t) <= 2 * Value(d) + TenTo(-t)
        /\ 2 * Value(d) + TenTo(-t) < 2 * (n + 1) * TenTo(-t)
    <3>1. PICK cut \in Nat \ {0} : cut = -t /\ Len(d) - cut = Len(d) + t
      BY <2>1
    <3>2. LET kept == Value(SubSeq(d, 1, Len(d) - cut))
              m == kept + (IF RoundsUp(d, cut) THEN 1 ELSE 0) IN
          /\ m \in Nat
          /\ 2 * m * TenTo(cut) <= 2 * Value(d) + TenTo(cut)
          /\ 2 * Value(d) + TenTo(cut) < 2 * (m + 1) * TenTo(cut)
      BY <1>1, CutRoundsHalfUp
    <3> QED BY <3>1, <3>2
  <2>3. ParseMoneyToMinorUnits(a, digits) =
            IF Magnitude(a.exp) > MaxExponent THEN RangeError ELSE InRange(Signed(a.neg, n))
    BY <1>2, <1>4 DEF ParseMoneyToMinorUnits, d, t
  <2>4. ExactMinor(a, digits) = [num |-> Value(d), den |-> TenTo(-t)]
    BY <1>2, <1>4 DEF ExactMinor, d, t
  <2> HIDE DEF n
  <2>5. PICK x : x = ExactMinor(a, digits) /\ x.num = Value(d) /\ x.den = TenTo(-t)
    BY <2>4
  <2>6. TenTo(-t) \in Nat \ {0}
    BY <2>1, TensAreWhole
  <2> QED BY <1>1, <2>2, <2>3, <2>5, <2>6
<1> QED BY <1>2, <1>3, <1>4

LEMMA SignsStay ==
    ASSUME NEW n \in Nat, NEW neg \in BOOLEAN
    PROVE  /\ Signed(neg, n) \in Int /\ Magnitude(Signed(neg, n)) = n
           /\ neg => Signed(neg, n) <= 0
  BY DEF Signed, Magnitude

\* What a user types becomes the nearest minor unit, halves up, and is refused
\* only where that number or its exponent is out of range; of a negative amount
\* the forms take nothing but what rounds to a permitted zero
\* (parseMoneyToMinorUnits and parseMoneyInputToMinorUnits, money.ts).
THEOREM TypedAmountsRoundHalfUp ==
    ASSUME NEW a \in Decimal, NEW digits \in Nat
    PROVE  AmountRounds(a, digits)
<1> DEFINE x == ExactMinor(a, digits)
           p == ParseMoneyToMinorUnits(a, digits)
<1>1. PICK n \in Nat :
         /\ x.num \in Nat /\ x.den \in Nat \ {0}
         /\ 2 * n * x.den <= 2 * x.num + x.den /\ 2 * x.num + x.den < 2 * (n + 1) * x.den
         /\ p = IF Magnitude(a.exp) > MaxExponent THEN RangeError ELSE InRange(Signed(a.neg, n))
  BY MinorUnitsAreNearest
<1>2. PICK num \in Nat, den \in Nat \ {0} : num = x.num /\ den = x.den
  BY <1>1
<1>3. PICK s \in Int : /\ s = Signed(a.neg, n) /\ Magnitude(s) = n
                       /\ (a.neg => s <= 0) /\ (~a.neg => s >= 0)
  <2>1. a.neg \in BOOLEAN
    BY DEF Decimal
  <2>2. ~a.neg => Signed(a.neg, n) >= 0
    BY DEF Signed
  <2> QED BY <2>1, <2>2, SignsStay
<1>6. p.ok => p.minor = s
  BY <1>1, <1>3 DEF InRange, RangeError
<1>7. CASE a.neg
  <2>1. ASSUME NEW allowZero \in BOOLEAN, ParseMoneyInput(a, digits, allowZero).ok
        PROVE  allowZero /\ p.minor = 0
    <3>1. p.ok /\ (p.minor > 0 \/ (allowZero /\ p.minor = 0))
      BY <2>1 DEF ParseMoneyInput, RangeError
    <3>2. ~(p.minor > 0)
      <4>1. p.ok
        BY <3>1
      <4>2. p.minor = s
        BY <1>6, <4>1
      <4>3. s <= 0
        BY <1>3, <1>7
      <4> HIDE DEF p
      <4> QED BY <4>2, <4>3
    <3> QED BY <3>1, <3>2, Zenon
  <2> QED BY <1>7, <2>1 DEF AmountRounds
<1>4. CASE ~a.neg /\ p.ok
  <2>2. IsNearest(s, num, den)
    BY <1>1, <1>2, <1>3 DEF IsNearest
  <2> QED BY <1>2, <1>3, <1>4, <1>6, <2>2 DEF AmountRounds
<1>5. CASE ~a.neg /\ ~p.ok
  <2>1. CASE Magnitude(a.exp) > MaxExponent
    BY <1>5, <2>1 DEF AmountRounds
  <2>2. CASE ~(Magnitude(a.exp) > MaxExponent)
    <3>1. n > MaxSafeMinorUnits
      BY <1>1, <1>3, <1>5, <2>2 DEF InRange
    <3>2. 2 * num + den > 2 * MaxSafeMinorUnits * den
      <4>1. PICK m \in Nat, e \in Nat : m = MaxSafeMinorUnits /\ n = m + 1 + e
        <5>1. MaxSafeMinorUnits \in Nat /\ n - MaxSafeMinorUnits - 1 \in Nat
              /\ n = MaxSafeMinorUnits + 1 + (n - MaxSafeMinorUnits - 1)
          BY <3>1, AmountsAssumption
        <5> QED BY <5>1
      <4>2. 2 * (m + 1 + e) * den = 2 * m * den + 2 * den + 2 * e * den
        OBVIOUS
      <4>3. 2 * m * den \in Nat /\ 2 * e * den \in Nat
        OBVIOUS
      <4>4. 2 * n * den <= 2 * num + den
        BY <1>1, <1>2
      <4> QED BY <4>1, <4>2, <4>3, <4>4
    <3> QED BY <1>2, <1>5, <3>2 DEF AmountRounds
  <2> QED BY <2>1, <2>2
<1> QED BY <1>4, <1>5, <1>7

-----------------------------------------------------------------------------
(* What formatMinorUnitsForInput writes, digit by digit.                   *)

LEMMA QuotientIs ==
    ASSUME NEW x \in Int, NEW d \in Nat \ {0}, NEW q \in Int, q * d <= x, x < q * d + d
    PROVE  x \div d = q
<1>1. PICK p \in Int : p = x \div d /\ p * d <= x /\ x < p * d + d
  BY Quotient
<1>2. ASSUME NEW a \in Int, NEW b \in Int, a < b, b * d <= x, x < a * d + d PROVE FALSE
  <2>1. PICK e \in Nat : b = a + 1 + e
    <3>1. b - a - 1 \in Nat /\ b = a + 1 + (b - a - 1)
      BY <1>2
    <3> QED BY <3>1
  <2>2. (a + 1 + e) * d = a * d + d + e * d /\ e * d \in Nat /\ a * d \in Int
    OBVIOUS
  <2>3. b * d >= a * d + d
    BY <2>1, <2>2
  <2> QED BY <1>2, <2>2, <2>3
<1>3. ~(p < q) /\ ~(q < p)
  BY <1>1, <1>2
<1> QED BY <1>1, <1>3

\* Cutting one more digit off.
LEMMA OneDigitMore ==
    ASSUME NEW m \in Nat, NEW w \in Nat \ {0}
    PROVE  /\ m \div w \in Nat /\ m \div (10 * w) \in Nat /\ (m \div w) % 10 \in 0 .. 9
           /\ m \div w = 10 * (m \div (10 * w)) + ((m \div w) % 10)
<1>1. PICK q \in Int : q = m \div w /\ q * w <= m /\ m < q * w + w
  BY Quotient
<1>2. q \in Nat
  <2>1. m \div w \in Nat
    OBVIOUS
  <2> QED BY <1>1, <2>1
<1>3. PICK u \in Nat, r \in 0 .. 9 : q = 10 * u + r /\ r = q % 10
  <2>1. q \div 10 \in Nat /\ q % 10 \in 0 .. 9 /\ q = 10 * (q \div 10) + (q % 10)
    BY <1>2
  <2> QED BY <2>1
<1>4. m \div (10 * w) = u
  <2>1. PICK a \in Nat : a = u * w
    OBVIOUS
  <2>2. PICK b \in Nat : b = r * w /\ b <= 9 * w
    <3>1. PICK g \in Nat : r + g = 9
      <4>1. 9 - r \in Nat /\ r + (9 - r) = 9
        OBVIOUS
      <4> QED BY <4>1
    <3>2. r \in Nat /\ (r + g) * w = r * w + g * w /\ r * w \in Nat /\ g * w \in Nat
      OBVIOUS
    <3> QED BY <3>1, <3>2
  <2>3. (10 * u + r) * w = 10 * a + b /\ u * (10 * w) = 10 * a
    BY <2>1, <2>2
  <2>6. 10 * a + b <= m /\ m < 10 * a + b + w
    <3>1. q * w = 10 * a + b
      BY <1>3, <2>3
    <3> QED BY <1>1, <3>1
  <2>4. u * (10 * w) <= m /\ m < u * (10 * w) + 10 * w
    BY <2>2, <2>3, <2>6
  <2>5. 10 * w \in Nat \ {0} /\ u \in Int /\ m \in Int
    OBVIOUS
  <2> QED BY <2>4, <2>5, QuotientIs
<1>5. q \div 10 \in Nat /\ q % 10 \in 0 .. 9
  BY <1>2
<1> QED BY <1>1, <1>2, <1>3, <1>4

\* f is the fraction of m at that many digits without the zeros at its end, which
\* leaves k of them.
IsFraction(f, m, digits, k) ==
    /\ f \in Seq(Digit) /\ Len(f) = k
    /\ \A i \in 1 .. k : f[i] = (m \div TenTo(digits - i)) % 10
    /\ \A i \in k + 1 .. digits : (m \div TenTo(digits - i)) % 10 = 0

LEMMA ShownFraction ==
    ASSUME NEW m \in Nat, NEW digits \in Nat, NEW f, f = FromMinorUnits(m, digits).frac
    PROVE  \E k \in 0 .. digits : IsFraction(f, m, digits, k)
<1> DEFINE all == [i \in 1 .. digits |-> (m \div TenTo(digits - i)) % 10]
           kept == {i \in 0 .. digits : \A k \in i + 1 .. digits : all[k] = 0}
           last == CHOOSE i \in kept : \A k \in kept : i <= k
<1>1. \A i \in 1 .. digits : all[i] \in Digit /\ all[i] = (m \div TenTo(digits - i)) % 10
  <2>1. ASSUME NEW i \in 1 .. digits PROVE (m \div TenTo(digits - i)) % 10 \in 0 .. 9
    <3>1. digits - i \in Nat
      OBVIOUS
    <3> QED BY <3>1, TensAreWhole, OneDigitMore
  <2> QED BY <2>1 DEF Digit
<1>2. last \in kept
  <2>1. kept \in SUBSET Nat /\ digits \in kept
    OBVIOUS
  <2> HIDE DEF kept
  <2>2. \E i \in kept : \A k \in kept : i <= k
    BY <2>1, LeastExists
  <2> QED BY <2>2
<1>3. FromMinorUnits(m, digits).frac = SubSeq(all, 1, last)
  BY DEF FromMinorUnits
<1> HIDE DEF last, all
<1>4. last \in 0 .. digits /\ \A i \in last + 1 .. digits : all[i] = 0
  BY <1>2
<1>5. f = SubSeq(all, 1, last)
  BY <1>3
<1>6. f \in Seq(Digit) /\ Len(f) = last /\ \A i \in 1 .. last : f[i] = all[i]
  <2>1. \A i \in 1 .. last : all[i] \in Digit
    BY <1>1, <1>4
  <2>2. 1 \in Int /\ last \in Int /\ last >= 0 /\ last - 1 + 1 = last
        /\ \A i \in 1 .. last : 1 + i - 1 = i
    BY <1>4
  <2>3. /\ f \in Seq(Digit) /\ Len(f) = IF 1 <= last THEN last - 1 + 1 ELSE 0
        /\ \A i \in 1 .. last - 1 + 1 : f[i] = all[1 + i - 1]
    BY <1>5, <2>1, <2>2, SubSeqProperties
  <2> QED BY <2>2, <2>3
<1>7. /\ \A i \in 1 .. last : i \in 1 .. digits
      /\ \A i \in last + 1 .. digits : i \in 1 .. digits
  BY <1>4
<1> QED BY <1>1, <1>4, <1>6, <1>7 DEF IsFraction

\* An amount whose last digits are zeros is what is left of it without them,
\* times the power of ten.
LEMMA ZerosAtTheEnd ==
    ASSUME NEW m \in Nat, NEW n \in Nat, \A s \in 0 .. n - 1 : (m \div TenTo(s)) % 10 = 0
    PROVE  (m \div TenTo(n)) * TenTo(n) = m
<1> DEFINE G == {s \in 0 .. n : (m \div TenTo(s)) * TenTo(s) = m}
<1>1. 0 \in G
  <2>1. TenTo(0) = 1 /\ m \div 1 = m
    BY TensAreWhole
  <2> QED BY <2>1
<1>2. ASSUME NEW s \in 0 .. n - 1, s \in G PROVE s + 1 \in G
  <2>1. s \in Nat /\ s + 1 \in 0 .. n /\ TenTo(s) \in Nat \ {0} /\ TenTo(s + 1) = 10 * TenTo(s)
    BY <1>2, TensAreWhole
  <2>2. PICK w \in Nat \ {0} : w = TenTo(s)
    BY <2>1
  <2>3. PICK q \in Nat, u \in Nat : q = m \div w /\ u = m \div (10 * w) /\ q = 10 * u + (q % 10)
    BY OneDigitMore
  <2>4. q % 10 = 0 /\ q * w = m
    BY <1>2, <2>2, <2>3
  <2>5. q = 10 * u
    BY <2>3, <2>4
  <2>6. (10 * u) * w = u * (10 * w)
    OBVIOUS
  <2> QED BY <2>1, <2>2, <2>3, <2>4, <2>5, <2>6
<1>3. n \in G
  <2> HIDE DEF G
  <2>1. 0 .. n \subseteq G
    BY <1>1, <1>2, NumbersUpTo
  <2> QED BY <2>1
<1> QED BY <1>3

\* The digits an edit form shows read as the amount without the zeros at the end.
LEMMA ShownDigitsRead ==
    ASSUME NEW m \in Nat, NEW digits \in Nat, NEW k \in 0 .. digits, NEW f \in Seq(Digit),
           Len(f) = k, \A i \in 1 .. k : f[i] = (m \div TenTo(digits - i)) % 10
    PROVE  Value(<<m \div TenTo(digits)>> \o f) = m \div TenTo(digits - k)
<1> DEFINE q == m \div TenTo(digits)
           d == <<q>> \o f
<1>1. q \in Nat
  BY TensAreWhole, OneDigitMore
<1>2. d \in Seq(Nat) /\ Len(d) = k + 1 /\ d[1] = q /\ \A i \in 1 .. k : d[i + 1] = f[i]
  <2>1. <<q>> \in Seq(Nat) /\ Len(<<q>>) = 1 /\ <<q>>[1] = q
    BY <1>1
  <2>2. f \in Seq(Nat)
    <3>1. Digit \subseteq Nat
      BY DEF Digit
    <3> QED BY <3>1, SeqMonotonic
  <2> HIDE DEF q
  <2>3. /\ d \in Seq(Nat) /\ Len(d) = 1 + k
        /\ \A i \in 1 .. 1 + k : d[i] = IF i <= 1 THEN <<q>>[i] ELSE f[i - 1]
    BY <2>1, <2>2, ConcatProperties
  <2> HIDE DEF d
  <2>4. /\ 1 \in 1 .. 1 + k /\ 1 + k = k + 1
        /\ \A i \in 1 .. k : i + 1 \in 1 .. 1 + k /\ ~(i + 1 <= 1) /\ (i + 1) - 1 = i
    OBVIOUS
  <2> QED BY <2>1, <2>3, <2>4
<1> HIDE DEF d
<1>3. PICK V : V = Reading(d)
  OBVIOUS
<1>4. /\ V[0] = 0 /\ Value(d) = V[k + 1]
      /\ \A i \in 1 .. k + 1 : V[i] = 10 * V[i - 1] + d[i]
  BY <1>2, <1>3, ReadingExists
<1> DEFINE G == {j \in 0 .. k : V[j + 1] = m \div TenTo(digits - j)}
<1>5. 0 \in G
  <2>1. 1 \in 1 .. k + 1 /\ 1 - 1 = 0 /\ 0 + 1 = 1 /\ 0 \in 0 .. k /\ digits - 0 = digits
    OBVIOUS
  <2>2. V[1] = 10 * 0 + q
    BY <1>2, <1>4, <2>1
  <2> QED BY <1>1, <2>1, <2>2
<1>6. ASSUME NEW j \in 0 .. k - 1, j \in G PROVE j + 1 \in G
  <2> DEFINE e == digits - (j + 1)
  <2>1. /\ j + 1 \in 0 .. k /\ j + 1 \in 1 .. k /\ (j + 1) + 1 \in 1 .. k + 1
        /\ ((j + 1) + 1) - 1 = j + 1 /\ e \in Nat /\ digits - j = e + 1
    OBVIOUS
  <2>2. V[(j + 1) + 1] = 10 * V[j + 1] + f[j + 1]
    BY <1>2, <1>4, <2>1
  <2>3. f[j + 1] = (m \div TenTo(e)) % 10
    BY <2>1
  <2>4. V[j + 1] = m \div TenTo(e + 1)
    BY <1>6, <2>1
  <2> HIDE DEF e
  <2>5. TenTo(e) \in Nat \ {0} /\ TenTo(e + 1) = 10 * TenTo(e)
    BY <2>1, TensAreWhole
  <2>6. m \div TenTo(e) = 10 * (m \div TenTo(e + 1)) + ((m \div TenTo(e)) % 10)
    BY <2>5, OneDigitMore
  <2>7. V[(j + 1) + 1] = m \div TenTo(e)
    BY <2>2, <2>3, <2>4, <2>6
  <2> QED BY <2>1, <2>7 DEF e
<1>7. k \in G
  <2> HIDE DEF G
  <2>1. k \in Nat /\ k \in 0 .. k
    OBVIOUS
  <2>2. 0 .. k \subseteq G
    BY <1>5, <1>6, <2>1, NumbersUpTo
  <2> QED BY <2>1, <2>2
<1> QED BY <1>4, <1>7 DEF d

\* What an edit form shows of a stored amount reads back as that amount
\* (fromMinorUnits, String and parseMoneyInput, money.ts).
THEOREM ShownAmountsReadBack ==
    ASSUME NEW m \in Nat, NEW digits \in Nat
    PROVE  RoundTrips(m, digits)
<1> SUFFICES ASSUME m \in 1 .. MaxShown
             PROVE  ParseMoneyInput(FromMinorUnits(m, digits), digits, FALSE) = [ok |-> TRUE, minor |-> m]
  BY DEF RoundTrips
<1>1. PICK a : a = FromMinorUnits(m, digits)
  OBVIOUS
<1>2. PICK k \in 0 .. digits : IsFraction(a.frac, m, digits, k)
  BY <1>1, ShownFraction
<1>3. a.neg = FALSE /\ a.int = <<m \div TenTo(digits)>> /\ a.exp = 0
  BY <1>1 DEF FromMinorUnits
<1>4. Value(Coefficient(a)) = m \div TenTo(digits - k)
  <2>1. Value(<<m \div TenTo(digits)>> \o a.frac) = m \div TenTo(digits - k)
    BY <1>2, ShownDigitsRead DEF IsFraction
  <2>2. <<m \div TenTo(digits)>> # <<>>
    OBVIOUS
  <2> QED BY <1>3, <2>1, <2>2 DEF Coefficient
<1>5. TotalExp(a, digits) = digits - k /\ digits - k \in Nat /\ digits - k >= 0
  BY <1>2, <1>3 DEF TotalExp, IsFraction
<1>6. (m \div TenTo(digits - k)) * TenTo(digits - k) = m
  <2>1. ASSUME NEW s \in 0 .. (digits - k) - 1 PROVE (m \div TenTo(s)) % 10 = 0
    <3>1. digits - s \in k + 1 .. digits /\ digits - (digits - s) = s
      OBVIOUS
    <3> QED BY <1>2, <3>1 DEF IsFraction
  <2> QED BY <1>5, <2>1, ZerosAtTheEnd
<1>7. ParseMoneyToMinorUnits(a, digits) = InRange(Signed(FALSE, m))
  <2>1. ~(Magnitude(a.exp) > MaxExponent)
    BY <1>3, AmountsAssumption DEF Magnitude
  <2>2. m + 0 = m
    OBVIOUS
  <2>3. PICK t : t = TotalExp(a, digits) /\ t >= 0 /\ ~(t < 0) /\ Value(Coefficient(a)) * TenTo(t) = m
    BY <1>4, <1>5, <1>6
  <2> QED BY <1>3, <2>1, <2>2, <2>3 DEF ParseMoneyToMinorUnits
<1>8. InRange(Signed(FALSE, m)) = [ok |-> TRUE, minor |-> m] /\ m > 0
  BY AmountsAssumption DEF InRange, Signed, Magnitude
<1>9. PICK p : p = ParseMoneyToMinorUnits(a, digits) /\ p = [ok |-> TRUE, minor |-> m]
  BY <1>7, <1>8
<1> QED BY <1>1, <1>8, <1>9 DEF ParseMoneyInput

-----------------------------------------------------------------------------
(* Exchange rates.                                                         *)

LEMMA HalfUpQuotient ==
    ASSUME NEW x \in Nat, NEW d \in Nat \ {0}
    PROVE  LET q == (x * 2 + d) \div (2 * d) IN
           q \in Nat /\ 2 * q * d <= 2 * x + d /\ 2 * x + d < 2 * (q + 1) * d
<1>1. x * 2 + d \in Nat /\ 2 * d \in Nat \ {0} /\ x * 2 + d = 2 * x + d
  OBVIOUS
<1>2. PICK q : q = (x * 2 + d) \div (2 * d)
  OBVIOUS
<1>3. q \in Int /\ q * (2 * d) <= x * 2 + d /\ x * 2 + d < q * (2 * d) + 2 * d
  <2>1. PICK n \in Int, e \in Nat \ {0} : n = x * 2 + d /\ e = 2 * d
    BY <1>1
  <2>2. (n \div e) \in Int /\ (n \div e) * e <= n /\ n < (n \div e) * e + e
    BY Quotient
  <2> QED BY <1>2, <2>1, <2>2
<1>4. q \in Nat
  <2>1. \A n \in Nat, e \in Nat \ {0} : n \div e \in Nat
    OBVIOUS
  <2> QED BY <1>1, <1>2, <2>1
<1>5. PICK a \in Nat : a = q * d
  BY <1>4
<1>6. q * (2 * d) = 2 * a /\ 2 * q * d = 2 * a /\ 2 * (q + 1) * d = 2 * a + 2 * d
  BY <1>4, <1>5
<1> QED BY <1>1, <1>2, <1>3, <1>4, <1>6

\* A rate gives the nearest amount of the other currency, halves away from zero,
\* of the sign the amount has (convertMinorUnitsWithRate, money.ts).
THEOREM ConversionsRoundHalfUp ==
    ASSUME NEW minor \in Int, NEW r \in RateText, NEW s \in Nat, NEW t \in Nat
    PROVE  ConversionRounds(minor, r, s, t)
<1> DEFINE rate == ParseRateFraction(r)
           c == ConvertMinorUnitsWithRate(minor, rate, s, t)
<1> SUFFICES ASSUME rate.ok, c.ok
             PROVE  /\ IsNearest(c.minor, Magnitude(minor) * Value(r.int \o r.frac) * TenTo(t),
                                 TenTo(Len(r.frac) + s))
                    /\ c.minor * minor >= 0
  BY DEF ConversionRounds
<1>1. /\ rate.numerator = Value(r.int \o r.frac) /\ rate.denominator = TenTo(Len(r.frac))
  BY DEF ParseRateFraction
<1>2. rate.numerator \in Nat /\ Len(r.frac) \in Nat
  <2>1. r.int \in Seq(Digit) /\ r.frac \in Seq(Digit) /\ Digit \subseteq Nat
    BY DEF RateText, Digit
  <2>2. r.int \o r.frac \in Seq(Nat) /\ Len(r.frac) \in Nat
    <3>1. r.int \in Seq(Nat) /\ r.frac \in Seq(Nat)
      BY <2>1, SeqMonotonic
    <3> QED BY <3>1, ConcatProperties, LenProperties
  <2> QED BY <1>1, <2>2, ReadingExists
<1>3. PICK m \in Nat, v \in Nat, w \in Nat, d \in Nat \ {0} :
        /\ m = Magnitude(minor) /\ v = rate.numerator /\ w = TenTo(t)
        /\ d = rate.denominator * TenTo(s) /\ d = TenTo(Len(r.frac) + s)
  <2>1. Magnitude(minor) \in Nat
    BY DEF Magnitude
  <2>2. TenTo(t) \in Nat /\ TenTo(Len(r.frac) + s) \in Nat \ {0}
    <3>1. Len(r.frac) + s \in Nat
      BY <1>2
    <3> QED BY <3>1, TensAreWhole
  <2>3. TenTo(Len(r.frac) + s) = TenTo(Len(r.frac)) * TenTo(s)
    BY <1>2, PowersMultiply DEF TenTo
  <2> QED BY <1>1, <1>2, <2>1, <2>2, <2>3
<1>4. PICK x \in Nat : x = m * v * w /\ m * (v * w) * 2 + d = x * 2 + d
  <2>1. m * v * w \in Nat /\ m * (v * w) = m * v * w
    OBVIOUS
  <2> QED BY <2>1
<1>5. PICK q \in Nat : /\ q = (x * 2 + d) \div (2 * d)
                       /\ 2 * q * d <= 2 * x + d /\ 2 * x + d < 2 * (q + 1) * d
  BY HalfUpQuotient
<1>6. c = InRange(Signed(minor < 0, q))
  BY <1>3, <1>4, <1>5 DEF ConvertMinorUnitsWithRate
<1>7. c.minor = Signed(minor < 0, q)
  BY <1>6 DEF InRange, RangeError
<1>8. Magnitude(c.minor) = q /\ c.minor \in Int
  <2>1. (minor < 0) \in BOOLEAN
    OBVIOUS
  <2> QED BY <1>7, <2>1, SignsStay
<1>9. IsNearest(c.minor, x, d)
  BY <1>5, <1>8 DEF IsNearest
<1>10. c.minor * minor >= 0
  <2>1. CASE minor < 0
    <3>1. c.minor = -q
      BY <1>7, <2>1 DEF Signed
    <3>2. PICK n \in Nat : minor = -n
      <4>1. -minor \in Nat /\ minor = -(-minor)
        BY <2>1
      <4> QED BY <4>1
    <3>3. (-q) * (-n) = q * n /\ q * n \in Nat
      OBVIOUS
    <3> QED BY <3>1, <3>2, <3>3
  <2>2. CASE ~(minor < 0)
    <3>1. c.minor = q /\ minor \in Nat
      BY <1>7, <2>2 DEF Signed
    <3>2. q * minor \in Nat
      BY <3>1
    <3> QED BY <3>1, <3>2
  <2> QED BY <2>1, <2>2
<1> QED BY <1>1, <1>3, <1>4, <1>9, <1>10

\* Whatever amount is typed, whatever stored amount a form shows, and at whatever
\* rate an amount is converted: it rounds to the nearest minor unit, halves up,
\* or reads back as it was, and no form takes a negative one (money.ts).
THEOREM AmountsAreRounded == CalcSpec => []AmountsRoundHalfUp
<1> DEFINE Typed == sample \in Inputs
<1>1. CalcInit => Typed
  BY SampleAssumption DEF CalcInit
<1>2. Typed /\ [UNCHANGED sample]_sample => Typed'
  OBVIOUS
<1>3. Typed => AmountsRoundHalfUp
  <2> SUFFICES ASSUME Typed PROVE AmountsRoundHalfUp
    OBVIOUS
  <2>1. ASSUME sample[1] = "amount" PROVE AmountRounds(sample[2], sample[3])
    <3>1. sample[2] \in Decimal /\ sample[3] \in Nat
      BY <2>1 DEF Inputs
    <3> QED BY <3>1, TypedAmountsRoundHalfUp
  <2>2. ASSUME sample[1] = "shown" PROVE RoundTrips(sample[2], sample[3])
    <3>1. sample[2] \in Nat /\ sample[3] \in Nat
      BY <2>2 DEF Inputs
    <3> QED BY <3>1, ShownAmountsReadBack
  <2>3. ASSUME sample[1] = "rate", NEW s \in 0 .. 2, NEW t \in 0 .. 2
        PROVE  ConversionRounds(sample[3], sample[2], s, t)
    <3>1. sample[3] \in Int /\ sample[2] \in RateText /\ s \in Nat /\ t \in Nat
      BY <2>3 DEF Inputs
    <3> QED BY <3>1, ConversionsRoundHalfUp
  <2> QED BY <2>1, <2>2, <2>3 DEF AmountsRoundHalfUp
<1> QED BY <1>1, <1>2, <1>3, PTL DEF CalcSpec

-----------------------------------------------------------------------------
(* Reducing-balance loans: the instalment is the least that pays one off.  *)

LEMMA RoundAtMost ==
    ASSUME NEW x \in Int, NEW d \in Nat \ {0}, NEW c \in Int, x <= d * c
    PROVE  Round(x, d) <= c
<1>1. PICK h \in Int, q \in Int : /\ h = d \div 2 /\ 2 * h <= d /\ q = Round(x, d)
                                  /\ q * d <= x + h /\ x + h < q * d + d
  <2>1. PICK h \in Int : h = d \div 2 /\ 2 * h <= d
    <3>1. d \div 2 \in Int /\ 2 * (d \div 2) <= d
      OBVIOUS
    <3> QED BY <3>1
  <2>2. PICK n \in Int : n = x + h
    OBVIOUS
  <2>3. (n \div d) \in Int /\ (n \div d) * d <= n /\ n < (n \div d) * d + d
    BY Quotient
  <2> QED BY <2>1, <2>2, <2>3 DEF Round
<1>2. ASSUME q > c PROVE FALSE
  <2>1. PICK e \in Nat : q = c + 1 + e
    <3>1. q - c - 1 \in Nat /\ q = c + 1 + (q - c - 1)
      BY <1>2
    <3> QED BY <3>1
  <2>2. (c + 1 + e) * d = d * c + d + e * d /\ e * d \in Nat /\ d * c \in Int
    OBVIOUS
  <2>3. q * d >= d * c + d
    BY <2>1, <2>2
  <2> QED BY <1>1, <2>2, <2>3
<1> QED BY <1>1, <1>2

IsOwed(p, terms, pay, E) ==
    E = [k \in 0 .. terms.months |->
           IF k = 0 THEN p
           ELSE E[k - 1] * (Denominator(terms) + terms.rate) - pay * Power(Denominator(terms), k)]

LEMMA OwedUnfolds ==
    ASSUME NEW p, NEW terms, NEW pay
    PROVE  Owed(p, terms, pay) = CHOOSE E : IsOwed(p, terms, pay, E)
  BY DEF Owed, IsOwed

\* What owing p and paying pay each month comes to.
IsOwing(E, p, pay, n, d, r) ==
    /\ p \in Int /\ pay \in Int /\ n \in Nat /\ d \in Nat /\ r \in Nat
    /\ E[0] = p /\ \A k \in 0 .. n : E[k] \in Int
    /\ \A k \in 1 .. n : E[k] = E[k - 1] * (d + r) - pay * Power(d, k)

LEMMA OwedExists ==
    ASSUME NEW p \in Int, NEW terms, NEW pay \in Int, NEW n \in Nat, n = terms.months,
           NEW d \in Nat, d = Denominator(terms), terms.rate \in Nat,
           NEW E, E = Owed(p, terms, pay)
    PROVE  IsOwing(E, p, pay, n, d, terms.rate)
<1> DEFINE h == [x \in (1 .. n) \X Int |-> x[2] * (d + terms.rate) - pay * Power(d, x[1])]
<1>1. \A k \in 1 .. n : pay * Power(d, k) \in Int
  <2>1. \A k \in 1 .. n : Power(d, k) \in Nat
    <3>1. \A k \in 1 .. n : k \in Nat
      OBVIOUS
    <3> QED BY <3>1, PowerIsWhole
  <2>2. \A a \in Int, b \in Nat : a * b \in Int
    OBVIOUS
  <2> QED BY <2>1, <2>2
<1>2. PICK r \in Nat : r = d + terms.rate
  OBVIOUS
<1>3. \A a \in Int : a * r \in Int
  OBVIOUS
<1>4. h \in [(1 .. n) \X Int -> Int]
  <2>1. \A x \in (1 .. n) \X Int : x[2] * (d + terms.rate) - pay * Power(d, x[1]) \in Int
    <3>1. \A x \in (1 .. n) \X Int : x[2] * r \in Int /\ pay * Power(d, x[1]) \in Int
      BY <1>1, <1>3
    <3> QED BY <1>2, <3>1
  <2> QED BY <2>1
<1>5. PICK f : IsTable(n, Int, p, h, f)
  <2> HIDE DEF h
  <2> QED BY <1>4, TableExists
<1>6. \A k \in 1 .. n : f[k] = f[k - 1] * (d + terms.rate) - pay * Power(d, k)
  <2>1. \A k \in 1 .. n : <<k, f[k - 1]>> \in (1 .. n) \X Int
    <3>1. \A k \in 1 .. n : k - 1 \in 0 .. n
      OBVIOUS
    <3> QED BY <1>5, <3>1 DEF IsTable
  <2> QED BY <1>5, <2>1 DEF IsTable
<1> HIDE DEF h
<1>7. IsOwed(p, terms, pay, f)
  <2>1. \A k \in 0 .. n : k = 0 \/ k \in 1 .. n
    OBVIOUS
  <2>2. f = [k \in 0 .. n |-> IF k = 0 THEN p ELSE f[k - 1] * (d + terms.rate) - pay * Power(d, k)]
    BY <1>5, <1>6, <2>1 DEF IsTable
  <2> QED BY <2>2 DEF IsOwed
<1>8. IsOwed(p, terms, pay, E)
  BY <1>7, OwedUnfolds
<1>9. E[0] = p /\ \A k \in 1 .. n : E[k] = E[k - 1] * (d + terms.rate) - pay * Power(d, k)
  <2>1. E = [k \in 0 .. n |-> IF k = 0 THEN p ELSE E[k - 1] * (d + terms.rate) - pay * Power(d, k)]
    BY <1>8 DEF IsOwed
  <2>2. 0 \in 0 .. n /\ \A k \in 1 .. n : k \in 0 .. n /\ k # 0
    OBVIOUS
  <2> QED BY <2>1, <2>2, Zenon
<1> DEFINE G == {k \in 0 .. n : E[k] \in Int}
<1>10. 0 \in G
  BY <1>9
<1>11. ASSUME NEW k \in 0 .. n - 1, k \in G PROVE k + 1 \in G
  <2>1. k + 1 \in 1 .. n /\ (k + 1) - 1 = k /\ k + 1 \in 0 .. n
    OBVIOUS
  <2>2. E[k + 1] = E[k] * r - pay * Power(d, k + 1)
    BY <1>2, <1>9, <2>1
  <2>3. E[k] * r \in Int /\ pay * Power(d, k + 1) \in Int
    BY <1>1, <1>3, <1>11, <2>1
  <2> QED BY <2>1, <2>2, <2>3
<1>12. 0 .. n \subseteq G
  <2> HIDE DEF G
  <2> QED BY <1>10, <1>11, NumbersUpTo
<1> QED BY <1>9, <1>12 DEF IsOwing

IsAllowed(terms, G) ==
    G = [k \in 0 .. terms.months |->
           IF k = 0 THEN 0
           ELSE G[k - 1] * (Denominator(terms) + terms.rate) + Power(Denominator(terms), k - 1)]

LEMMA AllowedUnfolds ==
    ASSUME NEW terms
    PROVE  RoundingAllowed(terms) = CHOOSE G : IsAllowed(terms, G)
  BY DEF RoundingAllowed, IsAllowed

LEMMA AllowedExists ==
    ASSUME NEW terms, NEW n \in Nat, n = terms.months,
           NEW d \in Nat, d = Denominator(terms), terms.rate \in Nat,
           NEW A, A = RoundingAllowed(terms)
    PROVE  /\ A[0] = 0 /\ \A k \in 0 .. n : A[k] \in Nat
           /\ \A k \in 1 .. n : A[k] = A[k - 1] * (d + terms.rate) + Power(d, k - 1)
<1> DEFINE h == [x \in (1 .. n) \X Nat |-> x[2] * (d + terms.rate) + Power(d, x[1] - 1)]
<1>1. \A k \in 1 .. n : Power(d, k - 1) \in Nat
  <2>1. \A k \in 1 .. n : k - 1 \in Nat
    OBVIOUS
  <2> QED BY <2>1, PowerIsWhole
<1>2. PICK r \in Nat : r = d + terms.rate
  OBVIOUS
<1>3. \A a \in Nat : a * r \in Nat
  OBVIOUS
<1>4. h \in [(1 .. n) \X Nat -> Nat]
  <2>1. \A x \in (1 .. n) \X Nat : x[2] * (d + terms.rate) + Power(d, x[1] - 1) \in Nat
    <3>1. \A x \in (1 .. n) \X Nat : x[2] * r \in Nat /\ Power(d, x[1] - 1) \in Nat
      BY <1>1, <1>3
    <3> QED BY <1>2, <3>1
  <2> QED BY <2>1
<1>5. PICK f : IsTable(n, Nat, 0, h, f)
  <2> HIDE DEF h
  <2> QED BY <1>4, TableExists
<1>6. \A k \in 1 .. n : f[k] = f[k - 1] * (d + terms.rate) + Power(d, k - 1)
  <2>1. \A k \in 1 .. n : <<k, f[k - 1]>> \in (1 .. n) \X Nat
    <3>1. \A k \in 1 .. n : k - 1 \in 0 .. n
      OBVIOUS
    <3> QED BY <1>5, <3>1 DEF IsTable
  <2> QED BY <1>5, <2>1 DEF IsTable
<1> HIDE DEF h
<1>7. IsAllowed(terms, f)
  <2>1. \A k \in 0 .. n : k = 0 \/ k \in 1 .. n
    OBVIOUS
  <2>2. f = [k \in 0 .. n |-> IF k = 0 THEN 0 ELSE f[k - 1] * (d + terms.rate) + Power(d, k - 1)]
    BY <1>5, <1>6, <2>1 DEF IsTable
  <2> QED BY <2>2 DEF IsAllowed
<1>8. IsAllowed(terms, A)
  BY <1>7, AllowedUnfolds
<1>9. A[0] = 0 /\ \A k \in 1 .. n : A[k] = A[k - 1] * (d + terms.rate) + Power(d, k - 1)
  <2>1. A = [k \in 0 .. n |-> IF k = 0 THEN 0 ELSE A[k - 1] * (d + terms.rate) + Power(d, k - 1)]
    BY <1>8 DEF IsAllowed
  <2>2. 0 \in 0 .. n /\ \A k \in 1 .. n : k \in 0 .. n /\ k # 0
    OBVIOUS
  <2> QED BY <2>1, <2>2, Zenon
<1> DEFINE G == {k \in 0 .. n : A[k] \in Nat}
<1>10. 0 \in G
  BY <1>9
<1>11. ASSUME NEW k \in 0 .. n - 1, k \in G PROVE k + 1 \in G
  <2>1. k + 1 \in 1 .. n /\ (k + 1) - 1 = k /\ k + 1 \in 0 .. n
    OBVIOUS
  <2>2. A[k + 1] = A[k] * r + Power(d, k)
    BY <1>2, <1>9, <2>1
  <2>3. A[k] * r \in Nat /\ Power(d, k) \in Nat
    <3>1. Power(d, (k + 1) - 1) \in Nat
      BY <1>1, <2>1
    <3> QED BY <1>3, <1>11, <2>1, <3>1
  <2> QED BY <2>1, <2>2, <2>3
<1>12. 0 .. n \subseteq G
  <2> HIDE DEF G
  <2> QED BY <1>10, <1>11, NumbersUpTo
<1> QED BY <1>9, <1>12

LEMMA PowerIsPositive == ASSUME NEW b \in Nat \ {0}, NEW n \in Nat PROVE Power(b, n) \in Nat \ {0}
<1>1. b \in Nat /\ b > 0
  OBVIOUS
<1> QED BY <1>1, PowerIsWhole

\* What is owed after each month, in closed form.
LEMMA OwedIs ==
    ASSUME NEW p, NEW pay, NEW n, NEW d, NEW r, NEW E, IsOwing(E, p, pay, n, d, r)
    PROVE  \A k \in 0 .. n : r * E[k] = r * p * Power(d + r, k) - pay * d * (Power(d + r, k) - Power(d, k))
<1>0. p \in Int /\ pay \in Int /\ n \in Nat /\ d \in Nat /\ r \in Nat
  BY DEF IsOwing
<1> DEFINE Is(k) == r * E[k] = r * p * Power(d + r, k) - pay * d * (Power(d + r, k) - Power(d, k))
           G == {k \in 0 .. n : Is(k)}
<1>1. 0 \in G
  <2>1. r * p = r * p * 1 - pay * d * (1 - 1)
    BY <1>0
  <2>2. Is(0)
    BY <1>0, <2>1, PowerStarts DEF IsOwing
  <2> HIDE DEF Is
  <2> QED BY <1>0, <2>2
<1>2. ASSUME NEW k \in 0 .. n - 1, k \in G PROVE k + 1 \in G
  <2>1. k \in Nat /\ k \in 0 .. n /\ k + 1 \in 1 .. n /\ (k + 1) - 1 = k /\ k + 1 \in 0 .. n
    BY <1>0
  <2>2. PICK a \in Int, b \in Int, e \in Int : a = Power(d + r, k) /\ b = Power(d, k) /\ e = E[k]
    <3>1. d + r \in Nat
      BY <1>0
    <3>2. Power(d + r, k) \in Nat /\ Power(d, k) \in Nat
      BY <1>0, <2>1, <3>1, PowerIsWhole
    <3> QED BY <1>0, <2>1, <3>2 DEF IsOwing
  <2>3. Power(d + r, k + 1) = (d + r) * a /\ Power(d, k + 1) = d * b
    BY <2>1, <2>2, PowerGoesOn
  <2>4. E[k + 1] = e * (d + r) - pay * (d * b)
    BY <1>0, <2>1, <2>2, <2>3 DEF IsOwing
  <2>5. r * e = r * p * a - pay * d * (a - b)
    BY <1>2, <2>2
  <2>6. r * (e * (d + r) - pay * (d * b)) = r * p * ((d + r) * a) - pay * d * ((d + r) * a - d * b)
    <3>1. r * (e * (d + r) - pay * (d * b)) = (r * e) * (d + r) - r * pay * d * b
      BY <1>0, <2>2
    <3>2. (r * p * a - pay * d * (a - b)) * (d + r) - r * pay * d * b
            = r * p * ((d + r) * a) - pay * d * ((d + r) * a - d * b)
      BY <1>0, <2>2
    <3> QED BY <2>5, <3>1, <3>2
  <2>7. Is(k + 1)
    BY <2>3, <2>4, <2>6
  <2> HIDE DEF Is
  <2> QED BY <2>1, <2>7
<1>3. 0 .. n \subseteq G
  <2> HIDE DEF G
  <2> QED BY <1>0, <1>1, <1>2, NumbersUpTo
<1> QED BY <1>3

\* Without interest the instalments are what is paid back.
LEMMA OwedWithoutInterest ==
    ASSUME NEW p, NEW pay, NEW n, NEW d, NEW E, IsOwing(E, p, pay, n, d, 0)
    PROVE  \A k \in 0 .. n : E[k] = Power(d, k) * (p - k * pay)
<1>0. p \in Int /\ pay \in Int /\ n \in Nat /\ d \in Nat
  BY DEF IsOwing
<1> DEFINE Is(k) == E[k] = Power(d, k) * (p - k * pay)
           G == {k \in 0 .. n : Is(k)}
<1>1. 0 \in G
  <2>1. p = 1 * (p - 0 * pay)
    BY <1>0
  <2>2. Is(0)
    BY <1>0, <2>1, PowerStarts DEF IsOwing
  <2> HIDE DEF Is
  <2> QED BY <1>0, <2>2
<1>2. ASSUME NEW k \in 0 .. n - 1, k \in G PROVE k + 1 \in G
  <2>1. k \in Nat /\ k \in 0 .. n /\ k + 1 \in 1 .. n /\ (k + 1) - 1 = k /\ k + 1 \in 0 .. n
    BY <1>0
  <2>2. PICK b \in Int, e \in Int : b = Power(d, k) /\ e = E[k]
    <3>1. Power(d, k) \in Nat
      BY <1>0, <2>1, PowerIsWhole
    <3> QED BY <1>0, <2>1, <3>1 DEF IsOwing
  <2>3. Power(d, k + 1) = d * b
    BY <2>1, <2>2, PowerGoesOn
  <2>4. E[k + 1] = e * (d + 0) - pay * (d * b)
    BY <1>0, <2>1, <2>2, <2>3 DEF IsOwing
  <2>5. e = b * (p - k * pay)
    BY <1>2, <2>2
  <2>6. (b * (p - k * pay)) * (d + 0) - pay * (d * b) = (d * b) * (p - (k + 1) * pay)
    BY <1>0, <2>1, <2>2
  <2>7. Is(k + 1)
    BY <2>3, <2>4, <2>5, <2>6
  <2> HIDE DEF Is
  <2> QED BY <2>1, <2>7
<1>3. 0 .. n \subseteq G
  <2> HIDE DEF G
  <2> QED BY <1>0, <1>1, <1>2, NumbersUpTo
<1> QED BY <1>3

LEMMA SignOfProduct ==
    ASSUME NEW a \in Nat \ {0}, NEW x \in Int
    PROVE  (a * x <= 0 => x <= 0) /\ (a * x > 0 => x > 0) /\ (x <= 0 => a * x <= 0) /\ (x > 0 => a * x > 0)
<1>1. CASE x > 0
  <2>1. PICK m \in Nat, b \in Nat : x = m + 1 /\ a = b + 1
    <3>1. x - 1 \in Nat /\ x = (x - 1) + 1 /\ a - 1 \in Nat /\ a = (a - 1) + 1
      BY <1>1
    <3> QED BY <3>1
  <2>2. (b + 1) * (m + 1) = b * m + b + m + 1 /\ b * m \in Nat
    OBVIOUS
  <2> QED BY <1>1, <2>1, <2>2
<1>2. CASE x <= 0
  <2>1. PICK m \in Nat : x = -m
    <3>1. -x \in Nat /\ x = -(-x)
      BY <1>2
    <3> QED BY <3>1
  <2>2. a * (-m) = -(a * m) /\ a * m \in Nat
    OBVIOUS
  <2> QED BY <1>2, <2>1, <2>2
<1> QED BY <1>1, <1>2

\* What a valid reducing loan's terms are.
LEMMA ReducingTerms ==
    ASSUME NEW p, NEW terms, TermsAreValid(p, terms), Projected(terms)
    PROVE  /\ p \in Nat \ {0} /\ terms.rate \in Nat /\ terms.months \in Nat \ {0}
           /\ Denominator(terms) \in Nat \ {0} /\ Instalment(p, terms) \in Nat
<1>1. p \in Nat \ {0} /\ terms.rate \in Nat /\ terms.months \in Nat \ {0}
  BY WorksheetsAssumption DEF TermsAreValid
<1>2. Denominator(terms) \in Nat \ {0}
  BY WorksheetsAssumption DEF Denominator
<1> QED BY <1>1, <1>2, InstalmentIsWhole

\* The instalment is the least that pays the loan off, and covers more than the
\* interest of the first month.
LEMMA InstalmentIsLeast ==
    ASSUME NEW p, NEW terms, TermsAreValid(p, terms), Projected(terms),
           NEW pay, pay = Instalment(p, terms), NEW n, n = terms.months
    PROVE  /\ Owed(p, terms, pay)[n] <= 0 /\ Owed(p, terms, pay - 1)[n] > 0
           /\ p * terms.rate <= Denominator(terms) * pay
<1>1. PICK r \in Nat, d \in Nat \ {0} : r = terms.rate /\ d = Denominator(terms)
  BY ReducingTerms
<1>2. p \in Nat \ {0} /\ n \in Nat \ {0} /\ pay \in Nat
  BY ReducingTerms
<1>3. PICK E, F : E = Owed(p, terms, pay) /\ F = Owed(p, terms, pay - 1)
  OBVIOUS
<1>4. pay - 1 \in Int /\ IsOwing(E, p, pay, n, d, r) /\ IsOwing(F, p, pay - 1, n, d, r)
  <2>1. pay - 1 \in Int
    BY <1>2
  <2> QED BY <1>1, <1>2, <1>3, <2>1, OwedExists
<1>6. n \in 0 .. n /\ E[n] \in Int /\ F[n] \in Int
  BY <1>2, <1>4 DEF IsOwing
<1>7. CASE r = 0
  <2>1. E[n] = Power(d, n) * (p - n * pay) /\ F[n] = Power(d, n) * (p - n * (pay - 1))
    <3>1. IsOwing(E, p, pay, n, d, 0) /\ IsOwing(F, p, pay - 1, n, d, 0)
      BY <1>4, <1>7
    <3> QED BY <1>6, <3>1, OwedWithoutInterest
  <2>2. pay = Ceiling(p, n)
    BY <1>1, <1>7 DEF Instalment
  <2>3. n * (pay - 1) < p /\ p <= n * pay
    BY <1>2, <2>2, CeilingIsEnough
  <2>4. Power(d, n) \in Nat \ {0}
    BY <1>2, PowerIsPositive
  <2>5. PICK x \in Int, y \in Int : x = n * pay /\ y = n * (pay - 1)
    BY <1>2
  <2>6. p - x \in Int /\ p - x <= 0 /\ p - y \in Int /\ p - y > 0
    BY <1>2, <2>3, <2>5
  <2>7. Power(d, n) * (p - x) <= 0 /\ Power(d, n) * (p - y) > 0
    BY <2>4, <2>6, SignOfProduct
  <2>8. p * r <= d * pay
    <3>1. p * 0 = 0 /\ d * pay \in Nat
      BY <1>2
    <3> QED BY <1>7, <3>1
  <2> QED BY <1>1, <1>3, <2>1, <2>5, <2>7, <2>8
<1>8. CASE r # 0
  <2>1. PICK a \in Nat, b \in Nat \ {0} : a = Power(d + r, n) /\ b = Power(d, n) /\ a > b
    <3>1. PICK D \in Nat : D = d + r /\ D > d /\ d > 0 /\ d \in Nat /\ n \in Nat /\ n > 0
      BY <1>2, <1>8
    <3> QED BY <3>1, PowersGrow
  <2>2. PICK g \in Nat \ {0} : g = a - b
    BY <2>1
  <2>3. PICK num \in Nat, q \in Nat \ {0} : num = p * r * a /\ q = d * g
    <3>1. p * r * a \in Nat
      BY <1>2
    <3>2. d * g \in Nat /\ d * g > 0
      BY SignOfProduct
    <3> QED BY <3>1, <3>2
  <2>4. pay = Ceiling(num, q)
    BY <1>1, <1>8, <2>1, <2>2, <2>3 DEF Instalment
  <2>5. q * (pay - 1) < num /\ num <= q * pay
    BY <2>4, CeilingIsEnough
  <2>6. r * E[n] = r * p * a - pay * d * g /\ r * F[n] = r * p * a - (pay - 1) * d * g
    <3>1. /\ r * E[n] = r * p * Power(d + r, n) - pay * d * (Power(d + r, n) - Power(d, n))
          /\ r * F[n] = r * p * Power(d + r, n) - (pay - 1) * d * (Power(d + r, n) - Power(d, n))
      BY <1>4, <1>6, OwedIs
    <3> QED BY <2>1, <2>2, <3>1
  <2>7. r * p * a = num /\ pay * d * g = q * pay /\ (pay - 1) * d * g = q * (pay - 1)
    <3>1. r * p * a = p * r * a /\ pay * d * g = d * g * pay /\ (pay - 1) * d * g = d * g * (pay - 1)
      BY <1>2
    <3> QED BY <2>3, <3>1
  <2>8. r * E[n] <= 0 /\ r * F[n] > 0
    <3>1. q * pay \in Int /\ q * (pay - 1) \in Int
      BY <1>2
    <3> QED BY <2>5, <2>6, <2>7, <3>1
  <2>9. E[n] <= 0 /\ F[n] > 0
    BY <1>6, <1>8, <2>8, SignOfProduct
  <2>10. p * r <= d * pay
    <3>1. PICK x \in Nat, y \in Nat : x = p * r /\ y = d * pay
      BY <1>2
    <3>2. x * a <= y * g
      <4>1. d * g * pay = d * pay * g
        BY <1>2
      <4> QED BY <2>3, <2>5, <3>1, <4>1
    <3>3. SUFFICES ASSUME x > y PROVE FALSE
      BY <3>1
    <3>4. PICK e \in Nat : x = y + 1 + e
      <4>1. x - y - 1 \in Nat /\ x = y + 1 + (x - y - 1)
        BY <3>3
      <4> QED BY <4>1
    <3>5. (y + 1 + e) * (g + b) = y * g + g + e * g + (y + 1 + e) * b /\ a = g + b
      BY <2>1, <2>2
    <3>6. e * g \in Nat /\ (y + 1 + e) * b \in Nat /\ y * g \in Nat /\ g > 0
      OBVIOUS
    <3> QED BY <3>2, <3>4, <3>5, <3>6
  <2> QED BY <1>1, <1>3, <2>9, <2>10
<1> QED BY <1>7, <1>8

-----------------------------------------------------------------------------
(* The months of a schedule, and what their rounding comes to.             *)

LEMMA TimesKeepsOrder ==
    ASSUME NEW x \in Int, NEW y \in Int, NEW z \in Nat, x <= y
    PROVE  x * z <= y * z
<1>1. PICK e \in Nat : y = x + e
  <2>1. y - x \in Nat /\ y = x + (y - x)
    OBVIOUS
  <2> QED BY <2>1
<1>2. (x + e) * z = x * z + e * z /\ e * z \in Nat /\ x * z \in Int
  OBVIOUS
<1> QED BY <1>1, <1>2

LEMMA OneMore == ASSUME NEW k \in Nat, NEW g \in Nat PROVE (k + 1) * g = k * g + g /\ k * g \in Int
  OBVIOUS

\* The months of a loan whose instalment covers the first month's interest.
PaidMonthly(p, terms, pay, n, d, r) ==
    /\ p \in Nat /\ pay \in Nat /\ n \in Nat \ {0} /\ d \in Nat \ {0} /\ r \in Nat
    /\ n = terms.months /\ d = Denominator(terms) /\ r = terms.rate /\ p * r <= d * pay

\* A month's state: what is owed is between nothing and the principal.
InMonth(p, s) ==
    s \in [balance : Int, interest : Int, paid : Int] /\ s.balance \in 0 .. p

\* One month: b follows a, after interest of c.
MonthTurns(a, b, c, pay, last) ==
    IF a.balance = 0 THEN b.balance = 0 /\ b.interest = a.interest /\ b.paid = 0
    ELSE /\ b.interest = a.interest + c
         /\ IF last \/ pay >= a.balance + c
            THEN b.balance = 0 /\ b.paid = a.balance + c
            ELSE b.balance = a.balance + c - pay /\ b.paid = pay

LEMMA OneMonth ==
    ASSUME NEW p, NEW terms, NEW pay, NEW n, NEW d, NEW r, PaidMonthly(p, terms, pay, n, d, r),
           NEW a, InMonth(p, a), NEW k, NEW b, b = MonthAfter(terms, pay, k, a),
           NEW c, c = Round(a.balance * r, d)
    PROVE  /\ InMonth(p, b) /\ b.balance <= a.balance /\ MonthTurns(a, b, c, pay, k = n)
           /\ c \in Nat /\ c <= pay /\ c <= Ceiling(p * r, d)
           /\ 2 * c * d <= 2 * (a.balance * r) + d
           /\ b.interest \in Int /\ b.interest <= a.interest + c
<1>1. /\ p \in Nat /\ pay \in Nat /\ d \in Nat \ {0} /\ r \in Nat /\ n = terms.months
      /\ d = Denominator(terms) /\ r = terms.rate /\ p * r <= d * pay
  BY DEF PaidMonthly
<1>2. a.balance \in 0 .. p /\ a.interest \in Int /\ a.paid \in Int
      /\ a \in [balance : Int, interest : Int, paid : Int]
  BY DEF InMonth
<1>3. PICK x \in Nat : x = a.balance * r /\ x <= p * r
  <2>1. PICK m \in Nat : m = a.balance /\ m <= p
    BY <1>1, <1>2
  <2>2. m * r <= p * r
    BY <1>1, <2>1, TimesKeepsOrder
  <2>3. m * r \in Nat
    BY <1>1, <2>1
  <2> QED BY <2>1, <2>2, <2>3
<1>4. c \in Nat /\ c = Round(x, d)
  BY <1>1, <1>3, RoundIsWhole
<1>5. PICK y \in Nat, z \in Nat : y = p * r /\ z = d * pay /\ x <= y /\ y <= z
  <2>1. p * r \in Nat /\ d * pay \in Nat
    BY <1>1
  <2> QED BY <1>1, <1>3, <2>1
<1>6. c <= pay
  <2>1. x <= d * pay
    BY <1>1, <1>5
  <2> QED BY <1>1, <1>4, <2>1, RoundAtMost
<1>7. c <= Ceiling(p * r, d)
  <2>1. PICK g \in Int : g = Ceiling(y, d) /\ y <= d * g
    <3>1. Ceiling(y, d) \in Int /\ y <= d * Ceiling(y, d)
      <4>1. y \in Int /\ d \in Nat \ {0}
        BY <1>1
      <4>2. Ceiling(y, d) \in Int
        BY <4>1, RoundIsWhole
      <4>3. y <= d * Ceiling(y, d)
        BY <4>1, CeilingIsEnough
      <4> QED BY <4>2, <4>3
    <3>2. PICK g \in Int : g = Ceiling(y, d)
      BY <3>1
    <3> QED BY <3>1, <3>2
  <2>2. x <= d * g
    <3>1. d * g \in Int
      BY <1>1
    <3> QED BY <1>5, <2>1, <3>1
  <2>3. c <= g
    BY <1>1, <1>4, <2>2, RoundAtMost
  <2> QED BY <1>5, <2>1, <2>3
<1>8. 2 * c * d <= 2 * x + d
  <2>1. Nearest(c, x, d)
    BY <1>1, <1>4, RoundIsNearest
  <2>2. PICK u \in Nat : u = c * d
    BY <1>1, <1>4
  <2>3. 2 * (u - x) <= d
    BY <1>1, <2>1, <2>2 DEF Nearest
  <2>4. 2 * c * d = 2 * u
    BY <1>1, <1>4, <2>2
  <2> QED BY <1>1, <2>2, <2>3, <2>4
<1>9. CASE a.balance = 0
  <2>1. b = [a EXCEPT !.paid = 0]
    BY <1>9 DEF MonthAfter
  <2>2. /\ b.balance = 0 /\ b.interest = a.interest /\ b.paid = 0
        /\ b \in [balance : Int, interest : Int, paid : Int]
    BY <1>2, <1>9, <2>1
  <2>3. InMonth(p, b)
    BY <1>1, <2>2 DEF InMonth
  <2>4. MonthTurns(a, b, c, pay, k = n)
    BY <1>9, <2>2 DEF MonthTurns
  <2> QED BY <1>2, <1>3, <1>4, <1>6, <1>7, <1>8, <1>9, <2>2, <2>3, <2>4
<1>10. CASE a.balance # 0
  <2>0. PICK due, paid : /\ due = a.balance + c
                         /\ paid = IF k = n \/ pay >= due THEN due ELSE pay
    OBVIOUS
  <2>1. b = [balance |-> due - paid, interest |-> a.interest + c, paid |-> paid]
    BY <1>1, <1>10, <2>0 DEF MonthAfter
  <2>2. due \in Int /\ paid \in Int /\ due - paid \in 0 .. a.balance
    BY <1>1, <1>2, <1>4, <1>6, <2>0
  <2>3. /\ b.balance = due - paid /\ b.interest = a.interest + c /\ b.paid = paid
        /\ b \in [balance : Int, interest : Int, paid : Int]
    BY <1>2, <1>4, <2>1, <2>2
  <2>4. MonthTurns(a, b, c, pay, k = n)
    <3>1. CASE k = n \/ pay >= due
      BY <1>10, <2>0, <2>2, <2>3, <3>1 DEF MonthTurns
    <3>2. CASE ~(k = n \/ pay >= due)
      <4>1. paid = pay /\ ~(k = n \/ pay >= a.balance + c)
        BY <2>0, <3>2
      <4>2. b.balance = a.balance + c - pay /\ b.paid = pay /\ b.interest = a.interest + c
        BY <1>1, <1>2, <1>4, <2>0, <2>3, <4>1
      <4> QED BY <1>10, <4>1, <4>2 DEF MonthTurns
    <3> QED BY <3>1, <3>2
  <2>5. InMonth(p, b)
    BY <1>1, <1>2, <2>2, <2>3 DEF InMonth
  <2> QED BY <1>2, <1>3, <1>4, <1>6, <1>7, <1>8, <2>2, <2>3, <2>4, <2>5
<1> QED BY <1>9, <1>10

\* The months of a schedule, one after the other.
LEMMA MonthsPass ==
    ASSUME NEW p, NEW terms, NEW pay, NEW n, NEW d, NEW r, PaidMonthly(p, terms, pay, n, d, r),
           NEW s, s = Schedule(p, terms, pay)
    PROVE  /\ \A k \in 0 .. n : /\ InMonth(p, s[k])
                                /\ s[k].interest <= k * Ceiling(p * r, d)
           /\ s[0].balance = p
           /\ \A k \in 1 .. n : s[k] = MonthAfter(terms, pay, k, s[k - 1])
<1>1. /\ p \in Nat /\ pay \in Nat /\ n \in Nat \ {0} /\ d \in Nat \ {0} /\ r \in Nat
      /\ n = terms.months /\ p * r \in Int
  <2>1. p \in Nat /\ r \in Nat => p * r \in Int
    OBVIOUS
  <2> QED BY <2>1 DEF PaidMonthly
<1>2. s = [k \in 0 .. n |-> IF k = 0 THEN FirstMonth(p) ELSE MonthAfter(terms, pay, k, s[k - 1])]
  BY <1>1, ScheduleExists DEF IsSchedule
<1>3. s[0] = FirstMonth(p) /\ \A k \in 1 .. n : s[k] = MonthAfter(terms, pay, k, s[k - 1])
  BY <1>1, <1>2
<1>4. PICK g \in Nat : g = Ceiling(p * r, d)
  <2>1. p * r \in Nat
    BY <1>1
  <2> QED BY <1>1, <2>1, RoundIsWhole
<1> DEFINE Fine(k) == InMonth(p, s[k]) /\ s[k].interest <= k * g
           G == {k \in 0 .. n : Fine(k)}
<1>5. 0 \in G
  <2>1. 0 * g = 0
    BY <1>4
  <2>2. Fine(0)
    BY <1>1, <1>3, <2>1 DEF FirstMonth, InMonth
  <2> HIDE DEF Fine
  <2> QED BY <1>1, <2>2
<1>6. ASSUME NEW k \in 0 .. n - 1, k \in G PROVE k + 1 \in G
  <2>1. k + 1 \in 1 .. n /\ (k + 1) - 1 = k /\ k + 1 \in 0 .. n /\ k \in Nat
    BY <1>1
  <2>2. PICK a, b, c : a = s[k] /\ b = s[k + 1] /\ c = Round(a.balance * r, d)
    OBVIOUS
  <2>3. InMonth(p, a) /\ b = MonthAfter(terms, pay, k + 1, a)
    BY <1>3, <1>6, <2>1, <2>2
  <2>4. InMonth(p, b) /\ c \in Nat /\ c <= g /\ b.interest \in Int /\ b.interest <= a.interest + c
    BY <1>4, <2>2, <2>3, OneMonth
  <2>5. a.interest \in Int /\ a.interest <= k * g
    BY <1>6, <2>2, <2>3 DEF InMonth
  <2>6. (k + 1) * g = k * g + g /\ k * g \in Int
    BY <1>4, <2>1, OneMore
  <2>7. Fine(k + 1)
    BY <1>4, <2>2, <2>4, <2>5, <2>6
  <2> HIDE DEF Fine
  <2> QED BY <2>1, <2>7
<1>7. 0 .. n \subseteq G
  <2> HIDE DEF G
  <2> QED BY <1>1, <1>5, <1>6, NumbersUpTo
<1> QED BY <1>3, <1>4, <1>7 DEF FirstMonth

\* A month's rounding: w stands for d^k, x and e for what is left and what is
\* owed exactly, c for the interest of the month, l for what rounding may have
\* lost before it.
MonthRounds(r, d, pay, x, c, e, l, w) ==
    /\ r \in Nat /\ d \in Nat /\ pay \in Nat /\ x \in Int /\ c \in Int /\ e \in Int
    /\ l \in Int /\ w \in Nat
    /\ 2 * c * d <= 2 * (x * r) + d /\ 2 * (x * w - e) <= d * l

LEMMA RoundingGrows ==
    ASSUME NEW r, NEW d, NEW pay, NEW x, NEW c, NEW e, NEW l, NEW w, MonthRounds(r, d, pay, x, c, e, l, w)
    PROVE  2 * ((x + c - pay) * (d * w) - (e * (d + r) - pay * (d * w))) <= d * (l * (d + r) + w)
<1>0. /\ r \in Nat /\ d \in Nat /\ pay \in Nat /\ x \in Int /\ c \in Int /\ e \in Int
      /\ l \in Int /\ w \in Nat
      /\ 2 * c * d <= 2 * (x * r) + d /\ 2 * (x * w - e) <= d * l
  BY DEF MonthRounds
<1>1. 2 * ((x + c - pay) * (d * w) - (e * (d + r) - pay * (d * w)))
        = (2 * c * d) * w + 2 * (x * d * w) - 2 * (e * (d + r))
  BY <1>0
<1>2. (2 * c * d) * w <= (2 * (x * r) + d) * w
  <2>1. 2 * c * d \in Int /\ 2 * (x * r) + d \in Int
    BY <1>0
  <2> QED BY <1>0, <2>1, TimesKeepsOrder
<1>3. (2 * (x * w - e)) * (d + r) <= (d * l) * (d + r)
  <2>1. 2 * (x * w - e) \in Int /\ d * l \in Int /\ d + r \in Nat
    BY <1>0
  <2> QED BY <1>0, <2>1, TimesKeepsOrder
<1>4. /\ (2 * (x * r) + d) * w + 2 * (x * d * w) - 2 * (e * (d + r))
           = (2 * (x * w - e)) * (d + r) + d * w
      /\ d * (l * (d + r) + w) = (d * l) * (d + r) + d * w
  BY <1>0
<1>5. PICK g \in Int, h \in Int, i \in Int, j \in Int, m \in Int :
         /\ g = (2 * c * d) * w /\ h = (2 * (x * r) + d) * w
         /\ i = 2 * (x * d * w) - 2 * (e * (d + r))
         /\ j = (2 * (x * w - e)) * (d + r) /\ m = (d * l) * (d + r)
  <2>1. (2 * c * d) * w \in Int /\ (2 * (x * r) + d) * w \in Int
    BY <1>0
  <2>2. 2 * (x * d * w) - 2 * (e * (d + r)) \in Int
    BY <1>0
  <2>3. (2 * (x * w - e)) * (d + r) \in Int /\ (d * l) * (d + r) \in Int
    BY <1>0
  <2> QED BY <2>1, <2>2, <2>3, Zenon
<1>6. PICK q \in Int : q = d * w
  BY <1>0
<1>7. g <= h /\ j <= m /\ h + i = j + q
  BY <1>2, <1>3, <1>4, <1>5, <1>6
<1>8. g + i <= m + q
  BY <1>7
<1> QED BY <1>1, <1>4, <1>5, <1>6, <1>8

\* While something is left, it is what is owed exactly and the rounding of the
\* months.
LEMMA WhatIsLeft ==
    ASSUME NEW p, NEW terms, NEW pay, NEW n, NEW d, NEW r, PaidMonthly(p, terms, pay, n, d, r),
           NEW s, s = Schedule(p, terms, pay), NEW E, IsOwing(E, p, pay, n, d, r),
           NEW A, A = RoundingAllowed(terms), NEW k \in 0 .. n - 1
    PROVE  s[k].balance = 0 \/ 2 * (s[k].balance * Power(d, k) - E[k]) <= d * A[k]
<1>1. /\ p \in Nat /\ pay \in Nat /\ n \in Nat \ {0} /\ d \in Nat \ {0} /\ d \in Nat /\ r \in Nat
      /\ n = terms.months /\ d = Denominator(terms) /\ r = terms.rate
  BY DEF PaidMonthly
<1>2. /\ A[0] = 0 /\ \A i \in 0 .. n : A[i] \in Nat
      /\ \A i \in 1 .. n : A[i] = A[i - 1] * (d + r) + Power(d, i - 1)
  BY <1>1, AllowedExists
<1>3. /\ \A i \in 0 .. n : InMonth(p, s[i])
      /\ s[0].balance = p /\ \A i \in 1 .. n : s[i] = MonthAfter(terms, pay, i, s[i - 1])
  BY MonthsPass
<1> DEFINE Close(i) == s[i].balance = 0 \/ 2 * (s[i].balance * Power(d, i) - E[i]) <= d * A[i]
           G == {i \in 0 .. n - 1 : Close(i)}
<1>4. 0 \in G
  <2>1. E[0] = p /\ Power(d, 0) = 1
    BY PowerStarts DEF IsOwing
  <2>2. 2 * (p * 1 - p) = 0 /\ d * 0 = 0
    BY <1>1
  <2>3. Close(0)
    BY <1>2, <1>3, <2>1, <2>2
  <2> HIDE DEF Close
  <2> QED BY <1>1, <2>3
<1>5. ASSUME NEW i \in 0 .. (n - 1) - 1, i \in G PROVE i + 1 \in G
  <2>1. /\ i \in Nat /\ i \in 0 .. n /\ i + 1 \in 1 .. n /\ (i + 1) - 1 = i /\ i + 1 \in 0 .. n - 1
        /\ i + 1 # n
    BY <1>1
  <2>2. PICK a, b, c : a = s[i] /\ b = s[i + 1] /\ c = Round(a.balance * r, d)
    OBVIOUS
  <2>3. InMonth(p, a) /\ b = MonthAfter(terms, pay, i + 1, a)
    BY <1>3, <2>1, <2>2
  <2>4. MonthTurns(a, b, c, pay, i + 1 = n) /\ c \in Nat /\ 2 * c * d <= 2 * (a.balance * r) + d
    BY <2>2, <2>3, OneMonth
  <2>5. CASE b.balance = 0
    BY <2>1, <2>2, <2>5
  <2>6. CASE b.balance # 0
    <3>1. a.balance # 0 /\ b.balance = a.balance + c - pay
      BY <2>1, <2>4, <2>6 DEF MonthTurns
    <3>2. PICK x \in Int, e \in Int, l \in Int, w \in Nat :
             x = a.balance /\ e = E[i] /\ l = A[i] /\ w = Power(d, i)
      <4>1. a.balance \in Int
        BY <1>1, <2>3 DEF InMonth
      <4>2. E[i] \in Int /\ A[i] \in Nat /\ Power(d, i) \in Nat
        BY <1>1, <1>2, <2>1, PowerIsWhole DEF IsOwing
      <4> QED BY <4>1, <4>2
    <3>3. 2 * (x * w - e) <= d * l
      BY <1>5, <2>2, <3>1, <3>2
    <3>4. Power(d, i + 1) = d * w
      BY <2>1, <3>2, PowerGoesOn
    <3>5. E[i + 1] = e * (d + r) - pay * (d * w)
      BY <2>1, <3>2, <3>4 DEF IsOwing
    <3>6. A[i + 1] = l * (d + r) + w
      BY <1>2, <2>1, <3>2
    <3>7. 2 * c * d <= 2 * (x * r) + d
      BY <2>4, <3>2
    <3>8. 2 * ((x + c - pay) * (d * w) - (e * (d + r) - pay * (d * w))) <= d * (l * (d + r) + w)
      <4>1. MonthRounds(r, d, pay, x, c, e, l, w)
        BY <1>1, <2>4, <3>3, <3>7 DEF MonthRounds
      <4> QED BY <4>1, RoundingGrows
    <3>9. Close(i + 1)
      BY <2>2, <3>1, <3>2, <3>4, <3>5, <3>6, <3>8
    <3> HIDE DEF Close
    <3> QED BY <2>1, <3>9
  <2> QED BY <2>5, <2>6
<1>6. 0 .. n - 1 \subseteq G
  <2> HIDE DEF G
  <2>1. n - 1 \in Nat
    BY <1>1
  <2> QED BY <1>4, <1>5, <2>1, NumbersUpTo
<1> QED BY <1>6

\* The last payment settles what is left: little more than an instalment.
LEMMA LastPaymentIsClose ==
    ASSUME NEW p, NEW terms, NEW pay, NEW n, NEW d, NEW r, PaidMonthly(p, terms, pay, n, d, r),
           NEW s, s = Schedule(p, terms, pay), NEW E, IsOwing(E, p, pay, n, d, r), E[n] <= 0
    PROVE  /\ 2 * (s[n].paid - pay) * Power(d, n - 1) <= RoundingAllowed(terms)[n]
           /\ s[n].balance = 0
<1>1. /\ p \in Nat /\ pay \in Nat /\ n \in Nat \ {0} /\ d \in Nat \ {0} /\ d \in Nat /\ r \in Nat
      /\ n = terms.months /\ d = Denominator(terms) /\ r = terms.rate
  BY DEF PaidMonthly
<1>2. PICK A : A = RoundingAllowed(terms)
  OBVIOUS
<1>3. /\ \A i \in 0 .. n : A[i] \in Nat
      /\ \A i \in 1 .. n : A[i] = A[i - 1] * (d + r) + Power(d, i - 1)
  BY <1>1, <1>2, AllowedExists
<1>4. n - 1 \in 0 .. n /\ n \in 1 .. n /\ n \in 0 .. n /\ (n - 1) + 1 = n /\ n - 1 \in Nat
      /\ n - 1 \in 0 .. n - 1
  BY <1>1
<1>5. PICK a, b, c : a = s[n - 1] /\ b = s[n] /\ c = Round(a.balance * r, d)
  OBVIOUS
<1>6. InMonth(p, a) /\ b = MonthAfter(terms, pay, n, a)
  BY <1>4, <1>5, MonthsPass
<1>7. MonthTurns(a, b, c, pay, n = n) /\ c \in Nat /\ 2 * c * d <= 2 * (a.balance * r) + d
  BY <1>5, <1>6, OneMonth
<1>8. PICK x \in Nat, e \in Int, l \in Nat, w \in Nat :
         x = a.balance /\ e = E[n - 1] /\ l = A[n - 1] /\ w = Power(d, n - 1)
  <2>1. a.balance \in Nat
    BY <1>1, <1>6 DEF InMonth
  <2>2. E[n - 1] \in Int /\ A[n - 1] \in Nat /\ Power(d, n - 1) \in Nat
    BY <1>1, <1>3, <1>4, PowerIsWhole DEF IsOwing
  <2> QED BY <2>1, <2>2
<1>9. b.balance = 0
  BY <1>7 DEF MonthTurns
<1>10. A[n] = l * (d + r) + w /\ A[n] \in Nat
  BY <1>3, <1>4, <1>8
<1>11. CASE x = 0
  <2>1. b.paid = 0
    BY <1>7, <1>8, <1>11 DEF MonthTurns
  <2>2. 2 * (0 - pay) * w = -(2 * (pay * w)) /\ pay * w \in Nat
    BY <1>1
  <2>3. 2 * (b.paid - pay) * w <= A[n]
    BY <1>10, <2>1, <2>2
  <2> QED BY <1>2, <1>5, <1>8, <1>9, <2>3
<1>12. CASE x # 0
  <2>1. b.paid = x + c
    BY <1>7, <1>8, <1>12 DEF MonthTurns
  <2>2. 2 * (x * w - e) <= d * l
    BY <1>2, <1>4, <1>5, <1>8, <1>12, WhatIsLeft
  <2>3. PICK g \in Int : g = e * (d + r) - pay * (d * w) /\ g <= 0
    <3>1. Power(d, n) = d * w
      BY <1>4, <1>8, PowerGoesOn
    <3>2. E[n] = e * (d + r) - pay * (d * w) /\ E[n] \in Int
      BY <1>4, <1>8, <3>1 DEF IsOwing
    <3> QED BY <3>2
  <2>4. 2 * ((x + c - pay) * (d * w) - g) <= d * (l * (d + r) + w)
    <3>1. 2 * c * d <= 2 * (x * r) + d /\ x \in Int /\ l \in Int /\ c \in Int
      BY <1>7, <1>8
    <3>2. 2 * ((x + c - pay) * (d * w) - (e * (d + r) - pay * (d * w))) <= d * (l * (d + r) + w)
      <4>1. MonthRounds(r, d, pay, x, c, e, l, w)
        BY <1>1, <1>8, <2>2, <3>1 DEF MonthRounds
      <4> QED BY <4>1, RoundingGrows
    <3> QED BY <2>3, <3>2
  <2>5. PICK u \in Int : u = 2 * (x + c - pay) * w
    BY <1>1, <1>7
  <2>6. PICK v \in Int : v = A[n]
    BY <1>10
  <2>7. 2 * ((x + c - pay) * (d * w) - g) = d * u - 2 * g
    BY <1>1, <1>7, <2>5
  <2>8. d * (u - v) <= 0
    <3>1. d * (u - v) = d * u - d * v /\ d * u \in Int /\ d * v \in Int
      BY <1>1
    <3>2. d * u - 2 * g <= d * v
      BY <1>10, <2>4, <2>6, <2>7
    <3> QED BY <2>3, <3>1, <3>2
  <2>9. u - v <= 0
    BY <1>1, <2>8, SignOfProduct
  <2>10. 2 * (b.paid - pay) * w = u
    BY <1>1, <1>7, <2>1, <2>5
  <2> QED BY <1>2, <1>5, <1>8, <1>9, <2>5, <2>6, <2>9, <2>10
<1> QED BY <1>11, <1>12

\* The months of a loan's own schedule.
LEMMA LoanMonths ==
    ASSUME NEW p, NEW terms, TermsAreValid(p, terms), Projected(terms),
           NEW pay, pay = Instalment(p, terms),
           NEW n, n = terms.months, NEW d, d = Denominator(terms), NEW r, r = terms.rate
    PROVE  PaidMonthly(p, terms, pay, n, d, r)
<1>1. p \in Nat \ {0} /\ r \in Nat /\ n \in Nat \ {0} /\ d \in Nat \ {0} /\ pay \in Nat
  BY ReducingTerms
<1>2. p * r <= d * pay
  BY InstalmentIsLeast
<1> QED BY <1>1, <1>2 DEF PaidMonthly

\* The instalment of a reducing-balance loan is the least that pays it off; the
\* schedule pays it off, month by month, and its last payment differs from the
\* instalment by no more than the months' rounding (debt-interest.ts).
THEOREM ReducingLoansAgree ==
    ASSUME NEW p, NEW terms, CalculateDebtInterest(p, terms).ok, terms.method = "REDUCING"
    PROVE  ReducingAgrees(p, terms, CalculateDebtInterest(p, terms))
<1>1. PICK e, n, d, r, pay : /\ e = CalculateDebtInterest(p, terms) /\ n = terms.months
                             /\ d = Denominator(terms) /\ r = terms.rate /\ pay = Instalment(p, terms)
  OBVIOUS
<1>2. Projected(terms)
  BY DEF Projected
<1>3. TermsAreValid(p, terms) /\ e.payment = pay
  BY <1>1, <1>2, EstimateAddsUp
<1>4. /\ p \in Nat \ {0} /\ p \in Int /\ r \in Nat /\ n \in Nat \ {0} /\ d \in Nat \ {0}
      /\ d \in Nat /\ pay \in Nat
  BY <1>1, <1>2, <1>3, ReducingTerms
<1>5. PaidMonthly(p, terms, pay, n, d, r)
  BY <1>1, <1>2, <1>3, LoanMonths
<1>6. PICK s, E : s = Schedule(p, terms, pay) /\ E = Owed(p, terms, pay)
  OBVIOUS
<1>7. E[n] <= 0 /\ Owed(p, terms, pay - 1)[n] > 0
  BY <1>1, <1>2, <1>3, <1>6, InstalmentIsLeast
<1>8. IsOwing(E, p, pay, n, d, r)
  BY <1>1, <1>4, <1>6, OwedExists
<1>9. /\ 2 * (s[n].paid - pay) * Power(d, n - 1) <= RoundingAllowed(terms)[n]
      /\ s[n].balance = 0
  BY <1>5, <1>6, <1>7, <1>8, LastPaymentIsClose
<1>10. \A k \in 1 .. n : 0 <= s[k].balance /\ s[k].balance <= s[k - 1].balance
  <2>1. /\ \A k \in 0 .. n : InMonth(p, s[k])
        /\ \A k \in 1 .. n : s[k] = MonthAfter(terms, pay, k, s[k - 1])
    BY <1>5, <1>6, MonthsPass
  <2>2. ASSUME NEW k \in 1 .. n PROVE 0 <= s[k].balance /\ s[k].balance <= s[k - 1].balance
    <3>1. k \in 0 .. n /\ k - 1 \in 0 .. n
      BY <1>4
    <3>2. PICK a, b, c : a = s[k - 1] /\ b = s[k] /\ c = Round(a.balance * r, d)
      OBVIOUS
    <3>3. InMonth(p, a) /\ InMonth(p, b) /\ b = MonthAfter(terms, pay, k, a)
      BY <2>1, <3>1, <3>2
    <3>4. b.balance <= a.balance
      BY <1>5, <3>2, <3>3, OneMonth
    <3>5. 0 <= b.balance
      BY <1>4, <3>3 DEF InMonth
    <3> QED BY <3>2, <3>4, <3>5
  <2> QED BY <2>2
<1>11. /\ \A k \in 1 .. n - 1 : s[k].paid <= pay
       /\ SumFunctionOnSet([k \in 1 .. n |-> s[k].paid], 1 .. n) = e.total
  BY <1>1, <1>3, <1>6, LoansAreRepaid
<1> QED BY <1>1, <1>3, <1>6, <1>7, <1>9, <1>10, <1>11 DEF ReducingAgrees

\* Valid terms are refused only for a loan whose full interest, month by month on
\* the whole principal, would not fit in a safe integer.
LEMMA RefusedLoans ==
    ASSUME NEW p, NEW terms, TermsAreValid(p, terms), ~CalculateDebtInterest(p, terms).ok
    PROVE  /\ Projected(terms)
           /\ p + terms.months * Ceiling(p * terms.rate, Denominator(terms)) > MaxSafe
<1>1. PICK n, d, r, pay, flat, last :
         /\ n = terms.months /\ d = Denominator(terms) /\ r = terms.rate
         /\ pay = Instalment(p, terms) /\ flat = FlatInterest(p, terms)
         /\ last = Schedule(p, terms, pay)[n].interest
  OBVIOUS
<1>2. Projected(terms)
  BY DEF CalculateDebtInterest
<1>3. PICK interest : interest = IF terms.method = "FLAT" THEN flat ELSE last
  OBVIOUS
<1>4. p + interest > MaxSafe
  BY <1>1, <1>2, <1>3 DEF CalculateDebtInterest
<1>5. p \in Nat \ {0} /\ r \in Nat /\ n \in Nat \ {0} /\ d \in Nat \ {0} /\ pay \in Nat
  BY <1>1, <1>2, ReducingTerms
<1>6. PICK x \in Nat : x = p * r
  BY <1>5
<1>7. PICK g \in Nat : g = Ceiling(x, d) /\ x <= d * g
  <2>1. Ceiling(x, d) \in Nat
    BY <1>5, <1>6, RoundIsWhole
  <2>2. x <= d * Ceiling(x, d)
    BY <1>5, <1>6, CeilingIsEnough
  <2> QED BY <2>1, <2>2
<1>8. PICK t \in Nat : t = n * g
  BY <1>5
<1>9. interest \in Int /\ interest <= t
  <2>1. CASE terms.method = "FLAT"
    <3>1. PICK y \in Nat, z \in Nat : y = x * n /\ z = d * g
      BY <1>5
    <3>2. z \in Int /\ x \in Int /\ n \in Nat
      BY <1>5
    <3>3. x * n <= z * n
      BY <1>7, <3>1, <3>2, TimesKeepsOrder
    <3>4. z * n = d * t
      BY <1>5, <1>8, <3>1
    <3>5. y <= d * t
      BY <3>1, <3>3, <3>4
    <3>6. Round(y, d) <= t /\ Round(y, d) \in Int
      BY <1>5, <3>1, <3>5, RoundAtMost, RoundIsWhole
    <3>7. flat = Round(y, d)
      BY <1>1, <1>6, <3>1 DEF FlatInterest
    <3> QED BY <1>3, <2>1, <3>6, <3>7
  <2>2. CASE terms.method # "FLAT"
    <3>1. PaidMonthly(p, terms, pay, n, d, r)
      BY <1>1, <1>2, LoanMonths
    <3>2. n \in 0 .. n
      BY <1>5
    <3>3. PICK s : s = Schedule(p, terms, pay)
      OBVIOUS
    <3>4. InMonth(p, s[n]) /\ s[n].interest <= n * Ceiling(p * r, d)
      BY <3>1, <3>2, <3>3, MonthsPass
    <3>5. s[n].interest \in Int
      BY <3>4 DEF InMonth
    <3>6. interest = s[n].interest
      BY <1>1, <1>3, <2>2, <3>3
    <3> QED BY <1>6, <1>7, <1>8, <3>4, <3>5, <3>6
  <2> QED BY <2>1, <2>2
<1>10. p + t > MaxSafe
  BY <1>4, <1>5, <1>9, WorksheetsAssumption
<1> QED BY <1>1, <1>2, <1>6, <1>7, <1>8, <1>10

\* A loan's estimate is what its definition says, for all terms (debt-interest.ts).
THEOREM LoansAgree ==
    ASSUME NEW p \in Nat, NEW terms
    PROVE  LoanAgrees(p, terms)
<1>1. PICK e : e = CalculateDebtInterest(p, terms)
  OBVIOUS
<1>2. CASE e.ok
  <2>1. TermsAreValid(p, terms) /\ e.total = p + e.interest
    <3>1. CASE Projected(terms)
      BY <1>1, <1>2, <3>1, EstimateAddsUp
    <3>2. CASE ~Projected(terms)
      <4>1. TermsAreValid(p, terms)
        BY <1>1, <1>2 DEF CalculateDebtInterest, NoEstimate
      <4>2. e = [ok |-> TRUE, interest |-> 0, total |-> p, payment |-> 0]
        BY <1>1, <3>2, <4>1 DEF CalculateDebtInterest
      <4> QED BY <4>1, <4>2
    <3> QED BY <3>1, <3>2
  <2>2. terms.method = "FLAT" => FlatAgrees(p, terms, e)
    BY <1>1, <1>2, FlatLoansAgree
  <2>3. terms.method = "REDUCING" => ReducingAgrees(p, terms, e)
    BY <1>1, <1>2, ReducingLoansAgree
  <2> QED BY <1>1, <1>2, <2>1, <2>2, <2>3 DEF LoanAgrees
<1>3. CASE ~e.ok
  BY <1>1, <1>3, RefusedLoans DEF LoanAgrees
<1> QED BY <1>2, <1>3

-----------------------------------------------------------------------------
(* Sums in order, of one, and from the other end.                          *)

LEMMA SumIsNatural ==
    ASSUME NEW f, NEW S, IsFiniteSet(S), \A x \in S : f[x] \in Nat
    PROVE  SumFunctionOnSet(f, S) \in Nat
<1> DEFINE A(s) == SumFunctionOnSet(f, s)
           G == {s \in SUBSET S : A(s) \in Nat}
<1>1. \A s \in SUBSET S : Whole(f, s)
  BY FS_Subset DEF Whole
<1>2. {} \in G
  BY SumOfNothing
<1>3. ASSUME NEW s \in G, NEW x \in S \ s PROVE s \cup {x} \in G
  <2>0. s \cup {x} \in SUBSET S /\ x \notin s
    OBVIOUS
  <2>1. s \cup {x} \in SUBSET S /\ A(s \cup {x}) = f[x] + A(s)
    BY <1>1, <2>0, SumAdds
  <2>2. f[x] \in Nat /\ A(s) \in Nat
    OBVIOUS
  <2> HIDE DEF A
  <2> QED BY <2>1, <2>2
<1>4. S \in G
  <2>1. G \in SUBSET (SUBSET S)
    OBVIOUS
  <2> HIDE DEF G
  <2> QED BY <1>2, <1>3, <2>1, SubsetsInOrder
<1> QED BY <1>4

LEMMA SumKeepsOrder ==
    ASSUME NEW f, NEW g, NEW S, Whole(f, S), Whole(g, S), \A x \in S : f[x] <= g[x]
    PROVE  SumFunctionOnSet(f, S) <= SumFunctionOnSet(g, S)
<1> DEFINE h == [x \in S |-> g[x] - f[x]]
<1>1. /\ \A x \in S : h[x] \in Nat /\ g[x] = f[x] + h[x]
      /\ IsFiniteSet(S) /\ Whole(h, S)
  BY DEF Whole
<1> HIDE DEF h
<1>2. PICK a \in Int, b \in Int, c \in Nat : /\ a = SumFunctionOnSet(f, S) /\ b = SumFunctionOnSet(g, S)
                                             /\ c = SumFunctionOnSet(h, S)
  <2>1. SumFunctionOnSet(f, S) \in Int /\ SumFunctionOnSet(g, S) \in Int
    BY SumIsWhole
  <2>2. SumFunctionOnSet(h, S) \in Nat
    BY <1>1, SumIsNatural
  <2> QED BY <2>1, <2>2
<1>3. b = a + c
  BY <1>1, <1>2, SumOfSums
<1> QED BY <1>2, <1>3

LEMMA SumOfOne ==
    ASSUME NEW f, NEW x, f[x] \in Int
    PROVE  SumFunctionOnSet(f, {x}) = f[x]
<1>1. Whole(f, {x})
  BY FS_Singleton DEF Whole
<1>2. SumFunctionOnSet(f, {x}) = f[x] + SumFunctionOnSet(f, {x} \ {x})
  BY <1>1, SumTakes
<1>3. {x} \ {x} = {}
  OBVIOUS
<1> QED BY <1>2, <1>3, SumOfNothing

\* t is what each class of K adds up to.
Classes(f, S, K, c, t) ==
    /\ Whole(f, S) /\ IsFiniteSet(K) /\ \A x \in S : c[x] \in K
    /\ \A k \in K : t[k] = SumFunctionOnSet(f, {x \in S : c[x] = k})

LEMMA SumOfClasses ==
    ASSUME NEW f, NEW S, NEW K, NEW c, NEW t, Classes(f, S, K, c, t)
    PROVE  SumFunctionOnSet(t, K) = SumFunctionOnSet(f, S)
  BY SumByClass DEF Classes

\* Adding up from the other end.
LEMMA SumTurned ==
    ASSUME NEW n \in Nat, NEW S \in SUBSET (1 .. n), NEW f, \A i \in 1 .. n : f[i] \in Int,
           NEW K, K = {i \in 1 .. n : n + 1 - i \in S},
           NEW t, \A k \in 1 .. n : t[k] = f[n + 1 - k]
    PROVE  SumFunctionOnSet(t, K) = SumFunctionOnSet(f, S)
<1>1. /\ IsFiniteSet(S) /\ IsFiniteSet(K) /\ Whole(f, S)
  <2>1. IsFiniteSet(1 .. n)
    BY FS_Interval
  <2>2. K \in SUBSET (1 .. n)
    OBVIOUS
  <2> QED BY <2>1, <2>2, FS_Subset DEF Whole
<1> DEFINE c == [i \in 1 .. n |-> n + 1 - i]
<1>2. \A x \in S : c[x] \in K
  <2>1. \A x \in 1 .. n : n + 1 - x \in 1 .. n /\ n + 1 - (n + 1 - x) = x
    OBVIOUS
  <2> QED BY <2>1
<1>3. \A k \in K : t[k] = SumFunctionOnSet(f, {x \in S : c[x] = k})
  <2>1. ASSUME NEW k \in K PROVE t[k] = SumFunctionOnSet(f, {x \in S : c[x] = k})
    <3>1. k \in 1 .. n /\ n + 1 - k \in S /\ n + 1 - k \in 1 .. n
      OBVIOUS
    <3>2. \A x \in 1 .. n : n + 1 - x = k <=> x = n + 1 - k
      BY <3>1
    <3>3. {x \in S : c[x] = k} = {n + 1 - k}
      BY <3>1, <3>2
    <3>4. t[k] = f[n + 1 - k] /\ f[n + 1 - k] \in Int
      BY <3>1
    <3> QED BY <3>3, <3>4, SumOfOne
  <2> QED BY <2>1
<1> HIDE DEF c
<1>4. Classes(f, S, K, c, t)
  BY <1>1, <1>2, <1>3, Zenon DEF Classes
<1> QED BY <1>4, SumOfClasses

-----------------------------------------------------------------------------
(* The tax bands, and the tax of an income unit by unit.                   *)

\* The bands' number and facts that the lemmas on them need.
BandFacts(n) ==
    /\ n = Len(Bands) /\ n \in Nat \ {0} /\ DOMAIN Bands = 1 .. n
    /\ \A i \in 1 .. n : Bands[i].width \in Nat /\ Bands[i].rate \in Nat
    /\ Bands[n].width = MaxSafe /\ MaxSafe \in Nat
    /\ BandTop(0) = 0 /\ \A i \in 0 .. n : BandTop(i) \in Nat
    /\ \A i \in 1 .. n : BandTop(i) = BandTop(i - 1) + Bands[i].width

LEMMA BandsAreFine == \E n : BandFacts(n)
<1>1. PICK n \in Nat \ {0} : n = Len(Bands) /\ DOMAIN Bands = 1 .. n
  BY WorksheetsAssumption
<1>2. \A i \in 1 .. n : Bands[i] \in [width : Nat, rate : Nat]
  <2>1. Bands \in Seq([width : Nat, rate : Nat])
    BY WorksheetsAssumption
  <2> DEFINE B == [width : Nat, rate : Nat]
  <2>2. Bands \in Seq(B)
    BY <2>1
  <2> HIDE DEF B
  <2>3. \A i \in 1 .. Len(Bands) : Bands[i] \in B
    BY <2>2, ElementOfSeq
  <2> QED BY <1>1, <2>3 DEF B
<1>3. \A i \in 1 .. n : Bands[i].width \in Nat /\ Bands[i].rate \in Nat
  BY <1>2
<1> DEFINE w == [k \in DOMAIN Bands |-> Bands[k].width]
<1>4. \A i \in 0 .. n : IsFiniteSet(1 .. i) /\ \A k \in 1 .. i : w[k] \in Nat
  <2>1. \A i \in 0 .. n : i \in Int /\ 1 .. i \subseteq 1 .. n
    BY <1>1
  <2>2. \A i \in 0 .. n : IsFiniteSet(1 .. i)
    BY <2>1, FS_Interval
  <2> QED BY <1>1, <1>3, <2>1, <2>2
<1>5. \A i \in Int : BandTop(i) = SumFunctionOnSet(w, 1 .. i)
  BY DEF BandTop
<1>6. \A i \in 1 .. n : w[i] = Bands[i].width
  BY <1>1
<1> HIDE DEF w
<1>7. BandTop(0) = 0
  <2>1. 1 .. 0 = {}
    OBVIOUS
  <2> QED BY <1>5, <2>1, SumOfNothing
<1>8. \A i \in 0 .. n : BandTop(i) \in Nat
  <2>1. \A i \in 0 .. n : i \in Int
    OBVIOUS
  <2> QED BY <1>4, <1>5, <2>1, SumIsNatural
<1>9. ASSUME NEW i \in 1 .. n PROVE BandTop(i) = BandTop(i - 1) + Bands[i].width
  <2>1. i \in 0 .. n /\ i - 1 \in 0 .. n /\ i \in 1 .. i /\ (1 .. i) \ {i} = 1 .. i - 1
    OBVIOUS
  <2>2. Whole(w, 1 .. i)
    BY <1>4, <2>1 DEF Whole
  <2>3. SumFunctionOnSet(w, 1 .. i) = w[i] + SumFunctionOnSet(w, 1 .. i - 1)
    BY <2>1, <2>2, SumTakes
  <2>4. BandTop(i) = w[i] + BandTop(i - 1)
    BY <1>5, <2>3
  <2>5. BandTop(i - 1) \in Nat /\ Bands[i].width \in Nat
    BY <1>3, <1>8, <2>1
  <2> QED BY <1>6, <2>4, <2>5
<1>10. Bands[n].width = MaxSafe /\ MaxSafe \in Nat
  BY <1>1, WorksheetsAssumption
<1>11. BandFacts(n)
  BY <1>1, <1>3, <1>7, <1>8, <1>9, <1>10 DEF BandFacts
<1> QED BY <1>11

LEMMA BandTopsGrow ==
    ASSUME NEW n, BandFacts(n), NEW i \in 0 .. n, NEW j \in i .. n
    PROVE  BandTop(i) <= BandTop(j)
<1>1. n \in Nat /\ i \in Nat /\ j \in Nat /\ i <= j /\ j <= n
  BY DEF BandFacts
<1>2. PICK m \in Nat : j = i + m
  <2>1. j - i \in Nat /\ j = i + (j - i)
    BY <1>1
  <2> QED BY <2>1
<1> DEFINE G == {k \in 0 .. m : BandTop(i) <= BandTop(i + k)}
<1>3. 0 \in G
  <2>1. i + 0 = i /\ BandTop(i) \in Nat /\ 0 \in 0 .. m
    BY <1>1 DEF BandFacts
  <2> QED BY <2>1
<1>4. ASSUME NEW k \in 0 .. m - 1, k \in G PROVE k + 1 \in G
  <2>1. /\ i + (k + 1) \in 1 .. n /\ (i + (k + 1)) - 1 = i + k /\ i + k \in 0 .. n
        /\ k + 1 \in 0 .. m /\ i + (k + 1) \in 0 .. n
    BY <1>1, <1>2
  <2>2. /\ BandTop(i + (k + 1)) = BandTop(i + k) + Bands[i + (k + 1)].width
        /\ Bands[i + (k + 1)].width \in Nat /\ BandTop(i + k) \in Nat /\ BandTop(i) \in Nat
    BY <2>1 DEF BandFacts
  <2>3. BandTop(i) <= BandTop(i + k)
    BY <1>4
  <2>4. BandTop(i) <= BandTop(i + (k + 1))
    BY <2>2, <2>3
  <2> QED BY <2>1, <2>4
<1>5. 0 .. m \subseteq G
  <2> HIDE DEF G
  <2> QED BY <1>3, <1>4, NumbersUpTo
<1>6. m \in 0 .. m
  OBVIOUS
<1> QED BY <1>2, <1>5, <1>6

\* A unit is in one band.
LEMMA BandOfIs ==
    ASSUME NEW n, BandFacts(n), NEW i \in 1 .. n, NEW x \in Nat, BandTop(i - 1) < x, x <= BandTop(i)
    PROVE  BandOf(x) = i
<1> DEFINE P(j) == BandTop(j - 1) < x /\ x <= BandTop(j)
<1>1. n \in Nat /\ DOMAIN Bands = 1 .. n /\ \A j \in 0 .. n : BandTop(j) \in Nat
  BY DEF BandFacts
<1>2. ASSUME NEW j \in 1 .. n, P(j) PROVE j = i
  <2>1. i \in Nat /\ j \in Nat /\ i \in 0 .. n /\ j \in 0 .. n /\ i - 1 \in 0 .. n /\ j - 1 \in 0 .. n
    BY <1>1
  <2>2. CASE j < i
    <3>1. i - 1 \in j .. n
      BY <2>1, <2>2
    <3>2. BandTop(j) <= BandTop(i - 1)
      BY <2>1, <3>1, BandTopsGrow
    <3>3. BandTop(j) \in Nat /\ BandTop(i - 1) \in Nat
      BY <1>1, <2>1
    <3> QED BY <1>2, <3>2, <3>3
  <2>3. CASE i < j
    <3>1. j - 1 \in i .. n
      BY <2>1, <2>3
    <3>2. BandTop(i) <= BandTop(j - 1)
      BY <2>1, <3>1, BandTopsGrow
    <3>3. BandTop(i) \in Nat /\ BandTop(j - 1) \in Nat
      BY <1>1, <2>1
    <3> QED BY <1>2, <3>2, <3>3
  <2> QED BY <2>1, <2>2, <2>3
<1>3. P(i)
  OBVIOUS
<1>4. BandOf(x) = CHOOSE j \in DOMAIN Bands : P(j)
  BY DEF BandOf
<1> HIDE DEF P
<1>5. BandOf(x) \in DOMAIN Bands /\ P(BandOf(x))
  BY <1>1, <1>3, <1>4
<1> QED BY <1>1, <1>2, <1>5

\* Every unit the bands reach is in one.
LEMMA UnitHasBand ==
    ASSUME NEW n, BandFacts(n), NEW x \in Nat \ {0}, x <= BandTop(n)
    PROVE  \E i \in 1 .. n : BandTop(i - 1) < x /\ x <= BandTop(i)
<1>1. n \in Nat /\ BandTop(0) = 0 /\ \A j \in 0 .. n : BandTop(j) \in Nat
  BY DEF BandFacts
<1> DEFINE S == {i \in 0 .. n : x <= BandTop(i)}
<1>2. S # {} /\ S \in SUBSET Nat
  <2>1. n \in 0 .. n /\ 0 .. n \subseteq Nat
    BY <1>1
  <2> QED BY <2>1
<1>3. PICK m \in S : \A k \in S : m <= k
  <2> HIDE DEF S
  <2> QED BY <1>2, LeastExists
<1>4. m \in 0 .. n /\ x <= BandTop(m)
  OBVIOUS
<1>5. m # 0
  BY <1>1, <1>4
<1>6. m \in 1 .. n /\ m - 1 \in 0 .. n /\ ~(m <= m - 1)
  BY <1>1, <1>4, <1>5
<1>7. BandTop(m - 1) < x
  <2>1. m - 1 \notin S
    BY <1>3, <1>6
  <2>2. ~(x <= BandTop(m - 1)) /\ BandTop(m - 1) \in Nat
    BY <1>1, <1>6, <2>1
  <2> QED BY <2>2
<1> QED BY <1>4, <1>6, <1>7

\* One unit more is taxed at the rate of its band.
LEMMA UnitTaxGrows ==
    ASSUME NEW n, BandFacts(n), NEW y \in Nat, y + 1 <= BandTop(n)
    PROVE  /\ UnitTax(y) \in Nat /\ Bands[BandOf(y + 1)].rate \in Nat
           /\ UnitTax(y + 1) = UnitTax(y) + Bands[BandOf(y + 1)].rate
<1> DEFINE f == [x \in 1 .. y |-> Bands[BandOf(x)].rate]
           g == [x \in 1 .. y + 1 |-> Bands[BandOf(x)].rate]
<1>1. ASSUME NEW x \in 1 .. y + 1 PROVE Bands[BandOf(x)].rate \in Nat
  <2>1. x \in Nat \ {0} /\ x <= BandTop(n)
    <3>1. BandTop(n) \in Nat
      BY DEF BandFacts
    <3> QED BY <3>1
  <2>2. PICK i \in 1 .. n : BandTop(i - 1) < x /\ x <= BandTop(i)
    BY <2>1, UnitHasBand
  <2>3. BandOf(x) = i
    BY <2>1, <2>2, BandOfIs
  <2> QED BY <2>3 DEF BandFacts
<1>2. /\ IsFiniteSet(1 .. y) /\ IsFiniteSet(1 .. y + 1) /\ y + 1 \in 1 .. y + 1
      /\ (1 .. y + 1) \ {y + 1} = 1 .. y /\ 1 .. y \subseteq 1 .. y + 1
  <2>1. 1 \in Int /\ y \in Int /\ y + 1 \in Int
    OBVIOUS
  <2>2. IsFiniteSet(1 .. y) /\ IsFiniteSet(1 .. y + 1)
    BY <2>1, FS_Interval
  <2>3. y + 1 \in 1 .. y + 1 /\ 1 .. y \subseteq 1 .. y + 1
    OBVIOUS
  <2>4. (1 .. y + 1) \ {y + 1} = 1 .. y
    OBVIOUS
  <2> QED BY <2>2, <2>3, <2>4
<1>3. /\ \A x \in 1 .. y : f[x] \in Nat /\ f[x] = g[x]
      /\ \A x \in 1 .. y + 1 : g[x] \in Nat
  BY <1>1, <1>2
<1>4. UnitTax(y) = SumFunctionOnSet(f, 1 .. y) /\ UnitTax(y + 1) = SumFunctionOnSet(g, 1 .. y + 1)
  BY DEF UnitTax
<1>5. g[y + 1] = Bands[BandOf(y + 1)].rate
  BY <1>2
<1> HIDE DEF f, g
<1>6. SumFunctionOnSet(g, 1 .. y + 1) = g[y + 1] + SumFunctionOnSet(g, 1 .. y)
  <2>1. Whole(g, 1 .. y + 1)
    BY <1>2, <1>3 DEF Whole
  <2> QED BY <1>2, <2>1, SumTakes
<1>7. SumFunctionOnSet(f, 1 .. y) = SumFunctionOnSet(g, 1 .. y)
  <2>1. Whole(f, 1 .. y)
    BY <1>2, <1>3 DEF Whole
  <2> QED BY <1>3, <2>1, SumsOfEquals
<1>8. UnitTax(y) \in Nat
  BY <1>2, <1>3, <1>4, SumIsNatural
<1>9. Bands[BandOf(y + 1)].rate \in Nat
  BY <1>1, <1>2
<1> QED BY <1>4, <1>5, <1>6, <1>7, <1>8, <1>9

LEMMA NoUnitTax == UnitTax(0) = 0
<1>1. 1 .. 0 = {}
  OBVIOUS
<1>2. UnitTax(0) = SumFunctionOnSet([x \in 1 .. 0 |-> Bands[BandOf(x)].rate], 1 .. 0)
  BY DEF UnitTax
<1> QED BY <1>1, <1>2, SumOfNothing

\* Within a band every unit is taxed at its rate.
LEMMA UnitTaxInBand ==
    ASSUME NEW n, BandFacts(n), NEW i \in 1 .. n, NEW m \in Nat, m <= Bands[i].width,
           NEW t, t = BandTop(i - 1), UnitTax(t) \in Nat
    PROVE  UnitTax(t + m) = UnitTax(t) + m * Bands[i].rate
<1>1. PICK w \in Nat, r \in Nat : w = Bands[i].width /\ r = Bands[i].rate
  BY DEF BandFacts
<1>2. t \in Nat /\ BandTop(i) = t + w /\ t + w <= BandTop(n) /\ BandTop(n) \in Nat
  <2>1. n \in Nat /\ i - 1 \in 0 .. n /\ i \in 0 .. n /\ n \in i .. n /\ n \in 0 .. n
    BY DEF BandFacts
  <2>2. BandTop(i) <= BandTop(n)
    BY <2>1, BandTopsGrow
  <2>3. t \in Nat /\ BandTop(i) = t + w /\ BandTop(n) \in Nat
    BY <1>1, <2>1 DEF BandFacts
  <2> QED BY <2>2, <2>3
<1>3. PICK u \in Nat : u = UnitTax(t)
  OBVIOUS
<1> DEFINE G == {k \in 0 .. m : UnitTax(t + k) = u + k * r}
<1>4. 0 \in G
  <2>1. t + 0 = t /\ u + 0 * r = u /\ 0 \in 0 .. m
    BY <1>2
  <2> QED BY <1>3, <2>1
<1>5. ASSUME NEW k \in 0 .. m - 1, k \in G PROVE k + 1 \in G
  <2>1. PICK y \in Nat : y = t + k
    BY <1>2
  <2>2. /\ y + 1 = t + (k + 1) /\ y + 1 <= t + w /\ t < y + 1 /\ y + 1 \in Nat
        /\ k + 1 \in 0 .. m /\ k \in Nat
    BY <1>1, <1>2, <2>1
  <2>3. y + 1 <= BandTop(n)
    BY <1>1, <1>2, <2>2
  <2>4. BandOf(y + 1) = i
    BY <1>2, <2>2, BandOfIs
  <2>5. UnitTax(y + 1) = UnitTax(y) + r
    BY <1>1, <2>3, <2>4, UnitTaxGrows
  <2>6. UnitTax(y) = u + k * r
    BY <1>5, <2>1
  <2>7. (u + k * r) + r = u + (k + 1) * r
    BY <2>2, OneMore
  <2>8. UnitTax(t + (k + 1)) = u + (k + 1) * r
    BY <2>2, <2>5, <2>6, <2>7
  <2> QED BY <2>2, <2>8
<1>6. 0 .. m \subseteq G
  <2> HIDE DEF G
  <2> QED BY <1>4, <1>5, NumbersUpTo
<1>7. m \in 0 .. m
  OBVIOUS
<1> QED BY <1>1, <1>3, <1>6, <1>7

\* What band i makes of the income left and of the tax so far.
BandStep(b, i) ==
    LET amount == Lesser(b.left, Bands[i].width) IN
    [left |-> b.left - amount, sum |-> b.sum + amount * Bands[i].rate]

IsBanded(income, B) ==
    B = [i \in 0 .. Len(Bands) |->
           IF i = 0 THEN [left |-> income, sum |-> 0]
           ELSE LET amount == Lesser(B[i - 1].left, Bands[i].width) IN
                [left |-> B[i - 1].left - amount,
                 sum |-> B[i - 1].sum + amount * Bands[i].rate]]

LEMMA BandsUnfold ==
    ASSUME NEW income
    PROVE  BandNumerator(income) = (CHOOSE B : IsBanded(income, B))[Len(Bands)].sum
  BY DEF BandNumerator, IsBanded

LEMMA LesserIs ==
    ASSUME NEW a \in Int, NEW b \in Int
    PROVE  /\ Lesser(a, b) \in Int /\ Lesser(a, b) <= a /\ Lesser(a, b) <= b
           /\ Lesser(a, b) = a \/ Lesser(a, b) = b
  BY DEF Lesser

LEMMA BandTableExists ==
    ASSUME NEW n, BandFacts(n), NEW income \in Nat
    PROVE  \E B : /\ BandNumerator(income) = B[n].sum /\ B[0] = [left |-> income, sum |-> 0]
                  /\ \A i \in 1 .. n : B[i] = BandStep(B[i - 1], i)
<1> DEFINE R == [left : Int, sum : Int]
           h == [x \in (1 .. n) \X R |-> BandStep(x[2], x[1])]
           a == [left |-> income, sum |-> 0]
<1>1. n \in Nat /\ n = Len(Bands) /\ \A i \in 1 .. n : Bands[i].width \in Nat /\ Bands[i].rate \in Nat
  BY DEF BandFacts
<1>2. ASSUME NEW b \in R, NEW i \in 1 .. n PROVE BandStep(b, i) \in R
  <2>1. PICK w \in Int, r \in Int : w = Bands[i].width /\ r = Bands[i].rate
    BY <1>1
  <2>2. PICK m \in Int : m = Lesser(b.left, w)
    BY LesserIs
  <2>3. b.left - m \in Int /\ b.sum + m * r \in Int
    OBVIOUS
  <2> QED BY <2>1, <2>2, <2>3 DEF BandStep
<1>3. a \in R
  OBVIOUS
<1> HIDE DEF R, a
<1>4. h \in [(1 .. n) \X R -> R]
  BY <1>2
<1>5. PICK f : IsTable(n, R, a, h, f)
  <2> HIDE DEF h
  <2> QED BY <1>1, <1>3, <1>4, TableExists
<1>6. f[0] = a /\ \A i \in 1 .. n : f[i] = BandStep(f[i - 1], i)
  <2>1. \A i \in 1 .. n : <<i, f[i - 1]>> \in (1 .. n) \X R
    <3>1. \A i \in 1 .. n : i - 1 \in 0 .. n
      BY <1>1
    <3> QED BY <1>5, <3>1 DEF IsTable
  <2> QED BY <1>5, <2>1 DEF IsTable
<1> HIDE DEF h
<1>7. IsBanded(income, f)
  <2>1. \A i \in 0 .. n : i = 0 \/ i \in 1 .. n
    BY <1>1
  <2>2. \A i \in 0 .. n : f[i] = IF i = 0 THEN a ELSE BandStep(f[i - 1], i)
    BY <1>6, <2>1
  <2>3. f = [i \in 0 .. n |-> IF i = 0 THEN a ELSE BandStep(f[i - 1], i)]
    BY <1>5, <2>2 DEF IsTable
  <2> QED BY <1>1, <2>3, Zenon DEF IsBanded, BandStep, a
<1> DEFINE B == CHOOSE x : IsBanded(income, x)
<1>8. IsBanded(income, B) /\ BandNumerator(income) = B[n].sum
  BY <1>1, <1>7, BandsUnfold
<1> HIDE DEF B
<1>9. B = [i \in 0 .. n |-> IF i = 0 THEN a ELSE BandStep(B[i - 1], i)]
  BY <1>1, <1>8, Zenon DEF IsBanded, BandStep, a
<1>10. B[0] = a /\ \A i \in 1 .. n : B[i] = BandStep(B[i - 1], i)
  <2>1. 0 \in 0 .. n /\ \A i \in 1 .. n : i \in 0 .. n /\ i # 0
    BY <1>1
  <2> QED BY <1>9, <2>1, Zenon
<1> QED BY <1>8, <1>10 DEF a

\* What is left after the first i bands, and the tax of the part they hold.
Banded(b, income, top) ==
    IF income <= top THEN b = [left |-> 0, sum |-> UnitTax(income)]
    ELSE b = [left |-> income - top, sum |-> UnitTax(top)]

LEMMA UnitTaxIsWhole ==
    ASSUME NEW n, BandFacts(n), NEW y \in Nat, y <= BandTop(n)
    PROVE  UnitTax(y) \in Nat
<1>1. CASE y = 0
  BY <1>1, NoUnitTax
<1>2. CASE y # 0
  <2>1. PICK z \in Nat : z + 1 = y
    <3>1. y - 1 \in Nat /\ (y - 1) + 1 = y
      BY <1>2
    <3> QED BY <3>1
  <2>2. z + 1 <= BandTop(n)
    BY <2>1
  <2>3. /\ UnitTax(z) \in Nat /\ Bands[BandOf(z + 1)].rate \in Nat
        /\ UnitTax(z + 1) = UnitTax(z) + Bands[BandOf(z + 1)].rate
    BY <2>2, UnitTaxGrows
  <2> QED BY <2>1, <2>3
<1> QED BY <1>1, <1>2

LEMMA BandsGoOn ==
    ASSUME NEW n, BandFacts(n), NEW i \in 1 .. n, NEW income \in Nat, income <= BandTop(n),
           NEW a, Banded(a, income, BandTop(i - 1))
    PROVE  Banded(BandStep(a, i), income, BandTop(i))
<1>1. PICK w \in Nat, r \in Nat, t \in Nat :
         w = Bands[i].width /\ r = Bands[i].rate /\ t = BandTop(i - 1)
  <2>1. n \in Nat /\ i - 1 \in 0 .. n
    BY DEF BandFacts
  <2> QED BY <2>1 DEF BandFacts
<1>2. BandTop(i) = t + w
  BY <1>1 DEF BandFacts
<1>3. CASE income <= t
  <2>1. a = [left |-> 0, sum |-> UnitTax(income)]
    BY <1>1, <1>3 DEF Banded
  <2>2. UnitTax(income) \in Nat
    BY UnitTaxIsWhole
  <2>3. Lesser(a.left, w) = 0
    BY <2>1 DEF Lesser
  <2>4. a.left - 0 = 0 /\ a.sum + 0 * r = UnitTax(income)
    BY <2>1, <2>2
  <2>5. BandStep(a, i) = [left |-> 0, sum |-> UnitTax(income)]
    BY <1>1, <2>3, <2>4 DEF BandStep
  <2>6. income <= t + w
    BY <1>3
  <2> QED BY <1>2, <2>5, <2>6 DEF Banded
<1>4. CASE income > t
  <2>1. PICK x \in Nat : income = t + x /\ x > 0 /\ x = income - t
    BY <1>4
  <2>2. PICK u \in Nat : u = UnitTax(t)
    <3>1. t <= BandTop(n)
      <4>1. BandTop(n) \in Nat
        BY DEF BandFacts
      <4> QED BY <1>4, <4>1
    <3> QED BY <3>1, UnitTaxIsWhole
  <2>3. a = [left |-> x, sum |-> u]
    <3>1. ~(income <= t)
      BY <1>4
    <3> QED BY <1>1, <2>1, <2>2, <3>1 DEF Banded
  <2>4. PICK m \in Nat : m = Lesser(x, w) /\ m <= w /\ m <= x /\ (m = x \/ m = w)
    BY DEF Lesser
  <2>5. UnitTax(t + m) = u + m * r
    BY <1>1, <2>2, <2>4, UnitTaxInBand
  <2>6. BandStep(a, i) = [left |-> x - m, sum |-> u + m * r]
    BY <1>1, <2>3, <2>4 DEF BandStep
  <2>7. CASE income <= t + w
    <3>1. m = x /\ x - m = 0 /\ t + m = income
      BY <2>1, <2>4, <2>7
    <3> QED BY <1>2, <2>5, <2>6, <2>7, <3>1 DEF Banded
  <2>8. CASE ~(income <= t + w)
    <3>1. m = w /\ x - m = income - (t + w)
      BY <2>1, <2>4, <2>8
    <3> QED BY <1>2, <2>5, <2>6, <2>8, <3>1 DEF Banded
  <2> QED BY <2>7, <2>8
<1> QED BY <1>3, <1>4

\* The bands tax every unit of an income once, at the rate of its band
\* (kenya-tax.ts).
THEOREM BandsTaxEveryUnit ==
    ASSUME NEW income \in 0 .. MaxSafe
    PROVE  BandNumerator(income) = UnitTax(income) /\ UnitTax(income) \in Nat
<1>1. PICK n : BandFacts(n)
  BY BandsAreFine
<1>2. income \in Nat /\ income <= BandTop(n)
  <2>1. MaxSafe \in Nat /\ n \in 1 .. n /\ n - 1 \in 0 .. n
    BY <1>1 DEF BandFacts
  <2>2. BandTop(n) = BandTop(n - 1) + MaxSafe /\ BandTop(n - 1) \in Nat
    BY <1>1, <2>1 DEF BandFacts
  <2> QED BY <2>1, <2>2
<1>3. PICK B : /\ BandNumerator(income) = B[n].sum /\ B[0] = [left |-> income, sum |-> 0]
               /\ \A i \in 1 .. n : B[i] = BandStep(B[i - 1], i)
  BY <1>1, <1>2, BandTableExists
<1> DEFINE G == {i \in 0 .. n : Banded(B[i], income, BandTop(i))}
<1>4. 0 \in G
  <2>1. 0 \in 0 .. n /\ BandTop(0) = 0
    BY <1>1 DEF BandFacts
  <2>2. Banded(B[0], income, 0)
    <3>1. CASE income = 0
      BY <1>3, <3>1, NoUnitTax DEF Banded
    <3>2. CASE income # 0
      <4>1. ~(income <= 0) /\ income - 0 = income
        BY <1>2, <3>2
      <4> QED BY <1>3, <4>1, NoUnitTax DEF Banded
    <3> QED BY <3>1, <3>2
  <2> QED BY <2>1, <2>2
<1>5. ASSUME NEW i \in 0 .. n - 1, i \in G PROVE i + 1 \in G
  <2>1. i + 1 \in 1 .. n /\ (i + 1) - 1 = i /\ i + 1 \in 0 .. n
    BY <1>1 DEF BandFacts
  <2>2. Banded(B[i], income, BandTop((i + 1) - 1))
    BY <1>5, <2>1
  <2>3. Banded(BandStep(B[i], i + 1), income, BandTop(i + 1))
    BY <1>1, <1>2, <2>1, <2>2, BandsGoOn
  <2>4. B[i + 1] = BandStep(B[i], i + 1)
    BY <1>3, <2>1
  <2> QED BY <2>1, <2>3, <2>4
<1>6. n \in 0 .. n /\ 0 .. n \subseteq G
  <2> HIDE DEF G
  <2>1. n \in Nat /\ n \in 0 .. n
    BY <1>1 DEF BandFacts
  <2> QED BY <1>4, <1>5, <2>1, NumbersUpTo
<1>7. Banded(B[n], income, BandTop(n))
  BY <1>6
<1>8. B[n].sum = UnitTax(income)
  BY <1>2, <1>7 DEF Banded
<1> QED BY <1>1, <1>2, <1>3, <1>8, UnitTaxIsWhole

-----------------------------------------------------------------------------
(* The documents of a worksheet, and the reliefs they claim.               *)

Fields == {"chargeable", "paye", "insurance"}
Backwards(docs) == [i \in DOMAIN docs |-> docs[Len(docs) + 1 - i]]

\* n documents whose amounts and months the lemmas may use.
Documents(docs, n) ==
    /\ n \in Nat /\ n = Len(docs) /\ DOMAIN docs = 1 .. n /\ (docs = <<>> <=> n = 0)
    /\ \A i \in 1 .. n : /\ \A field \in Fields : docs[i][field] \in Nat
                         /\ docs[i].kind \in {"P9", "PAYSLIP"} /\ docs[i].month \in 1 .. 12

LEMMA DocumentsAreFine ==
    ASSUME NEW docs \in Seq(Document)
    PROVE  Documents(docs, Len(docs))
<1>1. PICK n : n = Len(docs)
  OBVIOUS
<1>2. n \in Nat /\ DOMAIN docs = 1 .. n /\ (docs = <<>> <=> n = 0)
  BY <1>1, EmptySeq
<1>3. \A i \in 1 .. n : docs[i] \in Document
  BY <1>1, ElementOfSeq
<1>4. ASSUME NEW i \in 1 .. n
      PROVE  /\ \A field \in Fields : docs[i][field] \in Nat
             /\ docs[i].kind \in {"P9", "PAYSLIP"} /\ docs[i].month \in 1 .. 12
  <2>1. PICK e \in Document : e = docs[i]
    BY <1>3
  <2>2. e.chargeable \in Nat /\ e.paye \in Nat /\ e.insurance \in Nat
    BY WorksheetsAssumption DEF Document
  <2>3. e.kind \in {"P9", "PAYSLIP"} /\ e.month \in 1 .. 12
    BY DEF Document
  <2> QED BY <2>1, <2>2, <2>3 DEF Fields
<1> QED BY <1>1, <1>2, <1>4 DEF Documents

\* What a part of the documents adds up to.
LEMMA TotalIsNatural ==
    ASSUME NEW docs, NEW n, Documents(docs, n), NEW S \in SUBSET (1 .. n), NEW field \in Fields
    PROVE  Total(docs, S, field) \in Nat
<1> DEFINE f == [i \in DOMAIN docs |-> docs[i][field]]
<1>1. \A x \in S : f[x] \in Nat
  BY DEF Documents
<1>2. IsFiniteSet(S)
  <2>1. IsFiniteSet(1 .. n)
    BY FS_Interval DEF Documents
  <2> QED BY <2>1, FS_Subset
<1> HIDE DEF f
<1>3. SumFunctionOnSet(f, S) \in Nat
  BY <1>1, <1>2, SumIsNatural
<1> QED BY <1>3 DEF Total, f

\* The documents from the last to the first add up to the same.
LEMMA TotalTurned ==
    ASSUME NEW docs, NEW n, Documents(docs, n), NEW S \in SUBSET (1 .. n), NEW field \in Fields,
           NEW K, K = {i \in 1 .. n : n + 1 - i \in S}
    PROVE  Total(Backwards(docs), K, field) = Total(docs, S, field)
<1> DEFINE f == [i \in DOMAIN docs |-> docs[i][field]]
           t == [i \in DOMAIN Backwards(docs) |-> Backwards(docs)[i][field]]
<1>1. n \in Nat /\ n = Len(docs) /\ DOMAIN docs = 1 .. n /\ DOMAIN Backwards(docs) = 1 .. n
  BY DEF Documents, Backwards
<1>2. \A i \in 1 .. n : n + 1 - i \in 1 .. n
  BY <1>1
<1>3. \A i \in 1 .. n : f[i] \in Int
  BY <1>1 DEF Documents
<1>4. \A k \in 1 .. n : t[k] = f[n + 1 - k]
  BY <1>1, <1>2 DEF Backwards
<1> HIDE DEF f, t
<1>5. SumFunctionOnSet(t, K) = SumFunctionOnSet(f, S)
  BY <1>1, <1>3, <1>4, SumTurned
<1> QED BY <1>5 DEF Total, f, t

\* The documents of a period.
Of(docs, p) == {i \in DOMAIN docs : PeriodOf(docs[i]) = p}

LEMMA PeriodTurned ==
    ASSUME NEW docs, NEW n, Documents(docs, n), NEW p
    PROVE  /\ Total(Backwards(docs), Of(Backwards(docs), p), "insurance")
                = Total(docs, Of(docs, p), "insurance")
           /\ Of(docs, p) \in SUBSET (1 .. n)
<1>1. n \in Nat /\ n = Len(docs) /\ DOMAIN docs = 1 .. n /\ DOMAIN Backwards(docs) = 1 .. n
  BY DEF Documents, Backwards
<1>2. \A i \in 1 .. n : n + 1 - i \in 1 .. n /\ Backwards(docs)[i] = docs[n + 1 - i]
  BY <1>1 DEF Backwards
<1>3. Of(Backwards(docs), p) = {i \in 1 .. n : n + 1 - i \in Of(docs, p)}
  BY <1>1, <1>2 DEF Of
<1>4. Of(docs, p) \in SUBSET (1 .. n) /\ "insurance" \in Fields
  BY <1>1 DEF Of, Fields
<1> QED BY <1>3, <1>4, TotalTurned

LEMMA AllTurned ==
    ASSUME NEW docs, NEW n, Documents(docs, n), NEW field \in Fields
    PROVE  Total(Backwards(docs), DOMAIN Backwards(docs), field) = Total(docs, DOMAIN docs, field)
<1>1. n \in Nat /\ DOMAIN docs = 1 .. n /\ DOMAIN Backwards(docs) = 1 .. n
  BY DEF Documents, Backwards
<1>2. 1 .. n = {i \in 1 .. n : n + 1 - i \in 1 .. n}
  BY <1>1
<1>3. 1 .. n \in SUBSET (1 .. n)
  OBVIOUS
<1> QED BY <1>1, <1>2, <1>3, TotalTurned

\* The relief, in terms of what each period's documents claim.
CountedByMonth(docs) ==
    [m \in 1 .. 12 |-> Lesser(MonthlyCap, Total(docs, Of(docs, m), "insurance"))]

LEMMA ReliefIs ==
    ASSUME NEW docs
    PROVE  InsuranceRelief(docs) = Lesser(InsuranceCap, Total(docs, Of(docs, Annual), "insurance")
                                                          + SumFunctionOnSet(CountedByMonth(docs), 1 .. 12))
  BY DEF InsuranceRelief, CountedByMonth, Of

LEMMA ReliefTurned ==
    ASSUME NEW docs, NEW n, Documents(docs, n)
    PROVE  InsuranceRelief(Backwards(docs)) = InsuranceRelief(docs)
<1>1. PICK back : back = Backwards(docs)
  OBVIOUS
<1>2. \A p : Total(back, Of(back, p), "insurance") = Total(docs, Of(docs, p), "insurance")
  BY <1>1, PeriodTurned
<1>3. CountedByMonth(back) = CountedByMonth(docs)
  BY <1>2 DEF CountedByMonth
<1> QED BY <1>1, <1>2, <1>3, ReliefIs

\* No more relief than what was paid, and no more than the cap.
LEMMA ReliefIsBounded ==
    ASSUME NEW docs, NEW n, Documents(docs, n)
    PROVE  /\ InsuranceRelief(docs) \in Nat /\ InsuranceRelief(docs) <= InsuranceCap
           /\ InsuranceRelief(docs) <= Total(docs, DOMAIN docs, "insurance")
<1> DEFINE f == [i \in DOMAIN docs |-> docs[i]["insurance"]]
           c == [i \in 1 .. n |-> PeriodOf(docs[i])]
           t == [p \in 0 .. 12 |-> Total(docs, Of(docs, p), "insurance")]
           counted == CountedByMonth(docs)
<1>1. /\ n \in Nat /\ DOMAIN docs = 1 .. n /\ "insurance" \in Fields
      /\ \A i \in 1 .. n : f[i] \in Int
  BY DEF Documents, Fields
<1>2. /\ IsFiniteSet(1 .. n) /\ IsFiniteSet(0 .. 12) /\ IsFiniteSet(1 .. 12)
  <2>1. \A a, b \in Int : IsFiniteSet(a .. b)
    BY FS_Interval
  <2>2. 0 \in Int /\ 1 \in Int /\ 12 \in Int /\ n \in Int
    BY <1>1
  <2> QED BY <2>1, <2>2, Zenon
<1>3. \A i \in 1 .. n : c[i] \in 0 .. 12
  BY DEF PeriodOf, Annual, Documents
<1>4. \A p \in 0 .. 12 : t[p] \in Nat
  BY <1>1, PeriodTurned, TotalIsNatural
<1>5. ASSUME NEW p \in 0 .. 12 PROVE t[p] = SumFunctionOnSet(f, {x \in 1 .. n : c[x] = p})
  <2>1. Of(docs, p) = {x \in 1 .. n : c[x] = p}
    BY <1>1 DEF Of
  <2> QED BY <2>1 DEF Total
<1>6. \A m \in 1 .. 12 : counted[m] = Lesser(MonthlyCap, t[m])
  BY DEF CountedByMonth
<1>7. SumFunctionOnSet(f, 1 .. n) = Total(docs, DOMAIN docs, "insurance")
  BY <1>1 DEF Total
<1>8. t[Annual] = Total(docs, Of(docs, Annual), "insurance")
  BY DEF Annual
<1> HIDE DEF f, c, t, counted
<1>9. SumFunctionOnSet(t, 0 .. 12) = SumFunctionOnSet(f, 1 .. n)
  <2>1. Classes(f, 1 .. n, 0 .. 12, c, t)
    BY <1>1, <1>2, <1>3, <1>5 DEF Classes, Whole
  <2> QED BY <2>1, SumOfClasses
<1>10. Whole(t, 0 .. 12) /\ Whole(t, 1 .. 12)
  <2>1. 1 .. 12 \subseteq 0 .. 12 /\ Nat \subseteq Int
    OBVIOUS
  <2>2. \A p \in 0 .. 12 : t[p] \in Int
    BY <1>4, <2>1, Zenon
  <2> QED BY <1>2, <2>1, <2>2, Zenon DEF Whole
<1>11. SumFunctionOnSet(t, 0 .. 12) = t[0] + SumFunctionOnSet(t, 1 .. 12)
  <2>1. (0 .. 12) \ {0} = 1 .. 12 /\ 0 \in 0 .. 12
    OBVIOUS
  <2> QED BY <1>10, <2>1, SumTakes
<1>12. \A m \in 1 .. 12 : counted[m] \in Nat /\ counted[m] <= t[m]
  <2>1. MonthlyCap \in Nat
    BY WorksheetsAssumption
  <2>2. \A m \in 1 .. 12 : t[m] \in Nat
    BY <1>4
  <2> QED BY <1>6, <2>1, <2>2 DEF Lesser
<1>13. PICK x \in Nat, y \in Nat, z \in Nat :
          /\ x = t[0] /\ y = SumFunctionOnSet(t, 1 .. 12) /\ z = SumFunctionOnSet(counted, 1 .. 12)
  <2>1. t[0] \in Nat /\ \A m \in 1 .. 12 : t[m] \in Nat
    BY <1>4
  <2>2. SumFunctionOnSet(t, 1 .. 12) \in Nat
    BY <1>2, <2>1, SumIsNatural
  <2>3. SumFunctionOnSet(counted, 1 .. 12) \in Nat
    BY <1>2, <1>12, SumIsNatural
  <2> QED BY <2>1, <2>2, <2>3
<1>14. z <= y
  <2>1. Whole(counted, 1 .. 12)
    <3>1. Nat \subseteq Int
      OBVIOUS
    <3>2. \A m \in 1 .. 12 : counted[m] \in Int
      BY <1>12, <3>1, Zenon
    <3> QED BY <1>2, <3>2, Zenon DEF Whole
  <2> QED BY <1>10, <1>12, <1>13, <2>1, SumKeepsOrder
<1>15. InsuranceRelief(docs) = Lesser(InsuranceCap, x + z)
  BY <1>8, <1>13, ReliefIs DEF counted, Annual
<1>16. Total(docs, DOMAIN docs, "insurance") = x + y
  BY <1>7, <1>9, <1>11, <1>13
<1>17. InsuranceCap \in Nat
  BY WorksheetsAssumption
<1> QED BY <1>14, <1>15, <1>16, <1>17 DEF Lesser

\* What CoverageIsClean asks of a document, and of two.
Alone(e) == e.from <= e.to /\ (e.kind = "PAYSLIP" => e.month \in e.from .. e.to)
Apart(e, g) ==
    e.employer = g.employer => e.kind = "PAYSLIP" /\ g.kind = "PAYSLIP" /\ e.month # g.month

\* The documents' order does not matter to what they may cover.
LEMMA CoverageTurned ==
    ASSUME NEW docs, NEW n, Documents(docs, n)
    PROVE  DocumentsAreValid(Backwards(docs)) <=> DocumentsAreValid(docs)
<1>1. PICK back : back = Backwards(docs)
  OBVIOUS
<1>2. n \in Nat /\ n = Len(docs) /\ DOMAIN docs = 1 .. n /\ DOMAIN back = 1 .. n
  BY <1>1 DEF Documents, Backwards
<1>3. \A i \in 1 .. n : /\ n + 1 - i \in 1 .. n /\ n + 1 - (n + 1 - i) = i
                        /\ back[i] = docs[n + 1 - i]
  BY <1>1, <1>2 DEF Backwards
<1>4. \A i \in 1 .. n : docs[i] = back[n + 1 - i]
  BY <1>3
<1>5. /\ \A i \in 1 .. n : docs[i].kind \in {"P9", "PAYSLIP"} /\ docs[i].month \in 1 .. 12
      /\ \A i \in 1 .. n : back[i].kind \in {"P9", "PAYSLIP"} /\ back[i].month \in 1 .. 12
  BY <1>3 DEF Documents
<1>6. docs = <<>> <=> back = <<>>
  <2>1. docs = <<>> <=> n = 0
    BY DEF Documents
  <2>2. back = <<>> <=> n = 0
    <3>1. back = [i \in 1 .. n |-> docs[n + 1 - i]]
      BY <1>1, <1>2 DEF Backwards
    <3>2. CASE n = 0
      <4>1. 1 .. n = {}
        BY <3>2
      <4>2. DOMAIN <<>> = {}
        OBVIOUS
      <4> QED BY <3>1, <3>2, <4>1, <4>2
    <3>3. CASE n # 0
      <4>1. 1 \in DOMAIN back
        BY <1>2, <3>3
      <4> QED BY <3>3, <4>1
    <3> QED BY <3>2, <3>3
  <2> QED BY <2>1, <2>2
<1>7. \A i, k \in 1 .. n : i # k <=> n + 1 - i # n + 1 - k
  BY <1>2
<1>8. ASSUME CoverageIsClean(docs) PROVE CoverageIsClean(back)
  <2>1. /\ docs # <<>> /\ \A i \in 1 .. n : Alone(docs[i])
        /\ \A i, k \in 1 .. n : i # k => Apart(docs[i], docs[k])
    BY <1>2, <1>8 DEF CoverageIsClean, Alone, Apart
  <2>2. back # <<>>
    BY <1>6, <2>1
  <2>3. \A i \in 1 .. n : Alone(back[i])
    BY <1>3, <1>4, <2>1
  <2>4. \A i, k \in 1 .. n : i # k => Apart(back[i], back[k])
    BY <1>3, <1>4, <1>7, <2>1
  <2> QED BY <1>2, <2>2, <2>3, <2>4 DEF CoverageIsClean, Alone, Apart
<1>9. ASSUME CoverageIsClean(back) PROVE CoverageIsClean(docs)
  <2>1. /\ back # <<>> /\ \A i \in 1 .. n : Alone(back[i])
        /\ \A i, k \in 1 .. n : i # k => Apart(back[i], back[k])
    BY <1>2, <1>9 DEF CoverageIsClean, Alone, Apart
  <2>2. docs # <<>>
    BY <1>6, <2>1
  <2>3. \A i \in 1 .. n : Alone(docs[i])
    BY <1>3, <1>4, <2>1
  <2>4. \A i, k \in 1 .. n : i # k => Apart(docs[i], docs[k])
    BY <1>3, <1>4, <1>7, <2>1
  <2> QED BY <1>2, <2>2, <2>3, <2>4 DEF CoverageIsClean, Alone, Apart
<1>10. /\ DocumentsAreValid(docs) <=> CoverageIsClean(docs)
       /\ DocumentsAreValid(back) <=> CoverageIsClean(back)
  BY <1>2, <1>5, DocumentsInAnyOrder
<1> QED BY <1>1, <1>8, <1>9, <1>10

\* The employment tax worksheet is what its definition says: every unit of the
\* income taxed once at its band's rate, no relief beyond what was paid or the
\* cap, no tax below zero, whatever the order of the documents (kenya-tax.ts).
THEOREM TaxWorksheetAgrees ==
    ASSUME NEW docs \in Seq(Document)
    PROVE  TaxAgrees(docs)
<1>1. PICK n : Documents(docs, n)
  BY DocumentsAreFine
<1>2. PICK back, t, chargeable, paye, claimed, income :
         /\ back = Backwards(docs) /\ t = CalculateKenyaEmploymentTax(docs)
         /\ chargeable = Total(docs, DOMAIN docs, "chargeable")
         /\ paye = Total(docs, DOMAIN docs, "paye")
         /\ claimed = Total(docs, DOMAIN docs, "insurance")
         /\ income = (BandNumerator(chargeable) + TaxUnit \div 2) \div TaxUnit
  OBVIOUS
<1>3. DocumentsAreValid(docs) <=> CoverageIsClean(docs)
  BY <1>1, DocumentsInAnyOrder DEF Documents
<1>4. DocumentsAreValid(back) <=> DocumentsAreValid(docs)
  BY <1>1, <1>2, CoverageTurned
<1>5. /\ Total(back, DOMAIN back, "chargeable") = chargeable
      /\ Total(back, DOMAIN back, "paye") = paye
      /\ Total(back, DOMAIN back, "insurance") = claimed
  BY <1>1, <1>2, AllTurned DEF Fields
<1>6. TotalsAreSafe(docs) => TotalsAreSafe(back)
  BY <1>2, <1>5 DEF TotalsAreSafe
<1>7. InsuranceRelief(back) = InsuranceRelief(docs)
  BY <1>1, <1>2, ReliefTurned
<1>8. CalculateKenyaEmploymentTax(back) = t
  BY <1>2, <1>5, <1>7, Zenon DEF CalculateKenyaEmploymentTax
<1>9. PICK relief \in Nat : /\ relief = InsuranceRelief(docs)
                            /\ relief <= InsuranceCap /\ relief <= claimed
  BY <1>1, <1>2, ReliefIsBounded
<1>10. chargeable \in Nat /\ paye \in Nat /\ claimed \in Nat
  <2>1. DOMAIN docs \in SUBSET (1 .. n)
    BY <1>1 DEF Documents
  <2> QED BY <1>1, <1>2, <2>1, TotalIsNatural DEF Fields
<1>11. PICK after : after = income - PersonalRelief - relief
  OBVIOUS
<1>12. t = [before |-> income, relief |-> relief, after |-> IF after < 0 THEN 0 ELSE after,
            capped |-> claimed > relief, balance |-> (IF after < 0 THEN 0 ELSE after) - paye]
  BY <1>2, <1>9, <1>11, Zenon DEF CalculateKenyaEmploymentTax
<1>13. ASSUME TotalsAreSafe(docs)
       PROVE  /\ Nearest(t.before, UnitTax(chargeable), TaxUnit)
              /\ t.relief <= claimed /\ t.relief <= InsuranceCap
              /\ t.capped <=> t.relief < claimed
              /\ t.after \in 0 .. t.before
  <2>1. chargeable \in 0 .. MaxSafe
    <3>1. chargeable <= MaxSafe
      BY <1>2, <1>13 DEF TotalsAreSafe
    <3> QED BY <1>10, <3>1, WorksheetsAssumption
  <2>2. PICK u \in Nat : u = UnitTax(chargeable) /\ u = BandNumerator(chargeable)
    BY <2>1, BandsTaxEveryUnit
  <2>3. TaxUnit \in Nat \ {0} /\ PersonalRelief \in Nat
    BY WorksheetsAssumption
  <2>4. income = Round(u, TaxUnit)
    BY <1>2, <2>2 DEF Round
  <2>5. income \in Nat /\ Nearest(income, u, TaxUnit)
    BY <2>2, <2>3, <2>4, RoundIsWhole, RoundIsNearest
  <2>6. (IF after < 0 THEN 0 ELSE after) \in 0 .. income
    BY <1>11, <2>3, <2>5
  <2>7. claimed > relief <=> relief < claimed
    BY <1>10
  <2> QED BY <1>9, <1>12, <2>2, <2>5, <2>6, <2>7
<1> QED BY <1>2, <1>3, <1>4, <1>6, <1>8, <1>13 DEF TaxAgrees, Backwards

\* The calculations of packages/shared agree with their definitions on every
\* input: loans and tax documents (debt-interest.ts, kenya-tax.ts).
THEOREM WorksheetsAreRight == CalcSpec => []WorksheetsAgree
<1>1. ASSUME sample \in Inputs PROVE WorksheetsAgree
  <2>1. CASE sample[1] = "loan"
    <3>1. sample[3] \in Nat
      BY <1>1, <2>1 DEF Inputs
    <3> QED BY <2>1, <3>1, LoansAgree DEF WorksheetsAgree
  <2>2. CASE sample[1] = "tax"
    <3>1. sample[2] \in Seq(Document)
      BY <1>1, <2>2 DEF Inputs
    <3> QED BY <2>2, <3>1, TaxWorksheetAgrees DEF WorksheetsAgree
  <2> QED BY <2>1, <2>2 DEF WorksheetsAgree
<1>2. CalcInit => sample \in Inputs
  BY SampleAssumption DEF CalcInit
<1>3. sample \in Inputs /\ [UNCHANGED sample]_sample => (sample \in Inputs)'
  OBVIOUS
<1> QED BY <1>1, <1>2, <1>3, PTL DEF CalcSpec
=============================================================================
