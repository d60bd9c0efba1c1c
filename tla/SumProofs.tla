----------------------------- MODULE SumProofs -----------------------------
(***************************************************************************)
(* Sums over finite sets.  SumFunctionOnSet is a fold, which the provers   *)
(* cannot unfold by themselves: its recursion equation is established      *)
(* here, and the laws the conservation proofs rest on follow from it.      *)
(* Inductions are arguments about a least counterexample.  The last part   *)
(* has the facts on floored division and products of naturals.             *)
(***************************************************************************)
EXTENDS Integers, Functions, FiniteSetTheorems, TLAPS

-----------------------------------------------------------------------------
(* Least counterexamples                                                    *)

\* A nonempty set of naturals has a least element.
LEMMA LeastNatural ==
  ASSUME NEW B \in SUBSET Nat, B # {}
  PROVE  \E n \in B : \A m \in B : n <= m
<1>1. PICK n \in B : \A m \in B : ~ (<<m, n>> \in OpToRel(<, Nat))
  BY NatLessThanWellFounded, WFMin
<1>2. \A m \in B : ~ (m < n)
  BY <1>1 DEF OpToRel
<1> QED
  BY <1>2

\* A nonempty set of subsets of a finite set has a minimal member.
LEMMA MinimalSubset ==
  ASSUME NEW S, IsFiniteSet(S), NEW B \in SUBSET (SUBSET S), B # {}
  PROVE  \E T \in B : \A U \in B : U \subseteq T => U = T
<1>1. B \subseteq FiniteSubsetsOf(S)
  BY FS_Subset DEF FiniteSubsetsOf
<1>2. PICK T \in B : \A U \in B : ~ (<<U, T>> \in StrictSubsetOrdering(S))
  BY <1>1, FS_StrictSubsetOrderingWellFounded, WFMin
<1> QED
  BY <1>2 DEF StrictSubsetOrdering

-----------------------------------------------------------------------------
(* The recursion equation                                                   *)

Some(s) == CHOOSE x \in s : TRUE

\* g sums f over every subset of S, one element after the other.
Iterates(g, f, S) ==
  g = [s \in SUBSET S |-> IF s = {} THEN 0 ELSE f[Some(s)] + g[s \ {Some(s)}]]

\* The sum as the fold defines it.
LEMMA SumUnfolded ==
  ASSUME NEW f, NEW S
  PROVE  SumFunctionOnSet(f, S) = (CHOOSE g : Iterates(g, f, S))[S]
  BY DEF SumFunctionOnSet, FoldFunctionOnSet, MapThenFoldSet, Iterates, Some

\* Such a g exists: it is built for the subsets of at most n elements, n
\* growing up to the size of S.
LEMMA IteratesExists ==
  ASSUME NEW f, NEW S, IsFiniteSet(S)
  PROVE  \E g : Iterates(g, f, S)
<1> DEFINE Level(n) == {s \in SUBSET S : Cardinality(s) <= n}
           Good(n) == \E g : g = [s \in Level(n) |->
                        IF s = {} THEN 0 ELSE f[Some(s)] + g[s \ {Some(s)}]]
           Bad == {n \in Nat : ~ Good(n)}
<1>1. \A s \in SUBSET S : /\ IsFiniteSet(s) /\ Cardinality(s) \in Nat
                          /\ Cardinality(s) <= Cardinality(S)
                          /\ Cardinality(s) = 0 <=> s = {}
  BY FS_Subset, FS_CardinalityType, FS_EmptySet
<1>2. \A s \in SUBSET S : s # {} =>
        /\ Some(s) \in s /\ s \ {Some(s)} \in SUBSET S
        /\ Cardinality(s \ {Some(s)}) = Cardinality(s) - 1
  BY <1>1, FS_RemoveElement DEF Some
<1>3. Good(0)
  <2>1. \A s \in Level(0) : s = {}
    BY <1>1
  <2>2. [s \in Level(0) |-> 0] =
          [s \in Level(0) |-> IF s = {} THEN 0 ELSE f[Some(s)] + [t \in Level(0) |-> 0][s \ {Some(s)}]]
    BY <2>1
  <2> QED
    BY <2>2
<1>4. ASSUME NEW n \in Nat, Good(n) PROVE Good(n + 1)
  <2>1. PICK g : g = [s \in Level(n) |-> IF s = {} THEN 0 ELSE f[Some(s)] + g[s \ {Some(s)}]]
    BY <1>4
  <2> DEFINE h == [s \in Level(n + 1) |-> IF s = {} THEN 0 ELSE f[Some(s)] + g[s \ {Some(s)}]]
  <2>2. \A s \in Level(n) : s \in Level(n + 1) /\ h[s] = g[s]
    <3>1. \A s \in Level(n) : s \in Level(n + 1)
      BY <1>1
    <3> QED
      BY <2>1, <3>1
  <2>3. \A s \in Level(n + 1) : s # {} => s \ {Some(s)} \in Level(n)
    BY <1>1, <1>2
  <2> HIDE DEF Level
  <2>4. \A s \in Level(n + 1) : s # {} => h[s \ {Some(s)}] = g[s \ {Some(s)}]
    BY <2>2, <2>3
  <2>5. h = [s \in Level(n + 1) |-> IF s = {} THEN 0 ELSE f[Some(s)] + h[s \ {Some(s)}]]
    BY <2>4
  <2> HIDE DEF h
  <2> QED
    BY <2>5
<1>5. Bad = {}
  <2> SUFFICES ASSUME Bad # {} PROVE FALSE
    OBVIOUS
  <2> HIDE DEF Good
  <2>1. PICK n \in Bad : \A m \in Bad : n <= m
    BY LeastNatural
  <2>2. n # 0 /\ n - 1 \in Nat /\ n - 1 \notin Bad
    BY <1>3, <2>1
  <2> QED
    BY <1>4, <2>1, <2>2
<1>6. Good(Cardinality(S))
  <2> HIDE DEF Good
  <2> QED
    BY <1>1, <1>5
<1>7. Level(Cardinality(S)) = SUBSET S
  BY <1>1
<1> QED
  BY <1>6, <1>7 DEF Iterates

\* Two such functions agree where both are defined.
LEMMA IteratesUnique ==
  ASSUME NEW f, NEW S, IsFiniteSet(S), NEW T \in SUBSET S,
         NEW g, Iterates(g, f, S), NEW h, Iterates(h, f, T)
  PROVE  g[T] = h[T]
<1> DEFINE Bad == {U \in SUBSET T : g[U] # h[U]}
<1>1. IsFiniteSet(T)
  BY FS_Subset
<1> SUFFICES ASSUME Bad # {} PROVE FALSE
  OBVIOUS
<1>2. PICK U \in Bad : \A V \in Bad : V \subseteq U => V = U
  <2>1. Bad \in SUBSET (SUBSET T)
    OBVIOUS
  <2> HIDE DEF Bad
  <2> QED
    BY <1>1, <2>1, MinimalSubset
<1>3. U \in SUBSET S /\ U \in SUBSET T /\ g[U] # h[U]
  BY <1>2
<1>4. U # {}
  BY <1>3 DEF Iterates
<1>5. Some(U) \in U
  BY <1>4 DEF Some
<1> DEFINE V == U \ {Some(U)}
<1>6. g[V] = h[V]
  BY <1>2, <1>3, <1>5
<1>7. g[U] = f[Some(U)] + g[V] /\ h[U] = f[Some(U)] + h[V]
  BY <1>3, <1>4 DEF Iterates
<1> QED
  BY <1>3, <1>6, <1>7

\* The sum of the empty set, and the recursion equation of the sum.
LEMMA SumRecursion ==
  ASSUME NEW f, NEW S, IsFiniteSet(S)
  PROVE  SumFunctionOnSet(f, S) =
           IF S = {} THEN 0 ELSE f[Some(S)] + SumFunctionOnSet(f, S \ {Some(S)})
<1> DEFINE T == S \ {Some(S)}
           g == CHOOSE x : Iterates(x, f, S)
           h == CHOOSE x : Iterates(x, f, T)
<1>1. IsFiniteSet(T)
  BY FS_RemoveElement
<1>2. Iterates(g, f, S) /\ Iterates(h, f, T)
  BY <1>1, IteratesExists
<1>3. SumFunctionOnSet(f, S) = g[S] /\ SumFunctionOnSet(f, T) = h[T]
  BY SumUnfolded
<1> HIDE DEF g, h
<1>4. g[S] = IF S = {} THEN 0 ELSE f[Some(S)] + g[T]
  BY <1>2 DEF Iterates
<1>5. g[T] = h[T]
  BY <1>2, IteratesUnique
<1> QED
  BY <1>3, <1>4, <1>5

-----------------------------------------------------------------------------
(* Laws                                                                     *)

\* The sum of nothing.
LEMMA SumEmpty ==
  ASSUME NEW f
  PROVE  SumFunctionOnSet(f, {}) = 0
  BY SumRecursion, FS_EmptySet

\* A sum of integers is an integer.
LEMMA SumInt ==
  ASSUME NEW f, NEW S, IsFiniteSet(S), \A x \in S : f[x] \in Int
  PROVE  SumFunctionOnSet(f, S) \in Int
<1> DEFINE Bad == {T \in SUBSET S : SumFunctionOnSet(f, T) \notin Int}
<1> SUFFICES ASSUME Bad # {} PROVE FALSE
  OBVIOUS
<1>1. PICK T \in Bad : \A U \in Bad : U \subseteq T => U = T
  <2>1. Bad \in SUBSET (SUBSET S)
    OBVIOUS
  <2> HIDE DEF Bad
  <2> QED
    BY <2>1, MinimalSubset
<1>2. T \in SUBSET S /\ IsFiniteSet(T) /\ T # {}
  BY <1>1, FS_Subset, SumEmpty
<1>3. Some(T) \in T
  BY <1>2 DEF Some
<1>4. SumFunctionOnSet(f, T \ {Some(T)}) \in Int
  BY <1>1, <1>3
<1>5. SumFunctionOnSet(f, T) = f[Some(T)] + SumFunctionOnSet(f, T \ {Some(T)})
  BY <1>2, SumRecursion
<1> QED
  BY <1>1, <1>2, <1>3, <1>4, <1>5

\* Any element can be taken out of a sum, not just the one the fold chooses.
LEMMA SumWithout ==
  ASSUME NEW f, NEW S, IsFiniteSet(S), \A x \in S : f[x] \in Int, NEW e \in S
  PROVE  SumFunctionOnSet(f, S) = f[e] + SumFunctionOnSet(f, S \ {e})
<1> DEFINE Law(T) == \A x \in T : SumFunctionOnSet(f, T) = f[x] + SumFunctionOnSet(f, T \ {x})
           Bad == {T \in SUBSET S : ~ Law(T)}
<1> SUFFICES ASSUME Bad # {} PROVE FALSE
  OBVIOUS
<1>1. PICK T \in Bad : \A U \in Bad : U \subseteq T => U = T
  <2>1. Bad \in SUBSET (SUBSET S)
    OBVIOUS
  <2> HIDE DEF Bad
  <2> QED
    BY <2>1, MinimalSubset
<1>2. PICK x \in T : SumFunctionOnSet(f, T) # f[x] + SumFunctionOnSet(f, T \ {x})
  BY <1>1
<1>3. T \in SUBSET S /\ T # {}
  BY <1>1, <1>2
<1>4. ASSUME NEW U \in SUBSET T
      PROVE  IsFiniteSet(U) /\ SumFunctionOnSet(f, U) \in Int
  BY <1>3, FS_Subset, SumInt
<1> DEFINE y == Some(T)
<1>5. y \in T
  BY <1>3 DEF Some
<1>6. SumFunctionOnSet(f, T) = f[y] + SumFunctionOnSet(f, T \ {y})
  BY <1>3, <1>4, SumRecursion
<1>7. x # y
  BY <1>2, <1>6
<1>8. ASSUME NEW a \in T, NEW b \in T, a # b
      PROVE  SumFunctionOnSet(f, T \ {a}) = f[b] + SumFunctionOnSet(f, (T \ {a}) \ {b})
  <2>1. T \ {a} \in SUBSET S /\ T \ {a} \subseteq T /\ T \ {a} # T
    BY <1>3
  <2>2. Law(T \ {a})
    BY <1>1, <2>1
  <2> QED
    BY <1>8, <2>2
<1>9. (T \ {x}) \ {y} = (T \ {y}) \ {x}
  OBVIOUS
<1>10. /\ SumFunctionOnSet(f, T \ {y}) = f[x] + SumFunctionOnSet(f, (T \ {x}) \ {y})
       /\ SumFunctionOnSet(f, T \ {x}) = f[y] + SumFunctionOnSet(f, (T \ {x}) \ {y})
  <2>1. SumFunctionOnSet(f, T \ {y}) = f[x] + SumFunctionOnSet(f, (T \ {y}) \ {x})
    BY <1>5, <1>7, <1>8
  <2>2. SumFunctionOnSet(f, T \ {x}) = f[y] + SumFunctionOnSet(f, (T \ {x}) \ {y})
    BY <1>5, <1>7, <1>8
  <2> QED
    BY <1>9, <2>1, <2>2
<1>11. f[x] \in Int /\ f[y] \in Int /\ SumFunctionOnSet(f, (T \ {x}) \ {y}) \in Int
  BY <1>3, <1>4, <1>5
<1> QED
  BY <1>2, <1>6, <1>10, <1>11

\* An element more.
LEMMA SumWith ==
  ASSUME NEW f, NEW S, IsFiniteSet(S), \A x \in S : f[x] \in Int, NEW e, e \notin S,
         f[e] \in Int
  PROVE  SumFunctionOnSet(f, S \cup {e}) = SumFunctionOnSet(f, S) + f[e]
<1> DEFINE T == (S \cup {e}) \ {e}
<1>1. T = S
  OBVIOUS
<1>2. SumFunctionOnSet(f, S \cup {e}) = f[e] + SumFunctionOnSet(f, T)
  BY FS_AddElement, SumWithout
<1>3. SumFunctionOnSet(f, S) \in Int
  BY SumInt
<1> HIDE DEF T
<1> QED
  BY <1>1, <1>2, <1>3

\* Only the values on the set matter.
LEMMA SumSame ==
  ASSUME NEW f, NEW g, NEW S, IsFiniteSet(S), \A x \in S : f[x] = g[x]
  PROVE  SumFunctionOnSet(f, S) = SumFunctionOnSet(g, S)
<1> DEFINE Bad == {T \in SUBSET S : SumFunctionOnSet(f, T) # SumFunctionOnSet(g, T)}
<1> SUFFICES ASSUME Bad # {} PROVE FALSE
  OBVIOUS
<1>1. PICK T \in Bad : \A U \in Bad : U \subseteq T => U = T
  <2>1. Bad \in SUBSET (SUBSET S)
    OBVIOUS
  <2> HIDE DEF Bad
  <2> QED
    BY <2>1, MinimalSubset
<1>2. T \in SUBSET S /\ IsFiniteSet(T) /\ T # {}
  BY <1>1, FS_Subset, SumEmpty
<1>3. Some(T) \in T
  BY <1>2 DEF Some
<1>4. SumFunctionOnSet(f, T \ {Some(T)}) = SumFunctionOnSet(g, T \ {Some(T)})
  BY <1>1, <1>3
<1>5. /\ SumFunctionOnSet(f, T) = f[Some(T)] + SumFunctionOnSet(f, T \ {Some(T)})
      /\ SumFunctionOnSet(g, T) = g[Some(T)] + SumFunctionOnSet(g, T \ {Some(T)})
  BY <1>2, SumRecursion
<1> QED
  BY <1>1, <1>2, <1>3, <1>4, <1>5

\* One value changes.
LEMMA SumChanged ==
  ASSUME NEW f, NEW g, NEW S, IsFiniteSet(S), NEW e \in S,
         \A x \in S : f[x] \in Int /\ g[x] \in Int,
         \A x \in S \ {e} : g[x] = f[x]
  PROVE  SumFunctionOnSet(g, S) = SumFunctionOnSet(f, S) + g[e] - f[e]
<1>1. IsFiniteSet(S \ {e}) /\ S \ {e} \subseteq S
  BY FS_RemoveElement
<1>2. SumFunctionOnSet(g, S \ {e}) = SumFunctionOnSet(f, S \ {e})
  BY <1>1, SumSame
<1>3. /\ SumFunctionOnSet(g, S) = g[e] + SumFunctionOnSet(g, S \ {e})
      /\ SumFunctionOnSet(f, S) = f[e] + SumFunctionOnSet(f, S \ {e})
  BY SumWithout
<1>4. SumFunctionOnSet(f, S \ {e}) \in Int
  BY <1>1, SumInt
<1> QED
  BY <1>2, <1>3, <1>4

\* Two functions to numbers that differ at most at e.
AgreeBut(f, g, S, e) ==
  /\ e \in S
  /\ \A x \in S : f[x] \in Int /\ g[x] \in Int
  /\ \A x \in S \ {e} : g[x] = f[x]

\* Their sums differ by what they differ there.
LEMMA SumAgreeing ==
  ASSUME NEW f, NEW g, NEW S, NEW e, IsFiniteSet(S), AgreeBut(f, g, S, e)
  PROVE  SumFunctionOnSet(g, S) = SumFunctionOnSet(f, S) + g[e] - f[e]
  BY SumChanged DEF AgreeBut

\* A sum is monotonic in its values.
LEMMA SumMonotonic ==
  ASSUME NEW f, NEW g, NEW S, IsFiniteSet(S),
         \A x \in S : f[x] \in Int /\ g[x] \in Int /\ f[x] <= g[x]
  PROVE  SumFunctionOnSet(f, S) <= SumFunctionOnSet(g, S)
<1> DEFINE Bad == {T \in SUBSET S : ~ (SumFunctionOnSet(f, T) <= SumFunctionOnSet(g, T))}
<1> SUFFICES ASSUME Bad # {} PROVE FALSE
  OBVIOUS
<1>1. PICK T \in Bad : \A U \in Bad : U \subseteq T => U = T
  <2>1. Bad \in SUBSET (SUBSET S)
    OBVIOUS
  <2> HIDE DEF Bad
  <2> QED
    BY <2>1, MinimalSubset
<1>2. T \in SUBSET S /\ IsFiniteSet(T) /\ T # {}
  <2>1. SumFunctionOnSet(f, {}) <= SumFunctionOnSet(g, {})
    BY SumEmpty
  <2> QED
    BY <1>1, <2>1, FS_Subset
<1>3. Some(T) \in T
  BY <1>2 DEF Some
<1> DEFINE U == T \ {Some(T)}
<1>4. SumFunctionOnSet(f, U) <= SumFunctionOnSet(g, U)
  BY <1>1, <1>3
<1>5. /\ SumFunctionOnSet(f, T) = f[Some(T)] + SumFunctionOnSet(f, U)
      /\ SumFunctionOnSet(g, T) = g[Some(T)] + SumFunctionOnSet(g, U)
  BY <1>2, SumRecursion
<1>6. IsFiniteSet(U) /\ \A x \in U : f[x] \in Int /\ g[x] \in Int
  BY <1>2, FS_Subset
<1>7. SumFunctionOnSet(f, U) \in Int /\ SumFunctionOnSet(g, U) \in Int
  BY <1>6, SumInt
<1>8. f[Some(T)] \in Int /\ g[Some(T)] \in Int /\ f[Some(T)] <= g[Some(T)]
  BY <1>2, <1>3
<1>9. SumFunctionOnSet(f, T) <= SumFunctionOnSet(g, T)
  BY <1>4, <1>5, <1>7, <1>8
<1> QED
  BY <1>1, <1>9

\* A set whose values are all 0 adds nothing.
LEMMA SumZero ==
  ASSUME NEW f, NEW S, IsFiniteSet(S), \A x \in S : f[x] = 0
  PROVE  SumFunctionOnSet(f, S) = 0
<1> DEFINE Bad == {T \in SUBSET S : SumFunctionOnSet(f, T) # 0}
<1> SUFFICES ASSUME Bad # {} PROVE FALSE
  OBVIOUS
<1>1. PICK T \in Bad : \A U \in Bad : U \subseteq T => U = T
  <2>1. Bad \in SUBSET (SUBSET S)
    OBVIOUS
  <2> HIDE DEF Bad
  <2> QED
    BY <2>1, MinimalSubset
<1>2. T \in SUBSET S /\ IsFiniteSet(T) /\ T # {}
  BY <1>1, FS_Subset, SumEmpty
<1>3. Some(T) \in T
  BY <1>2 DEF Some
<1>4. SumFunctionOnSet(f, T \ {Some(T)}) = 0
  BY <1>1, <1>3
<1>5. SumFunctionOnSet(f, T) = f[Some(T)] + SumFunctionOnSet(f, T \ {Some(T)})
  BY <1>2, SumRecursion
<1> QED
  BY <1>1, <1>2, <1>3, <1>4, <1>5

\* A sum of naturals is a natural.
LEMMA SumNat ==
  ASSUME NEW f, NEW S, IsFiniteSet(S), \A x \in S : f[x] \in Nat
  PROVE  SumFunctionOnSet(f, S) \in Nat
<1> DEFINE zero == [x \in S |-> 0]
<1>1. \A x \in S : zero[x] = 0
  OBVIOUS
<1> HIDE DEF zero
<1>2. SumFunctionOnSet(zero, S) = 0
  BY <1>1, SumZero
<1>3. SumFunctionOnSet(zero, S) <= SumFunctionOnSet(f, S)
  BY <1>1, SumMonotonic
<1>4. SumFunctionOnSet(f, S) \in Int
  BY SumInt
<1> QED
  BY <1>2, <1>3, <1>4

\* The sum of a disjoint union.
LEMMA SumDisjoint ==
  ASSUME NEW f, NEW S, NEW R, IsFiniteSet(S), IsFiniteSet(R), S \cap R = {},
         \A x \in S \cup R : f[x] \in Int
  PROVE  SumFunctionOnSet(f, S \cup R) = SumFunctionOnSet(f, S) + SumFunctionOnSet(f, R)
<1> DEFINE Law(T) == SumFunctionOnSet(f, S \cup T) = SumFunctionOnSet(f, S) + SumFunctionOnSet(f, T)
           Bad == {T \in SUBSET R : ~ Law(T)}
<1> SUFFICES ASSUME Bad # {} PROVE FALSE
  OBVIOUS
<1>1. PICK T \in Bad : \A U \in Bad : U \subseteq T => U = T
  <2>1. Bad \in SUBSET (SUBSET R)
    OBVIOUS
  <2> HIDE DEF Bad
  <2> QED
    BY <2>1, MinimalSubset
<1>2. ASSUME NEW U \in SUBSET R
      PROVE  /\ IsFiniteSet(U) /\ IsFiniteSet(S \cup U)
             /\ SumFunctionOnSet(f, U) \in Int /\ SumFunctionOnSet(f, S \cup U) \in Int
  <2>1. IsFiniteSet(U) /\ IsFiniteSet(S \cup U)
    BY FS_Subset, FS_Union
  <2> QED
    BY <2>1, SumInt
<1>3. SumFunctionOnSet(f, S) \in Int
  BY SumInt
<1>4. T # {}
  <2>1. SumFunctionOnSet(f, S \cup {}) = SumFunctionOnSet(f, S) + SumFunctionOnSet(f, {})
    <3>1. S \cup {} = S
      OBVIOUS
    <3> QED
      BY <1>3, <3>1, SumEmpty
  <2> QED
    BY <1>1, <2>1
<1> DEFINE y == Some(T)
           U == T \ {y}
<1>5. y \in T /\ T \in SUBSET R
  BY <1>1, <1>4 DEF Some
<1>6. U \in SUBSET R /\ (S \cup T) \ {y} = S \cup U /\ y \in S \cup T /\ f[y] \in Int
  BY <1>5
<1>7. SumFunctionOnSet(f, S \cup U) = SumFunctionOnSet(f, S) + SumFunctionOnSet(f, U)
  BY <1>1, <1>5, <1>6
<1>8. SumFunctionOnSet(f, S \cup T) = f[y] + SumFunctionOnSet(f, S \cup U)
  <2> DEFINE W == (S \cup T) \ {y}
  <2>1. SumFunctionOnSet(f, S \cup T) = f[y] + SumFunctionOnSet(f, W)
    BY <1>2, <1>5, <1>6, SumWithout
  <2>2. W = S \cup U
    BY <1>6
  <2> HIDE DEF W
  <2> QED
    BY <2>1, <2>2
<1>9. SumFunctionOnSet(f, T) = f[y] + SumFunctionOnSet(f, U)
  BY <1>2, <1>5, SumWithout
<1>10. SumFunctionOnSet(f, U) \in Int
  BY <1>2, <1>6
<1>11. Law(T)
  <2> HIDE DEF U, y
  <2> QED
    BY <1>3, <1>6, <1>7, <1>8, <1>9, <1>10
<1> QED
  BY <1>1, <1>11

\* Of naturals, a part sums to no more than the whole.
LEMMA SumOfPart ==
  ASSUME NEW f, NEW S, IsFiniteSet(S), NEW T \in SUBSET S, \A x \in S : f[x] \in Nat
  PROVE  SumFunctionOnSet(f, T) <= SumFunctionOnSet(f, S)
<1>1. IsFiniteSet(T) /\ IsFiniteSet(S \ T) /\ T \cup (S \ T) = S /\ T \cap (S \ T) = {}
  BY FS_Subset
<1>2. SumFunctionOnSet(f, S) = SumFunctionOnSet(f, T) + SumFunctionOnSet(f, S \ T)
  BY <1>1, SumDisjoint
<1>3. SumFunctionOnSet(f, T) \in Nat /\ SumFunctionOnSet(f, S \ T) \in Nat
  BY <1>1, SumNat
<1> QED
  BY <1>2, <1>3

\* The sum of the sums of two functions.
LEMMA SumPlus ==
  ASSUME NEW f, NEW g, NEW h, NEW S, IsFiniteSet(S),
         \A x \in S : f[x] \in Int /\ g[x] \in Int /\ h[x] = f[x] + g[x]
  PROVE  SumFunctionOnSet(h, S) = SumFunctionOnSet(f, S) + SumFunctionOnSet(g, S)
<1> DEFINE Law(T) == SumFunctionOnSet(h, T) = SumFunctionOnSet(f, T) + SumFunctionOnSet(g, T)
           Bad == {T \in SUBSET S : ~ Law(T)}
<1> SUFFICES ASSUME Bad # {} PROVE FALSE
  OBVIOUS
<1>1. PICK T \in Bad : \A U \in Bad : U \subseteq T => U = T
  <2>1. Bad \in SUBSET (SUBSET S)
    OBVIOUS
  <2> HIDE DEF Bad
  <2> QED
    BY <2>1, MinimalSubset
<1>2. T \in SUBSET S /\ IsFiniteSet(T) /\ T # {}
  <2>1. Law({})
    BY SumEmpty
  <2> QED
    BY <1>1, <2>1, FS_Subset
<1> DEFINE y == Some(T)
           U == T \ {y}
<1>3. y \in T
  BY <1>2 DEF Some
<1>4. Law(U)
  BY <1>1, <1>3
<1>5. /\ SumFunctionOnSet(f, T) = f[y] + SumFunctionOnSet(f, U)
      /\ SumFunctionOnSet(g, T) = g[y] + SumFunctionOnSet(g, U)
      /\ SumFunctionOnSet(h, T) = h[y] + SumFunctionOnSet(h, U)
  BY <1>2, SumRecursion
<1>6. IsFiniteSet(U) /\ \A x \in U : f[x] \in Int /\ g[x] \in Int
  BY <1>2, FS_Subset
<1>7. SumFunctionOnSet(f, U) \in Int /\ SumFunctionOnSet(g, U) \in Int
  BY <1>6, SumInt
<1>8. f[y] \in Int /\ g[y] \in Int /\ h[y] = f[y] + g[y]
  BY <1>2, <1>3
<1>9. Law(T)
  BY <1>4, <1>5, <1>7, <1>8
<1> QED
  BY <1>1, <1>9

\* Summing group by group: h[k] is the sum of the elements g sends to k.
LEMMA SumGroups ==
  ASSUME NEW f, NEW S, IsFiniteSet(S), NEW K, IsFiniteSet(K), NEW g \in [S -> K], NEW h,
         \A x \in S : f[x] \in Int,
         \A k \in K : h[k] = SumFunctionOnSet(f, {x \in S : g[x] = k})
  PROVE  SumFunctionOnSet(h, K) = SumFunctionOnSet(f, S)
<1> DEFINE In(L) == {x \in S : g[x] \in L}
           Law(L) == SumFunctionOnSet(h, L) = SumFunctionOnSet(f, In(L))
           Bad == {L \in SUBSET K : ~ Law(L)}
<1>1. ASSUME NEW R \in SUBSET S PROVE IsFiniteSet(R) /\ SumFunctionOnSet(f, R) \in Int
  <2>1. IsFiniteSet(R)
    BY FS_Subset
  <2> QED
    BY <2>1, SumInt
<1>2. ASSUME NEW k \in K PROVE h[k] \in Int
  BY <1>1
<1>3. ASSUME Bad # {} PROVE FALSE
  <2>1. PICK L \in Bad : \A U \in Bad : U \subseteq L => U = L
    <3>1. Bad \in SUBSET (SUBSET K)
      OBVIOUS
    <3> HIDE DEF Bad
    <3> QED
      BY <1>3, <3>1, MinimalSubset
  <2>2. L \in SUBSET K /\ IsFiniteSet(L)
    BY FS_Subset
  <2>3. L # {}
    <3>1. In({}) = {}
      OBVIOUS
    <3>2. SumFunctionOnSet(f, In({})) = 0
      <4> HIDE DEF In
      <4> QED
        BY <3>1, SumEmpty
    <3>3. Law({})
      BY <3>2, SumEmpty
    <3> QED
      BY <2>1, <3>3
  <2> DEFINE k == Some(L)
             U == L \ {k}
             G == {x \in S : g[x] = k}
  <2>4. k \in L /\ k \in K
    BY <2>2, <2>3 DEF Some
  <2>5. Law(U)
    BY <2>1, <2>4
  <2>6. SumFunctionOnSet(h, L) = h[k] + SumFunctionOnSet(h, U)
    BY <1>2, <2>2, <2>4, SumWithout
  <2>7. h[k] = SumFunctionOnSet(f, G)
    BY <2>4
  <2>8. In(L) = In(U) \cup G /\ In(U) \cap G = {} /\ In(U) \subseteq S /\ G \subseteq S
    BY <2>4
  <2> DEFINE V == In(L)
             W == In(U)
  <2>9. /\ V = W \cup G /\ W \cap G = {} /\ W \in SUBSET S /\ G \in SUBSET S
        /\ SumFunctionOnSet(h, U) = SumFunctionOnSet(f, W)
    BY <2>5, <2>8
  <2> HIDE DEF V, W, G, U, k
  <2>10. SumFunctionOnSet(f, W \cup G) = SumFunctionOnSet(f, W) + SumFunctionOnSet(f, G)
    BY <1>1, <2>9, SumDisjoint
  <2>11. SumFunctionOnSet(f, W) \in Int /\ SumFunctionOnSet(f, G) \in Int
    BY <1>1, <2>9
  <2>12. SumFunctionOnSet(h, L) = SumFunctionOnSet(f, V)
    BY <2>6, <2>7, <2>9, <2>10, <2>11
  <2>13. Law(L)
    BY <2>12 DEF V
  <2> QED
    BY <2>1, <2>13
<1>4. Law(K)
  BY <1>3
<1>5. In(K) = S
  OBVIOUS
<1> QED
  <2> HIDE DEF In
  <2> QED
    BY <1>4, <1>5

\* The sum over one element.
LEMMA SumOne ==
  ASSUME NEW f, NEW e, f[e] \in Int
  PROVE  SumFunctionOnSet(f, {e}) = f[e]
<1>1. IsFiniteSet({e}) /\ {e} \ {e} = {}
  BY FS_Singleton
<1>2. SumFunctionOnSet(f, {e}) = f[e] + SumFunctionOnSet(f, {e} \ {e})
  BY <1>1, SumWithout
<1>3. SumFunctionOnSet(f, {e} \ {e}) = 0
  <2> DEFINE N == {e} \ {e}
  <2>1. N = {}
    BY <1>1
  <2> HIDE DEF N
  <2> QED
    BY <2>1, SumEmpty
<1> QED
  BY <1>2, <1>3

-----------------------------------------------------------------------------
(* Division                                                                 *)

\* What \div computes.
LEMMA Quotient ==
  ASSUME NEW t \in Nat, NEW m \in Nat \ {0}
  PROVE  t \div m \in Nat /\ (t \div m) * m <= t /\ t < (t \div m + 1) * m
<1>1. t \div m \in Nat /\ (t \div m) * m <= t
  BY SMT
<1>2. t < (t \div m + 1) * m
  BY SMT
<1> QED
  BY <1>1, <1>2

\* Multiplication by a positive number is strictly monotonic.
LEMMA CancelFactor ==
  ASSUME NEW x \in Int, NEW y \in Int, NEW m \in Nat \ {0}, x * m < y * m
  PROVE  x < y
<1> SUFFICES ASSUME x >= y PROVE x * m >= y * m
  OBVIOUS
<1>1. PICK d \in Nat : x = y + d
  OBVIOUS
<1>2. (y + d) * m = y * m + d * m /\ d * m \in Nat
  BY SMT
<1> QED
  BY <1>1, <1>2

\* A later time lies in no earlier bucket.
LEMMA QuotientMonotonic ==
  ASSUME NEW t \in Nat, NEW u \in Nat, NEW m \in Nat \ {0}, t <= u
  PROVE  t \div m <= u \div m
<1> DEFINE p == t \div m
           q == u \div m
<1>1. p \in Nat /\ q \in Nat /\ p * m <= t /\ u < (q + 1) * m
  BY Quotient
<1> HIDE DEF p, q
<1>2. p * m \in Int /\ (q + 1) * m \in Int
  BY <1>1
<1>3. p * m < (q + 1) * m
  BY <1>1, <1>2
<1>4. p < q + 1
  BY <1>1, <1>3, CancelFactor
<1>5. p <= q
  BY <1>1, <1>4
<1> QED
  BY <1>5 DEF p, q

\* The quotient is the number of whole multiples.
LEMMA QuotientIs ==
  ASSUME NEW t \in Nat, NEW m \in Nat \ {0}, NEW q \in Nat, q * m <= t, t < (q + 1) * m
  PROVE  t \div m = q
<1>1. PICK p : p = t \div m
  OBVIOUS
<1>2. p \in Nat /\ p * m <= t /\ t < (p + 1) * m
  BY <1>1, Quotient
<1>3. q * m \in Int /\ (q + 1) * m \in Int /\ p * m \in Int /\ (p + 1) * m \in Int
  BY <1>2
<1>4. q * m < (p + 1) * m /\ p * m < (q + 1) * m
  BY <1>2, <1>3
<1>5. q < p + 1 /\ p < q + 1
  <2>1. q < p + 1
    BY <1>2, <1>4, CancelFactor
  <2>2. p < q + 1
    BY <1>2, <1>4, CancelFactor
  <2> QED
    BY <2>1, <2>2
<1> QED
  BY <1>1, <1>2, <1>5

\* Products of naturals.
LEMMA ProductMonotonic ==
  ASSUME NEW x \in Nat, NEW y \in Nat, NEW m \in Nat, x <= y
  PROVE  x * m <= y * m /\ m * x <= m * y /\ x * m \in Nat /\ y * m \in Nat
<1>1. PICK d \in Nat : y = x + d
  OBVIOUS
<1>2. (x + d) * m = x * m + d * m /\ d * m \in Nat /\ x * m \in Nat
  BY SMT
<1>3. m * x = x * m /\ m * y = y * m
  BY SMT
<1> QED
  BY <1>1, <1>2, <1>3
=============================================================================
