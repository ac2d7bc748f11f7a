---------------------------- MODULE Sums_proofs ----------------------------
(***************************************************************************)
(* Sums over finite sets.  SumFunctionOnSet takes the elements out one by  *)
(* one in an order of its own; what is proved here is that the order does  *)
(* not matter and how a sum follows its terms.                             *)
(***************************************************************************)
EXTENDS Integers, Functions, FiniteSetTheorems, WellFoundedInduction, TLAPS

\* Induction over the subsets of a finite set, with a set of subsets for the
\* predicate.
LEMMA SubsetInduction ==
  ASSUME NEW S, IsFiniteSet(S), NEW Good,
         \A T \in SUBSET S :
           (\A U \in SUBSET T : U # T => U \in Good) => T \in Good
  PROVE  S \in Good
<1> DEFINE Bad == (SUBSET S) \ Good
<1>1. SUFFICES ASSUME Bad # {} PROVE FALSE
  OBVIOUS
<1>2. Bad \subseteq SUBSET S
  OBVIOUS
<1>3. PICK T \in Bad : \A U \in Bad : ~ (<<U, T>> \in StrictSubsetOrdering(S))
  <2>1. IsWellFoundedOn(StrictSubsetOrdering(S), SUBSET S)
    BY FS_FiniteSubsetsOfFinite, FS_StrictSubsetOrderingWellFounded
  <2> HIDE DEF Bad
  <2> QED BY <1>1, <1>2, <2>1, WFMin
<1>4. \A U \in SUBSET T : U # T => U \in Good
  BY <1>3 DEF StrictSubsetOrdering
<1> QED BY <1>4

\* The element that is taken out first, and what the recursion of the sum
\* defines.
First(s) == CHOOSE x \in s : TRUE
Sums(g, f, S) ==
  g = [s \in SUBSET S |-> IF s = {} THEN 0
                          ELSE f[First(s)] + g[s \ {First(s)}]]

LEMMA FirstIn == \A s : s # {} => First(s) \in s
BY DEF First

LEMMA SumIsRecursive ==
  ASSUME NEW f, NEW S
  PROVE  SumFunctionOnSet(f, S) = (CHOOSE g : Sums(g, f, S))[S]
BY DEF SumFunctionOnSet, FoldFunctionOnSet, MapThenFoldSet, Sums, First

LEMMA SumsUnique ==
  ASSUME NEW f, NEW S, IsFiniteSet(S), NEW S1, NEW S2, NEW g, NEW h,
         Sums(g, f, S1), Sums(h, f, S2), S \subseteq S1, S \subseteq S2
  PROVE  g[S] = h[S]
<1> DEFINE Good == {T \in SUBSET S : g[T] = h[T]}
<1>1. ASSUME NEW T \in SUBSET S, \A U \in SUBSET T : U # T => U \in Good
      PROVE  T \in Good
  <2>1. T \in SUBSET S1 /\ T \in SUBSET S2
    OBVIOUS
  <2>2. CASE T = {}
    BY <2>1, <2>2 DEF Sums
  <2>3. CASE T # {}
    <3>1. T \ {First(T)} \in Good
      BY <1>1, <2>3, FirstIn
    <3>2. /\ g[T] = f[First(T)] + g[T \ {First(T)}]
          /\ h[T] = f[First(T)] + h[T \ {First(T)}]
      BY <2>1, <2>3 DEF Sums
    <3> QED BY <3>1, <3>2
  <2> QED BY <2>2, <2>3
<1>2. S \in Good
  <2> HIDE DEF Good
  <2> QED BY <1>1, SubsetInduction
<1> QED BY <1>2

LEMMA SumsExist ==
  ASSUME NEW f, NEW S, IsFiniteSet(S)
  PROVE  \E g : Sums(g, f, S)
<1> DEFINE Good == {T \in SUBSET S : \E g : Sums(g, f, T)}
<1>1. ASSUME NEW T \in SUBSET S, \A U \in SUBSET T : U # T => U \in Good
      PROVE  \E g : Sums(g, f, T)
  <2> DEFINE G(U) == CHOOSE g : Sums(g, f, U)
             V == [s \in SUBSET T |->
                     IF s = {} THEN 0
                     ELSE f[First(s)] + G(s \ {First(s)})[s \ {First(s)}]]
  <2>1. \A U \in SUBSET T : U # T => Sums(G(U), f, U)
    BY <1>1
  <2> HIDE DEF G
  <2>2. ASSUME NEW U \in SUBSET T, U # T
        PROVE  V[U] = G(U)[U]
    <3> DEFINE u == U \ {First(U)}
    <3>1. Sums(G(U), f, U)
      BY <2>1, <2>2
    <3>2. CASE U = {}
      <4>1. G(U)[U] = 0
        BY <3>1, <3>2 DEF Sums
      <4> QED BY <3>2, <4>1
    <3>3. CASE U # {}
      <4>1. u \in SUBSET T /\ u # T /\ u \subseteq U /\ IsFiniteSet(u)
        BY <2>2, <3>3, FirstIn, FS_Subset
      <4>2. Sums(G(u), f, u)
        BY <2>1, <4>1
      <4>3. G(U)[U] = f[First(U)] + G(U)[u]
        BY <3>1, <3>3 DEF Sums
      <4>4. G(U)[u] = G(u)[u]
        <5> HIDE DEF u
        <5> QED BY <3>1, <4>1, <4>2, SumsUnique
      <4>5. V[U] = f[First(U)] + G(u)[u]
        BY <3>3
      <4> QED BY <4>3, <4>4, <4>5
    <3> QED BY <3>2, <3>3
  <2>3. \A s \in SUBSET T : s # {} => /\ s \ {First(s)} \in SUBSET T
                                      /\ s \ {First(s)} # T
    BY FirstIn
  <2>4. \A s \in SUBSET T :
          s # {} => V[s \ {First(s)}] = G(s \ {First(s)})[s \ {First(s)}]
    BY <2>2, <2>3
  <2>5. V = [s \in SUBSET T |-> IF s = {} THEN 0
                                ELSE f[First(s)] + V[s \ {First(s)}]]
    BY <2>4
  <2> QED BY <2>5 DEF Sums
<1>2. S \in Good
  <2>1. \A T \in SUBSET S : (\A U \in SUBSET T : U # T => U \in Good) => T \in Good
    BY <1>1
  <2> HIDE DEF Good
  <2> QED BY <2>1, SubsetInduction
<1> QED BY <1>2

\* The equation of the recursion holds of the sum itself.
LEMMA SumStep ==
  ASSUME NEW f, NEW S, IsFiniteSet(S)
  PROVE  SumFunctionOnSet(f, S) =
           IF S = {} THEN 0
           ELSE f[First(S)] + SumFunctionOnSet(f, S \ {First(S)})
<1> DEFINE g == CHOOSE g : Sums(g, f, S)
           T == S \ {First(S)}
           h == CHOOSE h : Sums(h, f, T)
<1>1. Sums(g, f, S) /\ SumFunctionOnSet(f, S) = g[S]
  BY SumsExist, SumIsRecursive
<1>2. IsFiniteSet(T) /\ T \subseteq S
  BY FS_Subset
<1>3. Sums(h, f, T) /\ SumFunctionOnSet(f, T) = h[T]
  BY <1>2, SumsExist, SumIsRecursive
<1> HIDE DEF g, h
<1>4. g[T] = h[T]
  BY <1>1, <1>2, <1>3, SumsUnique
<1>5. g[S] = IF S = {} THEN 0 ELSE f[First(S)] + g[T]
  BY <1>1 DEF Sums
<1> QED BY <1>1, <1>3, <1>4, <1>5

LEMMA SumEmpty == \A f : SumFunctionOnSet(f, {}) = 0
BY SumStep, FS_EmptySet

\* Integers add up to an integer.
LEMMA SumInt ==
  ASSUME NEW f, NEW S, IsFiniteSet(S), \A x \in S : f[x] \in Int
  PROVE  SumFunctionOnSet(f, S) \in Int
<1> DEFINE Good == {T \in SUBSET S : SumFunctionOnSet(f, T) \in Int}
<1>1. ASSUME NEW T \in SUBSET S, \A U \in SUBSET T : U # T => U \in Good
      PROVE  T \in Good
  <2>1. CASE T = {}
    BY <2>1, SumEmpty
  <2>2. CASE T # {}
    <3>1. T \ {First(T)} \in Good /\ f[First(T)] \in Int /\ IsFiniteSet(T)
      BY <1>1, <2>2, FirstIn, FS_Subset
    <3> QED BY <2>2, <3>1, SumStep
  <2> QED BY <2>1, <2>2
<1>2. S \in Good
  <2> HIDE DEF Good
  <2> QED BY <1>1, SubsetInduction
<1> QED BY <1>2

\* Whichever term is taken out, the rest is the sum of the others.
LEMMA SumWithout ==
  ASSUME NEW f, NEW S, IsFiniteSet(S), \A x \in S : f[x] \in Int, NEW x \in S
  PROVE  /\ SumFunctionOnSet(f, S) = f[x] + SumFunctionOnSet(f, S \ {x})
         /\ SumFunctionOnSet(f, S \ {x}) \in Int
<1> DEFINE Sum(T) == SumFunctionOnSet(f, T)
           Good == {T \in SUBSET S : \A y \in T : Sum(T) = f[y] + Sum(T \ {y})}
<1>0. \A T \in SUBSET S : IsFiniteSet(T) /\ Sum(T) \in Int
  BY FS_Subset, SumInt
<1>1. ASSUME NEW T \in SUBSET S, \A U \in SUBSET T : U # T => U \in Good,
             NEW y \in T
      PROVE  Sum(T) = f[y] + Sum(T \ {y})
  <2> DEFINE z == First(T)
  <2>1. z \in T /\ Sum(T) = f[z] + Sum(T \ {z})
    BY <1>0, SumStep, FirstIn
  <2> HIDE DEF z
  <2>2. CASE y = z
    BY <2>1, <2>2
  <2>3. CASE y # z
    <3>1. T \ {z} \in Good /\ T \ {y} \in Good
      BY <1>1, <2>1
    <3>2. /\ Sum(T \ {z}) = f[y] + Sum((T \ {z}) \ {y})
          /\ Sum(T \ {y}) = f[z] + Sum((T \ {y}) \ {z})
      BY <2>1, <2>3, <3>1
    <3> DEFINE rest == (T \ {y}) \ {z}
    <3>3. (T \ {z}) \ {y} = rest /\ rest \in SUBSET S
      OBVIOUS
    <3>4. Sum(rest) \in Int /\ f[y] \in Int /\ f[z] \in Int
      BY <1>0, <2>1, <3>3
    <3>5. Sum(T \ {z}) = f[y] + Sum(rest) /\ Sum(T \ {y}) = f[z] + Sum(rest)
      BY <3>2, <3>3
    <3> HIDE DEF Sum, rest
    <3> QED BY <2>1, <3>4, <3>5
  <2> QED BY <2>2, <2>3
<1>2. S \in Good
  <2>1. \A T \in SUBSET S : (\A U \in SUBSET T : U # T => U \in Good) => T \in Good
    BY <1>1
  <2> HIDE DEF Good
  <2> QED BY <2>1, SubsetInduction
<1>3. S \ {x} \in SUBSET S
  OBVIOUS
<1> QED BY <1>0, <1>2, <1>3

\* The sum of sums, term by term.
LEMMA SumAdd ==
  ASSUME NEW f, NEW g, NEW h, NEW S, IsFiniteSet(S),
         \A x \in S : f[x] \in Int /\ g[x] \in Int /\ h[x] = f[x] + g[x]
  PROVE  SumFunctionOnSet(h, S) = SumFunctionOnSet(f, S) + SumFunctionOnSet(g, S)
<1> DEFINE Sum(k, T) == SumFunctionOnSet(k, T)
           Good == {T \in SUBSET S : Sum(h, T) = Sum(f, T) + Sum(g, T)}
<1>1. ASSUME NEW T \in SUBSET S, \A U \in SUBSET T : U # T => U \in Good
      PROVE  Sum(h, T) = Sum(f, T) + Sum(g, T)
  <2>1. CASE T = {}
    BY <2>1, SumEmpty
  <2>2. CASE T # {}
    <3> DEFINE x == First(T)
               U == T \ {x}
    <3>1. x \in T /\ U \in Good /\ IsFiniteSet(T) /\ IsFiniteSet(U)
      BY <1>1, <2>2, FirstIn, FS_Subset
    <3>2. /\ Sum(h, T) = h[x] + Sum(h, U)
          /\ Sum(f, T) = f[x] + Sum(f, U)
          /\ Sum(g, T) = g[x] + Sum(g, U)
      BY <2>2, <3>1, SumStep
    <3>3. Sum(f, U) \in Int /\ Sum(g, U) \in Int
      BY <3>1, SumInt
    <3>4. /\ f[x] \in Int /\ g[x] \in Int /\ h[x] = f[x] + g[x]
          /\ Sum(h, U) = Sum(f, U) + Sum(g, U)
      BY <3>1
    <3> HIDE DEF Sum, U, x
    <3> QED BY <3>2, <3>3, <3>4
  <2> QED BY <2>1, <2>2
<1>2. S \in Good
  <2>1. \A T \in SUBSET S : (\A U \in SUBSET T : U # T => U \in Good) => T \in Good
    BY <1>1
  <2> HIDE DEF Good
  <2> QED BY <2>1, SubsetInduction
<1> QED BY <1>2

\* A thousand times every term adds up to a thousand times the sum.
LEMMA SumScaled ==
  ASSUME NEW f, NEW g, NEW S, IsFiniteSet(S),
         \A x \in S : f[x] \in Int /\ g[x] = 1000 * f[x]
  PROVE  SumFunctionOnSet(g, S) = 1000 * SumFunctionOnSet(f, S)
<1> DEFINE Sum(k, T) == SumFunctionOnSet(k, T)
           Good == {T \in SUBSET S : Sum(g, T) = 1000 * Sum(f, T)}
<1>1. ASSUME NEW T \in SUBSET S, \A U \in SUBSET T : U # T => U \in Good
      PROVE  Sum(g, T) = 1000 * Sum(f, T)
  <2>1. CASE T = {}
    <3>1. Sum(g, T) = 0 /\ Sum(f, T) = 0
      BY <2>1, SumEmpty
    <3> HIDE DEF Sum
    <3> QED BY <3>1
  <2>2. CASE T # {}
    <3> DEFINE x == First(T)
               U == T \ {x}
    <3>1. x \in T /\ U \in Good /\ IsFiniteSet(T) /\ IsFiniteSet(U)
      BY <1>1, <2>2, FirstIn, FS_Subset
    <3>2. Sum(g, T) = g[x] + Sum(g, U) /\ Sum(f, T) = f[x] + Sum(f, U)
      BY <2>2, <3>1, SumStep
    <3>3. Sum(f, U) \in Int
      BY <3>1, SumInt
    <3>4. f[x] \in Int /\ g[x] = 1000 * f[x] /\ Sum(g, U) = 1000 * Sum(f, U)
      BY <3>1
    <3> HIDE DEF Sum, U, x
    <3> QED BY <3>2, <3>3, <3>4
  <2> QED BY <2>1, <2>2
<1>2. S \in Good
  <2>1. \A T \in SUBSET S : (\A U \in SUBSET T : U # T => U \in Good) => T \in Good
    BY <1>1
  <2> HIDE DEF Good
  <2> QED BY <2>1, SubsetInduction
<1> QED BY <1>2

\* Terms that are not smaller do not add up to less.
LEMMA SumMonotone ==
  ASSUME NEW f, NEW g, NEW S, IsFiniteSet(S),
         \A x \in S : f[x] \in Int /\ g[x] \in Int /\ f[x] <= g[x]
  PROVE  SumFunctionOnSet(f, S) <= SumFunctionOnSet(g, S)
<1> DEFINE Sum(k, T) == SumFunctionOnSet(k, T)
           Good == {T \in SUBSET S : Sum(f, T) <= Sum(g, T)}
<1>1. ASSUME NEW T \in SUBSET S, \A U \in SUBSET T : U # T => U \in Good
      PROVE  Sum(f, T) <= Sum(g, T)
  <2>1. CASE T = {}
    BY <2>1, SumEmpty
  <2>2. CASE T # {}
    <3> DEFINE x == First(T)
               U == T \ {x}
    <3>1. x \in T /\ U \in Good /\ IsFiniteSet(T) /\ IsFiniteSet(U)
      BY <1>1, <2>2, FirstIn, FS_Subset
    <3>2. Sum(f, T) = f[x] + Sum(f, U) /\ Sum(g, T) = g[x] + Sum(g, U)
      BY <2>2, <3>1, SumStep
    <3>3. Sum(f, U) \in Int /\ Sum(g, U) \in Int
      BY <3>1, SumInt
    <3>4. f[x] \in Int /\ g[x] \in Int /\ f[x] <= g[x] /\ Sum(f, U) <= Sum(g, U)
      BY <3>1
    <3> HIDE DEF Sum, U, x
    <3> QED BY <3>2, <3>3, <3>4
  <2> QED BY <2>1, <2>2
<1>2. S \in Good
  <2>1. \A T \in SUBSET S : (\A U \in SUBSET T : U # T => U \in Good) => T \in Good
    BY <1>1
  <2> HIDE DEF Good
  <2> QED BY <2>1, SubsetInduction
<1> QED BY <1>2

\* Equal terms have equal sums.
LEMMA SumSame ==
  ASSUME NEW f, NEW g, NEW S, IsFiniteSet(S),
         \A x \in S : f[x] \in Int /\ g[x] = f[x]
  PROVE  SumFunctionOnSet(g, S) = SumFunctionOnSet(f, S)
<1>1. \A x \in S : f[x] \in Int /\ g[x] \in Int /\ f[x] <= g[x] /\ g[x] <= f[x]
  OBVIOUS
<1>2. SumFunctionOnSet(f, S) \in Int /\ SumFunctionOnSet(g, S) \in Int
  BY <1>1, SumInt
<1>3. SumFunctionOnSet(f, S) <= SumFunctionOnSet(g, S)
  BY <1>1, SumMonotone
<1>4. SumFunctionOnSet(g, S) <= SumFunctionOnSet(f, S)
  BY <1>1, SumMonotone
<1> QED BY <1>2, <1>3, <1>4

\* Nothing adds up to nothing.
LEMMA SumZero ==
  ASSUME NEW f, NEW S, IsFiniteSet(S), \A x \in S : f[x] = 0
  PROVE  SumFunctionOnSet(f, S) = 0
<1>1. \A x \in S : f[x] \in Int /\ f[x] = f[x] + f[x]
  OBVIOUS
<1>2. SumFunctionOnSet(f, S) = SumFunctionOnSet(f, S) + SumFunctionOnSet(f, S)
  BY <1>1, SumAdd
<1>3. SumFunctionOnSet(f, S) \in Int
  BY <1>1, SumInt
<1>4. \A n \in Int : n = n + n => n = 0
  OBVIOUS
<1> QED BY <1>2, <1>3, <1>4

\* A change of one term is a change of the sum.
LEMMA SumUpdate ==
  ASSUME NEW f, NEW g, NEW S, IsFiniteSet(S), NEW r \in S,
         \A x \in S : f[x] \in Int /\ g[x] \in Int,
         \A x \in S \ {r} : g[x] = f[x]
  PROVE  /\ SumFunctionOnSet(g, S) = SumFunctionOnSet(f, S) + (g[r] - f[r])
         /\ SumFunctionOnSet(f, S) \in Int
<1>1. /\ SumFunctionOnSet(f, S) = f[r] + SumFunctionOnSet(f, S \ {r})
      /\ SumFunctionOnSet(g, S) = g[r] + SumFunctionOnSet(g, S \ {r})
  BY SumWithout
<1>2. IsFiniteSet(S \ {r})
  BY FS_Subset
<1>3. SumFunctionOnSet(g, S \ {r}) = SumFunctionOnSet(f, S \ {r})
  BY <1>2, SumSame
<1>4. SumFunctionOnSet(f, S \ {r}) \in Int
  BY <1>2, SumInt
<1> QED BY <1>1, <1>3, <1>4

\* More terms that are not negative do not add up to less.
LEMMA SumSubset ==
  ASSUME NEW f, NEW S, IsFiniteSet(S), \A x \in S : f[x] \in Nat,
         NEW T \in SUBSET S
  PROVE  /\ SumFunctionOnSet(f, T) <= SumFunctionOnSet(f, S)
         /\ SumFunctionOnSet(f, T) \in Nat /\ SumFunctionOnSet(f, S) \in Nat
<1> DEFINE Sum(U) == SumFunctionOnSet(f, U)
           Good == {U \in SUBSET S : Sum(U) \in Nat /\ Sum(U \cap T) \in Nat
                                     /\ Sum(U \cap T) <= Sum(U)}
<1>1. ASSUME NEW U \in SUBSET S, \A W \in SUBSET U : W # U => W \in Good
      PROVE  U \in Good
  <2>1. CASE U = {}
    <3>1. Sum(U) = 0 /\ Sum(U \cap T) = 0
      BY <2>1, SumEmpty
    <3> QED BY <3>1
  <2>2. CASE U # {}
    <3> DEFINE x == First(U)
               W == U \ {x}
    <3>1. /\ x \in U /\ W \in Good /\ IsFiniteSet(U)
          /\ IsFiniteSet(U \cap T) /\ U \cap T \in SUBSET S /\ U \in SUBSET S
      BY <1>1, <2>2, FirstIn, FS_Subset
    <3>2. /\ f[x] \in Nat /\ Sum(W) \in Nat /\ Sum(W \cap T) \in Nat
          /\ Sum(W \cap T) <= Sum(W)
      BY <3>1
    <3>3. Sum(U) = f[x] + Sum(W)
      BY <2>2, <3>1, SumStep
    <3>4. CASE x \in T
      <4>1. x \in U \cap T /\ W \cap T = (U \cap T) \ {x}
        BY <3>1, <3>4
      <4>2. \A y \in U \cap T : f[y] \in Int
        BY <3>1
      <4>3. Sum(U \cap T) = f[x] + Sum(W \cap T)
        <5> HIDE DEF x, W
        <5> QED BY <3>1, <4>1, <4>2, SumWithout
      <4> HIDE DEF Sum, x, W
      <4> QED BY <3>2, <3>3, <4>3
    <3>5. CASE x \notin T
      <4>1. U \cap T = W \cap T
        BY <3>5
      <4> HIDE DEF Sum, x, W
      <4> QED BY <3>2, <3>3, <4>1
    <3> QED BY <3>4, <3>5
  <2> QED BY <2>1, <2>2
<1>2. S \in Good
  <2> HIDE DEF Good
  <2> QED BY <1>1, SubsetInduction
<1>3. S \cap T = T
  OBVIOUS
<1> QED BY <1>2, <1>3
=============================================================================
