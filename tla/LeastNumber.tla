------------------------------- MODULE LeastNumber -------------------------------
(***************************************************************************)
(* The least-number principle in the form the proofs of this project use:  *)
(* a set of naturals has the minimum that FiniteSetsExt's Min names.  A    *)
(* fact about every index of a sequence is proved by looking at the least  *)
(* index where it fails.                                                   *)
(***************************************************************************)
EXTENDS Integers, FiniteSets, FiniteSetsExt, Functions, Folds, WellFoundedInduction, FiniteSetTheorems, TLAPS

\* A non-empty set of naturals contains its minimum.  Proved from the well-founded
\* order of the initial segments 1..x, which the library states without an operator
\* parameter.
LEMMA MinInNat ==
  ASSUME NEW S \in SUBSET Nat, S # {}
  PROVE  Min(S) \in S /\ \A y \in S : Min(S) <= y
<1> DEFINE T == {1..x : x \in S}
<1>1. T \subseteq FiniteSubsetsOf(Nat)
  BY FS_Interval DEF FiniteSubsetsOf
<1>2. PICK t \in T : \A u \in T : ~ (<<u, t>> \in StrictSubsetOrdering(Nat))
  <2>1. T # {}
    OBVIOUS
  <2>2. IsWellFoundedOn(StrictSubsetOrdering(Nat), FiniteSubsetsOf(Nat))
    BY FS_StrictSubsetOrderingWellFounded
  <2> HIDE DEF T
  <2> QED BY <1>1, <2>1, <2>2, WFMin
<1>3. PICK x \in S : t = 1..x
  OBVIOUS
<1>4. ASSUME NEW y \in S, y < x
      PROVE  FALSE
  <2>1. x \in 1..x /\ x \notin 1..y /\ 1..y \subseteq 1..x
    BY <1>4
  <2>2. <<1..y, 1..x>> \in StrictSubsetOrdering(Nat)
    BY <2>1 DEF StrictSubsetOrdering
  <2> QED BY <2>2, <1>2, <1>3
<1>5. \A y \in S : x <= y
  BY <1>4
<1> QED
  BY <1>5 DEF Min

\* The same without naming the minimum.
LEMMA LeastMember ==
  ASSUME NEW S \in SUBSET Nat, S # {}
  PROVE  \E m \in S : \A y \in S : m <= y
BY MinInNat

-----------------------------------------------------------------------------
(* Recursion.  A recursive function is one CHOOSEn by its equation, of     *)
(* which nothing is known until some function is shown to satisfy it.      *)

\* A value given at 0 and a step defined on a set give a function on the naturals.
LEMMA StepRecursion ==
  ASSUME NEW T, NEW a \in T, NEW G \in [T -> T]
  PROVE  \E f \in [Nat -> T] : f[0] = a /\ \A n \in Nat : f[n + 1] = G[f[n]]
<1> DEFINE Upto(g, n) == /\ g \in [0..n -> T]
                         /\ g[0] = a
                         /\ \A k \in 0..n : k < n => g[k + 1] = G[g[k]]
           Bad == {n \in Nat : ~\E g : Upto(g, n)}
<1>1. Bad = {}
  <2> SUFFICES ASSUME Bad # {} PROVE FALSE
    OBVIOUS
  <2>1. PICK n \in Bad : \A y \in Bad : n <= y
    <3> HIDE DEF Bad
    <3>1. Bad \in SUBSET Nat
      BY DEF Bad
    <3> QED BY <3>1, LeastMember
  <2>2. n # 0
    <3>1. Upto([k \in 0..0 |-> a], 0)
      OBVIOUS
    <3> QED BY <3>1, <2>1
  <2>3. PICK g : Upto(g, n - 1)
    <3>1. n - 1 \in Nat /\ ~(n <= n - 1)
      BY <2>1, <2>2
    <3> HIDE DEF Upto
    <3> QED BY <2>1, <3>1
  <2> DEFINE h == [k \in 0..n |-> IF k = n THEN G[g[n - 1]] ELSE g[k]]
  <2>4. Upto(h, n)
    <3>1. n \in Nat /\ n - 1 \in Nat
      BY <2>1, <2>2
    <3>2. h \in [0..n -> T]
      BY <2>3, <3>1
    <3>3. h[0] = a
      BY <2>3, <3>1
    <3>4. ASSUME NEW k \in 0..n, k < n
          PROVE  h[k + 1] = G[h[k]]
      <4>1. k \in 0..n - 1 /\ h[k] = g[k]
        BY <3>1, <3>4
      <4>2. CASE k = n - 1
        BY <3>1, <4>1, <4>2
      <4>3. CASE k # n - 1
        BY <2>3, <3>1, <4>1, <4>3
      <4> QED BY <4>2, <4>3
    <3> QED BY <3>2, <3>3, <3>4
  <2> HIDE DEF h, Upto
  <2> QED BY <2>1, <2>4
<1>2. ASSUME NEW n \in Nat PROVE \E g : Upto(g, n)
  <2> HIDE DEF Upto
  <2> QED BY <1>1
<1> DEFINE chosen(n) == CHOOSE g : Upto(g, n)
<1>3. \A n \in Nat : Upto(chosen(n), n)
  <2> HIDE DEF Upto
  <2> QED BY <1>2
<1> HIDE DEF chosen
\* The choices agree where both are defined.
<1>4. ASSUME NEW n \in Nat, NEW k \in 0..n
      PROVE  chosen(n)[k] = chosen(n + 1)[k]
  <2> DEFINE Differ == {j \in 0..n : chosen(n)[j] # chosen(n + 1)[j]}
  <2> SUFFICES ASSUME Differ # {} PROVE FALSE
    OBVIOUS
  <2>1. PICK j \in Differ : \A y \in Differ : j <= y
    <3>1. Differ \in SUBSET Nat
      OBVIOUS
    <3> HIDE DEF Differ
    <3> QED BY <3>1, LeastMember
  <2>2. Upto(chosen(n), n) /\ Upto(chosen(n + 1), n + 1)
    <3>1. n \in Nat /\ n + 1 \in Nat
      OBVIOUS
    <3> HIDE DEF Upto
    <3> QED BY <3>1, <1>3
  <2>3. j # 0
    BY <2>1, <2>2
  <2>4. j - 1 \in 0..n /\ j - 1 < n /\ j - 1 \notin Differ /\ (j - 1) + 1 = j
    BY <2>1, <2>3
  <2>5. chosen(n)[j - 1] = chosen(n + 1)[j - 1]
    BY <2>4
  <2>6. chosen(n)[(j - 1) + 1] = G[chosen(n)[j - 1]]
    BY <2>2, <2>4
  <2>7. chosen(n + 1)[(j - 1) + 1] = G[chosen(n + 1)[j - 1]]
    BY <2>2, <2>4
  <2> QED BY <2>1, <2>4, <2>5, <2>6, <2>7
<1> DEFINE f == [n \in Nat |-> chosen(n)[n]]
<1>5. f \in [Nat -> T]
  BY <1>3
<1>6. f[0] = a
  BY <1>3
<1>7. ASSUME NEW n \in Nat
      PROVE  f[n + 1] = G[f[n]]
  <2>1. chosen(n + 1)[n + 1] = G[chosen(n + 1)[n]]
    BY <1>3
  <2>2. chosen(n)[n] = chosen(n + 1)[n]
    BY <1>4
  <2> QED BY <2>1, <2>2
<1> HIDE DEF f
<1> QED
  BY <1>5, <1>6, <1>7

\* f folds up the subsets of S: b for the empty set, and for any other G of the member
\* that c chooses from it and f of the rest.  The folds of the community modules are
\* defined by such an equation.
FoldsUp(f, S, b, G, c) ==
  \A s \in SUBSET S : f[s] = IF s = {} THEN b ELSE G[<<c[s], f[s \ {c[s]}]>>]

\* Over a finite set the equation has a solution.
LEMMA SetRecursion ==
  ASSUME NEW S, IsFiniteSet(S), NEW T, NEW b \in T, NEW G \in [S \X T -> T],
         NEW c, \A s \in SUBSET S : s # {} => c[s] \in s
  PROVE  \E f \in [SUBSET S -> T] : FoldsUp(f, S, b, G, c)
<1> DEFINE At(f, s) == f[s] = IF s = {} THEN b ELSE G[<<c[s], f[s \ {c[s]}]>>]
           Upto(f, n) == f \in [SUBSET S -> T] /\ \A s \in SUBSET S : Cardinality(s) <= n => At(f, s)
           Bad == {n \in Nat : ~\E f : Upto(f, n)}
<1>0. \A s \in SUBSET S : IsFiniteSet(s) /\ Cardinality(s) \in Nat /\ Cardinality(s) <= Cardinality(S)
  BY FS_Subset, FS_CardinalityType
<1>a. \A s \in SUBSET S : s # {} => s \ {c[s]} \in SUBSET S /\ Cardinality(s \ {c[s]}) = Cardinality(s) - 1
  BY <1>0, FS_RemoveElement
<1>b. \A s \in SUBSET S : Cardinality(s) = 0 => s = {}
  BY <1>0, FS_EmptySet
<1>1. Bad = {}
  <2> SUFFICES ASSUME Bad # {} PROVE FALSE
    OBVIOUS
  <2>1. PICK n \in Bad : \A y \in Bad : n <= y
    <3> HIDE DEF Bad
    <3>1. Bad \in SUBSET Nat
      BY DEF Bad
    <3> QED BY <3>1, LeastMember
  <2>2. n # 0
    <3>1. Upto([s \in SUBSET S |-> b], 0)
      BY <1>0, <1>b
    <3> HIDE DEF Upto
    <3>2. \E f : Upto(f, 0)
      BY <3>1
    <3> QED BY <3>2, <2>1
  <2>3. PICK g : Upto(g, n - 1)
    <3>1. n - 1 \in Nat /\ ~(n <= n - 1)
      BY <2>1, <2>2
    <3> HIDE DEF Upto
    <3> QED BY <2>1, <3>1
  <2> DEFINE h == [s \in SUBSET S |-> IF s = {} THEN b ELSE G[<<c[s], g[s \ {c[s]}]>>]]
  <2>4. h \in [SUBSET S -> T]
    <3>1. ASSUME NEW s \in SUBSET S, s # {}
          PROVE  G[<<c[s], g[s \ {c[s]}]>>] \in T
      <4>1. c[s] \in S /\ g[s \ {c[s]}] \in T
        BY <2>3, <3>1, <1>a
      <4> QED BY <4>1
    <3> QED BY <3>1
  <2>5. ASSUME NEW s \in SUBSET S, Cardinality(s) <= n
        PROVE  At(h, s)
    <3>1. CASE s = {}
      BY <3>1
    <3>2. CASE s # {}
      <4> DEFINE r == s \ {c[s]}
      <4>1. r \in SUBSET S /\ Cardinality(r) <= n - 1
        BY <3>2, <2>5, <1>a, <1>0, <2>1
      <4>2. g[r] = IF r = {} THEN b ELSE G[<<c[r], g[r \ {c[r]}]>>]
        BY <2>3, <4>1
      <4>3. h[r] = g[r]
        <5> HIDE DEF r
        <5> QED BY <4>1, <4>2
      <4>4. h[s] = G[<<c[s], g[r]>>]
        BY <3>2
      <4> QED BY <3>2, <4>3, <4>4
    <3> QED BY <3>1, <3>2
  <2>6. Upto(h, n)
    BY <2>4, <2>5
  <2> HIDE DEF h, Upto
  <2> QED BY <2>1, <2>6
<1>2. PICK f : Upto(f, Cardinality(S))
  <2>1. Cardinality(S) \in Nat
    BY FS_CardinalityType
  <2> HIDE DEF Upto
  <2> QED BY <1>1, <2>1
<1>3. \A s \in SUBSET S : At(f, s)
  BY <1>0, <1>2
<1> QED
  BY <1>2, <1>3 DEF FoldsUp

-----------------------------------------------------------------------------
(* Sums: what SumFunction adds up, whatever order it chooses.              *)

Partial(fun) ==
  CHOOSE iter : iter = [s \in SUBSET DOMAIN fun |->
                          IF s = {} THEN 0
                          ELSE LET x == CHOOSE x \in s : TRUE IN fun[x] + iter[s \ {x}]]

\* The sum of a function is the last of its partial sums.
LEMMA SumIsPartial ==
  ASSUME NEW fun
  PROVE  SumFunction(fun) = Partial(fun)[DOMAIN fun]
BY Zenon DEF SumFunction, SumFunctionOnSet, FoldFunctionOnSet, MapThenFoldSet, Partial

\* P adds up the members of every subset of S in some order.
AddsUp(P, fun, S) ==
  \A s \in SUBSET S : s # {} => \E x \in s : P[s] = fun[x] + P[s \ {x}]

\* The equation of the partial sums has a solution.
LEMMA PartialType ==
  ASSUME NEW S, IsFiniteSet(S), NEW fun \in [S -> Nat]
  PROVE  /\ Partial(fun) \in [SUBSET S -> Nat]
         /\ Partial(fun)[{}] = 0
         /\ AddsUp(Partial(fun), fun, S)
<1> DEFINE c == [s \in SUBSET S |-> CHOOSE x \in s : TRUE]
           G == [p \in S \X Nat |-> fun[p[1]] + p[2]]
<1>1. \A s \in SUBSET S : s # {} => c[s] \in s
  OBVIOUS
<1>2. G \in [S \X Nat -> Nat]
  OBVIOUS
<1>3. PICK f \in [SUBSET S -> Nat] : FoldsUp(f, S, 0, G, c)
  <2>1. 0 \in Nat
    OBVIOUS
  <2> HIDE DEF c, G
  <2>2. \E f \in [SUBSET S -> Nat] : FoldsUp(f, S, 0, G, c)
    BY <1>1, <1>2, <2>1, SetRecursion
  <2> QED BY <2>2
<1>4. ASSUME NEW s \in SUBSET S
      PROVE  f[s] = IF s = {} THEN 0 ELSE fun[c[s]] + f[s \ {c[s]}]
  <2>1. CASE s = {}
    BY <1>3, <2>1 DEF FoldsUp
  <2>2. CASE s # {}
    <3>1. <<c[s], f[s \ {c[s]}]>> \in S \X Nat
      <4> HIDE DEF c
      <4> QED BY <1>1, <2>2
    <3>2. f[s] = G[<<c[s], f[s \ {c[s]}]>>]
      <4> HIDE DEF c, G
      <4> QED BY <1>3, <2>2 DEF FoldsUp
    <3>3. G[<<c[s], f[s \ {c[s]}]>>] = fun[c[s]] + f[s \ {c[s]}]
      <4> HIDE DEF c
      <4> QED BY <3>1
    <3> QED BY <2>2, <3>2, <3>3
  <2> QED BY <2>1, <2>2
<1> DEFINE Eq(iter) == iter = [s \in SUBSET DOMAIN fun |->
                          IF s = {} THEN 0
                          ELSE LET x == CHOOSE x \in s : TRUE IN fun[x] + iter[s \ {x}]]
<1>5. Eq(f)
  <2>1. ASSUME NEW s \in SUBSET S
        PROVE  f[s] = IF s = {} THEN 0
                      ELSE LET x == CHOOSE x \in s : TRUE IN fun[x] + f[s \ {x}]
    BY <1>4
  <2>2. f = [s \in SUBSET S |-> f[s]] /\ DOMAIN fun = S
    OBVIOUS
  <2> QED BY <2>1, <2>2
<1>6. Eq(Partial(fun))
  <2>1. Partial(fun) = CHOOSE iter : Eq(iter)
    BY Zenon DEF Partial
  <2> HIDE DEF Eq
  <2> QED BY <1>5, <2>1
<1>7. ASSUME NEW s \in SUBSET S
      PROVE  Partial(fun)[s] = IF s = {} THEN 0 ELSE fun[c[s]] + Partial(fun)[s \ {c[s]}]
  BY <1>6
<1> DEFINE Bad == {n \in Nat : \E s \in SUBSET S : Cardinality(s) = n /\ Partial(fun)[s] # f[s]}
<1>8. Bad = {}
  <2> SUFFICES ASSUME Bad # {} PROVE FALSE
    OBVIOUS
  <2>1. PICK n \in Bad : \A y \in Bad : n <= y
    <3> HIDE DEF Bad
    <3>1. Bad \in SUBSET Nat
      BY DEF Bad
    <3> QED BY <3>1, LeastMember
  <2>2. PICK s \in SUBSET S : Cardinality(s) = n /\ Partial(fun)[s] # f[s]
    BY <2>1
  <2>3. s # {}
    BY <1>4, <1>7, <2>2
  <2> DEFINE r == s \ {c[s]}
  <2>4. r \in SUBSET S /\ Cardinality(r) = n - 1 /\ n - 1 \in Nat
    <3>1. IsFiniteSet(s) /\ c[s] \in s
      BY <1>1, <2>3, FS_Subset
    <3> HIDE DEF c
    <3>2. IsFiniteSet(r) /\ Cardinality(r) = Cardinality(s) - 1
      BY <3>1, FS_RemoveElement
    <3>3. Cardinality(r) \in Nat
      BY <3>2, FS_CardinalityType
    <3> QED BY <3>1, <3>2, <3>3, <2>2
  <2>5. Partial(fun)[r] = f[r]
    <3>1. n - 1 \notin Bad
      <4>1. ~(n <= n - 1)
        OBVIOUS
      <4> HIDE DEF Bad
      <4> QED BY <2>1, <4>1
    <3> HIDE DEF r
    <3> QED BY <2>4, <3>1
  <2> HIDE DEF c
  <2> QED BY <1>4, <1>7, <2>2, <2>3, <2>5
<1>9. \A s \in SUBSET S : Partial(fun)[s] = f[s]
  <2> SUFFICES ASSUME NEW s \in SUBSET S PROVE Partial(fun)[s] = f[s]
    OBVIOUS
  <2>1. Cardinality(s) \in Nat
    BY FS_Subset, FS_CardinalityType
  <2>2. Cardinality(s) \notin Bad
    <3> HIDE DEF Bad
    <3> QED BY <1>8
  <2> QED BY <2>1, <2>2
<1>10. Partial(fun) = [s \in SUBSET S |-> Partial(fun)[s]]
  <2>1. DOMAIN fun = S
    OBVIOUS
  <2> QED BY <1>6, <2>1
<1>11. Partial(fun) \in [SUBSET S -> Nat]
  BY <1>9, <1>10
<1> HIDE DEF c, Eq
<1>12. Partial(fun)[{}] = 0
  BY <1>7
<1>13. AddsUp(Partial(fun), fun, S)
  BY <1>1, <1>7 DEF AddsUp
<1> QED
  BY <1>11, <1>12, <1>13

\* The order of the summands does not matter.
LEMMA PartialAny ==
  ASSUME NEW S, IsFiniteSet(S), NEW fun \in [S -> Nat], NEW s \in SUBSET S, NEW x \in s
  PROVE  Partial(fun)[s] = fun[x] + Partial(fun)[s \ {x}]
<1>b. AddsUp(Partial(fun), fun, S)
  BY PartialType
<1> DEFINE P == Partial(fun)
           Bad == {n \in Nat : \E r \in SUBSET S : \E y \in r :
                                 Cardinality(r) = n /\ P[r] # fun[y] + P[r \ {y}]}
<1>0. P \in [SUBSET S -> Nat]
  BY PartialType
<1> SUFFICES ASSUME Bad # {} PROVE FALSE
  <2>1. IsFiniteSet(s) /\ Cardinality(s) \in Nat
    BY FS_Subset, FS_CardinalityType
  <2> QED BY <2>1
<1>1. PICK n \in Bad : \A m \in Bad : n <= m
  <2>1. Bad \in SUBSET Nat
    OBVIOUS
  <2> HIDE DEF Bad
  <2> QED BY <2>1, LeastMember
<1>a. PICK r \in SUBSET S : \E y \in r : Cardinality(r) = n /\ P[r] # fun[y] + P[r \ {y}]
  BY <1>1
<1>2. PICK y \in r : Cardinality(r) = n /\ P[r] # fun[y] + P[r \ {y}]
  BY <1>a
<1>3. PICK z \in r : P[r] = fun[z] + P[r \ {z}]
  <2> HIDE DEF Bad
  <2> QED BY <1>2, <1>b DEF AddsUp
<1>4. z # y
  BY <1>2, <1>3
<1>5. /\ r \ {y} \in SUBSET S /\ r \ {z} \in SUBSET S
      /\ Cardinality(r \ {y}) = n - 1 /\ Cardinality(r \ {z}) = n - 1 /\ n - 1 \in Nat
  <2>1. IsFiniteSet(r)
    BY FS_Subset
  <2>2. Cardinality(r \ {y}) = n - 1 /\ IsFiniteSet(r \ {y}) /\ Cardinality(r \ {z}) = n - 1
    BY <1>2, <2>1, FS_RemoveElement
  <2>3. Cardinality(r \ {y}) \in Nat
    BY <2>2, FS_CardinalityType
  <2> QED BY <2>2, <2>3
<1>6. n - 1 \notin Bad
  <2>1. n \in Nat /\ ~(n <= n - 1)
    OBVIOUS
  <2> HIDE DEF Bad
  <2> QED BY <1>1, <2>1
<1>7. P[r \ {y}] = fun[z] + P[(r \ {y}) \ {z}] /\ P[r \ {z}] = fun[y] + P[(r \ {z}) \ {y}]
  BY <1>4, <1>5, <1>6
<1>8. (r \ {y}) \ {z} = (r \ {z}) \ {y}
  OBVIOUS
<1>9. /\ fun[y] \in Nat /\ fun[z] \in Nat
      /\ P[(r \ {y}) \ {z}] \in Nat /\ P[r \ {y}] \in Nat /\ P[r \ {z}] \in Nat
  BY <1>0
<1> HIDE DEF P, Bad
<1> QED
  BY <1>2, <1>3, <1>7, <1>8, <1>9

\* Two functions that agree on a set have the same sum over it.
LEMMA PartialAgrees ==
  ASSUME NEW S, IsFiniteSet(S), NEW fun \in [S -> Nat],
         NEW T, IsFiniteSet(T), NEW other \in [T -> Nat],
         NEW s \in SUBSET (S \cap T), \A x \in s : fun[x] = other[x]
  PROVE  Partial(fun)[s] = Partial(other)[s]
<1> DEFINE P == Partial(fun)
           Q == Partial(other)
           Bad == {n \in Nat : \E r \in SUBSET s : Cardinality(r) = n /\ P[r] # Q[r]}
<1> SUFFICES ASSUME Bad # {} PROVE FALSE
  <2>1. IsFiniteSet(s) /\ Cardinality(s) \in Nat
    BY FS_Subset, FS_CardinalityType
  <2> QED BY <2>1
<1>1. PICK n \in Bad : \A m \in Bad : n <= m
  <2>1. Bad \in SUBSET Nat
    OBVIOUS
  <2> HIDE DEF Bad
  <2> QED BY <2>1, LeastMember
<1>2. PICK r \in SUBSET s : Cardinality(r) = n /\ P[r] # Q[r]
  BY <1>1
<1>3. P[{}] = 0 /\ Q[{}] = 0
  BY PartialType
<1>4. PICK x \in r : TRUE
  BY <1>2, <1>3
<1>5. r \ {x} \in SUBSET s /\ Cardinality(r \ {x}) = n - 1 /\ n - 1 \in Nat
  <2>1. IsFiniteSet(r)
    BY FS_Subset
  <2>2. Cardinality(r \ {x}) = n - 1 /\ IsFiniteSet(r \ {x})
    BY <1>2, <2>1, FS_RemoveElement
  <2>3. Cardinality(r \ {x}) \in Nat
    BY <2>2, FS_CardinalityType
  <2> QED BY <2>2, <2>3
<1>6. n - 1 \notin Bad
  <2>1. n \in Nat /\ ~(n <= n - 1)
    OBVIOUS
  <2> HIDE DEF Bad
  <2> QED BY <1>1, <2>1
<1>7. P[r \ {x}] = Q[r \ {x}]
  BY <1>5, <1>6
<1>8. P[r] = fun[x] + P[r \ {x}]
  BY PartialAny
<1>9. Q[r] = other[x] + Q[r \ {x}]
  BY PartialAny
<1> HIDE DEF P, Q, Bad
<1> QED
  BY <1>2, <1>7, <1>8, <1>9

\* A sum is one summand and the sum of the others.
LEMMA SumWithout ==
  ASSUME NEW S, IsFiniteSet(S), NEW fun \in [S -> Nat], NEW x \in S
  PROVE  /\ SumFunction(fun) = fun[x] + SumFunction([y \in S \ {x} |-> fun[y]])
         /\ SumFunction(fun) \in Nat
         /\ SumFunction([y \in S \ {x} |-> fun[y]]) \in Nat
<1> DEFINE rest == [y \in S \ {x} |-> fun[y]]
<1>1. IsFiniteSet(S \ {x}) /\ rest \in [S \ {x} -> Nat]
  BY FS_Subset
<1>2. SumFunction(fun) = Partial(fun)[S]
  BY SumIsPartial
<1>3. SumFunction(rest) = Partial(rest)[S \ {x}]
  BY SumIsPartial
<1>4. Partial(fun)[S] = fun[x] + Partial(fun)[S \ {x}]
  BY PartialAny
<1>5. \A y \in S \ {x} : fun[y] = rest[y]
  OBVIOUS
<1>6. Partial(fun)[S \ {x}] = Partial(rest)[S \ {x}]
  <2>1. S \ {x} \in SUBSET (S \cap (S \ {x}))
    OBVIOUS
  <2> HIDE DEF rest
  <2> QED BY <1>1, <1>5, <2>1, PartialAgrees
<1>7. Partial(fun)[S] \in Nat /\ Partial(rest)[S \ {x}] \in Nat
  <2> HIDE DEF rest
  <2>1. Partial(fun) \in [SUBSET S -> Nat] /\ Partial(rest) \in [SUBSET (S \ {x}) -> Nat]
    BY <1>1, PartialType
  <2> QED BY <2>1
<1> QED
  BY <1>2, <1>3, <1>4, <1>6, <1>7

LEMMA SumOfNone ==
  ASSUME NEW fun \in [{} -> Nat]
  PROVE  SumFunction(fun) = 0
<1>1. SumFunction(fun) = Partial(fun)[{}]
  BY SumIsPartial
<1>2. IsFiniteSet({})
  BY FS_EmptySet
<1> QED
  BY <1>1, <1>2, PartialType

\* A sum over an interval, by its last summand.
LEMMA SumToNext ==
  ASSUME NEW a \in Int, NEW b \in Int, a <= b, NEW fun \in [a..b -> Nat]
  PROVE  /\ SumFunction(fun) = SumFunction([i \in a..b - 1 |-> fun[i]]) + fun[b]
         /\ SumFunction(fun) \in Nat
         /\ SumFunction([i \in a..b - 1 |-> fun[i]]) \in Nat
<1>1. IsFiniteSet(a..b)
  BY FS_Interval
<1>2. b \in a..b /\ (a..b) \ {b} = a..b - 1
  OBVIOUS
<1>3. fun[b] \in Nat
  BY <1>2
<1>4. /\ SumFunction(fun) = fun[b] + SumFunction([y \in (a..b) \ {b} |-> fun[y]])
      /\ SumFunction(fun) \in Nat
      /\ SumFunction([y \in (a..b) \ {b} |-> fun[y]]) \in Nat
  BY <1>1, <1>2, SumWithout
<1> DEFINE g == [y \in (a..b) \ {b} |-> fun[y]]
           h == [i \in a..b - 1 |-> fun[i]]
<1>5. g = h
  BY <1>2
<1> HIDE DEF g, h
<1>6. SumFunction(fun) = SumFunction(h) + fun[b] /\ SumFunction(fun) \in Nat /\ SumFunction(h) \in Nat
  <2>1. SumFunction(fun) = fun[b] + SumFunction(g) /\ SumFunction(fun) \in Nat /\ SumFunction(g) \in Nat
    BY <1>4 DEF g
  <2> QED BY <1>3, <1>5, <2>1
<1> QED
  BY <1>6 DEF h
=================================================================================
