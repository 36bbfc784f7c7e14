--------------------------- MODULE ArithmeticLemmas ---------------------------
(***************************************************************************)
(* Sums over a finite set, SumFunctionOnSet of the community modules, and  *)
(* powers.  Induction is stated with the set of the good instances in the  *)
(* place of a predicate, so that it can be cited.                          *)
(***************************************************************************)
EXTENDS Powers, Functions, FiniteSetTheorems, WellFoundedInduction, TLAPS

\* Induction over the naturals, for the set Q of those that are good.
LEMMA NaturalsAreGood ==
  ASSUME NEW Q \in SUBSET Nat, 0 \in Q, \A n \in Q : n + 1 \in Q
  PROVE  Q = Nat
<1> DEFINE R == {ss \in Nat \X Nat : ss[1] < ss[2]}
           T == Nat \ Q
<1>1. SUFFICES ASSUME T # {} PROVE FALSE
  OBVIOUS
<1>2. IsWellFoundedOn(R, Nat)
  BY ONLY NatLessThanWellFounded, Zenon DEF OpToRel
<1>3. \E x \in T : \A y \in T : ~(<<y, x>> \in R)
  <2> HIDE DEF R
  <2> QED  BY <1>1, <1>2, WFMin
<1>4. PICK x \in T : \A y \in T : ~(y < x)
  BY <1>3
<1>5. x - 1 \in Nat /\ x - 1 \notin T
  BY <1>4
<1>6. (x - 1) + 1 \in Q
  BY <1>5
<1> QED  BY <1>4, <1>6

\* Induction over the subsets of a finite set, for the set Q of the good ones.
LEMMA FiniteSetIsGood ==
  ASSUME NEW S, IsFiniteSet(S), NEW Q \in SUBSET (SUBSET S), {} \in Q,
         \A T \in Q : \A x \in S \ T : T \cup {x} \in Q
  PROVE  S \in Q
<1> DEFINE N == {n \in Nat :
                   \A T \in SUBSET S : Cardinality(T) = n => T \in Q}
<1>1. \A T \in SUBSET S : IsFiniteSet(T) /\ Cardinality(T) \in Nat
  BY FS_Subset, FS_CardinalityType
<1>2. 0 \in N
  BY <1>1, FS_EmptySet
<1>3. ASSUME NEW n \in N PROVE n + 1 \in N
  <2>1. ASSUME NEW T \in SUBSET S, Cardinality(T) = n + 1 PROVE T \in Q
    <3>1. T # {}
      BY <2>1, FS_EmptySet
    <3>2. PICK x \in T : TRUE
      BY <3>1
    <3>3. Cardinality(T \ {x}) = n
      BY <1>1, <2>1, FS_RemoveElement
    <3>4. T \ {x} \in Q
      BY <3>3
    <3>5. (T \ {x}) \cup {x} = T
      BY <3>2
    <3> QED  BY <3>4, <3>5
  <2> QED  BY <2>1
<1>4. N = Nat
  <2> HIDE DEF N
  <2>1. N \in SUBSET Nat
    BY DEF N
  <2> QED  BY <1>2, <1>3, <2>1, NaturalsAreGood
<1> QED  BY <1>1, <1>4

\* The sizes of the subsets of a finite set.
LEMMA SubsetSizes ==
  ASSUME NEW S, IsFiniteSet(S), NEW T \in SUBSET S
  PROVE  /\ Cardinality(T) \in Nat
         /\ Cardinality(T) = 0 => T = {}
         /\ T # {} => Cardinality(T) > 0
         /\ \A x \in T : Cardinality(T \ {x}) = Cardinality(T) - 1
<1>1. IsFiniteSet(T) /\ Cardinality(T) \in Nat
  BY FS_Subset, FS_CardinalityType
<1>2. Cardinality(T) = 0 <=> T = {}
  BY <1>1, FS_EmptySet, Zenon
<1> QED  BY <1>1, <1>2, FS_RemoveElement

-------------------------------------------------------------------------------
(***************************************************************************)
(* The recursion by which a sum is defined: an element is taken out of the *)
(* set at a time.                                                          *)
(***************************************************************************)
Pick(s) == CHOOSE x \in s : TRUE

SumStep(v, h, s) ==
  IF s = {} THEN 0 ELSE v[Pick(s)] + h[s \ {Pick(s)}]

SumsOf(v, S) == CHOOSE h : h = [s \in SUBSET S |-> SumStep(v, h, s)]

\* The definition in the community modules is this one.
LEMMA SumIsRecursive ==
  ASSUME NEW v, NEW S
  PROVE  SumFunctionOnSet(v, S) = SumsOf(v, S)[S]
  BY Zenon DEF SumFunctionOnSet, FoldFunctionOnSet, MapThenFoldSet, SumsOf, SumStep, Pick

\* There is such a function for a finite set.
LEMMA SumsExist ==
  ASSUME NEW v, NEW S, IsFiniteSet(S)
  PROVE  \A s \in SUBSET S : SumsOf(v, S)[s] = SumStep(v, SumsOf(v, S), s)
<1> DEFINE N == {n \in Nat : \E h : \A s \in SUBSET S :
                   Cardinality(s) <= n => h[s] = SumStep(v, h, s)}
<1>1. \A s \in SUBSET S : s # {} => Pick(s) \in s
  BY DEF Pick
<1>2. 0 \in N
  <2> DEFINE h == [s \in SUBSET S |-> 0]
  <2>1. \A s \in SUBSET S : Cardinality(s) <= 0 => s = {}
    BY SubsetSizes
  <2>2. h[{}] = SumStep(v, h, {})
    BY DEF SumStep
  <2>3. \A s \in SUBSET S : Cardinality(s) <= 0 => h[s] = SumStep(v, h, s)
    BY <2>1, <2>2
  <2> HIDE DEF h
  <2> QED  BY <2>3
<1>3. ASSUME NEW n \in N PROVE n + 1 \in N
  <2>1. PICK h : \A s \in SUBSET S :
                   Cardinality(s) <= n => h[s] = SumStep(v, h, s)
    OBVIOUS
  <2> DEFINE k == [s \in SUBSET S |->
                     IF Cardinality(s) <= n THEN h[s] ELSE SumStep(v, h, s)]
  <2>2. ASSUME NEW s \in SUBSET S, Cardinality(s) <= n + 1
        PROVE  k[s] = SumStep(v, k, s)
    <3>1. k[s] = SumStep(v, h, s)
      BY <2>1
    <3>2. s # {} => k[s \ {Pick(s)}] = h[s \ {Pick(s)}]
      <4>1. s # {} => Cardinality(s \ {Pick(s)}) <= n
        BY <1>1, <2>2, SubsetSizes
      <4> QED  BY <4>1
    <3> HIDE DEF k
    <3> QED  BY <3>1, <3>2 DEF SumStep
  <2> HIDE DEF k
  <2> QED  BY <2>2
<1>4. N = Nat
  <2> HIDE DEF N
  <2>1. N \in SUBSET Nat
    BY DEF N
  <2> QED  BY <1>2, <1>3, <2>1, NaturalsAreGood
<1>5. Cardinality(S) \in N
  BY <1>4, FS_CardinalityType
<1>6. PICK h : \A s \in SUBSET S :
                 Cardinality(s) <= Cardinality(S) => h[s] = SumStep(v, h, s)
  BY <1>5
<1>7. \A s \in SUBSET S : h[s] = SumStep(v, h, s)
  BY <1>6, FS_Subset
<1> DEFINE k == [s \in SUBSET S |-> h[s]]
<1>8. k = [s \in SUBSET S |-> SumStep(v, k, s)]
  BY <1>1, <1>7 DEF SumStep
<1>9. SumsOf(v, S) = [s \in SUBSET S |-> SumStep(v, SumsOf(v, S), s)]
  <2> HIDE DEF k
  <2> QED  BY <1>8, Zenon DEF SumsOf
<1> QED  BY <1>9

\* The sum of a subset is that of the same function on the subset.
LEMMA SumOfSubset ==
  ASSUME NEW v, NEW S, IsFiniteSet(S), NEW T \in SUBSET S
  PROVE  SumFunctionOnSet(v, T) = SumsOf(v, S)[T]
<1> DEFINE g == SumsOf(v, T)
           h == SumsOf(v, S)
           N == {n \in Nat : \A s \in SUBSET T : Cardinality(s) = n => g[s] = h[s]}
<1>1. IsFiniteSet(T)
  BY FS_Subset
<1>2. \A s \in SUBSET T : g[s] = SumStep(v, g, s) /\ h[s] = SumStep(v, h, s)
  BY <1>1, SumsExist
<1> HIDE DEF g, h
<1>3. 0 \in N
  BY <1>1, <1>2, SubsetSizes DEF SumStep
<1>4. ASSUME NEW n \in N PROVE n + 1 \in N
  <2>1. ASSUME NEW s \in SUBSET T, Cardinality(s) = n + 1 PROVE g[s] = h[s]
    <3>1. s # {}
      <4>1. Cardinality({}) = 0
        BY FS_EmptySet
      <4> QED  BY <2>1, <4>1
    <3>2. Pick(s) \in s
      BY <3>1 DEF Pick
    <3>3. Cardinality(s \ {Pick(s)}) = n
      BY <1>1, <2>1, <3>2, SubsetSizes
    <3>4. g[s \ {Pick(s)}] = h[s \ {Pick(s)}]
      BY <3>3
    <3> QED  BY <1>2, <3>4 DEF SumStep
  <2> QED  BY <2>1
<1>5. N = Nat
  <2> HIDE DEF N
  <2>1. N \in SUBSET Nat
    BY DEF N
  <2> QED  BY <1>3, <1>4, <2>1, NaturalsAreGood
<1>6. g[T] = h[T]
  BY <1>1, <1>5, FS_CardinalityType
<1> QED  BY <1>6, SumIsRecursive DEF g, h

\* Every element may be the one that is taken out.
LEMMA AnyElementFirst ==
  ASSUME NEW v, NEW S, IsFiniteSet(S), \A x \in S : v[x] \in Int
  PROVE  \A T \in SUBSET S :
           /\ SumsOf(v, S)[T] \in Int
           /\ \A x \in T : SumsOf(v, S)[T] = v[x] + SumsOf(v, S)[T \ {x}]
<1> DEFINE h == SumsOf(v, S)
           Good(T) == /\ h[T] \in Int
                      /\ \A x \in T : h[T] = v[x] + h[T \ {x}]
           N == {n \in Nat : \A T \in SUBSET S : Cardinality(T) <= n => Good(T)}
<1>1. \A T \in SUBSET S : h[T] = SumStep(v, h, T)
  BY SumsExist
<1> HIDE DEF h
<1>2. 0 \in N
  <2>1. \A T \in SUBSET S : Cardinality(T) <= 0 => T = {}
    BY SubsetSizes
  <2>2. Good({})
    BY <1>1 DEF SumStep
  <2> HIDE DEF Good
  <2> QED  BY <2>1, <2>2
<1>3. ASSUME NEW n \in N PROVE n + 1 \in N
  <2>1. ASSUME NEW T \in SUBSET S, Cardinality(T) <= n + 1 PROVE Good(T)
    <3> DEFINE c == Pick(T)
    <3>1. CASE T = {}
      BY <1>1, <3>1 DEF SumStep
    <3>2. CASE T # {}
      <4>1. c \in T
        BY <3>2 DEF Pick
      <4>2. h[T] = v[c] + h[T \ {c}]
        BY <1>1, <3>2 DEF SumStep
      <4> HIDE DEF c, Good
      <4>3. \A x \in T : Good(T \ {x}) /\ Good((T \ {c}) \ {x})
        <5> TAKE x \in T
        <5>1. Cardinality(T \ {x}) <= n
          BY <2>1, SubsetSizes
        <5>2. Cardinality((T \ {c}) \ {x}) <= n
          <6>1. Cardinality(T \ {c}) <= n
            BY <2>1, <4>1, SubsetSizes
          <6>2. IsFiniteSet(T \ {c})
            BY FS_Subset
          <6>3. Cardinality((T \ {c}) \ {x}) <= Cardinality(T \ {c})
            BY <6>2, FS_Subset
          <6>4. /\ Cardinality(T \ {c}) \in Nat
                /\ Cardinality((T \ {c}) \ {x}) \in Nat
            BY SubsetSizes
          <6> QED  BY <6>1, <6>3, <6>4
        <5> QED  BY <5>1, <5>2
      <4>4. h[T] \in Int
        <5>1. h[T \ {c}] \in Int
          BY <4>1, <4>3 DEF Good
        <5>2. v[c] \in Int
          BY <4>1
        <5> QED  BY <4>2, <5>1, <5>2
      <4>5. ASSUME NEW x \in T PROVE h[T] = v[x] + h[T \ {x}]
        <5>1. CASE x = c
          BY <4>2, <5>1
        <5>2. CASE x # c
          <6>1. (T \ {x}) \ {c} = (T \ {c}) \ {x}
            OBVIOUS
          <6>2. h[T \ {c}] = v[x] + h[(T \ {c}) \ {x}]
            BY <4>1, <4>3, <5>2 DEF Good
          <6>3. h[T \ {x}] = v[c] + h[(T \ {c}) \ {x}]
            BY <4>1, <4>3, <5>2, <6>1 DEF Good
          <6>4. h[(T \ {c}) \ {x}] \in Int
            BY <4>3 DEF Good
          <6> QED  BY <4>1, <4>2, <6>2, <6>3, <6>4
        <5> QED  BY <5>1, <5>2
      <4> QED  BY <4>4, <4>5 DEF Good
    <3> QED  BY <3>1, <3>2
  <2> HIDE DEF Good
  <2> QED  BY <2>1
<1>4. N = Nat
  <2> HIDE DEF N
  <2>1. N \in SUBSET Nat
    BY DEF N
  <2> QED  BY <1>2, <1>3, <2>1, NaturalsAreGood
<1>5. \A T \in SUBSET S : Good(T)
  <2>1. \A T \in SUBSET S : Cardinality(T) \in Nat
    BY SubsetSizes
  <2> HIDE DEF Good
  <2> QED  BY <1>4, <2>1
<1> QED  BY <1>5 DEF h

-------------------------------------------------------------------------------
(***************************************************************************)
(* What is cited of sums.                                                  *)
(***************************************************************************)

\* Nothing sums up to 0.
LEMMA SumOfNone ==
  ASSUME NEW v
  PROVE  SumFunctionOnSet(v, {}) = 0
<1>1. IsFiniteSet({})
  BY FS_EmptySet
<1>2. SumsOf(v, {})[{}] = SumStep(v, SumsOf(v, {}), {})
  BY <1>1, SumsExist
<1> QED  BY <1>2, SumIsRecursive DEF SumStep

\* A sum is a number, and any element may be taken out of it.
LEMMA SumTakesOut ==
  ASSUME NEW v, NEW S, IsFiniteSet(S), \A x \in S : v[x] \in Int
  PROVE  /\ SumFunctionOnSet(v, S) \in Int
         /\ \A x \in S : /\ SumFunctionOnSet(v, S \ {x}) \in Int
                         /\ SumFunctionOnSet(v, S)
                             = v[x] + SumFunctionOnSet(v, S \ {x})
<1>1. \A T \in SUBSET S : SumFunctionOnSet(v, T) = SumsOf(v, S)[T]
  BY SumOfSubset
<1>2. \A T \in SUBSET S :
        /\ SumsOf(v, S)[T] \in Int
        /\ \A x \in T : SumsOf(v, S)[T] = v[x] + SumsOf(v, S)[T \ {x}]
  BY AnyElementFirst
<1> QED  BY <1>1, <1>2

\* u is the sum of v and w, element by element.
AddsUp(S, u, v, w) ==
  \A x \in S : /\ v[x] \in Int /\ w[x] \in Int
               /\ u[x] = v[x] + w[x]

\* Then it is so of their sums.
LEMMA SumAdds ==
  ASSUME NEW S, IsFiniteSet(S), NEW u, NEW v, NEW w, AddsUp(S, u, v, w)
  PROVE  SumFunctionOnSet(u, S)
           = SumFunctionOnSet(v, S) + SumFunctionOnSet(w, S)
<1> DEFINE Adds(T) == SumFunctionOnSet(u, T)
                        = SumFunctionOnSet(v, T) + SumFunctionOnSet(w, T)
           Q == {T \in SUBSET S : Adds(T)}
<1>1. {} \in Q
  BY SumOfNone
<1>2. ASSUME NEW T \in Q, NEW x \in S \ T PROVE T \cup {x} \in Q
  <2> DEFINE U == T \cup {x}
  <2>1. U \in SUBSET S /\ IsFiniteSet(U) /\ U \ {x} = T /\ x \in U
    BY FS_Subset
  <2> HIDE DEF U
  <2>2. /\ SumFunctionOnSet(u, U) = u[x] + SumFunctionOnSet(u, T)
        /\ SumFunctionOnSet(v, U) = v[x] + SumFunctionOnSet(v, T)
        /\ SumFunctionOnSet(w, U) = w[x] + SumFunctionOnSet(w, T)
        /\ SumFunctionOnSet(v, T) \in Int
        /\ SumFunctionOnSet(w, T) \in Int
    <3>1. /\ \A y \in U : u[y] \in Int
          /\ \A y \in U : v[y] \in Int
          /\ \A y \in U : w[y] \in Int
      BY <2>1 DEF AddsUp
    <3>2. \A t : (\A y \in U : t[y] \in Int)
                   => /\ SumFunctionOnSet(t, U) = t[x] + SumFunctionOnSet(t, T)
                      /\ SumFunctionOnSet(t, T) \in Int
      BY <2>1, SumTakesOut
    <3> QED  BY <3>1, <3>2
  <2>3. Adds(T)
    OBVIOUS
  <2>4. v[x] \in Int /\ w[x] \in Int /\ u[x] = v[x] + w[x]
    BY DEF AddsUp
  <2>5. Adds(U)
    BY <2>2, <2>3, <2>4
  <2> QED  BY <2>1, <2>5 DEF U
<1>3. S \in Q
  <2> HIDE DEF Q
  <2>1. Q \in SUBSET (SUBSET S)
    BY DEF Q
  <2> QED  BY <1>1, <1>2, <2>1, FiniteSetIsGood
<1> QED  BY <1>3

\* Zeros sum up to 0.
LEMMA SumOfZeros ==
  ASSUME NEW S, IsFiniteSet(S), NEW v, \A x \in S : v[x] = 0
  PROVE  SumFunctionOnSet(v, S) = 0
<1> DEFINE sum == SumFunctionOnSet(v, S)
<1>1. sum = sum + sum
  <2>1. AddsUp(S, v, v, v)
    BY DEF AddsUp
  <2> QED  BY <2>1, SumAdds
<1>2. sum \in Int
  BY SumTakesOut
<1> HIDE DEF sum
<1>3. sum = 0
  BY <1>1, <1>2
<1> QED  BY <1>3 DEF sum

\* The same values have the same sum.
LEMMA SumOfSame ==
  ASSUME NEW S, IsFiniteSet(S), NEW v, NEW w,
         \A x \in S : v[x] \in Int /\ w[x] = v[x]
  PROVE  SumFunctionOnSet(w, S) = SumFunctionOnSet(v, S)
<1> DEFINE z == [x \in S |-> 0]
<1>1. SumFunctionOnSet(w, S) = SumFunctionOnSet(v, S) + SumFunctionOnSet(z, S)
  <2>1. AddsUp(S, w, v, z)
    BY DEF AddsUp
  <2> QED  BY <2>1, SumAdds
<1>2. SumFunctionOnSet(z, S) = 0
  BY SumOfZeros
<1>3. SumFunctionOnSet(v, S) \in Int
  BY SumTakesOut
<1> QED  BY <1>1, <1>2, <1>3

\* w differs from v at x alone.
ChangesAt(S, v, w, x) ==
  /\ \A y \in S : v[y] \in Int
  /\ w[x] \in Int
  /\ \A y \in S \ {x} : w[y] = v[y]

\* A sum follows the change of one value.
LEMMA SumChanges ==
  ASSUME NEW S, IsFiniteSet(S), NEW v, NEW w, NEW x \in S,
         ChangesAt(S, v, w, x)
  PROVE  SumFunctionOnSet(w, S) = SumFunctionOnSet(v, S) - v[x] + w[x]
<1> DEFINE T == S \ {x}
<1>1. SumFunctionOnSet(w, T) = SumFunctionOnSet(v, T)
  BY SumOfSame, FS_Subset DEF ChangesAt
<1>2. /\ SumFunctionOnSet(v, T) \in Int
      /\ SumFunctionOnSet(v, S) = v[x] + SumFunctionOnSet(v, T)
      /\ SumFunctionOnSet(w, S) = w[x] + SumFunctionOnSet(w, T)
  <2>1. (\A y \in S : v[y] \in Int) /\ (\A y \in S : w[y] \in Int)
    BY DEF ChangesAt
  <2>2. \A t : (\A y \in S : t[y] \in Int)
                => /\ SumFunctionOnSet(t, S) = t[x] + SumFunctionOnSet(t, T)
                   /\ SumFunctionOnSet(t, T) \in Int
    BY SumTakesOut
  <2> QED  BY <2>1, <2>2
<1>3. v[x] \in Int /\ w[x] \in Int
  BY DEF ChangesAt
<1> HIDE DEF T
<1> QED  BY <1>1, <1>2, <1>3

\* A sum follows the addition of an element.
LEMMA SumExtends ==
  ASSUME NEW S, IsFiniteSet(S), NEW v, NEW w, NEW x, x \notin S,
         \A y \in S : v[y] \in Int /\ w[y] = v[y], w[x] \in Int
  PROVE  SumFunctionOnSet(w, S \cup {x}) = SumFunctionOnSet(v, S) + w[x]
<1> DEFINE T == S \cup {x}
<1>1. IsFiniteSet(T) /\ x \in T /\ T \ {x} = S /\ \A y \in T : w[y] \in Int
  BY FS_AddElement
<1>2. SumFunctionOnSet(w, S) = SumFunctionOnSet(v, S)
  BY SumOfSame
<1> HIDE DEF T
<1>3. /\ SumFunctionOnSet(w, T) = w[x] + SumFunctionOnSet(w, S)
      /\ SumFunctionOnSet(w, S) \in Int
  BY <1>1, SumTakesOut
<1> QED  BY <1>1, <1>2, <1>3 DEF T

\* A sum of naturals is one, and none of them is larger.
LEMMA SumOfNaturals ==
  ASSUME NEW S, IsFiniteSet(S), NEW v, \A x \in S : v[x] \in Nat
  PROVE  /\ SumFunctionOnSet(v, S) \in Nat
         /\ \A x \in S : v[x] <= SumFunctionOnSet(v, S)
<1> DEFINE Q == {T \in SUBSET S : SumFunctionOnSet(v, T) \in Nat}
<1>1. {} \in Q
  BY SumOfNone
<1>2. ASSUME NEW T \in Q, NEW x \in S \ T PROVE T \cup {x} \in Q
  <2>1. /\ T \cup {x} \in SUBSET S
        /\ IsFiniteSet(T)
        /\ x \notin T /\ v[x] \in Nat
        /\ \A y \in T : v[y] \in Int
    BY FS_Subset
  <2> HIDE DEF Q
  <2>2. SumFunctionOnSet(v, T \cup {x}) = SumFunctionOnSet(v, T) + v[x]
    <3>1. \A y \in T : v[y] \in Int /\ v[y] = v[y]
      BY <2>1
    <3> QED  BY <2>1, <3>1, SumExtends, SMTT(30)
  <2> QED  BY <2>1, <2>2 DEF Q
<1>3. S \in Q /\ \A x \in S : S \ {x} \in Q
  <2>1. Q \in SUBSET (SUBSET S)
    OBVIOUS
  <2>2. \A T \in SUBSET S : T \in Q
    <3> TAKE T \in SUBSET S
    <3> DEFINE P == {U \in SUBSET T : U \in Q}
    <3>1. {} \in P /\ \A U \in P : \A x \in T \ U : U \cup {x} \in P
      <4> HIDE DEF Q
      <4> QED  BY <1>1, <1>2
    <3>2. P \in SUBSET (SUBSET T) /\ IsFiniteSet(T)
      BY FS_Subset
    <3> HIDE DEF P
    <3>3. T \in P
      BY <3>1, <3>2, FiniteSetIsGood
    <3> QED  BY <3>3 DEF P
  <2> HIDE DEF Q
  <2> QED  BY <2>2
<1>4. ASSUME NEW x \in S PROVE v[x] <= SumFunctionOnSet(v, S)
  <2>1. SumFunctionOnSet(v, S \ {x}) \in Nat
    BY <1>3
  <2>2. SumFunctionOnSet(v, S) = v[x] + SumFunctionOnSet(v, S \ {x})
    BY SumTakesOut
  <2> QED  BY <2>1, <2>2
<1> QED  BY <1>3, <1>4

\* d is split into the naturals u, v and w, element by element.
Splits(S, d, u, v, w) ==
  \A x \in S : /\ u[x] \in Nat /\ v[x] \in Nat /\ w[x] \in Nat
               /\ d[x] = u[x] + (v[x] + w[x])

\* Naturals split in three: what is left of the sum of the wholes without two
\* of the parts is the sum of the third, and 0 only if each third part is.
LEMMA SumSplits ==
  ASSUME NEW S, IsFiniteSet(S), NEW d, NEW u, NEW v, NEW w,
         Splits(S, d, u, v, w)
  PROVE  LET left == SumFunctionOnSet(d, S)
                       - SumFunctionOnSet(v, S) - SumFunctionOnSet(w, S)
         IN
         /\ SumFunctionOnSet(d, S) \in Nat
         /\ SumFunctionOnSet(v, S) \in Nat
         /\ SumFunctionOnSet(w, S) \in Nat
         /\ left \in Nat
         /\ left = 0 <=> \A x \in S : u[x] = 0
<1> DEFINE y == [x \in S |-> v[x] + w[x]]
<1>1. AddsUp(S, d, u, y)
  BY DEF Splits, AddsUp
<1>2. AddsUp(S, y, v, w)
  BY DEF Splits, AddsUp
<1> HIDE DEF y
<1>3. SumFunctionOnSet(d, S) = SumFunctionOnSet(u, S) + SumFunctionOnSet(y, S)
  BY <1>1, SumAdds
<1>4. SumFunctionOnSet(y, S) = SumFunctionOnSet(v, S) + SumFunctionOnSet(w, S)
  BY <1>2, SumAdds
<1>5. /\ SumFunctionOnSet(u, S) \in Nat
      /\ SumFunctionOnSet(v, S) \in Nat
      /\ SumFunctionOnSet(w, S) \in Nat
      /\ \A x \in S : u[x] <= SumFunctionOnSet(u, S)
  <2>1. /\ \A x \in S : u[x] \in Nat
        /\ \A x \in S : v[x] \in Nat
        /\ \A x \in S : w[x] \in Nat
    BY DEF Splits
  <2> QED  BY <2>1, SumOfNaturals
<1>6. SumFunctionOnSet(u, S) = 0 <=> \A x \in S : u[x] = 0
  <2>1. (\A x \in S : u[x] = 0) => SumFunctionOnSet(u, S) = 0
    BY SumOfZeros
  <2>2. ASSUME SumFunctionOnSet(u, S) = 0, NEW x \in S PROVE u[x] = 0
    <3>1. u[x] \in Nat /\ u[x] <= 0
      BY <1>5, <2>2 DEF Splits
    <3> QED  BY <3>1
  <2> QED  BY <2>1, <2>2
<1> DEFINE sd == SumFunctionOnSet(d, S)
           su == SumFunctionOnSet(u, S)
           sv == SumFunctionOnSet(v, S)
           sw == SumFunctionOnSet(w, S)
<1>7. /\ sd = su + (sv + sw)
      /\ su \in Nat /\ sv \in Nat /\ sw \in Nat
      /\ su = 0 <=> \A x \in S : u[x] = 0
  BY <1>3, <1>4, <1>5, <1>6
<1> HIDE DEF sd, su, sv, sw
<1>8. sd \in Nat /\ sd - sv - sw \in Nat /\ sd - sv - sw = su
  BY <1>7
<1> QED  BY <1>7, <1>8 DEF sd, su, sv, sw

-------------------------------------------------------------------------------
(***************************************************************************)
(* Powers.                                                                 *)
(***************************************************************************)
PowerStep(b, p, k) == IF k = 0 THEN 1 ELSE b * p[k - 1]

\* There is a function with the recursion by which powers are defined.
LEMMA PowersExist ==
  ASSUME NEW b
  PROVE  \A k \in Nat : Power(b, k) = PowerStep(b, PowersOf(b), k)
<1> DEFINE Upto(p, n) == \A k \in 0..n : p[k] = PowerStep(b, p, k)
           N == {n \in Nat : \E p : Upto(p, n)}
           M(p, q) == {n \in Nat : \A k \in 0..n : p[k] = q[k]}
<1>1. 0 \in N
  <2> DEFINE p == [k \in Nat |-> 1]
  <2>1. Upto(p, 0)
    BY DEF PowerStep
  <2> HIDE DEF p
  <2> QED  BY <2>1
<1>2. ASSUME NEW n \in N PROVE n + 1 \in N
  <2>1. PICK p : Upto(p, n)
    OBVIOUS
  <2> DEFINE q == [k \in Nat |-> IF k <= n THEN p[k] ELSE b * p[n]]
  <2>2. n \in Nat
    OBVIOUS
  <2>3. ASSUME NEW k \in 0..(n + 1) PROVE q[k] = PowerStep(b, q, k)
    <3>1. CASE k = 0
      BY <2>1, <2>2, <3>1 DEF PowerStep
    <3>2. CASE k \in 1..n
      <4>1. k - 1 \in Nat /\ k - 1 <= n /\ k \in Nat /\ k # 0
        BY <2>2, <3>2
      <4>2. q[k - 1] = p[k - 1] /\ q[k] = p[k]
        BY <2>2, <3>2, <4>1
      <4>3. p[k] = b * p[k - 1]
        BY <2>1, <2>2, <3>2, <4>1 DEF PowerStep
      <4> QED  BY <4>1, <4>2, <4>3 DEF PowerStep
    <3>3. CASE k = n + 1
      <4>1. q[k] = b * p[n] /\ q[n] = p[n] /\ k - 1 = n /\ k # 0
        BY <2>2, <3>3
      <4> HIDE DEF q
      <4> QED  BY <4>1 DEF PowerStep
    <3> QED  BY <2>2, <3>1, <3>2, <3>3
  <2> HIDE DEF q
  <2> QED  BY <2>2, <2>3
<1>3. N = Nat
  <2> HIDE DEF N
  <2>1. N \in SUBSET Nat
    BY DEF N
  <2> QED  BY <1>1, <1>2, <2>1, NaturalsAreGood
\* Two such functions agree as far as they go.
<1>4. ASSUME NEW n \in Nat, NEW p, NEW q, Upto(p, n), Upto(q, n)
      PROVE  p[n] = q[n]
  <2> DEFINE Q == {k \in Nat : k <= n => p[k] = q[k]}
  <2>1. 0 \in Q
    BY <1>4 DEF PowerStep
  <2>2. ASSUME NEW k \in Q PROVE k + 1 \in Q
    <3>1. k \in Nat /\ (k <= n => p[k] = q[k])
      OBVIOUS
    <3>2. CASE k + 1 <= n
      <4>1. k <= n /\ k + 1 \in 0..n /\ k + 1 # 0 /\ (k + 1) - 1 = k
        BY <3>1, <3>2
      <4>2. p[k + 1] = b * p[k] /\ q[k + 1] = b * q[k]
        BY <1>4, <4>1 DEF PowerStep
      <4> QED  BY <3>1, <4>1, <4>2
    <3> QED  BY <3>1, <3>2
  <2>3. Q = Nat
    <3> HIDE DEF Q
    <3>1. Q \in SUBSET Nat
      BY DEF Q
    <3> QED  BY <2>1, <2>2, <3>1, NaturalsAreGood
  <2>4. n \in Q
    BY <2>3
  <2> QED  BY <2>4
<1> DEFINE best(n) == CHOOSE p : Upto(p, n)
           g == [n \in Nat |-> best(n)[n]]
<1>5. ASSUME NEW n \in Nat PROVE Upto(best(n), n)
  <2> HIDE DEF Upto
  <2>1. n \in N
    BY <1>3
  <2> QED  BY <2>1, Zenon
<1>6. ASSUME NEW k \in Nat PROVE g[k] = PowerStep(b, g, k)
  <2>1. best(k)[k] = PowerStep(b, best(k), k)
    <3>1. Upto(best(k), k)
      BY <1>5
    <3> HIDE DEF best
    <3> QED  BY <3>1
  <2>2. ASSUME k # 0 PROVE best(k)[k - 1] = best(k - 1)[k - 1]
    <3>1. k - 1 \in Nat
      BY <2>2
    <3>2. Upto(best(k), k) /\ Upto(best(k - 1), k - 1)
      BY <1>5, <3>1
    <3> HIDE DEF best
    <3>3. Upto(best(k), k - 1)
      BY <3>1, <3>2
    <3> HIDE DEF Upto
    <3> QED  BY <1>4, <3>1, <3>2, <3>3
  <2>3. g[k] = best(k)[k] /\ (k # 0 => g[k - 1] = best(k - 1)[k - 1])
    OBVIOUS
  <2> HIDE DEF g, best
  <2> QED  BY <2>1, <2>2, <2>3 DEF PowerStep
<1>7. g = [k \in Nat |-> PowerStep(b, g, k)]
  <2>1. g = [n \in Nat |-> g[n]]
    OBVIOUS
  <2> HIDE DEF g
  <2> QED  BY <1>6, <2>1
<1>8. PowersOf(b) = [k \in Nat |-> PowerStep(b, PowersOf(b), k)]
  <2> HIDE DEF g
  <2> QED  BY <1>7, Zenon DEF PowersOf, PowerStep
<1> QED  BY <1>8 DEF Power

\* The recursion, step by step.
LEMMA PowerSteps ==
  ASSUME NEW b
  PROVE  /\ Power(b, 0) = 1
         /\ \A k \in Nat : Power(b, k + 1) = b * Power(b, k)
<1>1. Power(b, 0) = 1
  BY PowersExist DEF PowerStep
<1>2. ASSUME NEW k \in Nat PROVE Power(b, k + 1) = b * Power(b, k)
  <2>1. k + 1 \in Nat /\ k + 1 # 0 /\ (k + 1) - 1 = k
    OBVIOUS
  <2>2. Power(b, k + 1) = PowerStep(b, PowersOf(b), k + 1)
    BY <2>1, PowersExist
  <2> QED  BY <2>1, <2>2 DEF PowerStep, Power
<1> QED  BY <1>1, <1>2

\* A power of a natural is one, and positive if its base is.
LEMMA PowerType ==
  ASSUME NEW b \in Nat
  PROVE  \A k \in Nat : /\ Power(b, k) \in Nat
                        /\ b > 0 => Power(b, k) > 0
<1> DEFINE Good(k) == Power(b, k) \in Nat /\ (b > 0 => Power(b, k) > 0)
           Q == {k \in Nat : Good(k)}
<1>1. 0 \in Q
  BY PowerSteps
<1>2. ASSUME NEW k \in Q PROVE k + 1 \in Q
  <2>1. k \in Nat /\ Power(b, k + 1) = b * Power(b, k)
    BY PowerSteps
  <2>2. Power(b, k) \in Nat /\ (b > 0 => Power(b, k) > 0)
    OBVIOUS
  <2>3. \A x \in Nat : b * x \in Nat /\ (b > 0 /\ x > 0 => b * x > 0)
    OBVIOUS
  <2> QED  BY <2>1, <2>2, <2>3
<1>3. Q = Nat
  <2> HIDE DEF Q
  <2>1. Q \in SUBSET Nat
    BY DEF Q
  <2> QED  BY <1>1, <1>2, <2>1, NaturalsAreGood
<1> QED  BY <1>3

\* A product grows with its factors.
LEMMA ProductGrows ==
  ASSUME NEW a \in Nat, NEW b \in Nat, NEW x \in Nat, NEW y \in Nat,
         a <= b, x <= y
  PROVE  a * x <= b * y
<1>1. a * x <= b * x
  OBVIOUS
<1>2. b * x <= b * y
  OBVIOUS
<1>3. a * x \in Nat /\ b * x \in Nat /\ b * y \in Nat
  OBVIOUS
<1> QED  BY <1>1, <1>2, <1>3

\* A power grows with its base.
LEMMA PowerGrows ==
  ASSUME NEW b \in Nat, NEW c \in Nat, b <= c
  PROVE  \A k \in Nat : Power(b, k) <= Power(c, k)
<1> DEFINE Q == {k \in Nat : Power(b, k) <= Power(c, k)}
<1>1. 0 \in Q
  BY PowerSteps
<1>2. ASSUME NEW k \in Q PROVE k + 1 \in Q
  <2>1. /\ Power(b, k + 1) = b * Power(b, k)
        /\ Power(c, k + 1) = c * Power(c, k)
    BY PowerSteps
  <2>2. k \in Nat /\ Power(b, k) <= Power(c, k)
    OBVIOUS
  <2>3. Power(b, k) \in Nat /\ Power(c, k) \in Nat
    <3> HIDE DEF Q
    <3>1. \A n \in Nat : Power(b, n) \in Nat
      BY PowerType
    <3>2. \A n \in Nat : Power(c, n) \in Nat
      BY PowerType
    <3> QED  BY <2>2, <3>1, <3>2
  <2>4. b * Power(b, k) <= c * Power(c, k)
    BY <2>2, <2>3, ProductGrows
  <2> QED  BY <2>1, <2>2, <2>4
<1>3. Q = Nat
  <2> HIDE DEF Q
  <2>1. Q \in SUBSET Nat
    BY DEF Q
  <2> QED  BY <1>1, <1>2, <2>1, NaturalsAreGood
<1> QED  BY <1>3

\* The powers of 1.
LEMMA PowerOfOne ==
  \A k \in Nat : Power(1, k) = 1
<1> DEFINE Q == {k \in Nat : Power(1, k) = 1}
<1>1. 0 \in Q
  BY PowerSteps
<1>2. ASSUME NEW k \in Q PROVE k + 1 \in Q
  <2>1. Power(1, k + 1) = 1 * Power(1, k)
    BY PowerSteps
  <2> QED  BY <2>1
<1>3. Q = Nat
  <2> HIDE DEF Q
  <2>1. Q \in SUBSET Nat
    BY DEF Q
  <2> QED  BY <1>1, <1>2, <2>1, NaturalsAreGood
<1> QED  BY <1>3
===============================================================================
