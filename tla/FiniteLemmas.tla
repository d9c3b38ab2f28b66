---------------------------- MODULE FiniteLemmas ----------------------------
(***************************************************************************)
(* What the proofs need of numbers and finite sets and the library does    *)
(* not say: least and greatest elements, induction on numbers and subsets, *)
(* and sums.                                                               *)
(***************************************************************************)
EXTENDS Integers, FiniteSets, FiniteSetsExt, FiniteSetTheorems, WellFoundedInduction, TLAPS

\* A set of natural numbers that is not empty has a least element.  A statement about all numbers
\* is proved with it as induction is: no number is the least of which it is false.
LEMMA LeastNumber ==
  ASSUME NEW S \in SUBSET Nat, S # {}
  PROVE  \E n \in S : \A m \in S : n <= m
<1> DEFINE T == {1 .. n : n \in S}
<1>1. T \subseteq FiniteSubsetsOf(Nat) /\ T # {}
  <2>1. T # {}
    OBVIOUS
  <2>2. \A n \in Nat : IsFiniteSet(1 .. n)
    BY FS_Interval
  <2>3. \A n \in S : 1 .. n \in FiniteSubsetsOf(Nat)
    BY <2>2 DEF FiniteSubsetsOf
  <2> QED
    BY <2>1, <2>3
<1>2. IsWellFoundedOn(StrictSubsetOrdering(Nat), FiniteSubsetsOf(Nat))
  BY FS_StrictSubsetOrderingWellFounded
<1> HIDE DEF T
<1>3. PICK x \in T : \A y \in T : ~ (<< y, x >> \in StrictSubsetOrdering(Nat))
  BY <1>1, <1>2, WFMin
<1>4. PICK n \in S : x = 1 .. n
  BY <1>3 DEF T
<1>5. ASSUME NEW m \in S, m < n PROVE FALSE
  <2>1. 1 .. m \in T
    BY DEF T
  <2>2. n \in 1 .. n /\ n \notin 1 .. m
    BY <1>5
  <2>3. 1 .. m \subseteq 1 .. n /\ 1 .. m # 1 .. n
    BY <2>2, <1>5
  <2>4. << 1 .. m, x >> \in StrictSubsetOrdering(Nat)
    BY <2>3, <1>4 DEF StrictSubsetOrdering
  <2> QED
    BY <2>1, <1>3, <2>4
<1> QED
  BY <1>5

\* A finite set of numbers that is not empty has a greatest and a least element.
LEMMA Extremes ==
  ASSUME NEW S \in SUBSET Int, IsFiniteSet(S), S # {}
  PROVE  /\ \E x \in S : \A y \in S : x >= y
         /\ \E x \in S : \A y \in S : x <= y
<1> DEFINE Bad(n) == \E T \in SUBSET Int :
             /\ IsFiniteSet(T) /\ T # {} /\ Cardinality(T) = n
             /\ ~ (/\ \E x \in T : \A y \in T : x >= y
                   /\ \E x \in T : \A y \in T : x <= y)
           N == { n \in Nat : Bad(n) }
<1>1. SUFFICES ASSUME N # {} PROVE FALSE
  <2>1. Cardinality(S) \in Nat
    BY FS_CardinalityType
  <2> QED
    BY <2>1
<1>2. PICK n \in N : \A m \in N : n <= m
  BY <1>1, LeastNumber
<1>3. PICK T \in SUBSET Int :
             /\ IsFiniteSet(T) /\ T # {} /\ Cardinality(T) = n
             /\ ~ (/\ \E x \in T : \A y \in T : x >= y
                   /\ \E x \in T : \A y \in T : x <= y)
  BY <1>2
<1>4. PICK e \in T : TRUE
  BY <1>3
<1> DEFINE U == T \ {e}
<1>5. IsFiniteSet(U) /\ Cardinality(U) = n - 1 /\ n - 1 \in Nat
  <2>1. n \in Nat /\ n # 0
    BY <1>3, FS_EmptySet
  <2>2. IsFiniteSet(U) /\ Cardinality(U) = Cardinality(T) - 1
    BY <1>3, <1>4, FS_RemoveElement
  <2> QED
    BY <1>3, <2>1, <2>2
<1>6. n - 1 \notin N
  BY <1>2, <1>5
<1>7. U = {} \/ (/\ \E x \in U : \A y \in U : x >= y
                 /\ \E x \in U : \A y \in U : x <= y)
  BY <1>5, <1>6
<1>8. CASE U = {}
  BY <1>3, <1>4, <1>8
<1>9. CASE U # {}
  <2>1. PICK g \in U, l \in U : \A y \in U : g >= y /\ l <= y
    BY <1>7, <1>9
  <2>2. /\ (IF e >= g THEN e ELSE g) \in T
        /\ \A y \in T : (IF e >= g THEN e ELSE g) >= y
    BY <2>1, <1>4
  <2>3. /\ (IF e <= l THEN e ELSE l) \in T
        /\ \A y \in T : (IF e <= l THEN e ELSE l) <= y
    BY <2>1, <1>4
  <2> QED
    BY <2>2, <2>3, <1>3
<1> QED
  BY <1>8, <1>9

\* What Max and Min return.
LEMMA MaxAndMin ==
  ASSUME NEW S \in SUBSET Int, IsFiniteSet(S), S # {}
  PROVE  /\ Max(S) \in S /\ \A x \in S : x <= Max(S)
         /\ Min(S) \in S /\ \A x \in S : Min(S) <= x
  BY Extremes DEF Max, Min

\* The values of a function on a finite set are finitely many.
LEMMA Values ==
  ASSUME NEW S, IsFiniteSet(S), NEW f, f = [x \in S |-> f[x]]
  PROVE  IsFiniteSet({f[x] : x \in S})
<1> DEFINE T == {f[x] : x \in S}
<1>1. f \in Surjection(S, T)
  BY DEF Surjection, Range
<1> QED
  BY <1>1, FS_Surjection

\* Of some subsets of a finite set there is one of which none is a part.
LEMMA LeastSubset ==
  ASSUME NEW S, IsFiniteSet(S), NEW B \in SUBSET (SUBSET S), B # {}
  PROVE  \E s \in B : \A t \in B : t \subseteq s => t = s
<1>1. B \subseteq FiniteSubsetsOf(S)
  BY FS_Subset DEF FiniteSubsetsOf
<1>2. IsWellFoundedOn(StrictSubsetOrdering(S), FiniteSubsetsOf(S))
  BY FS_StrictSubsetOrderingWellFounded
<1>3. PICK s \in B : \A t \in B : ~ (<< t, s >> \in StrictSubsetOrdering(S))
  BY <1>1, <1>2, WFMin
<1>4. ASSUME NEW t \in B, t \subseteq s, t # s PROVE FALSE
  <2>1. << t, s >> \in StrictSubsetOrdering(S)
    BY <1>4 DEF StrictSubsetOrdering
  <2> QED
    BY <2>1, <1>3
<1> QED
  BY <1>4

\* Induction on the subsets of a finite set.
LEMMA BySubsets ==
  ASSUME NEW S, IsFiniteSet(S), NEW G \in SUBSET (SUBSET S), {} \in G,
         \A s \in G : \A x \in S \ s : s \cup {x} \in G
  PROVE  S \in G
<1> DEFINE B == (SUBSET S) \ G
<1>1. SUFFICES ASSUME S \notin G PROVE FALSE
  OBVIOUS
<1>2. B \in SUBSET (SUBSET S) /\ B # {}
  BY <1>1
<1>3. PICK s \in B : \A t \in B : t \subseteq s => t = s
  <2> HIDE DEF B
  <2> QED
    BY <1>2, LeastSubset
<1>4. PICK x \in s : TRUE
  BY <1>3
<1>5. s \ {x} \notin B
  <2>1. s \ {x} \subseteq s /\ s \ {x} # s
    OBVIOUS
  <2> HIDE DEF B
  <2> QED
    BY <2>1, <1>3
<1>6. s \ {x} \in G /\ x \in S \ (s \ {x}) /\ (s \ {x}) \cup {x} = s
  BY <1>3, <1>4, <1>5
<1>7. s \in G
  BY <1>6
<1> QED
  BY <1>3, <1>7

\* Induction on the natural numbers.
LEMMA ByNumbers ==
  ASSUME NEW G \in SUBSET Nat, 0 \in G, \A n \in G : n + 1 \in G
  PROVE  G = Nat
<1> DEFINE B == Nat \ G
<1>1. SUFFICES ASSUME B # {} PROVE FALSE
  OBVIOUS
<1>2. PICK n \in B : \A m \in B : n <= m
  <2>1. B \in SUBSET Nat
    OBVIOUS
  <2> HIDE DEF B
  <2> QED
    BY <2>1, <1>1, LeastNumber
<1>3. n - 1 \in Nat /\ n - 1 \notin B
  <2>1. n \in Nat /\ n # 0
    BY <1>2
  <2> HIDE DEF B
  <2> QED
    BY <2>1, <1>2
<1> QED
  BY <1>2, <1>3

-----------------------------------------------------------------------------
(* Sums over finite sets. *)

OneOf(s) == CHOOSE x \in s : TRUE
\* The sums of w over all subsets of S, as SumFunctionOnSet chooses them.
Sums(g, w, S) == g = [s \in SUBSET S |-> IF s = {} THEN 0 ELSE w[OneOf(s)] + g[s \ {OneOf(s)}]]
IntSums(g, w, S) == Sums(g, w, S) /\ g \in [SUBSET S -> Int]
Ints(w, S) == \A x \in S : w[x] \in Int

\* A finite set has sums over all its subsets.
LEMMA SumsExist ==
  ASSUME NEW S, IsFiniteSet(S), NEW w, Ints(w, S)
  PROVE  \E g : IntSums(g, w, S)
<1> DEFINE Small(n) == { s \in SUBSET S : Cardinality(s) <= n }
           Some(g, n) == /\ g \in [Small(n) -> Int]
                         /\ \A s \in Small(n) : g[s] = IF s = {} THEN 0 ELSE w[OneOf(s)] + g[s \ {OneOf(s)}]
           With1 == { n \in Nat : \E g : Some(g, n) }
<1>1. \A s \in SUBSET S : /\ IsFiniteSet(s) /\ Cardinality(s) \in Nat
                          /\ Cardinality(s) <= Cardinality(S)
                          /\ Cardinality(s) = 0 <=> s = {}
  BY FS_Subset, FS_CardinalityType, FS_EmptySet
<1>2. ASSUME NEW s \in SUBSET S, s # {}
      PROVE  /\ OneOf(s) \in s /\ w[OneOf(s)] \in Int /\ s \ {OneOf(s)} \in SUBSET S
             /\ Cardinality(s \ {OneOf(s)}) = Cardinality(s) - 1
  <2>1. OneOf(s) \in s
    BY <1>2 DEF OneOf
  <2>2. Cardinality(s \ {OneOf(s)}) = Cardinality(s) - 1
    BY <1>1, <2>1, FS_RemoveElement
  <2> QED
    BY <2>1, <2>2 DEF Ints
<1>3. With1 = Nat
  <2>1. 0 \in With1
    <3> DEFINE g == [s \in Small(0) |-> 0]
    <3>1. \A s \in Small(0) : s = {}
      BY <1>1
    <3>2. Some(g, 0)
      BY <3>1
    <3> QED
      BY <3>2
  <2>2. ASSUME NEW m \in With1 PROVE m + 1 \in With1
    <3>2. PICK h : Some(h, m)
      OBVIOUS
    <3> DEFINE n == m + 1
               g == [s \in Small(n) |-> IF s = {} THEN 0 ELSE w[OneOf(s)] + h[s \ {OneOf(s)}]]
    <3>3. \A s \in Small(n) : s # {} => s \ {OneOf(s)} \in Small(m)
      BY <1>1, <1>2
    <3>4. g \in [Small(n) -> Int]
      BY <1>2, <3>2, <3>3
    <3>5. \A s \in Small(m) : s \in Small(n) /\ g[s] = h[s]
      <4>1. \A s \in Small(m) : s \in Small(n)
        BY <1>1
      <4> QED
        BY <3>2, <4>1
    <3>6. \A s \in Small(n) : g[s] = IF s = {} THEN 0 ELSE w[OneOf(s)] + g[s \ {OneOf(s)}]
      <4> HIDE DEF Small
      <4> QED
        BY <3>3, <3>5
    <3>7. Some(g, n)
      BY <3>4, <3>6
    <3>8. m + 1 \in Nat
      BY DEF With1
    <3> HIDE DEF g
    <3>9. \E k : Some(k, m + 1)
      BY <3>7
    <3> QED
      BY <3>8, <3>9
  <2> HIDE DEF Some
  <2>3. With1 \in SUBSET Nat
    OBVIOUS
  <2> HIDE DEF With1
  <2> QED
    BY <2>1, <2>2, <2>3, ByNumbers
<1>4. Cardinality(S) \in Nat /\ Small(Cardinality(S)) = SUBSET S
  BY <1>1, FS_CardinalityType
<1>5. PICK g : Some(g, Cardinality(S))
  BY <1>3, <1>4
<1> QED
  BY <1>4, <1>5 DEF IntSums, Sums

\* They are what SumFunctionOnSet takes.
LEMMA SumsOf ==
  ASSUME NEW S, IsFiniteSet(S), NEW w, Ints(w, S),
         NEW g, IntSums(g, w, S)
  PROVE  \A T \in SUBSET S : SumFunctionOnSet(w, T) = g[T]
<1> SUFFICES ASSUME NEW T \in SUBSET S PROVE SumFunctionOnSet(w, T) = g[T]
  OBVIOUS
<1> DEFINE h == CHOOSE k : Sums(k, w, T)
           B == {s \in SUBSET T : h[s] # g[s]}
<1>1. SumFunctionOnSet(w, T) = h[T]
  BY DEF SumFunctionOnSet, FoldFunctionOnSet, MapThenFoldSet, Sums, OneOf
<1>2. Sums(h, w, T)
  <2>1. IsFiniteSet(T)
    BY FS_Subset
  <2>2. Ints(w, T)
    BY DEF Ints
  <2>3. \E k : IntSums(k, w, T)
    BY <2>1, <2>2, SumsExist
  <2> QED
    BY <2>3 DEF IntSums
<1> HIDE DEF h
<1>3. B = {}
  <2>1. SUFFICES ASSUME B # {} PROVE FALSE
    OBVIOUS
  <2>2. PICK s \in B : \A t \in B : t \subseteq s => t = s
    <3>1. B \in SUBSET (SUBSET T) /\ IsFiniteSet(T)
      BY FS_Subset
    <3> HIDE DEF B
    <3> QED
      BY <2>1, <3>1, LeastSubset
  <2>3. /\ h[s] = IF s = {} THEN 0 ELSE w[OneOf(s)] + h[s \ {OneOf(s)}]
        /\ g[s] = IF s = {} THEN 0 ELSE w[OneOf(s)] + g[s \ {OneOf(s)}]
    <3>1. s \in SUBSET T /\ s \in SUBSET S
      BY <2>2
    <3>2. h[s] = IF s = {} THEN 0 ELSE w[OneOf(s)] + h[s \ {OneOf(s)}]
      BY <3>1, <1>2 DEF Sums
    <3>3. g[s] = IF s = {} THEN 0 ELSE w[OneOf(s)] + g[s \ {OneOf(s)}]
      BY <3>1 DEF IntSums, Sums
    <3> QED
      BY <3>2, <3>3
  <2>4. s # {}
    BY <2>2, <2>3
  <2>5. s \ {OneOf(s)} \notin B
    <3>1. OneOf(s) \in s
      BY <2>4 DEF OneOf
    <3> HIDE DEF B
    <3> QED
      BY <2>2, <3>1
  <2>6. h[s \ {OneOf(s)}] = g[s \ {OneOf(s)}]
    BY <2>2, <2>5
  <2> QED
    BY <2>2, <2>3, <2>4, <2>6
<1> QED
  BY <1>1, <1>3

\* A finite sum of integers is an integer, nothing sums to nothing, and any element can be taken
\* out of a sum.
LEMMA SumOfInts ==
  ASSUME NEW S, IsFiniteSet(S), NEW w, Ints(w, S)
  PROVE  /\ SumFunctionOnSet(w, S) \in Int
         /\ SumFunctionOnSet(w, {}) = 0
         /\ \A x \in S : SumFunctionOnSet(w, S) = w[x] + SumFunctionOnSet(w, S \ {x})
<1>1. PICK g : IntSums(g, w, S)
  BY SumsExist
<1>2. \A T \in SUBSET S : SumFunctionOnSet(w, T) = g[T]
  BY <1>1, SumsOf
<1>3. \A s \in SUBSET S : g[s] = IF s = {} THEN 0 ELSE w[OneOf(s)] + g[s \ {OneOf(s)}]
  BY <1>1 DEF IntSums, Sums
<1> DEFINE Good(s) == \A x \in s : g[s] = w[x] + g[s \ {x}]
           B == {s \in SUBSET S : ~ Good(s)}
<1>4. B = {}
  <2>1. SUFFICES ASSUME B # {} PROVE FALSE
    OBVIOUS
  <2>2. PICK s \in B : \A t \in B : t \subseteq s => t = s
    <3>1. B \in SUBSET (SUBSET S)
      OBVIOUS
    <3> HIDE DEF B
    <3> QED
      BY <2>1, <3>1, LeastSubset
  <2>3. PICK x \in s : g[s] # w[x] + g[s \ {x}]
    BY <2>2
  <2> DEFINE c == OneOf(s)
  <2>4. c \in s /\ s \in SUBSET S
    BY <2>2, <2>3 DEF OneOf
  <2>5. g[s] = w[c] + g[s \ {c}]
    BY <2>4, <1>3
  <2> HIDE DEF c
  <2>6. c # x
    BY <2>3, <2>5
  <2>7. s \ {c} \notin B /\ s \ {x} \notin B
    <3> HIDE DEF B
    <3> QED
      BY <2>2, <2>3, <2>4
  <2>8. g[s \ {c}] = w[x] + g[(s \ {c}) \ {x}]
    BY <2>2, <2>3, <2>6, <2>7
  <2>9. g[s \ {x}] = w[c] + g[(s \ {x}) \ {c}]
    BY <2>2, <2>4, <2>6, <2>7
  <2> DEFINE r == (s \ {x}) \ {c}
  <2>10. r = (s \ {c}) \ {x} /\ r \in SUBSET S
    BY <2>4
  <2> HIDE DEF r
  <2>11. w[x] \in Int /\ w[c] \in Int /\ g[r] \in Int
    BY <2>3, <2>4, <2>10, <1>1 DEF IntSums, Ints
  <2>12. g[s \ {c}] = w[x] + g[r] /\ g[s \ {x}] = w[c] + g[r]
    BY <2>8, <2>9, <2>10 DEF r
  <2> QED
    BY <2>3, <2>5, <2>11, <2>12
<1>5. \A x \in S : g[S] = w[x] + g[S \ {x}]
  BY <1>4
<1>6. g[S] \in Int /\ S \in SUBSET S /\ {} \in SUBSET S /\ g[{}] = 0
  BY <1>1, <1>3 DEF IntSums
<1>7. \A x \in S : SumFunctionOnSet(w, S \ {x}) = g[S \ {x}]
  BY <1>2
<1> QED
  BY <1>2, <1>5, <1>6, <1>7

\* The sum of v + k * w.
Combined(u, v, k, w, S) == \A x \in S : u[x] = v[x] + k * w[x]
LEMMA SumCombined ==
  ASSUME NEW S, IsFiniteSet(S), NEW u, NEW v, NEW w, Ints(v, S), Ints(w, S), NEW k \in Int,
         Combined(u, v, k, w, S)
  PROVE  SumFunctionOnSet(u, S) = SumFunctionOnSet(v, S) + k * SumFunctionOnSet(w, S)
<1> DEFINE Sum(f, s) == SumFunctionOnSet(f, s)
           G == {s \in SUBSET S : Sum(u, s) = Sum(v, s) + k * Sum(w, s)}
<1>1. ASSUME NEW s \in SUBSET S
      PROVE  /\ IsFiniteSet(s) /\ Ints(u, s) /\ Ints(v, s) /\ Ints(w, s)
             /\ Sum(u, s) \in Int /\ Sum(v, s) \in Int /\ Sum(w, s) \in Int
  <2>1. Ints(u, s) /\ Ints(v, s) /\ Ints(w, s)
    BY DEF Ints, Combined
  <2>2. IsFiniteSet(s)
    BY FS_Subset
  <2> QED
    BY <2>1, <2>2, SumOfInts
<1>2. Sum(u, {}) = 0 /\ Sum(v, {}) = 0 /\ Sum(w, {}) = 0
  BY <1>1, SumOfInts
<1>3. {} \in G
  BY <1>2
<1>4. ASSUME NEW s \in G, NEW x \in S \ s PROVE s \cup {x} \in G
  <2> DEFINE t == s \cup {x}
  <2>1. t \in SUBSET S /\ x \in t /\ t \ {x} = s /\ s \in SUBSET S
    OBVIOUS
  <2> HIDE DEF t
  <2>2. Sum(u, t) = u[x] + Sum(u, s) /\ Sum(v, t) = v[x] + Sum(v, s) /\ Sum(w, t) = w[x] + Sum(w, s)
    BY <1>1, <2>1, SumOfInts
  <2>3. u[x] = v[x] + k * w[x] /\ v[x] \in Int /\ w[x] \in Int
    BY DEF Ints, Combined
  <2> DEFINE b == Sum(v, s)
             c == Sum(w, s)
             p == v[x]
             q == w[x]
  <2>4. b \in Int /\ c \in Int /\ p \in Int /\ q \in Int /\ Sum(u, s) = b + k * c /\ u[x] = p + k * q
    BY <1>1, <2>1, <2>3
  <2>5. Sum(v, t) = p + b /\ Sum(w, t) = q + c /\ Sum(u, t) = (p + k * q) + (b + k * c)
    BY <2>2, <2>4
  <2> HIDE DEF b, c, p, q, Sum
  <2>6. k * (q + c) = k * q + k * c
    BY <2>4
  <2>7. k * q \in Int /\ k * c \in Int
    BY <2>4
  <2>8. Sum(u, t) = Sum(v, t) + k * Sum(w, t)
    BY <2>4, <2>5, <2>6, <2>7
  <2> QED
    BY <2>1, <2>8 DEF t
<1> HIDE DEF Sum
<1>5. G \in SUBSET (SUBSET S)
  OBVIOUS
<1>6. S \in G
  <2> HIDE DEF G
  <2> QED
    BY <1>3, <1>4, <1>5, BySubsets
<1> QED
  BY <1>6 DEF Sum

\* Sums of the same numbers.
LEMMA SumSame ==
  ASSUME NEW S, IsFiniteSet(S), NEW v, NEW w, Ints(w, S), \A x \in S : v[x] = w[x]
  PROVE  SumFunctionOnSet(v, S) = SumFunctionOnSet(w, S)
<1>1. \A x \in S : v[x] = w[x] + 0 * w[x]
  BY DEF Ints
<1>2. SumFunctionOnSet(v, S) = SumFunctionOnSet(w, S) + 0 * SumFunctionOnSet(w, S)
  BY <1>1, SumCombined DEF Combined
<1>3. SumFunctionOnSet(w, S) \in Int
  BY SumOfInts
<1> QED
  BY <1>2, <1>3

\* Nothing sums to nothing.
LEMMA SumOfZeros ==
  ASSUME NEW S, IsFiniteSet(S), NEW w, \A x \in S : w[x] = 0
  PROVE  SumFunctionOnSet(w, S) = 0
<1>0. Ints(w, S)
  BY DEF Ints
<1> DEFINE n == SumFunctionOnSet(w, S)
<1>1. \A x \in S : w[x] = w[x] + 1 * w[x]
  OBVIOUS
<1>2. n = n + 1 * n
  BY <1>0, <1>1, SumCombined DEF Combined
<1>3. n \in Int
  BY <1>0, SumOfInts
<1> HIDE DEF n
<1>4. n = 0
  BY <1>2, <1>3
<1> QED
  BY <1>4 DEF n

\* The sum of k * w.
Scaled(u, k, w, S) == \A x \in S : u[x] = k * w[x]
LEMMA SumScaled ==
  ASSUME NEW S, IsFiniteSet(S), NEW u, NEW w, Ints(w, S), NEW k \in Int, Scaled(u, k, w, S)
  PROVE  SumFunctionOnSet(u, S) = k * SumFunctionOnSet(w, S)
<1> DEFINE z == [x \in S |-> 0]
<1>1. \A x \in S : z[x] = 0
  OBVIOUS
<1> HIDE DEF z
<1>2. Ints(z, S) /\ SumFunctionOnSet(z, S) = 0
  BY <1>1, SumOfZeros DEF Ints
<1>3. Combined(u, z, k, w, S)
  <2> SUFFICES ASSUME NEW x \in S PROVE u[x] = z[x] + k * w[x]
    BY DEF Combined
  <2>1. w[x] \in Int
    BY DEF Ints
  <2>2. k * w[x] \in Int
    BY <2>1
  <2> QED
    BY <1>1, <2>2 DEF Scaled
<1>4. SumFunctionOnSet(u, S) = 0 + k * SumFunctionOnSet(w, S)
  BY <1>2, <1>3, SumCombined
<1>5. SumFunctionOnSet(w, S) \in Int
  BY SumOfInts
<1> DEFINE n == SumFunctionOnSet(w, S)
<1>6. k * n \in Int
  BY <1>5
<1> QED
  BY <1>4, <1>6

\* The sum over two disjoint sets.
LEMMA SumOfTwo ==
  ASSUME NEW A, NEW B, IsFiniteSet(A), IsFiniteSet(B), A \cap B = {}, NEW w, Ints(w, A \cup B)
  PROVE  SumFunctionOnSet(w, A \cup B) = SumFunctionOnSet(w, A) + SumFunctionOnSet(w, B)
<1> DEFINE Sum(s) == SumFunctionOnSet(w, s)
           G == {s \in SUBSET B : Sum(A \cup s) = Sum(A) + Sum(s)}
<1>1. ASSUME NEW s \in SUBSET (A \cup B)
      PROVE  IsFiniteSet(s) /\ Ints(w, s) /\ Sum(s) \in Int
  <2>1. IsFiniteSet(A \cup B)
    BY FS_Union
  <2>2. IsFiniteSet(s) /\ Ints(w, s)
    BY <2>1, FS_Subset DEF Ints
  <2> QED
    BY <2>2, SumOfInts
<1>2. {} \in G
  <2>1. Sum({}) = 0 /\ A \cup {} = A /\ Sum(A) \in Int
    BY <1>1, SumOfInts
  <2> QED
    BY <2>1
<1>3. ASSUME NEW s \in G, NEW x \in B \ s PROVE s \cup {x} \in G
  <2> DEFINE t == s \cup {x}
             T == A \cup t
  <2>1. /\ t \in SUBSET (A \cup B) /\ x \in t /\ t \ {x} = s /\ s \in SUBSET (A \cup B)
        /\ T \in SUBSET (A \cup B) /\ x \in T /\ T \ {x} = A \cup s /\ A \in SUBSET (A \cup B)
        /\ t \in SUBSET B
    OBVIOUS
  <2> HIDE DEF t, T
  <2>2. Sum(t) = w[x] + Sum(s) /\ Sum(T) = w[x] + Sum(A \cup s) /\ w[x] \in Int
    <3>1. w[x] \in Int
      BY DEF Ints
    <3> QED
      BY <1>1, <2>1, <3>1, SumOfInts
  <2>3. Sum(T) = Sum(A) + Sum(t)
    BY <1>1, <2>1, <2>2
  <2> QED
    BY <2>1, <2>3 DEF t, T
<1> HIDE DEF Sum
<1>4. G \in SUBSET (SUBSET B)
  OBVIOUS
<1>5. B \in G
  <2> HIDE DEF G
  <2> QED
    BY <1>2, <1>3, <1>4, BySubsets
<1> QED
  BY <1>5 DEF Sum

\* A part with zeros left out.
LEMMA SumOfPart ==
  ASSUME NEW S, IsFiniteSet(S), NEW T \in SUBSET S, NEW w, Ints(w, S), \A x \in S \ T : w[x] = 0
  PROVE  SumFunctionOnSet(w, S) = SumFunctionOnSet(w, T)
<1>1. IsFiniteSet(T) /\ IsFiniteSet(S \ T) /\ T \cup (S \ T) = S /\ T \cap (S \ T) = {}
  BY FS_Subset
<1>2. SumFunctionOnSet(w, T \cup (S \ T)) = SumFunctionOnSet(w, T) + SumFunctionOnSet(w, S \ T)
  <2>1. Ints(w, T \cup (S \ T))
    BY <1>1
  <2> QED
    BY <1>1, <2>1, SumOfTwo
<1>3. SumFunctionOnSet(w, S \ T) = 0
  BY <1>1, SumOfZeros
<1>4. SumFunctionOnSet(w, T) \in Int
  <2>1. Ints(w, T)
    BY DEF Ints
  <2> QED
    BY <1>1, <2>1, SumOfInts
<1> DEFINE n == SumFunctionOnSet(w, T)
<1>5. SumFunctionOnSet(w, S) = n + 0 /\ n \in Int
  BY <1>1, <1>2, <1>3, <1>4
<1> HIDE DEF n
<1>6. n + 0 = n
  BY <1>5
<1> QED
  BY <1>5, <1>6 DEF n

\* The same number for every day of some days.
EachIs(w, k, S) == \A x \in S : w[x] = k
LEMMA SumOfDays ==
  ASSUME NEW a \in Int, NEW b \in Int, NEW w, NEW k \in Int, EachIs(w, k, a .. b - 1)
  PROVE  SumFunctionOnSet(w, a .. b - 1) = k * (IF a < b THEN b - a ELSE 0)
<1> DEFINE Days(n) == a .. a + n - 1
           G == {n \in Nat : a + n <= b => SumFunctionOnSet(w, Days(n)) = k * n}
<1>1. 0 \in G
  <2>1. Days(0) = {}
    OBVIOUS
  <2>2. SumFunctionOnSet(w, {}) = 0
    BY FS_EmptySet, SumOfZeros
  <2> QED
    BY <2>1, <2>2
<1>2. ASSUME NEW n \in G PROVE n + 1 \in G
  <2> SUFFICES ASSUME a + (n + 1) <= b PROVE SumFunctionOnSet(w, Days(n + 1)) = k * (n + 1)
    OBVIOUS
  <2> DEFINE D == Days(n + 1)
  <2>1. D \ {a + n} = Days(n) /\ a + n \in D /\ D \subseteq a .. b - 1
    OBVIOUS
  <2>2. IsFiniteSet(D)
    BY FS_Interval
  <2>3. Ints(w, D)
    BY <2>1 DEF Ints, EachIs
  <2>4. w[a + n] = k
    BY <2>1 DEF EachIs
  <2>5. SumFunctionOnSet(w, D) = k + SumFunctionOnSet(w, Days(n))
    <3> HIDE DEF D, Days
    <3> QED
      BY <2>1, <2>2, <2>3, <2>4, SumOfInts
  <2>6. SumFunctionOnSet(w, Days(n)) = k * n
    OBVIOUS
  <2>7. k + k * n = k * (n + 1)
    OBVIOUS
  <2> QED
    BY <2>5, <2>6, <2>7
<1>3. G = Nat
  <2>1. G \in SUBSET Nat
    OBVIOUS
  <2> HIDE DEF G
  <2> QED
    BY <1>1, <1>2, <2>1, ByNumbers
<1>4. CASE a < b
  <2>1. b - a \in Nat /\ a + (b - a) = b
    BY <1>4
  <2>2. b - a \in G
    BY <1>3, <2>1
  <2>3. SumFunctionOnSet(w, Days(b - a)) = k * (b - a)
    BY <2>1, <2>2
  <2>4. Days(b - a) = a .. b - 1
    BY <2>1
  <2> QED
    BY <2>3, <2>4, <1>4
<1>5. CASE ~ (a < b)
  <2>1. a .. b - 1 = {}
    BY <1>5
  <2>2. SumFunctionOnSet(w, {}) = 0
    BY FS_EmptySet, SumOfZeros
  <2> QED
    BY <1>5, <2>1, <2>2
<1> QED
  BY <1>4, <1>5

\* A finite sum of integers is one.
LEMMA SumIsInteger ==
  ASSUME NEW S, IsFiniteSet(S), NEW w, \A x \in S : w[x] \in Int
  PROVE  SumFunctionOnSet(w, S) \in Int
  BY SumOfInts DEF Ints
=============================================================================
