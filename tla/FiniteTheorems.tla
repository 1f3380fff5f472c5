--------------------------- MODULE FiniteTheorems ---------------------------
(***************************************************************************)
(* What finite sets have, and sums over them, for the proofs about the     *)
(* components.  Induction is by a counterexample of least cardinality.     *)
(***************************************************************************)
EXTENDS Integers, FiniteSetsExt, FiniteSetTheorems, WellFoundedInduction, TLAPS

USE Zenon

\* Some number of a non-empty set of naturals is the least.
LEMMA LeastNatural ==
  ASSUME NEW N \in SUBSET Nat, N # {}
  PROVE  \E n \in N : \A m \in N : n <= m
<1>1. PICK n \in N : \A m \in N : ~(<<m, n>> \in OpToRel(<, Nat))
  BY WFMin, NatLessThanWellFounded
<1>2. \A m \in N : <<m, n>> \in OpToRel(<, Nat) <=> m < n
  BY DEF OpToRel
<1>3. \A m \in N : ~(m < n)
  BY <1>1, <1>2
<1>4. \A m \in N : m \in Nat /\ n \in Nat
  OBVIOUS
<1> QED BY SMT, <1>3, <1>4

\* A finite set without one of its elements is smaller by one.
LEMMA RemoveOne ==
  ASSUME NEW S, IsFiniteSet(S), NEW x \in S
  PROVE  /\ IsFiniteSet(S \ {x})
         /\ Cardinality(S) \in Nat /\ Cardinality(S \ {x}) \in Nat
         /\ Cardinality(S \ {x}) = Cardinality(S) - 1
BY FS_RemoveElement, FS_CardinalityType

\* A finite set that is not empty has an element before all its others, in a
\* total and transitive relation.
LEMMA FiniteTop ==
  ASSUME NEW X, NEW R,
         \A x, y \in X : x # y => <<x, y>> \in R \/ <<y, x>> \in R,
         \A x, y, z \in X : <<x, y>> \in R /\ <<y, z>> \in R => <<x, z>> \in R,
         NEW S \in SUBSET X, IsFiniteSet(S), S # {}
  PROVE  \E v \in S : \A u \in S \ {v} : <<v, u>> \in R
<1> DEFINE Topless(T) == \A v \in T : \E u \in T \ {v} : <<v, u>> \notin R
           Bad == {n \in Nat : \E T \in SUBSET X : /\ T # {} /\ IsFiniteSet(T)
                                                   /\ Cardinality(T) = n /\ Topless(T)}
<1>1. SUFFICES ASSUME Topless(S) PROVE FALSE
  OBVIOUS
<1>2. Cardinality(S) \in Bad
  BY <1>1, FS_CardinalityType
<1>3. PICK n \in Bad : \A m \in Bad : n <= m
  <2>1. Bad \in SUBSET Nat /\ Bad # {}
    BY <1>2
  <2> HIDE DEF Bad
  <2> QED BY <2>1, LeastNatural
<1>4. PICK T \in SUBSET X : T # {} /\ IsFiniteSet(T) /\ Cardinality(T) = n /\ Topless(T)
  BY <1>3
<1>5. PICK x : x \in T
  BY <1>4
<1> DEFINE U == T \ {x}
<1>6. IsFiniteSet(U) /\ Cardinality(U) = n - 1 /\ n \in Nat /\ n - 1 \in Nat
  <2> HIDE DEF Bad, Topless
  <2> QED BY <1>4, <1>5, RemoveOne
<1>7. CASE U = {}
  BY <1>4, <1>5, <1>7
<1>8. CASE U # {}
  <2>1. ~Topless(U)
    <3>1. SUFFICES ASSUME Topless(U) PROVE FALSE
      OBVIOUS
    <3>2. n - 1 \in Bad
      BY <1>6, <1>8, <3>1, <1>4
    <3> QED BY SMT, <3>2, <1>3, <1>6
  <2>2. PICK v \in U : \A u \in U \ {v} : <<v, u>> \in R
    BY <2>1
  <2>3. CASE <<v, x>> \in R
    BY <2>2, <2>3, <1>4
  <2>4. CASE <<x, v>> \in R
    <3>1. \A u \in U : <<x, u>> \in R
      BY <2>2, <2>4, <1>4, <1>5
    <3> QED BY <3>1, <1>4, <1>5
  <2> QED BY <2>2, <2>3, <2>4, <1>4, <1>5
<1> QED BY <1>7, <1>8

-----------------------------------------------------------------------------
\* The sum of what f says of the elements of S.
SumOf(f, S) == MapThenSumSet(LAMBDA x : f[x], S)

\* The library's two sums are one.
LEMMA SumOfFold ==
  ASSUME NEW f, NEW S
  PROVE  SumOf(f, S) = SumFunctionOnSet(f, S)
BY DEF SumOf, MapThenSumSet, SumFunctionOnSet, FoldFunctionOnSet, MapThenFoldSet

\* The element that a fold takes first
First(s) == CHOOSE x \in s : TRUE

\* g is the function of partial sums, on the sets of D, that the fold defines.
IsSums(g, f, D) ==
  g = [s \in D |-> IF s = {} THEN 0 ELSE f[First(s)] + g[s \ {First(s)}]]
Sums(f, D) == CHOOSE g : IsSums(g, f, D)

\* A sum is the last of its partial sums.
LEMMA SumOfSums ==
  ASSUME NEW f, NEW S
  PROVE  SumOf(f, S) = Sums(f, SUBSET S)[S]
BY DEF SumOf, Sums, IsSums, First, MapThenSumSet, MapThenFoldSet

\* The first element of a set is one of it.
LEMMA FirstIn ==
  ASSUME NEW s, s # {}
  PROVE  First(s) \in s
BY DEF First

\* The subsets of S with at most k elements
UpTo(S, k) == {s \in SUBSET S : Cardinality(s) <= k}

\* Partial sums exist: the ones of k elements come from the ones of k - 1.
LEMMA SumsExist ==
  ASSUME NEW f, NEW S, IsFiniteSet(S)
  PROVE  IsSums(Sums(f, SUBSET S), f, SUBSET S)
<1> DEFINE Bad == {k \in Nat : ~\E g : IsSums(g, f, UpTo(S, k))}
<1>1. \A s \in SUBSET S : IsFiniteSet(s) /\ Cardinality(s) \in Nat
                       /\ Cardinality(s) <= Cardinality(S)
  BY FS_Subset, FS_CardinalityType
<1>2. \A s \in SUBSET S : s # {} =>
        /\ s \ {First(s)} \in SUBSET S
        /\ Cardinality(s \ {First(s)}) = Cardinality(s) - 1
  BY <1>1, FirstIn, RemoveOne
<1>3. Bad = {}
  <2>1. SUFFICES ASSUME Bad # {} PROVE FALSE
    OBVIOUS
  <2>2. PICK k \in Bad : \A m \in Bad : k <= m
    <3>1. Bad \in SUBSET Nat
      OBVIOUS
    <3> HIDE DEF Bad
    <3> QED BY <2>1, <3>1, LeastNatural
  <2>3. k \in Nat /\ ~\E g : IsSums(g, f, UpTo(S, k))
    BY <2>2
  <2>4. CASE k = 0
    <3> DEFINE g == [s \in UpTo(S, k) |-> 0]
    <3>1. \A s \in UpTo(S, k) : s = {}
      BY SMT, <1>1, <2>4, FS_EmptySet DEF UpTo
    <3>2. IsSums(g, f, UpTo(S, k))
      BY <3>1 DEF IsSums
    <3> QED BY <3>2, <2>3
  <2>5. CASE k # 0
    <3>1. k - 1 \in Nat /\ k - 1 \notin Bad
      BY SMT, <2>2, <2>3, <2>5
    <3>2. PICK h : IsSums(h, f, UpTo(S, k - 1))
      BY <3>1
    <3> DEFINE g == [s \in UpTo(S, k) |->
                       IF s = {} THEN 0 ELSE f[First(s)] + h[s \ {First(s)}]]
    <3>3. \A s \in UpTo(S, k - 1) : s \in UpTo(S, k)
      BY SMT, <1>1, <2>3, <3>1 DEF UpTo
    <3>4. \A s \in UpTo(S, k - 1) : g[s] = h[s]
      BY <3>2, <3>3 DEF IsSums
    <3>5. \A s \in UpTo(S, k) : s # {} => s \ {First(s)} \in UpTo(S, k - 1)
      BY SMT, <1>1, <1>2, <2>3 DEF UpTo
    <3>6. IsSums(g, f, UpTo(S, k))
      BY <3>4, <3>5 DEF IsSums
    <3> QED BY <3>6, <2>3
  <2> QED BY <2>4, <2>5
<1>4. UpTo(S, Cardinality(S)) = SUBSET S
  BY <1>1 DEF UpTo
<1>5. Cardinality(S) \in Nat
  BY FS_CardinalityType
<1>6. \E g : IsSums(g, f, UpTo(S, Cardinality(S)))
  BY <1>3, <1>5
<1>7. \E g : IsSums(g, f, SUBSET S)
  BY <1>4, <1>6
<1> QED BY <1>7 DEF Sums

\* Partial sums do not depend on the set they are part of.
LEMMA SumsAgree ==
  ASSUME NEW f, NEW S, IsFiniteSet(S), NEW T \in SUBSET S
  PROVE  Sums(f, SUBSET S)[T] = SumOf(f, T)
<1> DEFINE Differ(s) == Sums(f, SUBSET S)[s] # Sums(f, SUBSET T)[s]
           Bad == {k \in Nat : \E s \in SUBSET T : Cardinality(s) = k /\ Differ(s)}
<1>1. \A s \in SUBSET T : IsFiniteSet(s) /\ Cardinality(s) \in Nat /\ s \in SUBSET S
  BY FS_Subset, FS_CardinalityType
<1>2. \A s \in SUBSET T : s # {} =>
        /\ s \ {First(s)} \in SUBSET T
        /\ Cardinality(s \ {First(s)}) = Cardinality(s) - 1
        /\ Cardinality(s \ {First(s)}) \in Nat
  BY <1>1, FirstIn, RemoveOne
<1>3. IsSums(Sums(f, SUBSET S), f, SUBSET S) /\ IsSums(Sums(f, SUBSET T), f, SUBSET T)
  BY SumsExist, FS_Subset
<1>4. Bad = {}
  <2>1. SUFFICES ASSUME Bad # {} PROVE FALSE
    OBVIOUS
  <2>2. PICK k \in Bad : \A m \in Bad : k <= m
    <3>1. Bad \in SUBSET Nat
      OBVIOUS
    <3> HIDE DEF Bad
    <3> QED BY <2>1, <3>1, LeastNatural
  <2>3. PICK s \in SUBSET T : Cardinality(s) = k /\ Differ(s)
    BY <2>2
  <2>4. s # {}
    BY <1>1, <1>3, <2>3 DEF IsSums
  <2>5. ~Differ(s \ {First(s)})
    <3>1. Cardinality(s \ {First(s)}) \notin Bad
      <4> HIDE DEF Bad
      <4> QED BY SMT, <1>1, <1>2, <2>2, <2>3, <2>4
    <3> QED BY <3>1, <1>2, <2>4
  <2>6. /\ Sums(f, SUBSET S)[s] = f[First(s)] + Sums(f, SUBSET S)[s \ {First(s)}]
        /\ Sums(f, SUBSET T)[s] = f[First(s)] + Sums(f, SUBSET T)[s \ {First(s)}]
    BY <1>1, <1>3, <2>4 DEF IsSums
  <2> QED BY <2>3, <2>5, <2>6
<1>5. ~Differ(T)
  BY <1>1, <1>4
<1> QED BY <1>5, SumOfSums

\* The sum over the empty set, and over a set from the one without its first.
LEMMA SumEmpty ==
  ASSUME NEW f
  PROVE  SumOf(f, {}) = 0
<1>1. IsSums(Sums(f, SUBSET {}), f, SUBSET {})
  BY SumsExist, FS_EmptySet
<1> QED BY <1>1, SumOfSums DEF IsSums

\* A sum takes the first element and goes on with the others.
LEMMA SumFirst ==
  ASSUME NEW f, NEW S, IsFiniteSet(S), S # {}
  PROVE  SumOf(f, S) = f[First(S)] + SumOf(f, S \ {First(S)})
<1>1. IsSums(Sums(f, SUBSET S), f, SUBSET S)
  BY SumsExist
<1>2. Sums(f, SUBSET S)[S] = f[First(S)] + Sums(f, SUBSET S)[S \ {First(S)}]
  BY <1>1 DEF IsSums
<1>3. Sums(f, SUBSET S)[S \ {First(S)}] = SumOf(f, S \ {First(S)})
  BY SumsAgree
<1> QED BY <1>2, <1>3, SumOfSums

\* A sum of integers is one.
LEMMA SumType ==
  ASSUME NEW f, NEW S, IsFiniteSet(S), \A x \in S : f[x] \in Int
  PROVE  SumOf(f, S) \in Int
<1> DEFINE Bad == {k \in Nat : \E s \in SUBSET S : Cardinality(s) = k /\ SumOf(f, s) \notin Int}
<1>1. \A s \in SUBSET S : IsFiniteSet(s) /\ Cardinality(s) \in Nat
  BY FS_Subset, FS_CardinalityType
<1>2. SUFFICES ASSUME Bad # {} PROVE FALSE
  BY <1>1
<1>3. PICK k \in Bad : \A m \in Bad : k <= m
  <2>1. Bad \in SUBSET Nat
    OBVIOUS
  <2> HIDE DEF Bad
  <2> QED BY <1>2, <2>1, LeastNatural
<1>4. PICK s \in SUBSET S : Cardinality(s) = k /\ SumOf(f, s) \notin Int
  BY <1>3
<1>5. s # {}
  BY SMT, <1>4, SumEmpty
<1> DEFINE t == s \ {First(s)}
<1>6. First(s) \in s /\ t \in SUBSET S /\ Cardinality(t) \in Nat /\ Cardinality(t) < k
  BY SMT, <1>1, <1>4, <1>5, FirstIn, RemoveOne
<1>7. Cardinality(t) \notin Bad
  <2> HIDE DEF Bad, t
  <2>1. k \in Nat
    BY <1>4, <1>1
  <2> QED BY SMT, <1>3, <1>6, <2>1
<1>8. SumOf(f, t) \in Int
  BY <1>6, <1>7
<1> QED BY SMT, <1>1, <1>4, <1>5, <1>6, <1>8, SumFirst

\* Any element can be taken out first.
LEMMA SumRemove ==
  ASSUME NEW f, NEW S, IsFiniteSet(S), \A x \in S : f[x] \in Int, NEW x \in S
  PROVE  SumOf(f, S) = f[x] + SumOf(f, S \ {x})
<1> DEFINE Fails(s, y) == SumOf(f, s) # f[y] + SumOf(f, s \ {y})
           Bad == {k \in Nat : \E s \in SUBSET S : Cardinality(s) = k /\ \E y \in s : Fails(s, y)}
<1>1. \A s \in SUBSET S : IsFiniteSet(s) /\ Cardinality(s) \in Nat
  BY FS_Subset, FS_CardinalityType
<1>2. SUFFICES ASSUME Bad # {} PROVE FALSE
  BY <1>1
<1>3. PICK k \in Bad : \A m \in Bad : k <= m
  <2>1. Bad \in SUBSET Nat
    OBVIOUS
  <2> HIDE DEF Bad
  <2> QED BY <1>2, <2>1, LeastNatural
<1>4. PICK s \in SUBSET S : Cardinality(s) = k /\ \E y \in s : Fails(s, y)
  BY <1>3
<1>5. PICK y \in s : Fails(s, y)
  BY <1>4
<1> DEFINE c == First(s)
<1>6. c \in s
  BY <1>5, FirstIn
<1>7. SumOf(f, s) = f[c] + SumOf(f, s \ {c})
  BY <1>1, <1>5, SumFirst
<1>8. c # y
  BY <1>5, <1>7
<1>9. \A z \in s : \A w \in s \ {z} : ~Fails(s \ {z}, w)
  <2>1. SUFFICES ASSUME NEW z \in s PROVE \A w \in s \ {z} : ~Fails(s \ {z}, w)
    OBVIOUS
  <2>2. Cardinality(s \ {z}) \in Nat /\ Cardinality(s \ {z}) < k /\ k \in Nat
    <3> HIDE DEF Bad, Fails
    <3> QED BY SMT, <1>1, <1>4, RemoveOne
  <2>3. Cardinality(s \ {z}) \notin Bad
    <3> HIDE DEF Bad, Fails
    <3> QED BY SMT, <2>2, <1>3
  <2> QED BY <2>2, <2>3
<1>10. SumOf(f, s \ {c}) = f[y] + SumOf(f, (s \ {c}) \ {y})
  BY <1>5, <1>6, <1>8, <1>9
<1>11. SumOf(f, s \ {y}) = f[c] + SumOf(f, (s \ {y}) \ {c})
  BY <1>5, <1>6, <1>8, <1>9
<1> DEFINE r == (s \ {c}) \ {y}
<1>12. (s \ {y}) \ {c} = r
  OBVIOUS
<1>13. SumOf(f, r) \in Int /\ f[c] \in Int /\ f[y] \in Int
  BY <1>1, <1>5, <1>6, SumType
<1>14. /\ SumOf(f, s \ {c}) = f[y] + SumOf(f, r)
       /\ SumOf(f, s \ {y}) = f[c] + SumOf(f, r)
       /\ SumOf(f, s) # f[y] + SumOf(f, s \ {y})
  BY <1>5, <1>10, <1>11, <1>12
<1> HIDE DEF r, c
<1> QED BY SMT, <1>7, <1>13, <1>14

\* Sums are monotone, so functions that agree on S have the same sum over it.
LEMMA SumMonotone ==
  ASSUME NEW f, NEW g, NEW S, IsFiniteSet(S),
         \A x \in S : f[x] \in Int /\ g[x] \in Int /\ f[x] <= g[x]
  PROVE  SumOf(f, S) <= SumOf(g, S)
<1> DEFINE Fails(s) == ~(SumOf(f, s) <= SumOf(g, s))
           Bad == {k \in Nat : \E s \in SUBSET S : Cardinality(s) = k /\ Fails(s)}
<1>1. \A s \in SUBSET S : IsFiniteSet(s) /\ Cardinality(s) \in Nat
  BY FS_Subset, FS_CardinalityType
<1>2. SUFFICES ASSUME Bad # {} PROVE FALSE
  BY <1>1
<1>3. PICK k \in Bad : \A m \in Bad : k <= m
  <2>1. Bad \in SUBSET Nat
    OBVIOUS
  <2> HIDE DEF Bad
  <2> QED BY <1>2, <2>1, LeastNatural
<1>4. PICK s \in SUBSET S : Cardinality(s) = k /\ Fails(s)
  BY <1>3
<1>5. PICK x : x \in s
  BY SMT, <1>4, SumEmpty
<1> DEFINE t == s \ {x}
<1>6. t \in SUBSET S /\ Cardinality(t) \in Nat /\ Cardinality(t) < k /\ k \in Nat
  <2> HIDE DEF Bad, Fails
  <2> QED BY SMT, <1>1, <1>4, <1>5, RemoveOne
<1>7. ~Fails(t)
  <2>1. Cardinality(t) \notin Bad
    <3> HIDE DEF Bad, Fails, t
    <3> QED BY SMT, <1>3, <1>6
  <2> QED BY <2>1, <1>6
<1>8. /\ SumOf(f, s) = f[x] + SumOf(f, t) /\ SumOf(g, s) = g[x] + SumOf(g, t)
      /\ SumOf(f, t) \in Int /\ SumOf(g, t) \in Int
  BY SMT, <1>1, <1>5, <1>6, SumRemove, SumType
<1>9. f[x] \in Int /\ g[x] \in Int /\ f[x] <= g[x]
  BY <1>5
<1> HIDE DEF t
<1> QED BY SMT, <1>4, <1>7, <1>8, <1>9

\* Functions that agree on a set have one sum over it.
LEMMA SumSame ==
  ASSUME NEW f, NEW g, NEW S, IsFiniteSet(S), \A x \in S : f[x] \in Int /\ g[x] = f[x]
  PROVE  SumOf(g, S) = SumOf(f, S)
<1>1. SumOf(f, S) <= SumOf(g, S) /\ SumOf(g, S) <= SumOf(f, S)
  BY SMT, SumMonotone
<1>2. SumOf(f, S) \in Int /\ SumOf(g, S) \in Int
  BY SumType
<1> QED BY SMT, <1>1, <1>2

\* The sum of a function that is changed at one element.
LEMMA SumChange ==
  ASSUME NEW f, NEW g, NEW S, IsFiniteSet(S), NEW x \in S,
         \A y \in S : f[y] \in Int /\ g[y] \in Int,
         \A y \in S \ {x} : g[y] = f[y]
  PROVE  SumOf(g, S) = SumOf(f, S) - f[x] + g[x]
<1>1. IsFiniteSet(S \ {x})
  BY RemoveOne
<1>2. SumOf(g, S \ {x}) = SumOf(f, S \ {x}) /\ SumOf(f, S \ {x}) \in Int
  BY <1>1, SumSame, SumType
<1>3. /\ SumOf(f, S) = f[x] + SumOf(f, S \ {x})
      /\ SumOf(g, S) = g[x] + SumOf(g, S \ {x})
  BY SMT, SumRemove
<1> QED BY SMT, <1>2, <1>3

\* The sum of a constant.
LEMMA SumConstant ==
  ASSUME NEW f, NEW S, IsFiniteSet(S), NEW c \in Int, \A x \in S : f[x] = c
  PROVE  SumOf(f, S) = c * Cardinality(S)
<1> DEFINE Fails(s) == SumOf(f, s) # c * Cardinality(s)
           Bad == {k \in Nat : \E s \in SUBSET S : Cardinality(s) = k /\ Fails(s)}
<1>1. \A s \in SUBSET S : IsFiniteSet(s) /\ Cardinality(s) \in Nat
  BY FS_Subset, FS_CardinalityType
<1>2. SUFFICES ASSUME Bad # {} PROVE FALSE
  BY <1>1
<1>3. PICK k \in Bad : \A m \in Bad : k <= m
  <2>1. Bad \in SUBSET Nat
    OBVIOUS
  <2> HIDE DEF Bad
  <2> QED BY <1>2, <2>1, LeastNatural
<1>4. PICK s \in SUBSET S : Cardinality(s) = k /\ Fails(s)
  BY <1>3
<1>5. PICK x : x \in s
  <2>1. SumOf(f, {}) = c * Cardinality({})
    BY SMT, SumEmpty, FS_EmptySet
  <2> QED BY <1>4, <2>1
<1> DEFINE t == s \ {x}
<1>6. /\ t \in SUBSET S /\ Cardinality(t) \in Nat /\ k \in Nat
      /\ Cardinality(t) = k - 1
  <2> HIDE DEF Bad, Fails
  <2> QED BY <1>1, <1>4, <1>5, RemoveOne
<1>7. ~Fails(t)
  <2>1. Cardinality(t) \notin Bad
    <3> HIDE DEF Bad, Fails, t
    <3> QED BY SMT, <1>3, <1>6
  <2> QED BY <2>1, <1>6
<1>8. SumOf(f, s) = c + SumOf(f, t)
  BY SMT, <1>1, <1>5, SumRemove
<1>9. SumOf(f, t) = c * (k - 1) /\ SumOf(f, s) # c * k
  BY <1>4, <1>6, <1>7
<1>10. c * k = c + c * (k - 1)
  BY SMT, <1>6
<1> HIDE DEF t
<1> QED BY <1>8, <1>9, <1>10

\* A sum of natural numbers is one, and at least each of them.
LEMMA SumNatural ==
  ASSUME NEW f, NEW S, IsFiniteSet(S), \A x \in S : f[x] \in Nat
  PROVE  SumOf(f, S) \in Nat
<1> DEFINE z == [x \in S |-> 0]
<1>1. \A x \in S : z[x] = 0
  OBVIOUS
<1> HIDE DEF z
<1>2. SumOf(z, S) = 0 * Cardinality(S) /\ Cardinality(S) \in Nat
  BY SMT, <1>1, SumConstant, FS_CardinalityType
<1>3. SumOf(z, S) <= SumOf(f, S) /\ SumOf(f, S) \in Int
  BY SMT, <1>1, SumMonotone, SumType
<1> QED BY SMT, <1>2, <1>3

\* No natural term is larger than the sum.
LEMMA SumMember ==
  ASSUME NEW f, NEW S, IsFiniteSet(S), \A x \in S : f[x] \in Nat, NEW x \in S
  PROVE  f[x] <= SumOf(f, S)
<1>1. SumOf(f, S) = f[x] + SumOf(f, S \ {x})
  BY SMT, SumRemove
<1>2. SumOf(f, S \ {x}) \in Nat
  BY RemoveOne, SumNatural
<1> QED BY SMT, <1>1, <1>2

\* The sum of two functions, and of a multiple of one.
LEMMA SumAdd ==
  ASSUME NEW f, NEW g, NEW h, NEW S, IsFiniteSet(S),
         \A x \in S : f[x] \in Int /\ g[x] \in Int /\ h[x] = f[x] + g[x]
  PROVE  SumOf(h, S) = SumOf(f, S) + SumOf(g, S)
<1> DEFINE Fails(s) == SumOf(h, s) # SumOf(f, s) + SumOf(g, s)
           Bad == {k \in Nat : \E s \in SUBSET S : Cardinality(s) = k /\ Fails(s)}
<1>1. \A s \in SUBSET S : IsFiniteSet(s) /\ Cardinality(s) \in Nat
  BY FS_Subset, FS_CardinalityType
<1>2. SUFFICES ASSUME Bad # {} PROVE FALSE
  BY <1>1
<1>3. PICK k \in Bad : \A m \in Bad : k <= m
  <2>1. Bad \in SUBSET Nat
    OBVIOUS
  <2> HIDE DEF Bad
  <2> QED BY <1>2, <2>1, LeastNatural
<1>4. PICK s \in SUBSET S : Cardinality(s) = k /\ Fails(s)
  BY <1>3
<1>5. PICK x : x \in s
  <2>1. SumOf(f, {}) = 0 /\ SumOf(g, {}) = 0 /\ SumOf(h, {}) = 0
    BY SumEmpty
  <2>2. SumOf(h, {}) = SumOf(f, {}) + SumOf(g, {})
    BY SMT, <2>1
  <2> QED BY <1>4, <2>2
<1> DEFINE t == s \ {x}
<1>6. t \in SUBSET S /\ Cardinality(t) \in Nat /\ Cardinality(t) < k /\ k \in Nat
  <2> HIDE DEF Bad, Fails
  <2> QED BY SMT, <1>1, <1>4, <1>5, RemoveOne
<1>7. ~Fails(t)
  <2>1. Cardinality(t) \notin Bad
    <3> HIDE DEF Bad, Fails, t
    <3> QED BY SMT, <1>3, <1>6
  <2> QED BY <2>1, <1>6
<1>8. \A y \in S : f[y] \in Int /\ g[y] \in Int /\ h[y] \in Int
  BY SMT
<1>9. /\ SumOf(f, s) = f[x] + SumOf(f, t) /\ SumOf(g, s) = g[x] + SumOf(g, t)
      /\ SumOf(h, s) = h[x] + SumOf(h, t)
      /\ SumOf(f, t) \in Int /\ SumOf(g, t) \in Int
  <2>1. /\ IsFiniteSet(s) /\ IsFiniteSet(t) /\ t \subseteq s
        /\ \A y \in s : f[y] \in Int /\ g[y] \in Int /\ h[y] \in Int
    BY <1>1, <1>6, <1>8
  <2>2. SumOf(f, s) = f[x] + SumOf(f, t) /\ SumOf(f, t) \in Int
    BY SMT, <1>5, <2>1, SumRemove, SumType
  <2>3. SumOf(g, s) = g[x] + SumOf(g, t) /\ SumOf(g, t) \in Int
    BY SMT, <1>5, <2>1, SumRemove, SumType
  <2>4. SumOf(h, s) = h[x] + SumOf(h, t)
    BY SMT, <1>5, <2>1, SumRemove
  <2> QED BY <2>2, <2>3, <2>4
<1>10. f[x] \in Int /\ g[x] \in Int /\ h[x] = f[x] + g[x]
  BY <1>5
<1> HIDE DEF t
<1> QED BY SMT, <1>4, <1>7, <1>9, <1>10

\* A factor comes out of a sum.
LEMMA SumScale ==
  ASSUME NEW f, NEW h, NEW c \in Int, NEW S, IsFiniteSet(S),
         \A x \in S : f[x] \in Int /\ h[x] = c * f[x]
  PROVE  SumOf(h, S) = c * SumOf(f, S)
<1> DEFINE Fails(s) == SumOf(h, s) # c * SumOf(f, s)
           Bad == {k \in Nat : \E s \in SUBSET S : Cardinality(s) = k /\ Fails(s)}
<1>1. \A s \in SUBSET S : IsFiniteSet(s) /\ Cardinality(s) \in Nat
  BY FS_Subset, FS_CardinalityType
<1>2. SUFFICES ASSUME Bad # {} PROVE FALSE
  BY <1>1
<1>3. PICK k \in Bad : \A m \in Bad : k <= m
  <2>1. Bad \in SUBSET Nat
    OBVIOUS
  <2> HIDE DEF Bad
  <2> QED BY <1>2, <2>1, LeastNatural
<1>4. PICK s \in SUBSET S : Cardinality(s) = k /\ Fails(s)
  BY <1>3
<1>5. PICK x : x \in s
  <2>1. SumOf(h, {}) = 0 /\ c * SumOf(f, {}) = 0
    BY SMT, SumEmpty
  <2> QED BY <1>4, <2>1
<1> DEFINE t == s \ {x}
<1>6. t \in SUBSET S /\ Cardinality(t) \in Nat /\ Cardinality(t) < k /\ k \in Nat
  <2> HIDE DEF Bad, Fails
  <2> QED BY SMT, <1>1, <1>4, <1>5, RemoveOne
<1>7. ~Fails(t)
  <2>1. Cardinality(t) \notin Bad
    <3> HIDE DEF Bad, Fails, t
    <3> QED BY SMT, <1>3, <1>6
  <2> QED BY <2>1, <1>6
<1>8. \A y \in S : f[y] \in Int /\ h[y] \in Int
  BY SMT
<1>9. /\ SumOf(f, s) = f[x] + SumOf(f, t) /\ SumOf(h, s) = h[x] + SumOf(h, t)
      /\ SumOf(f, t) \in Int
  BY SMT, <1>1, <1>5, <1>6, <1>8, SumRemove, SumType
<1>10. f[x] \in Int /\ h[x] = c * f[x]
  BY <1>5
<1>11. SumOf(h, t) = c * SumOf(f, t) /\ SumOf(h, s) # c * SumOf(f, s)
  BY <1>4, <1>7
<1> HIDE DEF t
<1>12. \A a, b \in Int : c * (a + b) = c * a + c * b
  BY SMT
<1>13. c * (f[x] + SumOf(f, t)) = c * f[x] + c * SumOf(f, t)
  BY <1>9, <1>10, <1>12
<1> QED BY <1>9, <1>10, <1>11, <1>13

\* A sum over some is the sum over all with nothing for the others.
LEMMA SumWhere ==
  ASSUME NEW f, NEW g, NEW S, IsFiniteSet(S), NEW T, T \subseteq S,
         \A x \in T : f[x] \in Int /\ g[x] = f[x],
         \A x \in S \ T : g[x] = 0
  PROVE  SumOf(f, T) = SumOf(g, S)
<1>0. IsFiniteSet(T) /\ S \cap T = T
  BY FS_Subset
<1> DEFINE Fails(s) == SumOf(f, s \cap T) # SumOf(g, s)
           Bad == {k \in Nat : \E s \in SUBSET S : Cardinality(s) = k /\ Fails(s)}
<1>1. \A s \in SUBSET S : IsFiniteSet(s) /\ Cardinality(s) \in Nat
  BY FS_Subset, FS_CardinalityType
<1>2. SUFFICES ASSUME Bad # {} PROVE FALSE
  <2>1. SUFFICES ASSUME SumOf(f, T) # SumOf(g, S) PROVE Bad # {}
    OBVIOUS
  <2>2. Fails(S) /\ Cardinality(S) \in Nat
    BY <1>0, <1>1, <2>1
  <2> QED BY <2>2
<1>3. PICK k \in Bad : \A m \in Bad : k <= m
  <2>1. Bad \in SUBSET Nat
    OBVIOUS
  <2> HIDE DEF Bad
  <2> QED BY <1>2, <2>1, LeastNatural
<1>4. PICK s \in SUBSET S : Cardinality(s) = k /\ Fails(s)
  BY <1>3
<1>5. PICK x : x \in s
  <2>1. {} \cap T = {}
    OBVIOUS
  <2> QED BY <1>4, <2>1, SumEmpty
<1> DEFINE t == s \ {x}
<1>6. t \in SUBSET S /\ Cardinality(t) \in Nat /\ Cardinality(t) < k /\ k \in Nat
  <2> HIDE DEF Bad, Fails
  <2> QED BY SMT, <1>1, <1>4, <1>5, RemoveOne
<1>7. ~Fails(t)
  <2>1. Cardinality(t) \notin Bad
    <3> HIDE DEF Bad, Fails, t
    <3> QED BY SMT, <1>3, <1>6
  <2> QED BY <2>1, <1>6
<1>8. \A y \in S : g[y] \in Int
  BY SMT
<1>9. SumOf(g, s) = g[x] + SumOf(g, t) /\ SumOf(g, t) \in Int
  BY SMT, <1>1, <1>5, <1>6, <1>8, SumRemove, SumType
<1>10. SumOf(f, t \cap T) = SumOf(g, t) /\ SumOf(f, s \cap T) # SumOf(g, s)
  BY <1>4, <1>7
<1>11. CASE x \in T
  <2>1. IsFiniteSet(s \cap T) /\ x \in s \cap T /\ (s \cap T) \ {x} = t \cap T
    BY <1>0, <1>5, <1>11, FS_Subset
  <2>2. \A y \in s \cap T : f[y] \in Int
    OBVIOUS
  <2>3. SumOf(f, s \cap T) = f[x] + SumOf(f, (s \cap T) \ {x})
    BY SMT, <2>1, <2>2, SumRemove
  <2>4. g[x] = f[x]
    BY <1>11
  <2> QED BY <1>9, <1>10, <2>1, <2>3, <2>4
<1>12. CASE x \notin T
  <2>1. s \cap T = t \cap T
    BY <1>12
  <2>2. g[x] = 0
    BY <1>5, <1>12
  <2>3. SumOf(g, s) = SumOf(g, t)
    <3> HIDE DEF t
    <3> QED BY SMT, <1>9, <2>2
  <2> QED BY <1>10, <2>1, <2>3
<1> QED BY <1>11, <1>12

\* As many numbers from 1 as it says
LEMMA IntervalCardinality ==
  ASSUME NEW n \in Nat
  PROVE  IsFiniteSet(1..n) /\ Cardinality(1..n) = n
<1>1. IsFiniteSet(1..n) /\ Cardinality(1..n) = IF 1 > n THEN 0 ELSE n - 1 + 1
  BY SMT, FS_Interval
<1>2. (IF 1 > n THEN 0 ELSE n - 1 + 1) = n
  BY SMT
<1> QED BY SMT, <1>1, <1>2

\* For each x of S as many pairs as f says
Blocks(f, S) == UNION {{x} \X (1..f[x]) : x \in S}

\* There are as many of them as the sum says.
LEMMA BlocksCardinality ==
  ASSUME NEW f, NEW S, IsFiniteSet(S), \A x \in S : f[x] \in Nat
  PROVE  IsFiniteSet(Blocks(f, S)) /\ Cardinality(Blocks(f, S)) = SumOf(f, S)
<1> DEFINE Fails(s) == ~(IsFiniteSet(Blocks(f, s)) /\ Cardinality(Blocks(f, s)) = SumOf(f, s))
           Bad == {k \in Nat : \E s \in SUBSET S : Cardinality(s) = k /\ Fails(s)}
<1>1. \A s \in SUBSET S : IsFiniteSet(s) /\ Cardinality(s) \in Nat
  BY FS_Subset, FS_CardinalityType
<1>2. SUFFICES ASSUME Bad # {} PROVE FALSE
  BY <1>1
<1>3. PICK k \in Bad : \A m \in Bad : k <= m
  <2>1. Bad \in SUBSET Nat
    OBVIOUS
  <2> HIDE DEF Bad
  <2> QED BY <1>2, <2>1, LeastNatural
<1>4. PICK s \in SUBSET S : Cardinality(s) = k /\ Fails(s)
  BY <1>3
<1>5. PICK x : x \in s
  <2>1. Blocks(f, {}) = {}
    BY DEF Blocks
  <2>2. ~Fails({})
    BY <2>1, SumEmpty, FS_EmptySet
  <2> QED BY <1>4, <2>2
<1> DEFINE t == s \ {x}
           b == {x} \X (1..f[x])
<1>6. /\ t \in SUBSET S /\ Cardinality(t) \in Nat /\ k \in Nat
      /\ Cardinality(t) = k - 1
  <2> HIDE DEF Bad, Fails
  <2> QED BY <1>1, <1>4, <1>5, RemoveOne
<1>7. ~Fails(t)
  <2>1. Cardinality(t) \notin Bad
    <3> HIDE DEF Bad, Fails, t
    <3> QED BY SMT, <1>3, <1>6
  <2> QED BY <2>1, <1>6
<1>8. SumOf(f, s) = f[x] + SumOf(f, t) /\ SumOf(f, t) \in Int /\ f[x] \in Nat
  BY SMT, <1>1, <1>5, <1>6, SumRemove, SumType
<1>9. IsFiniteSet(b) /\ Cardinality(b) = f[x]
  <2>1. IsFiniteSet(1..f[x]) /\ Cardinality(1..f[x]) = f[x]
    BY <1>8, IntervalCardinality
  <2>2. IsFiniteSet({x}) /\ Cardinality({x}) = 1
    BY FS_Singleton
  <2>3. IsFiniteSet(b) /\ Cardinality(b) = Cardinality({x}) * Cardinality(1..f[x])
    BY <2>1, <2>2, FS_Product
  <2> QED BY SMT, <1>8, <2>1, <2>2, <2>3
<1>10. Blocks(f, s) = Blocks(f, t) \cup b
  BY <1>5 DEF Blocks
<1>11. Blocks(f, t) \cap b = {}
  <2>1. \A p \in Blocks(f, t) : p[1] # x
    BY SMT DEF Blocks
  <2>2. \A p \in b : p[1] = x
    OBVIOUS
  <2> QED BY <2>1, <2>2
<1>12. IsFiniteSet(Blocks(f, t)) /\ Cardinality(Blocks(f, t)) = SumOf(f, t)
  BY <1>7
<1> HIDE DEF t, b
<1>13. /\ IsFiniteSet(Blocks(f, s))
       /\ Cardinality(Blocks(f, s)) = Cardinality(Blocks(f, t)) + Cardinality(b)
                                        - Cardinality(Blocks(f, t) \cap b)
  BY <1>9, <1>10, <1>12, FS_Union
<1>14. Cardinality(Blocks(f, s)) = SumOf(f, s)
  BY SMT, <1>8, <1>9, <1>11, <1>12, <1>13, FS_EmptySet
<1> QED BY <1>4, <1>13, <1>14

-----------------------------------------------------------------------------
\* A share above c is a share of more than c for everybody.
LEMMA ShareAbove ==
  ASSUME NEW a \in Nat, NEW n \in Nat \ {0}, NEW c \in Int, a \div n > c
  PROVE  a > c * n
<1>1. a \div n \in Nat /\ n * (a \div n) <= a
  BY SMT
<1> DEFINE k == a \div n
<1>2. k \in Nat /\ n * k <= a /\ k >= c + 1
  BY SMT, <1>1
<1> HIDE DEF k
<1>3. n * (c + 1) <= n * k
  BY SMT, <1>2
<1>4. n * (c + 1) = c * n + n
  BY SMT
<1> QED BY SMT, <1>2, <1>3, <1>4

\* What is more than c for each of n is so for each of fewer.
LEMMA FewerHaveMore ==
  ASSUME NEW a \in Nat, NEW c \in Int, NEW m \in Nat, NEW n \in Nat, 1 <= m, m <= n, a > c * n
  PROVE  a > c * m
<1>1. CASE c < 0
  <2>1. c * m <= 0
    BY SMT, <1>1
  <2>2. c * m # 0
    BY SMT, <1>1
  <2> QED BY SMT, <2>1, <2>2
<1>2. CASE c >= 0
  <2>1. c * m <= c * n
    BY SMT, <1>2
  <2> QED BY SMT, <2>1
<1> QED BY SMT, <1>1, <1>2
=============================================================================
