-------------------------------- MODULE Sums --------------------------------
(***************************************************************************)
(* Facts about SumFunctionOnSet of the community modules, the sum of a     *)
(* function over a finite set, which TaskStore counts bytes with and       *)
(* RpcIngress the bytes it buffers.  The sum is defined by recursion over  *)
(* subsets; what follows is that its recursion is well defined, that any   *)
(* element may be taken out of it, and that it is additive and bounded.    *)
(* Inductions are over a least counterexample, as the induction theorems   *)
(* of the library are stated for operators.                                *)
(***************************************************************************)
EXTENDS Integers, FiniteSets, Functions, FiniteSetTheorems, WellFoundedInduction, TLAPS

\* The element that the recursion takes out of a set first, and its equation.
Pick(s) == CHOOSE x \in s : TRUE
SumStep(f, g, s) == IF s = {} THEN 0 ELSE f[Pick(s)] + g[s \ {Pick(s)}]
SumsOf(f, S) == CHOOSE g : g = [s \in SUBSET S |-> SumStep(f, g, s)]

\* A set of natural numbers has a least element.
LEMMA LeastNumber ==
    ASSUME NEW T, T \subseteq Nat, T # {}
    PROVE  \E x \in T : \A y \in T : x <= y
<1>1. IsWellFoundedOn(OpToRel(<, Nat), Nat)
  BY NatLessThanWellFounded, Zenon
<1>2. PICK x \in T : \A y \in T : ~ (<<y, x>> \in OpToRel(<, Nat))
  BY <1>1, WFMin, Zenon
<1>3. \A y \in T : ~ (y < x)
  BY <1>2 DEF OpToRel
<1> QED
  BY <1>3

\* A collection of finite sets has a smallest one.
LEMMA SmallestSet ==
    ASSUME NEW B, B # {}, \A T \in B : IsFiniteSet(T)
    PROVE  \E T \in B : \A U \in B : Cardinality(T) <= Cardinality(U)
<1> DEFINE sizes == {Cardinality(T) : T \in B}
<1>1. sizes \subseteq Nat
  BY FS_CardinalityType
<1>2. sizes # {}
  OBVIOUS
<1>3. PICK n \in sizes : \A k \in sizes : n <= k
  BY <1>1, <1>2, LeastNumber, Zenon
<1> QED
  BY <1>3

\* What Pick takes out of a finite set, and what is left.
LEMMA PickFacts ==
    ASSUME NEW s, IsFiniteSet(s), s # {}
    PROVE  /\ Pick(s) \in s
           /\ IsFiniteSet(s \ {Pick(s)})
           /\ Cardinality(s) \in Nat
           /\ Cardinality(s \ {Pick(s)}) = Cardinality(s) - 1
<1>1. Pick(s) \in s
  BY DEF Pick
<1> QED
  BY <1>1, FS_RemoveElement, FS_CardinalityType

LEMMA PickSmaller ==
    ASSUME NEW T, NEW s \in SUBSET T, IsFiniteSet(s), s # {}
    PROVE  /\ Pick(s) \in T
           /\ s \ {Pick(s)} \in SUBSET T
           /\ ~ (Cardinality(s) <= Cardinality(s \ {Pick(s)}))
<1>1. /\ Pick(s) \in s
      /\ Cardinality(s) \in Nat
      /\ Cardinality(s \ {Pick(s)}) = Cardinality(s) - 1
  BY PickFacts
<1> QED
  BY <1>1

\* There is a function that satisfies the equation of the recursion.
LEMMA SumsExist ==
    ASSUME NEW f, NEW S, IsFiniteSet(S)
    PROVE  \A s \in SUBSET S : SumsOf(f, S)[s] = SumStep(f, SumsOf(f, S), s)
<1> DEFINE Upto(g, n) == \A s \in SUBSET S : Cardinality(s) <= n => g[s] = SumStep(f, g, s)
           Bad == {n \in Nat : ~ \E g : Upto(g, n)}
<1>1. \A s \in SUBSET S : IsFiniteSet(s) /\ Cardinality(s) \in Nat
  BY FS_Subset, FS_CardinalityType
<1>2. Bad = {}
  <2> SUFFICES ASSUME Bad # {} PROVE FALSE
    OBVIOUS
  <2>1. PICK m \in Bad : \A k \in Bad : m <= k
    BY LeastNumber, Zenon
  <2>2. CASE m = 0
    <3> DEFINE g == [s \in SUBSET S |-> 0]
    <3>1. \A s \in SUBSET S : Cardinality(s) <= 0 => s = {}
      BY <1>1, FS_EmptySet
    <3>2. Upto(g, 0)
      BY <3>1 DEF SumStep
    <3> QED
      BY <2>1, <2>2, <3>2
  <2>3. CASE m # 0
    <3>1. m \in Nat /\ m - 1 \in Nat /\ m - 1 \notin Bad
      BY <2>1, <2>3
    <3>2. PICK g : Upto(g, m - 1)
      BY <3>1
    <3> DEFINE h == [s \in SUBSET S |-> SumStep(f, g, s)]
    <3>3. ASSUME NEW s \in SUBSET S, Cardinality(s) <= m
          PROVE  h[s] = SumStep(f, h, s)
      <4>1. CASE s = {}
        BY <4>1 DEF SumStep
      <4>2. CASE s # {}
        <5> DEFINE r == s \ {Pick(s)}
        <5>1. r \in SUBSET S /\ Cardinality(r) <= m - 1
          BY <1>1, <3>1, <3>3, <4>2, PickFacts
        <5>2. g[r] = SumStep(f, g, r)
          BY <3>2, <5>1
        <5>3. h[r] = g[r]
          BY <5>1, <5>2
        <5>4. h[s] = f[Pick(s)] + g[r]
          BY <4>2 DEF SumStep
        <5>5. SumStep(f, h, s) = f[Pick(s)] + h[r]
          BY <4>2 DEF SumStep
        <5> QED
          BY <5>3, <5>4, <5>5
      <4> QED
        BY <4>1, <4>2
    <3>4. Upto(h, m)
      <4> HIDE DEF h
      <4> QED
        BY <3>3
    <3> QED
      BY <2>1, <3>4
  <2> QED
    BY <2>2, <2>3
<1>3. PICK g : Upto(g, Cardinality(S))
  BY <1>1, <1>2
<1> DEFINE h == [s \in SUBSET S |-> g[s]]
<1>4. \A s \in SUBSET S : g[s] = SumStep(f, g, s)
  BY <1>1, <1>3, FS_Subset
<1>5. \A s \in SUBSET S : SumStep(f, g, s) = SumStep(f, h, s)
  BY PickFacts, <1>1 DEF SumStep
<1>6. h = [s \in SUBSET S |-> SumStep(f, h, s)]
  BY <1>4, <1>5
<1> HIDE DEF h
<1>7. SumsOf(f, S) = [s \in SUBSET S |-> SumStep(f, SumsOf(f, S), s)]
  BY <1>6 DEF SumsOf
<1> DEFINE k == SumsOf(f, S)
<1>8. k = [s \in SUBSET S |-> SumStep(f, k, s)]
  BY <1>7
<1> HIDE DEF k
<1>9. \A s \in SUBSET S : k[s] = SumStep(f, k, s)
  BY <1>8
<1> QED
  BY <1>9 DEF k

-----------------------------------------------------------------------------
\* The sum, element by element.

\* The operator of the community modules is this recursion.
LEMMA SumIsRecursion ==
    ASSUME NEW f, NEW S
    PROVE  SumFunctionOnSet(f, S) = SumsOf(f, S)[S]
BY DEF SumFunctionOnSet, FoldFunctionOnSet, MapThenFoldSet, SumsOf, SumStep, Pick

\* The recursion over the subsets of a set agrees with the one over the subsets
\* of any part of it.
LEMMA SumsAgree ==
    ASSUME NEW f, NEW S, IsFiniteSet(S), NEW T \in SUBSET S
    PROVE  \A s \in SUBSET T : SumsOf(f, S)[s] = SumsOf(f, T)[s]
<1> DEFINE g == SumsOf(f, S)
           h == SumsOf(f, T)
           Bad == {s \in SUBSET T : g[s] # h[s]}
<1>1. IsFiniteSet(T) /\ \A s \in SUBSET T : IsFiniteSet(s)
  BY FS_Subset
<1>2. \A s \in SUBSET T : g[s] = SumStep(f, g, s) /\ h[s] = SumStep(f, h, s)
  <2>1. \A s \in SUBSET S : SumsOf(f, S)[s] = SumStep(f, SumsOf(f, S), s)
    BY SumsExist
  <2>2. \A s \in SUBSET T : SumsOf(f, T)[s] = SumStep(f, SumsOf(f, T), s)
    BY <1>1, SumsExist
  <2> QED
    BY <2>1, <2>2
<1> HIDE DEF g, h
<1>3. Bad = {}
  <2> SUFFICES ASSUME Bad # {} PROVE FALSE
    OBVIOUS
  <2>1. PICK s \in Bad : \A u \in Bad : Cardinality(s) <= Cardinality(u)
    <3>1. \A u \in Bad : IsFiniteSet(u)
      BY <1>1
    <3> HIDE DEF Bad
    <3> QED
      BY <3>1, SmallestSet, Zenon
  <2>2. s # {}
    BY <1>2, <2>1 DEF SumStep
  <2> DEFINE r == s \ {Pick(s)}
  <2>3. r \in SUBSET T /\ ~ (Cardinality(s) <= Cardinality(r))
    <3>1. IsFiniteSet(s) /\ s \in SUBSET T
      BY <1>1, <2>1
    <3> QED
      BY <2>2, <3>1, PickSmaller, Zenon
  <2>4. g[r] = h[r]
    BY <2>1, <2>3
  <2> QED
    BY <1>2, <2>2, <2>4 DEF SumStep
<1> QED
  BY <1>3 DEF g, h

\* The sum over the empty set, and over any other with the first element taken
\* out.
LEMMA SumOfEmpty ==
    ASSUME NEW f
    PROVE  SumFunctionOnSet(f, {}) = 0
<1>1. \A s \in SUBSET {} : SumsOf(f, {})[s] = SumStep(f, SumsOf(f, {}), s)
  BY SumsExist, FS_EmptySet
<1>2. SumsOf(f, {})[{}] = SumStep(f, SumsOf(f, {}), {})
  BY <1>1
<1> QED
  BY <1>2, SumIsRecursion DEF SumStep

LEMMA SumOfPick ==
    ASSUME NEW f, NEW S, IsFiniteSet(S), S # {}
    PROVE  SumFunctionOnSet(f, S) = f[Pick(S)] + SumFunctionOnSet(f, S \ {Pick(S)})
<1> DEFINE T == S \ {Pick(S)}
           g == SumsOf(f, S)
<1>1. \A s \in SUBSET S : g[s] = SumStep(f, g, s)
  BY SumsExist
<1>2. g[T] = SumsOf(f, T)[T]
  BY SumsAgree, T \in SUBSET S, T \in SUBSET T
<1>3. g[S] = f[Pick(S)] + g[T]
  <2> HIDE DEF g
  <2> QED
    BY <1>1 DEF SumStep
<1> QED
  BY <1>2, <1>3, SumIsRecursion

\* Functions with the same values on a set have the same sum over it.
LEMMA SumOfEqual ==
    ASSUME NEW f, NEW g, NEW S, IsFiniteSet(S), \A x \in S : f[x] = g[x]
    PROVE  SumFunctionOnSet(f, S) = SumFunctionOnSet(g, S)
<1> DEFINE Bad == {s \in SUBSET S : SumFunctionOnSet(f, s) # SumFunctionOnSet(g, s)}
<1>1. \A s \in SUBSET S : IsFiniteSet(s)
  BY FS_Subset
<1>2. Bad = {}
  <2> SUFFICES ASSUME Bad # {} PROVE FALSE
    OBVIOUS
  <2>1. PICK s \in Bad : \A u \in Bad : Cardinality(s) <= Cardinality(u)
    <3>1. \A u \in Bad : IsFiniteSet(u)
      BY <1>1
    <3> HIDE DEF Bad
    <3> QED
      BY <3>1, SmallestSet, Zenon
  <2>2. s # {}
    BY SumOfEmpty
  <2> DEFINE r == s \ {Pick(s)}
  <2>3. Pick(s) \in S /\ r \in SUBSET S /\ ~ (Cardinality(s) <= Cardinality(r))
    <3>1. IsFiniteSet(s) /\ s \in SUBSET S
      BY <1>1, <2>1
    <3> QED
      BY <2>2, <3>1, PickSmaller, Zenon
  <2>4. SumFunctionOnSet(f, r) = SumFunctionOnSet(g, r)
    BY <2>1, <2>3
  <2>5. /\ SumFunctionOnSet(f, s) = f[Pick(s)] + SumFunctionOnSet(f, r)
        /\ SumFunctionOnSet(g, s) = g[Pick(s)] + SumFunctionOnSet(g, r)
    BY <1>1, <2>2, SumOfPick
  <2> QED
    BY <2>3, <2>4, <2>5
<1> QED
  BY <1>2

\* Sums of natural numbers.

LEMMA SumInNat ==
    ASSUME NEW f, NEW S, IsFiniteSet(S), \A x \in S : f[x] \in Nat
    PROVE  SumFunctionOnSet(f, S) \in Nat
<1> DEFINE Bad == {s \in SUBSET S : SumFunctionOnSet(f, s) \notin Nat}
<1>1. \A s \in SUBSET S : IsFiniteSet(s)
  BY FS_Subset
<1>2. Bad = {}
  <2> SUFFICES ASSUME Bad # {} PROVE FALSE
    OBVIOUS
  <2>1. PICK s \in Bad : \A u \in Bad : Cardinality(s) <= Cardinality(u)
    <3>1. \A u \in Bad : IsFiniteSet(u)
      BY <1>1
    <3> HIDE DEF Bad
    <3> QED
      BY <3>1, SmallestSet, Zenon
  <2>2. s # {}
    BY <2>1, SumOfEmpty
  <2> DEFINE r == s \ {Pick(s)}
  <2>3. Pick(s) \in S /\ r \in SUBSET S /\ ~ (Cardinality(s) <= Cardinality(r))
    <3>1. IsFiniteSet(s) /\ s \in SUBSET S
      BY <1>1, <2>1
    <3> QED
      BY <2>2, <3>1, PickSmaller, Zenon
  <2>4. SumFunctionOnSet(f, r) \in Nat
    BY <2>1, <2>3
  <2>5. SumFunctionOnSet(f, s) = f[Pick(s)] + SumFunctionOnSet(f, r)
    BY <1>1, <2>1, <2>2, SumOfPick
  <2>6. f[Pick(s)] + SumFunctionOnSet(f, r) \in Nat
    BY <2>3, <2>4
  <2> QED
    BY <2>1, <2>5, <2>6
<1> QED
  BY <1>2

\* Any element can be taken out of a sum, not only the first.
LEMMA SumOfRemove ==
    ASSUME NEW f, NEW S, IsFiniteSet(S), \A x \in S : f[x] \in Nat, NEW e \in S
    PROVE  SumFunctionOnSet(f, S) = f[e] + SumFunctionOnSet(f, S \ {e})
<1> DEFINE Out(s, x) == SumFunctionOnSet(f, s) = f[x] + SumFunctionOnSet(f, s \ {x})
           Bad == {s \in SUBSET S : \E x \in s : ~ Out(s, x)}
<1>1. \A s \in SUBSET S : IsFiniteSet(s) /\ SumFunctionOnSet(f, s) \in Nat
  BY FS_Subset, SumInNat
<1>2. Bad = {}
  <2> SUFFICES ASSUME Bad # {} PROVE FALSE
    OBVIOUS
  <2>1. PICK s \in Bad : \A u \in Bad : Cardinality(s) <= Cardinality(u)
    <3>1. \A u \in Bad : IsFiniteSet(u)
      BY <1>1
    <3> HIDE DEF Bad
    <3> QED
      BY <3>1, SmallestSet, Zenon
  <2>2. s \in SUBSET S /\ IsFiniteSet(s)
    BY <1>1, <2>1
  <2>3. PICK x \in s : ~ Out(s, x)
    BY <2>1
  <2> DEFINE c == Pick(s)
  <2>4. c \in s /\ Out(s, c)
    BY <2>2, <2>3, SumOfPick, PickFacts
  <2>5. c # x
    BY <2>3, <2>4
  <2>6. s \ {c} \in SUBSET S /\ ~ (Cardinality(s) <= Cardinality(s \ {c}))
    BY <2>2, <2>3, PickSmaller
  <2>7. s \ {x} \in SUBSET S /\ ~ (Cardinality(s) <= Cardinality(s \ {x}))
    <3>1. Cardinality(s) \in Nat /\ Cardinality(s \ {x}) = Cardinality(s) - 1
      BY <2>2, <2>3, FS_RemoveElement, FS_CardinalityType
    <3> QED
      BY <2>2, <3>1
  <2>8. Out(s \ {c}, x) /\ Out(s \ {x}, c)
    <3>1. s \ {c} \notin Bad /\ s \ {x} \notin Bad
      BY <2>1, <2>6, <2>7
    <3>2. x \in s \ {c} /\ c \in s \ {x}
      BY <2>3, <2>4, <2>5
    <3> HIDE DEF c, Out
    <3> QED
      BY <2>6, <2>7, <3>1, <3>2
  <2>9. (s \ {c}) \ {x} = (s \ {x}) \ {c}
    OBVIOUS
  <2>10. /\ f[c] \in Nat /\ f[x] \in Nat
         /\ SumFunctionOnSet(f, (s \ {c}) \ {x}) \in Nat
    BY <1>1, <2>2, <2>3, <2>4
  <2> HIDE DEF c
  <2> QED
    BY <2>3, <2>4, <2>8, <2>9, <2>10
<1> QED
  BY <1>2

\* Sums over two sets that share nothing add up.
LEMMA SumOfUnion ==
    ASSUME NEW f, NEW A, NEW B, IsFiniteSet(A), IsFiniteSet(B), A \cap B = {},
           \A x \in A \cup B : f[x] \in Nat
    PROVE  SumFunctionOnSet(f, A \cup B) = SumFunctionOnSet(f, A) + SumFunctionOnSet(f, B)
<1> DEFINE Adds(s) == SumFunctionOnSet(f, A \cup s) = SumFunctionOnSet(f, A) + SumFunctionOnSet(f, s)
           Bad == {s \in SUBSET B : ~ Adds(s)}
<1>1. \A s \in SUBSET B : IsFiniteSet(s)
  BY FS_Subset
<1>2. SumFunctionOnSet(f, A) \in Nat
  BY SumInNat
<1>3. Bad = {}
  <2> SUFFICES ASSUME Bad # {} PROVE FALSE
    OBVIOUS
  <2>1. PICK s \in Bad : \A u \in Bad : Cardinality(s) <= Cardinality(u)
    <3>1. \A u \in Bad : IsFiniteSet(u)
      BY <1>1
    <3> HIDE DEF Bad
    <3> QED
      BY <3>1, SmallestSet, Zenon
  <2>2. s \in SUBSET B /\ IsFiniteSet(s)
    BY <1>1, <2>1
  <2>3. s # {}
    <3>1. A \cup {} = A
      OBVIOUS
    <3>2. Adds({})
      BY <1>2, <3>1, SumOfEmpty
    <3> QED
      BY <2>1, <3>2
  <2> DEFINE c == Pick(s)
             r == s \ {c}
  <2>4. c \in s /\ r \in SUBSET B /\ ~ (Cardinality(s) <= Cardinality(r))
    BY <2>2, <2>3, PickSmaller, PickFacts
  <2> HIDE DEF c
  <2>5. Adds(r)
    BY <2>1, <2>4
  <2>6. IsFiniteSet(A \cup s) /\ IsFiniteSet(r)
    BY <1>1, <2>2, <2>4, FS_Union
  <2>7. SumFunctionOnSet(f, A \cup s) = f[c] + SumFunctionOnSet(f, (A \cup s) \ {c})
    <3>1. c \in A \cup s /\ \A x \in A \cup s : f[x] \in Nat
      BY <2>2, <2>4
    <3> QED
      BY <2>6, <3>1, SumOfRemove
  <2>8. SumFunctionOnSet(f, s) = f[c] + SumFunctionOnSet(f, r)
    <3>1. \A x \in s : f[x] \in Nat
      BY <2>2
    <3> QED
      BY <2>2, <2>4, <3>1, SumOfRemove
  <2>9. (A \cup s) \ {c} = A \cup r
    BY <2>2, <2>4
  <2>10. f[c] \in Nat /\ SumFunctionOnSet(f, r) \in Nat
    <3>1. \A x \in r : f[x] \in Nat
      BY <2>2
    <3> QED
      BY <2>2, <2>4, <2>6, <3>1, SumInNat
  <2>11. ~ Adds(s)
    BY <2>1
  <2>12. SumFunctionOnSet(f, A \cup s) = f[c] + (SumFunctionOnSet(f, A) + SumFunctionOnSet(f, r))
    BY <2>5, <2>7, <2>9
  <2> QED
    BY <1>2, <2>8, <2>10, <2>11, <2>12
<1> QED
  BY <1>3

\* A sum in which few terms count is bounded by their number and their bound.
LEMMA SumBound ==
    ASSUME NEW f, NEW S, IsFiniteSet(S), NEW T \in SUBSET S, NEW M \in Nat,
           \A x \in S : f[x] \in 0 .. M,
           \A x \in S \ T : f[x] = 0
    PROVE  SumFunctionOnSet(f, S) <= Cardinality(T) * M
<1> DEFINE Few(s) == SumFunctionOnSet(f, s) <= Cardinality(s) * M
           Bad == {s \in SUBSET T : ~ Few(s)}
           Bad0 == {s \in SUBSET (S \ T) : SumFunctionOnSet(f, s) # 0}
<1>1. \A s \in SUBSET S : IsFiniteSet(s) /\ Cardinality(s) \in Nat
  BY FS_Subset, FS_CardinalityType
<1>2. Bad = {}
  <2> SUFFICES ASSUME Bad # {} PROVE FALSE
    OBVIOUS
  <2>1. PICK s \in Bad : \A u \in Bad : Cardinality(s) <= Cardinality(u)
    <3>1. \A u \in Bad : IsFiniteSet(u)
      BY <1>1
    <3> HIDE DEF Bad
    <3> QED
      BY <3>1, SmallestSet, Zenon
  <2>2. s \in SUBSET T /\ s \in SUBSET S /\ IsFiniteSet(s)
    BY <1>1, <2>1
  <2>3. s # {}
    <3>1. Few({})
      BY SumOfEmpty, FS_EmptySet
    <3> QED
      BY <2>1, <3>1
  <2> DEFINE c == Pick(s)
             r == s \ {c}
  <2>4. c \in s /\ r \in SUBSET T /\ ~ (Cardinality(s) <= Cardinality(r))
    BY <2>2, <2>3, PickSmaller, PickFacts
  <2>5. Few(r)
    BY <2>1, <2>4
  <2>6. SumFunctionOnSet(f, s) = f[c] + SumFunctionOnSet(f, r)
    BY <2>2, <2>3, SumOfPick
  <2>7. Cardinality(s) \in Nat /\ Cardinality(r) = Cardinality(s) - 1
    BY <2>2, <2>3, PickFacts
  <2>8. SumFunctionOnSet(f, r) \in Nat
    <3>1. IsFiniteSet(r) /\ \A x \in r : f[x] \in Nat
      BY <1>1, <2>4
    <3> HIDE DEF r
    <3> QED
      BY <3>1, SumInNat
  <2>9. f[c] \in 0 .. M
    BY <2>2, <2>4
  <2>10. (Cardinality(s) - 1) * M + M = Cardinality(s) * M
    BY <2>7
  <2>11. SumFunctionOnSet(f, r) <= (Cardinality(s) - 1) * M
    BY <2>5, <2>7
  <2>12. (Cardinality(s) - 1) * M \in Int
    BY <2>7
  <2> HIDE DEF c, r
  <2>13. Few(s)
    BY <2>6, <2>8, <2>9, <2>10, <2>11, <2>12
  <2> QED
    BY <2>1, <2>13
<1>3. Bad0 = {}
  <2> SUFFICES ASSUME Bad0 # {} PROVE FALSE
    OBVIOUS
  <2>1. PICK s \in Bad0 : \A u \in Bad0 : Cardinality(s) <= Cardinality(u)
    <3>1. \A u \in Bad0 : IsFiniteSet(u)
      BY <1>1
    <3> HIDE DEF Bad0
    <3> QED
      BY <3>1, SmallestSet, Zenon
  <2>2. s \in SUBSET (S \ T) /\ IsFiniteSet(s) /\ s # {}
    BY <1>1, <2>1, SumOfEmpty
  <2> DEFINE c == Pick(s)
             r == s \ {c}
  <2>3. c \in S \ T /\ r \in SUBSET (S \ T) /\ ~ (Cardinality(s) <= Cardinality(r))
    BY <2>2, PickSmaller
  <2>4. SumFunctionOnSet(f, r) = 0
    BY <2>1, <2>3
  <2>5. SumFunctionOnSet(f, s) = f[c] + SumFunctionOnSet(f, r)
    BY <2>2, SumOfPick
  <2> QED
    BY <2>1, <2>3, <2>4, <2>5
<1>4. /\ IsFiniteSet(T) /\ IsFiniteSet(S \ T)
      /\ T \cap (S \ T) = {} /\ T \cup (S \ T) = S
      /\ \A x \in S : f[x] \in Nat
  BY <1>1
<1>5. SumFunctionOnSet(f, S) = SumFunctionOnSet(f, T) + SumFunctionOnSet(f, S \ T)
  <2> DEFINE U == S \ T
  <2>1. SumFunctionOnSet(f, T \cup U) = SumFunctionOnSet(f, T) + SumFunctionOnSet(f, U)
    <3>1. \A x \in T \cup U : f[x] \in Nat
      BY <1>4
    <3>2. IsFiniteSet(U) /\ T \cap U = {}
      BY <1>4
    <3> HIDE DEF U
    <3> QED
      BY <1>4, <3>1, <3>2, SumOfUnion
  <2> QED
    BY <1>4, <2>1
<1>6. SumFunctionOnSet(f, S \ T) = 0 /\ Few(T)
  BY <1>2, <1>3
<1>7. SumFunctionOnSet(f, T) \in Nat
  BY <1>1, <1>4, SumInNat
<1> QED
  BY <1>5, <1>6, <1>7
=============================================================================
