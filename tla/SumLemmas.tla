------------------------------ MODULE SumLemmas ------------------------------
(***************************************************************************)
(* What SumFunctionOnSet computes: the sums over rows in which the modules  *)
(* state what bills, leaves, refunds and drawers add up to. It is a         *)
(* recursive function, so its recursion equation has to be earned: it is    *)
(* shown to exist on sets of at most n elements, by induction on n, and the *)
(* order in which elements are chosen is shown not to matter.               *)
(*                                                                          *)
(* The induction is about sets of numbers, without an operator parameter    *)
(* (CountingUp), from the well-foundedness of < on the natural numbers.     *)
(***************************************************************************)
EXTENDS Functions, FiniteSetTheorems, WellFoundedInduction, TLAPS

\* A set that holds zero and, with a number, its successor holds every number.
LEMMA CountingUp ==
    ASSUME NEW T, 0 \in T, \A n \in Nat : n \in T => n + 1 \in T
    PROVE  Nat \subseteq T
<1> DEFINE R == OpToRel(<, Nat)
           U == Nat \ T
<1>1. IsWellFoundedOn(R, Nat) BY NatLessThanWellFounded
<1>2. SUFFICES ASSUME U # {} PROVE FALSE OBVIOUS
<1>3. \A x, y \in Nat : <<x, y>> \in R <=> x < y BY DEF OpToRel
<1> HIDE DEF R
<1>4. PICK x \in U : \A y \in U : ~(<<y, x>> \in R) BY <1>1, <1>2, WFMin
<1>5. x # 0 /\ x - 1 \in Nat /\ x - 1 < x BY <1>4
<1>6. x - 1 \in U BY <1>4, <1>5
<1> QED BY <1>3, <1>4, <1>5, <1>6

-----------------------------------------------------------------------------
(* The recursion equation *)

Chosen(s) == CHOOSE x \in s : TRUE

\* f sums g over the sets of D, each by its chosen element and the rest.
IsSum(f, g, D) == f = [s \in D |-> IF s = {} THEN 0 ELSE g[Chosen(s)] + f[s \ {Chosen(s)}]]

\* The subsets of S with at most n elements.
Small(S, n) == {s \in SUBSET S : Cardinality(s) <= n}

\* The definition of the community module, with its recursive function named.
LEMMA SumIsChosen ==
    ASSUME NEW g, NEW S
    PROVE  SumFunctionOnSet(g, S) = (CHOOSE f : IsSum(f, g, SUBSET S))[S]
BY DEF SumFunctionOnSet, FoldFunctionOnSet, MapThenFoldSet, IsSum, Chosen

\* Without its chosen element a set is smaller.
LEMMA RestIsSmaller ==
    ASSUME NEW S, IsFiniteSet(S), NEW n \in Nat, NEW s \in Small(S, n + 1), s # {}
    PROVE  Chosen(s) \in s /\ s \ {Chosen(s)} \in Small(S, n)
<1>1. Chosen(s) \in s BY DEF Chosen
<1>2. IsFiniteSet(s) BY FS_Subset DEF Small
<1>3. Cardinality(s) \in Nat BY <1>2, FS_CardinalityType
<1>4. Cardinality(s \ {Chosen(s)}) = Cardinality(s) - 1 BY <1>1, <1>2, FS_RemoveElement
<1> QED BY <1>1, <1>3, <1>4 DEF Small

\* The sets of at most zero elements are the empty one; with n those with n + 1
\* are not lost; with the size of S they are all subsets of S.
LEMMA SmallSets ==
    ASSUME NEW S, IsFiniteSet(S)
    PROVE  /\ \A s \in Small(S, 0) : s = {}
           /\ \A n \in Nat : Small(S, n) \subseteq Small(S, n + 1)
           /\ Small(S, Cardinality(S)) = SUBSET S
<1>1. ASSUME NEW s \in SUBSET S
      PROVE  IsFiniteSet(s) /\ Cardinality(s) \in Nat /\ Cardinality(s) <= Cardinality(S)
  BY FS_Subset, FS_CardinalityType
<1>2. \A s \in Small(S, 0) : s = {}
  <2> TAKE s \in Small(S, 0)
  <2>1. Cardinality(s) = 0 /\ IsFiniteSet(s) BY <1>1 DEF Small
  <2> QED BY <2>1, FS_EmptySet
<1>3. \A n \in Nat : Small(S, n) \subseteq Small(S, n + 1)
  BY <1>1 DEF Small
<1>4. Small(S, Cardinality(S)) = SUBSET S BY <1>1 DEF Small
<1> QED BY <1>2, <1>3, <1>4

\* There is a function that sums.
LEMMA SumExists ==
    ASSUME NEW g, NEW S, IsFiniteSet(S)
    PROVE  \E f : IsSum(f, g, SUBSET S)
<1> DEFINE T == {n \in Nat : \E f : IsSum(f, g, Small(S, n))}
<1>1. 0 \in T
  <2> DEFINE f == [s \in Small(S, 0) |-> 0]
  <2>1. IsSum(f, g, Small(S, 0)) BY SmallSets DEF IsSum
  <2> QED BY <2>1
<1>2. ASSUME NEW n \in Nat, n \in T PROVE n + 1 \in T
  <2>1. PICK f : IsSum(f, g, Small(S, n)) BY <1>2
  <2> DEFINE h == [s \in Small(S, n + 1) |-> IF s = {} THEN 0 ELSE g[Chosen(s)] + f[s \ {Chosen(s)}]]
  <2>2. \A s \in Small(S, n) : h[s] = f[s]
    BY <2>1, SmallSets DEF IsSum
  <2>3. \A s \in Small(S, n + 1) : s # {} => h[s \ {Chosen(s)}] = f[s \ {Chosen(s)}]
    BY <2>2, RestIsSmaller
  <2>4. IsSum(h, g, Small(S, n + 1)) BY <2>3 DEF IsSum
  <2> HIDE DEF h
  <2> QED BY <2>4
<1>3. Cardinality(S) \in T
  <2> HIDE DEF T
  <2> QED BY <1>1, <1>2, CountingUp, FS_CardinalityType
<1>4. Small(S, Cardinality(S)) = SUBSET S BY SmallSets
<1> QED BY <1>3, <1>4

\* Two functions that sum two functions which agree on S agree on its subsets.
LEMMA SumsAgree ==
    ASSUME NEW f, NEW g, NEW h, NEW k, NEW S, IsFiniteSet(S), NEW D, NEW E,
           SUBSET S \subseteq D, SUBSET S \subseteq E,
           IsSum(f, g, D), IsSum(h, k, E), \A x \in S : g[x] = k[x]
    PROVE  \A s \in SUBSET S : f[s] = h[s]
<1> DEFINE T == {n \in Nat : \A s \in Small(S, n) : f[s] = h[s]}
<1>0. \A s \in SUBSET S : s # {} => Chosen(s) \in s BY DEF Chosen
<1>1. 0 \in T
  <2> SUFFICES ASSUME NEW s \in Small(S, 0) PROVE f[s] = h[s] OBVIOUS
  <2>1. s = {} BY SmallSets
  <2> QED BY <2>1 DEF IsSum
<1>2. ASSUME NEW n \in Nat, n \in T PROVE n + 1 \in T
  <2> SUFFICES ASSUME NEW s \in Small(S, n + 1) PROVE f[s] = h[s] OBVIOUS
  <2>1. s \in SUBSET S BY DEF Small
  <2>2. CASE s = {} BY <2>1, <2>2 DEF IsSum
  <2>3. CASE s # {}
    <3>1. g[Chosen(s)] = k[Chosen(s)] BY <1>0, <2>1, <2>3
    <3>2. f[s \ {Chosen(s)}] = h[s \ {Chosen(s)}] BY <1>2, <2>3, RestIsSmaller
    <3> QED BY <2>1, <2>3, <3>1, <3>2 DEF IsSum
  <2> QED BY <2>2, <2>3
<1>3. Cardinality(S) \in T
  <2> HIDE DEF T
  <2> QED BY <1>1, <1>2, CountingUp, FS_CardinalityType
<1> QED BY <1>3, SmallSets

\* What is summed is all that counts.
THEOREM SumSame ==
    ASSUME NEW g, NEW h, NEW S, IsFiniteSet(S), \A x \in S : g[x] = h[x]
    PROVE  SumFunctionOnSet(g, S) = SumFunctionOnSet(h, S)
<1> DEFINE f == CHOOSE f : IsSum(f, g, SUBSET S)
           k == CHOOSE k : IsSum(k, h, SUBSET S)
<1>1. IsSum(f, g, SUBSET S) /\ IsSum(k, h, SUBSET S) BY SumExists
<1>2. SumFunctionOnSet(g, S) = f[S] /\ SumFunctionOnSet(h, S) = k[S] BY SumIsChosen
<1> HIDE DEF f, k
<1>3. f[S] = k[S] BY <1>1, SumsAgree
<1> QED BY <1>2, <1>3

\* Nothing adds up to nothing.
THEOREM SumOfNone ==
    ASSUME NEW g
    PROVE  SumFunctionOnSet(g, {}) = 0
<1>1. IsFiniteSet({}) BY FS_EmptySet
<1>2. IsSum(CHOOSE f : IsSum(f, g, SUBSET {}), g, SUBSET {}) BY <1>1, SumExists
<1> QED BY <1>2, SumIsChosen DEF IsSum

\* A sum is its chosen element and the sum of the rest.
LEMMA SumByChosen ==
    ASSUME NEW g, NEW S, IsFiniteSet(S), S # {}
    PROVE  SumFunctionOnSet(g, S) = g[Chosen(S)] + SumFunctionOnSet(g, S \ {Chosen(S)})
<1> DEFINE R == S \ {Chosen(S)}
           f == CHOOSE f : IsSum(f, g, SUBSET S)
           h == CHOOSE h : IsSum(h, g, SUBSET R)
<1>1. IsFiniteSet(R) BY FS_Subset
<1>2. IsSum(f, g, SUBSET S) /\ IsSum(h, g, SUBSET R) BY <1>1, SumExists
<1>3. SumFunctionOnSet(g, S) = f[S] /\ SumFunctionOnSet(g, R) = h[R] BY SumIsChosen
<1> HIDE DEF f, h
<1>5. f[S] = g[Chosen(S)] + f[R] BY <1>2 DEF IsSum
<1>6. SUBSET R \subseteq SUBSET S OBVIOUS
<1> HIDE DEF R
<1>4. f[R] = h[R]
  <2>1. PICK D : SUBSET R \subseteq D /\ IsSum(f, g, D) BY <1>2, <1>6
  <2>2. PICK E : SUBSET R \subseteq E /\ IsSum(h, g, E) BY <1>2
  <2>3. \A s \in SUBSET R : f[s] = h[s] BY <1>1, <2>1, <2>2, SumsAgree
  <2> QED BY <2>3
<1> QED BY <1>3, <1>4, <1>5 DEF R

-----------------------------------------------------------------------------
(* Sums of integers *)

\* Any element may come first.
THEOREM SumWithout ==
    ASSUME NEW g, NEW S, IsFiniteSet(S), \A x \in S : g[x] \in Int
    PROVE  /\ SumFunctionOnSet(g, S) \in Int
           /\ \A x \in S : SumFunctionOnSet(g, S) = g[x] + SumFunctionOnSet(g, S \ {x})
<1> DEFINE Sum(s) == SumFunctionOnSet(g, s)
           Fine(s) == Sum(s) \in Int /\ \A x \in s : Sum(s) = g[x] + Sum(s \ {x})
           T == {n \in Nat : \A s \in Small(S, n) : Fine(s)}
<1>0. \A s \in SUBSET S : IsFiniteSet(s) BY FS_Subset
<1>9. \A s \in SUBSET S : s # {} =>
        Chosen(s) \in s /\ Sum(s) = g[Chosen(s)] + Sum(s \ {Chosen(s)})
  BY <1>0, SumByChosen DEF Chosen
<1>8. Sum({}) = 0 BY SumOfNone
<1> HIDE DEF Sum
<1>1. 0 \in T
  <2>1. \A s \in Small(S, 0) : s = {} BY SmallSets
  <2>2. Fine({}) BY <1>8
  <2> HIDE DEF Fine
  <2> QED BY <2>1, <2>2
<1>2. ASSUME NEW n \in Nat, n \in T PROVE n + 1 \in T
  <2> SUFFICES ASSUME NEW s \in Small(S, n + 1) PROVE Fine(s) OBVIOUS
  <2>1. s \in SUBSET S BY DEF Small
  <2>2. CASE s = {} BY <1>8, <2>2
  <2>3. CASE s # {}
    <3> DEFINE c == Chosen(s)
               r == s \ {c}
    <3>1. c \in s /\ r \in Small(S, n) /\ Sum(s) = g[c] + Sum(r)
      BY <1>9, <2>1, <2>3, RestIsSmaller
    <3>2. g[c] \in Int BY <2>1, <3>1
    <3> HIDE DEF c
    <3>3. Fine(r) BY <1>2, <3>1
    <3>4. ASSUME NEW x \in s, x # c
          PROVE  Sum(s) = g[x] + Sum(s \ {x})
      <4> DEFINE p == s \ {x}
                 q == r \ {x}
      <4>1. Sum(r) = g[x] + Sum(q) BY <3>3, <3>4
      <4>2. p \ {c} = q OBVIOUS
      <4>3. p \in Small(S, n)
        <5>1. IsFiniteSet(s) BY <1>0, <2>1
        <5>2. Cardinality(p) = Cardinality(s) - 1 BY <5>1, FS_RemoveElement
        <5>3. Cardinality(s) \in Nat BY <5>1, FS_CardinalityType
        <5> QED BY <2>1, <5>2, <5>3 DEF Small
      <4>4. q \in Small(S, n)
        <5>1. IsFiniteSet(r) BY <1>0, <2>1
        <5>2. Cardinality(q) <= Cardinality(r) /\ Cardinality(q) \in Nat /\ Cardinality(r) \in Nat
          BY <5>1, FS_Subset, FS_CardinalityType
        <5> QED BY <2>1, <3>1, <5>2 DEF Small
      <4>5. Sum(p) = g[c] + Sum(q) BY <1>2, <3>1, <3>4, <4>2, <4>3
      <4>6. Sum(q) \in Int BY <1>2, <4>4
      <4>7. g[x] \in Int BY <2>1
      <4> HIDE DEF p, q, r
      <4>8. Sum(s) = g[x] + Sum(p) BY <3>1, <3>2, <4>1, <4>5, <4>6, <4>7
      <4> QED BY <4>8 DEF p
    <3> QED BY <3>1, <3>2, <3>3, <3>4
  <2> QED BY <2>2, <2>3
<1>3. Cardinality(S) \in T
  <2> HIDE DEF T
  <2> QED BY <1>1, <1>2, CountingUp, FS_CardinalityType
<1>4. Fine(S) BY <1>3, SmallSets
<1> QED BY <1>4 DEF Sum

\* An element more adds its own.
THEOREM SumWith ==
    ASSUME NEW g, NEW S, IsFiniteSet(S), NEW e, e \notin S, \A x \in S \cup {e} : g[x] \in Int
    PROVE  SumFunctionOnSet(g, S \cup {e}) = g[e] + SumFunctionOnSet(g, S)
<1>1. IsFiniteSet(S \cup {e}) BY FS_AddElement
<1>2. (S \cup {e}) \ {e} = S OBVIOUS
<1> QED BY <1>1, <1>2, SumWithout

\* Where two functions differ in one element only, so do their sums.
THEOREM SumChanged ==
    ASSUME NEW g, NEW h, NEW S, IsFiniteSet(S), NEW e \in S,
           \A x \in S : g[x] \in Int /\ h[x] \in Int, \A x \in S \ {e} : g[x] = h[x]
    PROVE  SumFunctionOnSet(h, S) = SumFunctionOnSet(g, S) + h[e] - g[e]
<1> DEFINE r == S \ {e}
<1>1. IsFiniteSet(r) BY FS_Subset
<1>2. SumFunctionOnSet(g, r) = SumFunctionOnSet(h, r) BY <1>1, SumSame
<1>3. SumFunctionOnSet(g, r) \in Int /\ SumFunctionOnSet(h, r) \in Int BY <1>1, SumWithout
<1>4. /\ SumFunctionOnSet(g, S) = g[e] + SumFunctionOnSet(g, r)
      /\ SumFunctionOnSet(h, S) = h[e] + SumFunctionOnSet(h, r)
  BY SumWithout
<1> QED BY <1>2, <1>3, <1>4

\* A sum of natural numbers is one, and no element exceeds it.
THEOREM SumOfNaturals ==
    ASSUME NEW g, NEW S, IsFiniteSet(S), \A x \in S : g[x] \in Nat
    PROVE  /\ SumFunctionOnSet(g, S) \in Nat
           /\ \A x \in S : g[x] <= SumFunctionOnSet(g, S)
<1> DEFINE Sum(s) == SumFunctionOnSet(g, s)
           T == {n \in Nat : \A s \in Small(S, n) : Sum(s) \in Nat}
<1>0. \A s \in SUBSET S : IsFiniteSet(s) BY FS_Subset
<1>9. \A s \in SUBSET S : s # {} =>
        Chosen(s) \in s /\ Sum(s) = g[Chosen(s)] + Sum(s \ {Chosen(s)})
  BY <1>0, SumByChosen DEF Chosen
<1>8. Sum({}) = 0 BY SumOfNone
<1>7. \A x \in S : Sum(S) = g[x] + Sum(S \ {x}) BY SumWithout
<1> HIDE DEF Sum
<1>1. 0 \in T
  <2>1. \A s \in Small(S, 0) : s = {} BY SmallSets
  <2> QED BY <1>8, <2>1
<1>2. ASSUME NEW n \in Nat, n \in T PROVE n + 1 \in T
  <2> SUFFICES ASSUME NEW s \in Small(S, n + 1) PROVE Sum(s) \in Nat OBVIOUS
  <2>1. s \in SUBSET S BY DEF Small
  <2>2. CASE s = {} BY <1>8, <2>2
  <2>3. CASE s # {}
    <3>1. Chosen(s) \in s /\ s \ {Chosen(s)} \in Small(S, n) BY <2>3, RestIsSmaller
    <3>2. Sum(s \ {Chosen(s)}) \in Nat BY <1>2, <3>1
    <3>3. g[Chosen(s)] \in Nat BY <2>1, <3>1
    <3> QED BY <1>9, <2>1, <2>3, <3>2, <3>3
  <2> QED BY <2>2, <2>3
<1>3. Cardinality(S) \in T
  <2> HIDE DEF T
  <2> QED BY <1>1, <1>2, CountingUp, FS_CardinalityType
<1>4. \A s \in SUBSET S : Sum(s) \in Nat BY <1>3, SmallSets
<1>5. \A x \in S : g[x] <= Sum(S)
  <2> TAKE x \in S
  <2>1. Sum(S \ {x}) \in Nat /\ g[x] \in Nat BY <1>4
  <2> QED BY <1>7, <2>1
<1> QED BY <1>4, <1>5 DEF Sum

\* Zeros add up to zero.
THEOREM SumOfZeros ==
    ASSUME NEW g, NEW S, IsFiniteSet(S), \A x \in S : g[x] = 0
    PROVE  SumFunctionOnSet(g, S) = 0
<1>1. CASE S = {} BY <1>1, SumOfNone
<1>2. CASE S # {}
  <2> DEFINE T == {n \in Nat : \A s \in Small(S, n) : SumFunctionOnSet(g, s) = 0}
  <2>1. 0 \in T
    <3>1. \A s \in Small(S, 0) : s = {} BY SmallSets
    <3> QED BY <3>1, SumOfNone
  <2>2. ASSUME NEW n \in Nat, n \in T PROVE n + 1 \in T
    <3> SUFFICES ASSUME NEW s \in Small(S, n + 1) PROVE SumFunctionOnSet(g, s) = 0 OBVIOUS
    <3>1. s \in SUBSET S /\ IsFiniteSet(s) BY FS_Subset DEF Small
    <3>2. CASE s = {} BY <3>2, SumOfNone
    <3>3. CASE s # {}
      <4>1. Chosen(s) \in s /\ s \ {Chosen(s)} \in Small(S, n) BY <3>3, RestIsSmaller
      <4>2. SumFunctionOnSet(g, s \ {Chosen(s)}) = 0 BY <2>2, <4>1
      <4>3. g[Chosen(s)] = 0 BY <3>1, <4>1
      <4> QED BY <3>1, <3>3, <4>2, <4>3, SumByChosen
    <3> QED BY <3>2, <3>3
  <2>3. Cardinality(S) \in T
    <3> HIDE DEF T
    <3> QED BY <2>1, <2>2, CountingUp, FS_CardinalityType
  <2> QED BY <2>3, SmallSets
<1> QED BY <1>1, <1>2

\* A sum of sums.
THEOREM SumOfBoth ==
    ASSUME NEW g, NEW h, NEW k, NEW S, IsFiniteSet(S),
           \A x \in S : g[x] \in Int /\ h[x] \in Int /\ k[x] = g[x] + h[x]
    PROVE  SumFunctionOnSet(k, S) = SumFunctionOnSet(g, S) + SumFunctionOnSet(h, S)
<1> DEFINE Fine(s) == SumFunctionOnSet(k, s) = SumFunctionOnSet(g, s) + SumFunctionOnSet(h, s)
           T == {n \in Nat : \A s \in Small(S, n) : Fine(s)}
<1>1. Fine({}) BY SumOfNone
<1>2. 0 \in T
  <2>1. \A s \in Small(S, 0) : s = {} BY SmallSets
  <2> HIDE DEF Fine
  <2> QED BY <1>1, <2>1
<1>3. ASSUME NEW n \in Nat, n \in T PROVE n + 1 \in T
  <2> SUFFICES ASSUME NEW s \in Small(S, n + 1) PROVE Fine(s) OBVIOUS
  <2>1. s \in SUBSET S /\ IsFiniteSet(s) BY FS_Subset DEF Small
  <2>2. CASE s = {} BY <1>1, <2>2
  <2>3. CASE s # {}
    <3> DEFINE c == Chosen(s)
               r == s \ {c}
    <3>1. c \in s /\ r \in Small(S, n) BY <2>3, RestIsSmaller
    <3>2. Fine(r) BY <1>3, <3>1
    <3>3. /\ SumFunctionOnSet(k, s) = k[c] + SumFunctionOnSet(k, r)
          /\ SumFunctionOnSet(g, s) = g[c] + SumFunctionOnSet(g, r)
          /\ SumFunctionOnSet(h, s) = h[c] + SumFunctionOnSet(h, r)
      BY <2>1, <2>3, SumByChosen
    <3>4. g[c] \in Int /\ h[c] \in Int /\ k[c] = g[c] + h[c] BY <2>1, <3>1
    <3>5. SumFunctionOnSet(g, r) \in Int /\ SumFunctionOnSet(h, r) \in Int
      <4>1. IsFiniteSet(r) /\ \A x \in r : g[x] \in Int /\ h[x] \in Int BY <2>1, FS_Subset
      <4> HIDE DEF r, c
      <4> QED BY <4>1, SumWithout
    <3> HIDE DEF c, r
    <3> QED BY <3>2, <3>3, <3>4, <3>5
  <2> QED BY <2>2, <2>3
<1>4. Cardinality(S) \in T
  <2> HIDE DEF T
  <2> QED BY <1>2, <1>3, CountingUp, FS_CardinalityType
<1> QED BY <1>4, SmallSets

\* Zeros may be left out.
THEOREM SumBeyond ==
    ASSUME NEW g, NEW S, IsFiniteSet(S), NEW R \in SUBSET S,
           \A x \in S : g[x] \in Int, \A x \in S : x \notin R => g[x] = 0
    PROVE  SumFunctionOnSet(g, S) = SumFunctionOnSet(g, R)
<1> DEFINE Fine(s) == SumFunctionOnSet(g, s) = SumFunctionOnSet(g, s \cap R)
           T == {n \in Nat : \A s \in Small(S, n) : Fine(s)}
<1>1. Fine({})
  <2>1. {} \cap R = {} OBVIOUS
  <2> QED BY <2>1
<1>2. 0 \in T
  <2>1. \A s \in Small(S, 0) : s = {} BY SmallSets
  <2> HIDE DEF Fine
  <2> QED BY <1>1, <2>1
<1>3. ASSUME NEW n \in Nat, n \in T PROVE n + 1 \in T
  <2> SUFFICES ASSUME NEW s \in Small(S, n + 1) PROVE Fine(s) OBVIOUS
  <2>1. s \in SUBSET S /\ IsFiniteSet(s) BY FS_Subset DEF Small
  <2>2. CASE s = {} BY <1>1, <2>2
  <2>3. CASE s # {}
    <3> DEFINE c == Chosen(s)
               r == s \ {c}
    <3>1. c \in s /\ r \in Small(S, n) BY <2>3, RestIsSmaller
    <3>2. Fine(r) BY <1>3, <3>1
    <3>3. SumFunctionOnSet(g, s) = g[c] + SumFunctionOnSet(g, r) BY <2>1, <2>3, SumByChosen
    <3>4. IsFiniteSet(r \cap R) /\ (\A x \in r \cap R : g[x] \in Int) /\ SumFunctionOnSet(g, r \cap R) \in Int
      <4>1. IsFiniteSet(r \cap R) /\ \A x \in r \cap R : g[x] \in Int BY <2>1, FS_Subset
      <4> HIDE DEF r, c
      <4> QED BY <4>1, SumWithout
    <3>5. CASE c \in R
      <4>1. s \cap R = (r \cap R) \cup {c} /\ c \notin r \cap R BY <3>1, <3>5
      <4>2. g[c] \in Int BY <2>1, <3>1
      <4> HIDE DEF c, r
      <4>3. SumFunctionOnSet(g, s \cap R) = g[c] + SumFunctionOnSet(g, r \cap R)
        BY <3>4, <4>1, <4>2, SumWith
      <4> QED BY <3>2, <3>3, <4>3
    <3>6. CASE c \notin R
      <4>1. s \cap R = r \cap R BY <3>1, <3>6
      <4>2. g[c] = 0 BY <2>1, <3>1, <3>6
      <4> HIDE DEF c, r
      <4> QED BY <3>2, <3>3, <3>4, <4>1, <4>2
    <3> QED BY <3>5, <3>6
  <2> QED BY <2>2, <2>3
<1>4. Cardinality(S) \in T
  <2> HIDE DEF T
  <2> QED BY <1>2, <1>3, CountingUp, FS_CardinalityType
<1>5. S \cap R = R OBVIOUS
<1> QED BY <1>4, <1>5, SmallSets

-----------------------------------------------------------------------------
(* Sums of the whole of a function *)

\* A sum, and the same with one number more.
THEOREM TotalWith ==
    ASSUME NEW f, NEW g, NEW e, IsFiniteSet(DOMAIN f), e \notin DOMAIN f,
           DOMAIN g = DOMAIN f \cup {e}, g[e] \in Int,
           \A x \in DOMAIN f : f[x] \in Int /\ g[x] = f[x]
    PROVE  /\ SumFunction(f) \in Int
           /\ SumFunction(g) = g[e] + SumFunction(f)
<1>1. SumFunctionOnSet(f, DOMAIN f) \in Int BY SumWithout
<1>2. SumFunctionOnSet(g, DOMAIN f \cup {e}) = g[e] + SumFunctionOnSet(g, DOMAIN f)
  <2>1. \A x \in DOMAIN f \cup {e} : g[x] \in Int OBVIOUS
  <2> QED BY <2>1, SumWith
<1>3. SumFunctionOnSet(g, DOMAIN f) = SumFunctionOnSet(f, DOMAIN f) BY SumSame
<1> QED BY <1>1, <1>2, <1>3 DEF SumFunction

THEOREM TotalNat ==
    ASSUME NEW f, IsFiniteSet(DOMAIN f), \A x \in DOMAIN f : f[x] \in Nat
    PROVE  /\ SumFunction(f) \in Nat
           /\ \A x \in DOMAIN f : f[x] <= SumFunction(f)
BY SumOfNaturals DEF SumFunction

THEOREM TotalZero ==
    ASSUME NEW f, IsFiniteSet(DOMAIN f), \A x \in DOMAIN f : f[x] = 0
    PROVE  SumFunction(f) = 0
BY SumOfZeros DEF SumFunction

\* Where two functions differ in one element only, so do their totals.
THEOREM TotalChanged ==
    ASSUME NEW f, NEW g, IsFiniteSet(DOMAIN f), DOMAIN g = DOMAIN f, NEW e \in DOMAIN f,
           \A x \in DOMAIN f : f[x] \in Int /\ g[x] \in Int, \A x \in DOMAIN f \ {e} : f[x] = g[x]
    PROVE  /\ SumFunction(f) \in Int
           /\ SumFunction(g) = SumFunction(f) + g[e] - f[e]
<1>1. SumFunctionOnSet(f, DOMAIN f) \in Int BY SumWithout
<1>2. SumFunctionOnSet(g, DOMAIN f) = SumFunctionOnSet(f, DOMAIN f) + g[e] - f[e] BY SumChanged
<1> QED BY <1>1, <1>2 DEF SumFunction

THEOREM TotalOfBoth ==
    ASSUME NEW f, NEW g, NEW h, IsFiniteSet(DOMAIN f), DOMAIN g = DOMAIN f, DOMAIN h = DOMAIN f,
           \A x \in DOMAIN f : f[x] \in Int /\ g[x] \in Int /\ h[x] = f[x] + g[x]
    PROVE  /\ SumFunction(f) \in Int /\ SumFunction(g) \in Int
           /\ SumFunction(h) = SumFunction(f) + SumFunction(g)
<1>1. SumFunctionOnSet(f, DOMAIN f) \in Int /\ SumFunctionOnSet(g, DOMAIN f) \in Int BY SumWithout
<1>2. SumFunctionOnSet(h, DOMAIN f) = SumFunctionOnSet(f, DOMAIN f) + SumFunctionOnSet(g, DOMAIN f)
  BY SumOfBoth
<1> QED BY <1>1, <1>2 DEF SumFunction

\* A total of numbers that are nowhere more is not more.
THEOREM TotalWithin ==
    ASSUME NEW f, NEW h, IsFiniteSet(DOMAIN f), DOMAIN h = DOMAIN f,
           \A x \in DOMAIN f : f[x] \in Int /\ h[x] \in Int /\ f[x] <= h[x]
    PROVE  SumFunction(f) <= SumFunction(h)
<1> DEFINE g == [x \in DOMAIN f |-> h[x] - f[x]]
<1>1. DOMAIN g = DOMAIN f /\ \A x \in DOMAIN f : g[x] \in Nat /\ g[x] \in Int /\ h[x] = f[x] + g[x] OBVIOUS
<1> HIDE DEF g
<1>2. SumFunction(g) \in Nat BY <1>1, TotalNat
<1>3. SumFunction(f) \in Int /\ SumFunction(h) = SumFunction(f) + SumFunction(g)
  <2>1. \A x \in DOMAIN f : f[x] \in Int /\ g[x] \in Int /\ h[x] = f[x] + g[x] BY <1>1
  <2> QED BY <1>1, <2>1, TotalOfBoth
<1> QED BY <1>2, <1>3

\* Zeros may be left out.
THEOREM TotalBeyond ==
    ASSUME NEW f, NEW g, IsFiniteSet(DOMAIN g), DOMAIN f \subseteq DOMAIN g,
           \A x \in DOMAIN g : g[x] \in Int,
           \A x \in DOMAIN g : IF x \in DOMAIN f THEN g[x] = f[x] ELSE g[x] = 0
    PROVE  SumFunction(g) = SumFunction(f)
<1>1. SumFunctionOnSet(g, DOMAIN g) = SumFunctionOnSet(g, DOMAIN f) BY SumBeyond
<1>2. IsFiniteSet(DOMAIN f) BY FS_Subset
<1>3. SumFunctionOnSet(g, DOMAIN f) = SumFunctionOnSet(f, DOMAIN f) BY <1>2, SumSame
<1> QED BY <1>1, <1>3 DEF SumFunction
=============================================================================
