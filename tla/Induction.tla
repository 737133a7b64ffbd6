------------------------------ MODULE Induction ------------------------------
(***************************************************************************)
(* Induction over the natural numbers in a form without an operator as a   *)
(* parameter: what holds is written as a set of numbers.  It follows from  *)
(* the well-foundedness of strict inclusion between finite sets.  With it: *)
(* sums over finite sets, and what is sorted.                              *)
(***************************************************************************)
EXTENDS Integers, Sequences, FiniteSets, FiniteSetTheorems, WellFoundedInduction, TLAPS

\* A set of naturals that is not empty has a least element.
LEMMA LeastNatural ==
    ASSUME NEW T \in SUBSET Nat, T # {}
    PROVE  \E x \in T : \A y \in T : x <= y
<1> DEFINE R == StrictSubsetOrdering(Nat)
           U == {0..x : x \in T}
<1>1. IsWellFoundedOn(R, FiniteSubsetsOf(Nat))
  BY FS_StrictSubsetOrderingWellFounded
<1>2. U \subseteq FiniteSubsetsOf(Nat) /\ U # {}
  <2>1. ASSUME NEW x \in T
        PROVE  0..x \in FiniteSubsetsOf(Nat)
    <3>1. x \in Int /\ 0 \in Int /\ 0..x \subseteq Nat
      OBVIOUS
    <3>2. IsFiniteSet(0..x)
      BY <3>1, FS_Interval
    <3> QED
      BY <3>1, <3>2 DEF FiniteSubsetsOf
  <2> QED
    BY <2>1
<1>3. PICK m \in U : \A n \in U : ~(<<n, m>> \in R)
  <2> HIDE DEF R, U
  <2> QED
    BY <1>1, <1>2, WFMin
<1>4. PICK x \in T : m = 0..x
  OBVIOUS
<1>5. ASSUME NEW y \in T, y < x
      PROVE  FALSE
  <2>1. x \in Nat /\ y \in Nat
    OBVIOUS
  <2>2. x \in 0..x /\ x \notin 0..y /\ 0..y \subseteq 0..x
    BY <1>5, <2>1
  <2>3. <<0..y, m>> \in R
    BY <1>4, <2>1, <2>2 DEF StrictSubsetOrdering
  <2> QED
    BY <1>3, <2>3
<1>6. \A y \in T : x <= y
  BY <1>5
<1> QED
  BY <1>6

\* A set that has zero and the successor of each of its numbers has them all.
LEMMA SetInduction ==
    ASSUME NEW S, 0 \in S, \A n \in S \cap Nat : n + 1 \in S
    PROVE  Nat \subseteq S
<1> SUFFICES ASSUME Nat \ S # {}
             PROVE  FALSE
  OBVIOUS
<1>1. PICK x \in Nat \ S : \A y \in Nat \ S : x <= y
  <2> DEFINE T == Nat \ S
  <2>1. T \in SUBSET Nat /\ T # {}
    OBVIOUS
  <2>2. \E x \in T : \A y \in T : x <= y
    <3> HIDE DEF T
    <3> QED
      BY <2>1, LeastNatural
  <2> QED
    BY <2>2
<1>2. x - 1 \in Nat /\ ~(x <= x - 1)
  BY <1>1
<1>3. x - 1 \in S
  BY <1>1, <1>2
<1>4. x - 1 \in S \cap Nat /\ (x - 1) + 1 = x
  BY <1>2, <1>3
<1>5. (x - 1) + 1 \in S
  BY <1>4
<1> QED
  BY <1>1, <1>4, <1>5

\* A set of naturals with a bound that is not empty has a greatest element.
LEMMA GreatestNatural ==
    ASSUME NEW T \in SUBSET Nat, T # {},
           NEW b \in Nat, \A t \in T : t <= b
    PROVE  \E x \in T : \A y \in T : y <= x
<1> DEFINE U == {u \in Nat : \A t \in T : t <= u}
<1>1. U \in SUBSET Nat /\ U # {}
  OBVIOUS
<1>2. PICK u \in U : \A v \in U : u <= v
  <2> HIDE DEF U
  <2> QED
    BY <1>1, LeastNatural
<1>3. u \in Nat /\ \A t \in T : t <= u
  OBVIOUS
<1>4. u \in T
  <2> SUFFICES ASSUME u \notin T
               PROVE  FALSE
    OBVIOUS
  <2>1. PICK t \in T : TRUE
    OBVIOUS
  <2>2. t < u /\ t \in Nat
    BY <1>3
  <2>3. u - 1 \in Nat /\ \A s \in T : s <= u - 1
    BY <1>3, <2>2
  <2>4. u - 1 \in U /\ ~(u <= u - 1)
    BY <1>3, <2>3
  <2> QED
    BY <1>2, <2>4
<1> QED
  BY <1>3, <1>4

\* The numbers of a sequence have a bound.
LEMMA BoundedSequence ==
    ASSUME NEW h \in Seq(Nat)
    PROVE  \E b \in Nat : \A n \in DOMAIN h : h[n] <= b
<1> DEFINE S == {n \in Nat : n <= Len(h) => \E b \in Nat : \A m \in 1..n : h[m] <= b}
<1>1. 0 \in S
  <2>1. 1..0 = {}
    OBVIOUS
  <2> QED
    BY <2>1
<1>2. ASSUME NEW n \in S \cap Nat
      PROVE  n + 1 \in S
  <2> SUFFICES ASSUME n + 1 <= Len(h)
               PROVE  \E b \in Nat : \A m \in 1..(n + 1) : h[m] <= b
    OBVIOUS
  <2>1. PICK b \in Nat : \A m \in 1..n : h[m] <= b
    BY <1>2
  <2>2. h[n + 1] \in Nat /\ \A m \in 1..n : h[m] \in Nat
    OBVIOUS
  <2>3. PICK c \in Nat : b <= c /\ h[n + 1] <= c
    BY <2>2
  <2>4. ASSUME NEW m \in 1..(n + 1)
        PROVE  h[m] <= c
    <3>1. CASE m = n + 1
      BY <2>3, <3>1
    <3>2. CASE m \in 1..n
      BY <2>1, <2>2, <2>3, <3>2
    <3> QED
      BY <3>1, <3>2
  <2> QED
    BY <2>4
<1>3. Nat \subseteq S
  <2> HIDE DEF S
  <2> QED
    BY <1>1, <1>2, SetInduction
<1>4. Len(h) \in Nat /\ DOMAIN h = 1..Len(h)
  OBVIOUS
<1>5. Len(h) \in S
  BY <1>3, <1>4
<1>6. Len(h) <= Len(h)
  BY <1>4
<1> QED
  BY <1>4, <1>5, <1>6

\* A family of sets that has every subset of S of which it has all the subsets
\* with one element less has every subset of the finite set S.
Inductive(P, S) == \A T \in SUBSET S : (\A x \in T : T \ {x} \in P) => T \in P

LEMMA SubsetInduction ==
    ASSUME NEW S, IsFiniteSet(S), NEW P, Inductive(P, S)
    PROVE  SUBSET S \subseteq P
<1> DEFINE R == StrictSubsetOrdering(S)
           U == (SUBSET S) \ P
<1> SUFFICES ASSUME U # {}
             PROVE  FALSE
  OBVIOUS
<1>1. IsWellFoundedOn(R, FiniteSubsetsOf(S))
  BY FS_StrictSubsetOrderingWellFounded
<1>2. U \subseteq FiniteSubsetsOf(S)
  BY FS_Subset DEF FiniteSubsetsOf
<1>3. PICK m \in U : \A n \in U : ~(<<n, m>> \in R)
  <2> HIDE DEF R, U
  <2> QED
    BY <1>1, <1>2, WFMin
<1>4. ASSUME NEW x \in m
      PROVE  m \ {x} \in P
  <2> DEFINE n == m \ {x}
  <2>1. n \in SUBSET S /\ m \in SUBSET S /\ n \subseteq m /\ n # m
    BY <1>4
  <2>2. <<n, m>> \in R
    BY <2>1 DEF StrictSubsetOrdering
  <2>3. n \notin U
    BY <1>3, <2>2
  <2> QED
    BY <2>1, <2>3
<1> QED
  BY <1>3, <1>4 DEF Inductive

(***************************************************************************)
(* Sums over finite sets, as MapThenSumSet defines them: g has the sum of  *)
(* the weights w over each subset of S.                                    *)
(***************************************************************************)
OneOf(s) == CHOOSE x \in s : TRUE
SumsUp(g, w, S) ==
    g = [s \in SUBSET S |-> IF s = {} THEN 0 ELSE w[OneOf(s)] + g[s \ {OneOf(s)}]]
Sums(g, w, S) ==
    IsFiniteSet(S) /\ w \in [S -> Nat] /\ g \in [SUBSET S -> Nat] /\ SumsUp(g, w, S)

LEMMA SumExists ==
    ASSUME NEW S, IsFiniteSet(S), NEW w \in [S -> Nat]
    PROVE  \E g \in [SUBSET S -> Nat] : SumsUp(g, w, S)
<1> DEFINE Small(n) == {s \in SUBSET S : Cardinality(s) <= n}
           Body(g, s) == IF s = {} THEN 0 ELSE w[OneOf(s)] + g[s \ {OneOf(s)}]
           N == {n \in Nat : \E g \in [Small(n) -> Nat] : \A s \in Small(n) : g[s] = Body(g, s)}
<1>1. /\ \A s \in SUBSET S : IsFiniteSet(s) /\ Cardinality(s) \in Nat
      /\ \A s \in SUBSET S : Cardinality(s) = 0 <=> s = {}
  BY FS_Subset, FS_CardinalityType, FS_EmptySet
<1>2. \A s \in (SUBSET S) \ {{}} :
          /\ OneOf(s) \in S /\ s \ {OneOf(s)} \in SUBSET S
          /\ Cardinality(s \ {OneOf(s)}) = Cardinality(s) - 1
  <2> SUFFICES ASSUME NEW s \in (SUBSET S) \ {{}}
               PROVE  /\ OneOf(s) \in S /\ s \ {OneOf(s)} \in SUBSET S
                      /\ Cardinality(s \ {OneOf(s)}) = Cardinality(s) - 1
    OBVIOUS
  <2>1. OneOf(s) \in s
    BY DEF OneOf
  <2>2. Cardinality(s \ {OneOf(s)}) = Cardinality(s) - 1
    BY <1>1, <2>1, FS_RemoveElement
  <2> QED
    BY <2>1, <2>2
<1>3. 0 \in N
  <2> DEFINE g == [s \in Small(0) |-> 0]
  <2>1. \A s \in Small(0) : s = {}
    BY <1>1
  <2>2. g \in [Small(0) -> Nat] /\ \A s \in Small(0) : g[s] = Body(g, s)
    BY <2>1
  <2> QED
    BY <2>2
<1>4. ASSUME NEW n \in N \cap Nat
      PROVE  n + 1 \in N
  <2>1. PICK g \in [Small(n) -> Nat] : \A s \in Small(n) : g[s] = Body(g, s)
    BY <1>4
  <2> DEFINE h == [s \in Small(n + 1) |-> Body(g, s)]
  <2>2. ASSUME NEW s \in Small(n + 1), s # {}
        PROVE  s \ {OneOf(s)} \in Small(n) /\ s \ {OneOf(s)} \in Small(n + 1) /\ OneOf(s) \in S
    <3>1. Cardinality(s) \in Nat /\ Cardinality(s) <= n + 1
      BY <1>1
    <3> QED
      BY <1>2, <2>2, <3>1
  <2>3. h \in [Small(n + 1) -> Nat]
    <3> SUFFICES ASSUME NEW s \in Small(n + 1)
                 PROVE  Body(g, s) \in Nat
      OBVIOUS
    <3>1. CASE s = {}
      BY <3>1
    <3>2. CASE s # {}
      <4>1. g[s \ {OneOf(s)}] \in Nat /\ w[OneOf(s)] \in Nat
        BY <2>2, <3>2
      <4> QED
        BY <3>2, <4>1
    <3> QED
      BY <3>1, <3>2
  <2>4. ASSUME NEW s \in Small(n), s \in Small(n + 1)
        PROVE  h[s] = g[s]
    BY <2>1, <2>4
  <2>5. ASSUME NEW s \in Small(n + 1)
        PROVE  h[s] = Body(h, s)
    <3>1. CASE s = {}
      BY <3>1
    <3>2. CASE s # {}
      <4>1. h[s \ {OneOf(s)}] = g[s \ {OneOf(s)}]
        BY <2>2, <2>4, <3>2
      <4> QED
        BY <3>2, <4>1
    <3> QED
      BY <3>1, <3>2
  <2> HIDE DEF Small, Body, h
  <2> QED
    BY <2>3, <2>5
<1>5. Cardinality(S) \in N
  <2>1. Nat \subseteq N
    <3> HIDE DEF N
    <3> QED
      BY <1>3, <1>4, SetInduction
  <2> QED
    BY <1>1, <2>1
<1>6. Small(Cardinality(S)) = SUBSET S
  <2>1. \A s \in SUBSET S : Cardinality(s) <= Cardinality(S)
    BY FS_Subset
  <2> QED
    BY <2>1
<1>7. PICK g \in [SUBSET S -> Nat] : \A s \in SUBSET S : g[s] = Body(g, s)
  <2> HIDE DEF Small, Body
  <2> QED
    BY <1>5, <1>6
<1>8. g = [s \in SUBSET S |-> Body(g, s)]
  BY <1>7
<1> QED
  BY <1>7, <1>8 DEF SumsUp

\* A sum does not depend on the element that is added first.
LEMMA SumAdds ==
    ASSUME NEW S, NEW w, NEW g, Sums(g, w, S), NEW x \in S
    PROVE  g[S] = w[x] + g[S \ {x}]
<1> DEFINE P == {U \in SUBSET S : \A y \in U : g[U] = w[y] + g[U \ {y}]}
<1>0. IsFiniteSet(S) /\ w \in [S -> Nat] /\ g \in [SUBSET S -> Nat] /\ SumsUp(g, w, S)
  BY DEF Sums
<1>1. \A U \in SUBSET S : U # {} => g[U] = w[OneOf(U)] + g[U \ {OneOf(U)}]
  BY <1>0 DEF SumsUp
<1>2. ASSUME NEW U \in SUBSET S, \A z \in U : U \ {z} \in P, NEW y \in U
      PROVE  g[U] = w[y] + g[U \ {y}]
  <2> DEFINE o == OneOf(U)
  <2>1. o \in U /\ g[U] = w[o] + g[U \ {o}]
    BY <1>1 DEF OneOf
  <2> HIDE DEF o
  <2>2. CASE y # o
    <3> DEFINE V == U \ {o, y}
    <3>1. V = (U \ {o}) \ {y} /\ V = (U \ {y}) \ {o} /\ V \in SUBSET S
      OBVIOUS
    <3>2. g[U \ {o}] = w[y] + g[V]
      BY <1>2, <2>1, <2>2, <3>1
    <3>3. g[U \ {y}] = w[o] + g[V]
      BY <1>2, <2>1, <2>2, <3>1
    <3>4. g[V] \in Nat /\ w[o] \in Nat /\ w[y] \in Nat
      BY <1>0, <2>1, <3>1
    <3> HIDE DEF V
    <3> QED
      BY <2>1, <3>2, <3>3, <3>4
  <2> QED
    BY <2>1, <2>2
<1>3. SUBSET S \subseteq P
  <2>1. ASSUME NEW U \in SUBSET S, \A y \in U : U \ {y} \in P
        PROVE  U \in P
    BY <1>2, <2>1
  <2> HIDE DEF P
  <2>2. Inductive(P, S)
    BY <2>1 DEF Inductive
  <2> QED
    BY <1>0, <2>2, SubsetInduction
<1> QED
  BY <1>3

\* Two sums agree where their weights do.
LEMMA SumAgrees ==
    ASSUME NEW S, IsFiniteSet(S), NEW w, NEW g, SumsUp(g, w, S),
           NEW T, NEW v, NEW h, SumsUp(h, v, T),
           NEW U \in SUBSET (S \cap T), \A x \in U : w[x] = v[x]
    PROVE  g[U] = h[U]
<1> DEFINE P == {V \in SUBSET U : g[V] = h[V]}
<1>1. \A V \in SUBSET U :
          /\ g[V] = IF V = {} THEN 0 ELSE w[OneOf(V)] + g[V \ {OneOf(V)}]
          /\ h[V] = IF V = {} THEN 0 ELSE v[OneOf(V)] + h[V \ {OneOf(V)}]
  BY DEF SumsUp
<1>2. ASSUME NEW V \in SUBSET U, \A x \in V : V \ {x} \in P
      PROVE  V \in P
  <2>1. CASE V = {}
    BY <1>1, <2>1
  <2>2. CASE V # {}
    <3>1. OneOf(V) \in V
      BY <2>2 DEF OneOf
    <3>2. g[V \ {OneOf(V)}] = h[V \ {OneOf(V)}] /\ w[OneOf(V)] = v[OneOf(V)]
      BY <1>2, <3>1
    <3> QED
      BY <1>1, <2>2, <3>2
  <2> QED
    BY <2>1, <2>2
<1>3. SUBSET U \subseteq P
  <2>1. IsFiniteSet(U)
    BY FS_Subset
  <2> HIDE DEF P
  <2>2. Inductive(P, U)
    BY <1>2 DEF Inductive
  <2> QED
    BY <2>1, <2>2, SubsetInduction
<1> QED
  BY <1>3

(***************************************************************************)
(* What is sorted by a strict order R.                                     *)
(***************************************************************************)
Orders(R, S) ==
    /\ IsFiniteSet(S)
    /\ \A a \in S : <<a, a>> \notin R
    /\ \A a, b \in S : a # b => <<a, b>> \in R \/ <<b, a>> \in R
    /\ \A a, b, c \in S : <<a, b>> \in R /\ <<b, c>> \in R => <<a, c>> \in R
Ahead(R, S, a) == {b \in S : <<b, a>> \in R}
PlaceOf(R, S, a) == Cardinality(Ahead(R, S, a)) + 1
Sorted(R, S) == [n \in 1..Cardinality(S) |->
                    CHOOSE a \in S : Cardinality(Ahead(R, S, a)) = n - 1]

\* Who is ahead in the order has a smaller place.
LEMMA PlacesFollow ==
    ASSUME NEW R, NEW S, Orders(R, S), NEW a \in S
    PROVE  /\ IsFiniteSet(Ahead(R, S, a)) /\ Cardinality(S) \in Nat
           /\ PlaceOf(R, S, a) \in 1..Cardinality(S)
           /\ \A b \in S : <<b, a>> \in R => PlaceOf(R, S, b) < PlaceOf(R, S, a)
<1>1. IsFiniteSet(S) /\ Cardinality(S) \in Nat
  BY FS_CardinalityType DEF Orders
<1>2. \A b \in S : /\ Ahead(R, S, b) \in SUBSET S /\ Ahead(R, S, b) # S
                   /\ IsFiniteSet(Ahead(R, S, b))
                   /\ Cardinality(Ahead(R, S, b)) \in Nat
                   /\ Cardinality(Ahead(R, S, b)) < Cardinality(S)
  <2> SUFFICES ASSUME NEW b \in S
               PROVE  /\ Ahead(R, S, b) \in SUBSET S /\ Ahead(R, S, b) # S
                      /\ IsFiniteSet(Ahead(R, S, b))
                      /\ Cardinality(Ahead(R, S, b)) \in Nat
                      /\ Cardinality(Ahead(R, S, b)) < Cardinality(S)
    OBVIOUS
  <2>1. Ahead(R, S, b) \in SUBSET S /\ b \notin Ahead(R, S, b)
    BY DEF Ahead, Orders
  <2>2. /\ IsFiniteSet(Ahead(R, S, b)) /\ Cardinality(Ahead(R, S, b)) <= Cardinality(S)
        /\ Cardinality(Ahead(R, S, b)) # Cardinality(S)
    BY <1>1, <2>1, FS_Subset
  <2>3. Cardinality(Ahead(R, S, b)) \in Nat
    BY <2>2, FS_CardinalityType
  <2> QED
    BY <1>1, <2>1, <2>2, <2>3
<1>3. ASSUME NEW b \in S, <<b, a>> \in R
      PROVE  PlaceOf(R, S, b) < PlaceOf(R, S, a)
  <2> DEFINE B == Ahead(R, S, b)
             A == Ahead(R, S, a)
  <2>1. B \in SUBSET A /\ b \in A /\ b \notin B
    BY <1>3 DEF Ahead, Orders
  <2>2. /\ IsFiniteSet(A) /\ Cardinality(A) \in Nat /\ Cardinality(B) \in Nat
    BY <1>2
  <2> HIDE DEF A, B
  <2>3. Cardinality(B) <= Cardinality(A) /\ Cardinality(B) # Cardinality(A)
    BY <2>1, <2>2, FS_Subset
  <2>4. Cardinality(B) < Cardinality(A)
    BY <2>2, <2>3
  <2> QED
    BY <2>2, <2>4 DEF A, B, PlaceOf
<1>4. PlaceOf(R, S, a) \in 1..Cardinality(S)
  BY <1>1, <1>2 DEF PlaceOf
<1> QED
  BY <1>1, <1>2, <1>3, <1>4

\* Everything is at its place in what is sorted.
LEMMA SortedPlaces ==
    ASSUME NEW R, NEW S, Orders(R, S)
    PROVE  /\ Cardinality(S) \in Nat
           /\ Sorted(R, S) \in [1..Cardinality(S) -> S]
           /\ \A n \in 1..Cardinality(S) : PlaceOf(R, S, Sorted(R, S)[n]) = n
           /\ \A a \in S : Sorted(R, S)[PlaceOf(R, S, a)] = a
<1>1. IsFiniteSet(S) /\ Cardinality(S) \in Nat
  BY FS_CardinalityType DEF Orders
<1> DEFINE N == Cardinality(S)
           f == [a \in S |-> PlaceOf(R, S, a)]
<1>2. \A a \in S : PlaceOf(R, S, a) \in 1..N
  BY PlacesFollow
<1>3. \A a, b \in S : PlaceOf(R, S, a) = PlaceOf(R, S, b) => a = b
  <2> SUFFICES ASSUME NEW a \in S, NEW b \in S, a # b
               PROVE  PlaceOf(R, S, a) # PlaceOf(R, S, b)
    OBVIOUS
  <2>1. <<a, b>> \in R \/ <<b, a>> \in R
    BY DEF Orders
  <2>2. PlaceOf(R, S, a) < PlaceOf(R, S, b) \/ PlaceOf(R, S, b) < PlaceOf(R, S, a)
    BY <2>1, PlacesFollow
  <2>3. PlaceOf(R, S, a) \in Int /\ PlaceOf(R, S, b) \in Int
    BY <1>1, <1>2
  <2> QED
    BY <2>2, <2>3
<1>4. f \in Injection(S, 1..N)
  BY <1>2, <1>3 DEF Injection, IsInjective
<1>5. IsFiniteSet(1..N) /\ Cardinality(1..N) = N
  BY <1>1, FS_Interval
<1>6. f \in Surjection(S, 1..N)
  <2> HIDE DEF f
  <2> QED
    BY <1>4, <1>5, FS_Injection
<1>7. \A n \in 1..N : \E a \in S : PlaceOf(R, S, a) = n
  BY <1>6 DEF Surjection
<1>8. \A a \in S : Cardinality(Ahead(R, S, a)) \in Nat
  BY PlacesFollow, FS_CardinalityType
<1>9. ASSUME NEW n \in 1..N
      PROVE  Sorted(R, S)[n] \in S /\ PlaceOf(R, S, Sorted(R, S)[n]) = n
  <2>1. PICK a \in S : PlaceOf(R, S, a) = n
    BY <1>7
  <2>2. Cardinality(Ahead(R, S, a)) = n - 1
    BY <1>8, <2>1 DEF PlaceOf
  <2>3. Sorted(R, S)[n] = CHOOSE b \in S : Cardinality(Ahead(R, S, b)) = n - 1
    BY DEF Sorted
  <2>4. Sorted(R, S)[n] \in S /\ Cardinality(Ahead(R, S, Sorted(R, S)[n])) = n - 1
    BY <2>2, <2>3
  <2> QED
    BY <2>4 DEF PlaceOf
<1>10. Sorted(R, S) \in [1..N -> S]
  BY <1>9 DEF Sorted
<1>11. \A a \in S : Sorted(R, S)[PlaceOf(R, S, a)] = a
  BY <1>2, <1>3, <1>9
<1> QED
  BY <1>1, <1>9, <1>10, <1>11

(***************************************************************************)
(* Recursion.                                                              *)
(***************************************************************************)
\* A function on the naturals can be defined by its value at zero and by a step from
\* each number to the next.
IsLoop(V, v, h) == v \in V /\ h \in [Nat \X V -> V]

LEMMA Recursion ==
    ASSUME NEW V, NEW v, NEW h, IsLoop(V, v, h)
    PROVE  \E f \in [Nat -> V] : f[0] = v /\ \A n \in Nat : f[n + 1] = h[<<n, f[n]>>]
<1> DEFINE Part(k) == {g \in [0..k -> V] :
                          g[0] = v /\ \A n \in 0..k : n < k => g[n + 1] = h[<<n, g[n]>>]}
           N == {k \in Nat : Part(k) # {}}
<1>0. v \in V /\ h \in [Nat \X V -> V]
  BY DEF IsLoop
<1>1. 0 \in N
  <2>1. [n \in 0..0 |-> v] \in Part(0)
    BY <1>0
  <2> QED
    BY <2>1
<1>2. ASSUME NEW k \in N \cap Nat
      PROVE  k + 1 \in N
  <2>1. PICK g : g \in Part(k)
    BY <1>2
  <2> DEFINE e == [n \in 0..(k + 1) |-> IF n = k + 1 THEN h[<<k, g[k]>>] ELSE g[n]]
  <2>2. g[k] \in V /\ h[<<k, g[k]>>] \in V
    BY <1>0, <2>1
  <2>3. e \in [0..(k + 1) -> V]
    BY <2>1, <2>2
  <2>4. e[0] = v
    BY <2>1
  <2>5. ASSUME NEW n \in 0..(k + 1), n < k + 1
        PROVE  e[n + 1] = h[<<n, e[n]>>]
    <3>1. CASE n = k
      <4>1. k + 1 \in 0..(k + 1) /\ k \in 0..(k + 1) /\ k # k + 1
        OBVIOUS
      <4>2. e[k + 1] = h[<<k, g[k]>>] /\ e[k] = g[k]
        BY <4>1
      <4> QED
        BY <3>1, <4>2
    <3>2. CASE n # k
      <4>1. n \in 0..k /\ n < k /\ n + 1 \in 0..(k + 1) /\ n + 1 # k + 1 /\ n # k + 1
        BY <2>5, <3>2
      <4> QED
        BY <2>1, <4>1
    <3> QED
      BY <3>1, <3>2
  <2> HIDE DEF e
  <2>6. e \in Part(k + 1)
    BY <2>3, <2>4, <2>5
  <2> QED
    BY <2>6
<1>3. \A k \in Nat : Part(k) # {}
  <2> HIDE DEF N
  <2>1. Nat \subseteq N
    BY <1>1, <1>2, SetInduction
  <2> QED
    BY <2>1 DEF N
<1>4. ASSUME NEW k \in Nat, NEW l \in Nat, NEW g \in Part(k), NEW e \in Part(l), k <= l
      PROVE  \A n \in 0..k : g[n] = e[n]
  <2> DEFINE M == {n \in Nat : n <= k => g[n] = e[n]}
  <2>1. 0 \in M
    OBVIOUS
  <2>2. ASSUME NEW n \in M \cap Nat
        PROVE  n + 1 \in M
    <3> SUFFICES ASSUME n + 1 <= k
                 PROVE  g[n + 1] = e[n + 1]
      OBVIOUS
    <3>1. n \in 0..k /\ n < k /\ n \in 0..l /\ n < l /\ g[n] = e[n]
      BY <1>4
    <3>2. g[n + 1] = h[<<n, g[n]>>]
      BY <3>1
    <3>3. e[n + 1] = h[<<n, e[n]>>]
      BY <3>1
    <3> QED
      BY <3>1, <3>2, <3>3
  <2>3. Nat \subseteq M
    <3> HIDE DEF M
    <3> QED
      BY <2>1, <2>2, SetInduction
  <2> QED
    BY <2>3
<1> DEFINE G(k) == CHOOSE g : g \in Part(k)
           f == [n \in Nat |-> G(n)[n]]
<1>5. \A k \in Nat : G(k) \in Part(k)
  BY <1>3
<1>6. \A k \in Nat : G(k) \in [0..k -> V] /\ G(k)[0] = v
  BY <1>5
<1>7. f \in [Nat -> V] /\ f[0] = v
  <2> HIDE DEF G
  <2> QED
    BY <1>6
<1>8. ASSUME NEW n \in Nat
      PROVE  f[n + 1] = h[<<n, f[n]>>]
  <2>1. G(n + 1)[n + 1] = h[<<n, G(n + 1)[n]>>]
    <3> HIDE DEF G
    <3>1. n + 1 \in Nat /\ n \in 0..(n + 1) /\ n < n + 1
      OBVIOUS
    <3>2. G(n + 1) \in Part(n + 1)
      BY <1>5, <3>1
    <3> QED
      BY <3>1, <3>2
  <2>2. G(n)[n] = G(n + 1)[n]
    <3> HIDE DEF G, Part
    <3>1. n + 1 \in Nat /\ n <= n + 1 /\ n \in 0..n
      OBVIOUS
    <3>2. G(n) \in Part(n) /\ G(n + 1) \in Part(n + 1)
      BY <1>5, <3>1
    <3> QED
      BY <1>4, <3>1, <3>2
  <2> HIDE DEF G
  <2> QED
    BY <2>1, <2>2
<1> QED
  BY <1>7, <1>8

\* The same up to a number: t is what
\*     t[n \in 0..N] == IF n = 0 THEN v ELSE h[<<n - 1, t[n - 1]>>]
\* defines.
LoopsTo(t, V, v, h, N) ==
    t \in [0..N -> V] /\ t[0] = v /\ \A n \in 1..N : t[n] = h[<<n - 1, t[n - 1]>>]

LEMMA LoopDefined ==
    ASSUME NEW V, NEW v, NEW h, IsLoop(V, v, h), NEW N \in Nat
    PROVE  \E t : LoopsTo(t, V, v, h, N)
<1>1. PICK f \in [Nat -> V] : f[0] = v /\ \A n \in Nat : f[n + 1] = h[<<n, f[n]>>]
  BY Recursion
<1> DEFINE t == [n \in 0..N |-> f[n]]
<1>2. t \in [0..N -> V]
  BY <1>1
<1>3. ASSUME NEW n \in 1..N
      PROVE  t[n] = h[<<n - 1, t[n - 1]>>]
  <2>1. n - 1 \in Nat /\ n - 1 \in 0..N /\ n \in 0..N /\ (n - 1) + 1 = n
    OBVIOUS
  <2>2. f[(n - 1) + 1] = h[<<n - 1, f[n - 1]>>]
    BY <1>1, <2>1
  <2> QED
    BY <2>1, <2>2
<1>4. t[0] = v
  BY <1>1
<1> HIDE DEF t
<1> QED
  BY <1>2, <1>3, <1>4 DEF LoopsTo
=============================================================================
