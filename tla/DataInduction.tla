---------------------------- MODULE DataInduction ----------------------------
(***************************************************************************)
(* Induction over numbers, and functions defined by recursion over them.   *)
(* The induction theorems of the library take a predicate as a parameter;  *)
(* here the predicate is a set, so that the facts below can be cited as    *)
(* they stand.  They rest on the well-foundedness of the numbers.          *)
(***************************************************************************)
EXTENDS Integers, WellFoundedInduction, TLAPS

\* A nonempty set of numbers has a least member.
LEMMA LeastMember ==
  ASSUME NEW T, T \subseteq Nat, T # {}
  PROVE  \E x \in T : \A y \in T : x <= y
<1> DEFINE R == OpToRel(<, Nat)
<1>1. \A x, y \in Nat : x < y => <<x, y>> \in R
  BY DEF OpToRel
<1>2. IsWellFoundedOn(R, Nat)
  BY NatLessThanWellFounded
<1> HIDE DEF R
<1>3. PICK x \in T : \A y \in T : ~ (<<y, x>> \in R)
  BY <1>2, WFMin
<1>4. \A y \in T : ~ (y < x)
  BY <1>1, <1>3
<1>5. x \in T /\ \A y \in T : x <= y
  BY <1>4
<1> QED
  BY <1>5

\* A set that holds 0 and with each number its successor holds them all.
LEMMA SetInduction ==
  ASSUME NEW S, 0 \in S, \A n \in Nat : n \in S => n + 1 \in S
  PROVE  Nat \subseteq S
<1> DEFINE T == Nat \ S
<1> SUFFICES ASSUME T # {} PROVE FALSE
  OBVIOUS
<1>1. PICK x \in T : \A y \in T : x <= y
  BY LeastMember
<1>2. x # 0 /\ x - 1 \in Nat
  OBVIOUS
<1>3. x - 1 \notin T
  BY <1>1, <1>2
<1> QED
  BY <1>2, <1>3

\* The same up to a bound.
LEMMA BoundedInduction ==
  ASSUME NEW N \in Nat, NEW S, 0 \in S, \A n \in 0..(N - 1) : n \in S => n + 1 \in S
  PROVE  0..N \subseteq S
<1> DEFINE T == S \cup {n \in Nat : n > N}
<1>1. 0 \in T /\ \A n \in Nat : n \in T => n + 1 \in T
  OBVIOUS
<1> HIDE DEF T
<1>2. Nat \subseteq T
  BY <1>1, SetInduction
<1> QED
  BY <1>2 DEF T

\* A function that is given at 0 and step by step after it.
Recursive(g, N, a, F) ==
  /\ DOMAIN g = 0..N
  /\ g[0] = a
  /\ \A n \in 1..N : g[n] = F[<<g[n - 1], n>>]

\* There is one, and it stays in the set that its steps stay in.
LEMMA RecursiveExists ==
  ASSUME NEW N \in Nat, NEW S, NEW a \in S, NEW F \in [S \X (1..N) -> S]
  PROVE  \E g \in [0..N -> S] : Recursive(g, N, a, F)
<1> DEFINE Upto == {m \in 0..N : \E g \in [0..m -> S] : Recursive(g, m, a, F)}
<1>1. 0 \in Upto
  <2> DEFINE g == [n \in 0..0 |-> a]
  <2>1. g \in [0..0 -> S] /\ Recursive(g, 0, a, F)
    BY DEF Recursive
  <2> QED
    BY <2>1
<1>2. ASSUME NEW m \in 0..(N - 1), m \in Upto
      PROVE  m + 1 \in Upto
  <2>1. PICK g \in [0..m -> S] : Recursive(g, m, a, F)
    BY <1>2
  <2> DEFINE h == [n \in 0..(m + 1) |-> IF n <= m THEN g[n] ELSE F[<<g[m], m + 1>>]]
  <2>2. F[<<g[m], m + 1>>] \in S
    <3>1. <<g[m], m + 1>> \in S \X (1..N)
      OBVIOUS
    <3> QED
      BY <3>1
  <2>3. h \in [0..(m + 1) -> S]
    BY <2>2
  <2>4. h[0] = a /\ DOMAIN h = 0..(m + 1)
    BY <2>1 DEF Recursive
  <2>5. ASSUME NEW n \in 1..(m + 1) PROVE h[n] = F[<<h[n - 1], n>>]
    <3>1. h[n - 1] = g[n - 1]
      OBVIOUS
    <3>2. CASE n <= m
      BY <2>1, <3>1, <3>2 DEF Recursive
    <3>3. CASE n = m + 1
      BY <3>1, <3>3
    <3> QED
      BY <3>2, <3>3
  <2>6. Recursive(h, m + 1, a, F)
    BY <2>4, <2>5 DEF Recursive
  <2>7. m + 1 \in 0..N
    OBVIOUS
  <2> QED
    BY <2>3, <2>6, <2>7
<1> HIDE DEF Upto
<1>3. N \in Upto
  BY <1>1, <1>2, BoundedInduction
<1> QED
  BY <1>3 DEF Upto

=============================================================================
