------------------------------- MODULE Recursion -------------------------------
(***************************************************************************)
(* Induction over the naturals for the proofs about functions defined by   *)
(* recursion, and that there are such functions: as facts about sets and   *)
(* functions, which first-order provers can use.                           *)
(***************************************************************************)
EXTENDS Integers, WellFoundedInduction, TLAPS

\* A set that has 0, and with each number the next, has all of them.
LEMMA NatsByInduction ==
  ASSUME NEW S, 0 \in S, \A n \in Nat : n \in S => n + 1 \in S
  PROVE  Nat \subseteq S
<1> DEFINE others == Nat \ S
<1> SUFFICES ASSUME others # {}
             PROVE  FALSE
  OBVIOUS
<1>1. \E x \in others : \A y \in others : <<y, x>> \notin OpToRel(<, Nat)
  BY NatLessThanWellFounded, WFMin
<1>2. PICK x \in others : \A y \in others : <<y, x>> \notin OpToRel(<, Nat)
  BY <1>1
<1>3. x - 1 \in others
  OBVIOUS
<1>4. <<x - 1, x>> \in OpToRel(<, Nat)
  BY <1>3 DEF OpToRel
<1> QED BY <1>2, <1>3, <1>4

\* The same up to a bound.
LEMMA IntervalByInduction ==
  ASSUME NEW S, NEW m \in Nat, 0 \in S, \A n \in 0 .. m - 1 : n \in S => n + 1 \in S
  PROVE  0..m \subseteq S
<1> DEFINE T == {n \in Nat : n \in 0..m => n \in S}
<1>1. 0 \in T
  OBVIOUS
<1>2. \A n \in Nat : n \in T => n + 1 \in T
  OBVIOUS
<1>3. Nat \subseteq T
  <2> HIDE DEF T
  <2> QED BY <1>1, <1>2, NatsByInduction
<1> QED BY <1>3

\* A set of naturals that is not empty has a least member.
LEMMA LeastExists ==
  ASSUME NEW S, S \subseteq Nat, S # {}
  PROVE  \E x \in S : \A y \in S : x <= y
<1>1. \E x \in S : \A y \in S : <<y, x>> \notin OpToRel(<, Nat)
  BY NatLessThanWellFounded, WFMin
<1>2. PICK x \in S : \A y \in S : <<y, x>> \notin OpToRel(<, Nat)
  BY <1>1
<1>3. \A y \in S : ~(y < x)
  BY <1>2 DEF OpToRel
<1> QED BY <1>3

\* There is a function that begins so and goes on step by step.
Recurs(f, base, step) == f[0] = base /\ \A n \in Nat : f[n + 1] = step[n][f[n]]

LEMMA RecursionExists ==
  ASSUME NEW S, NEW base \in S, NEW step \in [Nat -> [S -> S]]
  PROVE  \E f \in [Nat -> S] : Recurs(f, base, step)
<1> DEFINE Begins(g, m) == g[0] = base /\ \A n \in 0 .. m - 1 : g[n + 1] = step[n][g[n]]
           Far == {m \in Nat : \E g \in [0..m -> S] : Begins(g, m)}
<1>1. 0 \in Far
  <2> DEFINE g == [n \in 0..0 |-> base]
  <2>1. g \in [0..0 -> S] /\ Begins(g, 0)
    OBVIOUS
  <2> QED BY <2>1
<1>2. ASSUME NEW m \in Nat, m \in Far
      PROVE  m + 1 \in Far
  <2>1. PICK g \in [0..m -> S] : Begins(g, m)
    BY <1>2
  <2> DEFINE h == [n \in 0 .. m + 1 |-> IF n = m + 1 THEN step[m][g[m]] ELSE g[n]]
  <2>2. step[m][g[m]] \in S
    OBVIOUS
  <2>3. \A n \in 0..m : h[n] = g[n]
    OBVIOUS
  <2>4. h[m + 1] = step[m][g[m]] /\ h \in [0 .. m + 1 -> S]
    BY <2>2
  <2> HIDE DEF h
  <2>5. ASSUME NEW n \in 0 .. (m + 1) - 1
        PROVE  h[n + 1] = step[n][h[n]]
    <3>1. CASE n = m
      BY <2>3, <2>4, <3>1
    <3>2. CASE n # m
      <4>1. n \in 0 .. m - 1 /\ n \in 0..m /\ n + 1 \in 0..m
        BY <3>2
      <4>2. g[n + 1] = step[n][g[n]]
        BY <2>1, <4>1
      <4> QED BY <2>3, <4>1, <4>2
    <3> QED BY <3>1, <3>2
  <2>6. h[0] = base
    BY <2>1, <2>3
  <2> QED BY <2>4, <2>5, <2>6
<1>3. Nat \subseteq Far
  <2> HIDE DEF Far
  <2> QED BY <1>1, <1>2, NatsByInduction
<1> DEFINE G == [m \in Nat |-> CHOOSE g \in [0..m -> S] : Begins(g, m)]
<1>4. \A m \in Nat : G[m] \in [0..m -> S] /\ Begins(G[m], m)
  <2> HIDE DEF Begins
  <2> QED BY <1>3
<1> HIDE DEF G
\* Two beginnings agree as far as both go.
<1>5. ASSUME NEW m \in Nat
      PROVE  \A n \in 0..m : G[m][n] = G[m + 1][n]
  <2> DEFINE Same == {n \in 0..m : G[m][n] = G[m + 1][n]}
  <2>1. 0 \in Same
    BY <1>4
  <2>2. ASSUME NEW n \in 0 .. m - 1, n \in Same
        PROVE  n + 1 \in Same
    <3>1. n + 1 \in 0..m /\ n \in 0 .. (m + 1) - 1 /\ m + 1 \in Nat
      OBVIOUS
    <3>2. G[m][n + 1] = step[n][G[m][n]]
      BY <1>4
    <3>3. G[m + 1][n + 1] = step[n][G[m + 1][n]]
      BY <1>4, <3>1
    <3> QED BY <2>2, <3>1, <3>2, <3>3
  <2>3. 0..m \subseteq Same
    <3> HIDE DEF Same
    <3> QED BY <2>1, <2>2, IntervalByInduction
  <2> QED BY <2>3
<1> DEFINE f == [n \in Nat |-> G[n][n]]
<1>6. f \in [Nat -> S]
  BY <1>4
<1>7. f[0] = base
  BY <1>4
<1>8. ASSUME NEW n \in Nat
      PROVE  f[n + 1] = step[n][f[n]]
  <2>1. n + 1 \in Nat /\ n \in 0 .. (n + 1) - 1 /\ n \in 0..n
    OBVIOUS
  <2>2. G[n + 1][n + 1] = step[n][G[n + 1][n]]
    BY <1>4, <2>1
  <2>3. G[n + 1][n] = G[n][n]
    BY <1>5, <2>1
  <2> QED BY <2>1, <2>2, <2>3
<1> HIDE DEF f
<1> QED BY <1>6, <1>7, <1>8 DEF Recurs
=============================================================================
