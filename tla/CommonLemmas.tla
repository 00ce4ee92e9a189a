------------------------------ MODULE CommonLemmas ------------------------------
(***************************************************************************)
(* Lemmas that the proofs of the components share: the naturals, where a   *)
(* least element stands in for the induction rule, and functions that are  *)
(* defined by tail recursion.                                              *)
(***************************************************************************)
EXTENDS Integers, FiniteSetsExt, WellFoundedInduction, TLAPS

LEMMA NatWellFounded == IsWellFoundedOn(OpToRel(<, Nat), Nat)
BY NatLessThanWellFounded, Zenon

LEMMA LeastNatural ==
  ASSUME NEW S \in SUBSET Nat, S # {}
  PROVE  \E x \in S : \A y \in S : x <= y
<1>1. PICK x \in S : \A y \in S : ~ (<<y, x>> \in OpToRel(<, Nat))
  BY NatWellFounded, WFMin
<1>2. \A y \in S : ~ (y < x)
  BY <1>1 DEF OpToRel
<1> QED
  BY <1>2

LEMMA MinOfSet ==
  ASSUME NEW S \in SUBSET Nat, S # {}
  PROVE  Min(S) \in S /\ \A y \in S : Min(S) <= y
BY LeastNatural DEF Min

LEMMA MaxOfSet ==
  ASSUME NEW n \in Nat, NEW S \in SUBSET (0 .. n), S # {}
  PROVE  Max(S) \in S /\ \A y \in S : y <= Max(S)
<1> DEFINE T == { n - x : x \in S }
<1>1. T \in SUBSET Nat
  <2>1. \A x \in S : n - x \in Nat
    OBVIOUS
  <2> QED
    BY <2>1
<1>2. T # {}
  OBVIOUS
<1>3. PICK k \in T : \A j \in T : k <= j
  <2> HIDE DEF T
  <2> QED
    BY <1>1, <1>2, LeastNatural
<1>4. PICK x \in S : k = n - x
  BY <1>3
<1>5. \A y \in S : k <= n - y
  BY <1>3
<1>6. \A y \in S : x >= y
  BY <1>4, <1>5
<1> QED
  BY <1>6 DEF Max

-----------------------------------------------------------------------------
(***************************************************************************)
(* A function that is defined by tail recursion, a loop, exists whether or *)
(* not the loop ends: nx[c] is the next turn's argument, Stop are the      *)
(* arguments on which the loop ends, with the result val[c].               *)
(***************************************************************************)
IsLoop(f, S, Stop, nx, val) ==
  f = [c \in S |-> IF c \in Stop THEN val[c] ELSE f[nx[c]]]

\* The arguments that the loop runs through when it starts with c: the
\* smallest set with c that the turns do not leave.
Closed(D, Stop, nx) == \A d \in D : d \in Stop \/ nx[d] \in D

Orbit(c, S, Stop, nx) ==
  { d \in S : \A D \in SUBSET S : c \in D /\ Closed(D, Stop, nx) => d \in D }

LEMMA OrbitStops ==
  ASSUME NEW S, NEW Stop, NEW nx \in [S -> S], NEW c \in S, c \in Stop
  PROVE  Orbit(c, S, Stop, nx) = {c}
<1>1. {c} \in SUBSET S /\ Closed({c}, Stop, nx)
  BY DEF Closed
<1> QED
  BY <1>1 DEF Orbit

LEMMA OrbitGoesOn ==
  ASSUME NEW S, NEW Stop, NEW nx \in [S -> S], NEW c \in S, c \notin Stop
  PROVE  Orbit(c, S, Stop, nx) \intersect Stop = Orbit(nx[c], S, Stop, nx) \intersect Stop
<1>1. ASSUME NEW d \in S, d \in Stop, d \in Orbit(c, S, Stop, nx)
      PROVE  d \in Orbit(nx[c], S, Stop, nx)
  <2> SUFFICES ASSUME NEW D \in SUBSET S, nx[c] \in D, Closed(D, Stop, nx)
               PROVE  d \in D
    BY DEF Orbit
  <2>1. D \union {c} \in SUBSET S /\ Closed(D \union {c}, Stop, nx)
    BY DEF Closed
  <2>2. d \in D \union {c}
    BY <1>1, <2>1 DEF Orbit
  <2> QED
    BY <1>1, <2>2
<1>2. ASSUME NEW d \in S, d \in Orbit(nx[c], S, Stop, nx)
      PROVE  d \in Orbit(c, S, Stop, nx)
  <2> SUFFICES ASSUME NEW D \in SUBSET S, c \in D, Closed(D, Stop, nx)
               PROVE  d \in D
    BY DEF Orbit
  <2>1. nx[c] \in D
    BY DEF Closed
  <2> QED
    BY <1>2, <2>1 DEF Orbit
<1> QED
  BY <1>1, <1>2 DEF Orbit

LEMMA LoopExists ==
  ASSUME NEW S, NEW Stop, NEW nx \in [S -> S], NEW val
  PROVE  \E f : IsLoop(f, S, Stop, nx, val)
<1> DEFINE Ends(c) == Orbit(c, S, Stop, nx) \intersect Stop
           f == [c \in S |-> val[CHOOSE d : d \in Ends(c)]]
<1>1. ASSUME NEW c \in S, c \in Stop
      PROVE  f[c] = val[c]
  <2>1. Ends(c) = {c}
    BY <1>1, OrbitStops
  <2> QED
    BY <2>1
<1>2. ASSUME NEW c \in S, c \notin Stop
      PROVE  f[c] = f[nx[c]]
  <2>1. Ends(c) = Ends(nx[c])
    BY <1>2, OrbitGoesOn
  <2>2. nx[c] \in S
    OBVIOUS
  <2> HIDE DEF Ends
  <2> QED
    BY <2>1, <2>2
<1>3. f = [c \in S |-> f[c]]
  OBVIOUS
<1> HIDE DEF f
<1>4. f = [c \in S |-> IF c \in Stop THEN val[c] ELSE f[nx[c]]]
  BY <1>1, <1>2, <1>3
<1> QED
  BY <1>4 DEF IsLoop
=============================================================================
