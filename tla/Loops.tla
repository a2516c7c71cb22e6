------------------------------- MODULE Loops -------------------------------
(***************************************************************************)
(* What the proofs about loops need.  A loop over a sequence is a function *)
(* on the numbers of its rounds; that there is one, and what holds after   *)
(* every round, goes by induction, for which a set of natural numbers      *)
(* without a least element is enough.                                      *)
(***************************************************************************)
EXTENDS Naturals, WellFoundedInduction, TLAPS

------------------------------------------------------------------------------
\* A set of natural numbers has a least element.
LEMMA LeastLemma ==
  ASSUME NEW T \in SUBSET Nat, T # {}
  PROVE  \E m \in T : \A n \in T : m <= n
<1> DEFINE R == OpToRel(<, Nat)
<1>1. IsWellFoundedOn(R, Nat)
  BY NatLessThanWellFounded
<1>2. \A m, n \in Nat : m < n => <<m, n>> \in R
  BY DEF OpToRel
<1> HIDE DEF R
<1>3. PICK m \in T : \A n \in T : ~ (<<n, m>> \in R)
  BY <1>1, WFMin
<1>4. \A n \in T : n \in Nat /\ m \in Nat /\ ~(n < m)
  BY <1>2, <1>3
<1> QED
  BY <1>4

\* Induction over the naturals, for the members of a set.
LEMMA Induction ==
  ASSUME NEW S, 0 \in S, \A n \in Nat : n \in S => n + 1 \in S
  PROVE  \A n \in Nat : n \in S
<1> SUFFICES ASSUME Nat \ S # {} PROVE FALSE
  OBVIOUS
<1>1. PICK m \in Nat \ S : \A n \in Nat \ S : m <= n
  <2> DEFINE T == Nat \ S
  <2>1. T \in SUBSET Nat
    OBVIOUS
  <2> HIDE DEF T
  <2>2. T # {} => \E m \in T : \A n \in T : m <= n
    BY <2>1, LeastLemma
  <2> QED
    BY <2>2 DEF T
<1>2. m - 1 \in Nat /\ m - 1 < m /\ m = (m - 1) + 1
  BY <1>1
<1>3. m - 1 \in S
  BY <1>1, <1>2
<1> QED
  BY <1>1, <1>2, <1>3

\* A function defined by its value at 0 and a step exists.
IsRecursive(g, c, N, V, step) ==
  /\ g \in [0 .. N -> V] /\ g[0] = c
  /\ \A n \in 1 .. N : g[n] = step[n][g[n - 1]]

LEMMA RecursionLemma ==
  ASSUME NEW V, NEW c \in V, NEW N \in Nat, NEW step \in [1 .. N -> [V -> V]]
  PROVE  \E g : IsRecursive(g, c, N, V, step)
<1> DEFINE S == {n \in Nat : n <= N => \E g : IsRecursive(g, c, n, V, step)}
<1>1. 0 \in S
  <2>1. IsRecursive([m \in 0 .. 0 |-> c], c, 0, V, step)
    BY DEF IsRecursive
  <2> QED
    BY <2>1
<1>2. ASSUME NEW n \in Nat, n \in S PROVE n + 1 \in S
  <2> SUFFICES ASSUME n + 1 <= N PROVE \E g : IsRecursive(g, c, n + 1, V, step)
    OBVIOUS
  <2>1. PICK g : IsRecursive(g, c, n, V, step)
    BY <1>2
  <2> DEFINE h == [m \in 0 .. n + 1 |-> IF m = n + 1 THEN step[m][g[n]] ELSE g[m]]
  <2>2. g[n] \in V /\ step[n + 1] \in [V -> V]
    BY <2>1 DEF IsRecursive
  <2>3. h \in [0 .. n + 1 -> V] /\ h[0] = c
    BY <2>1, <2>2 DEF IsRecursive
  <2>4. \A m \in 1 .. n + 1 : h[m] = step[m][h[m - 1]]
    BY <2>1 DEF IsRecursive
  <2> HIDE DEF h
  <2> QED
    BY <2>3, <2>4 DEF IsRecursive
<1> HIDE DEF S
<1>3. N \in S
  BY <1>1, <1>2, Induction
<1> QED
  BY <1>3 DEF S

------------------------------------------------------------------------------
\* Two functions that take the same steps are equal after every round.
LEMMA SameLoop ==
  ASSUME NEW N \in Nat, NEW f, NEW g, f[0] = g[0],
         \A n \in 1 .. N : f[n - 1] = g[n - 1] => f[n] = g[n]
  PROVE  f[N] = g[N]
<1> DEFINE S == {n \in Nat : n <= N => f[n] = g[n]}
<1>1. 0 \in S
  OBVIOUS
<1>2. ASSUME NEW n \in Nat, n \in S PROVE n + 1 \in S
  <2> SUFFICES ASSUME n + 1 <= N PROVE f[n + 1] = g[n + 1]
    OBVIOUS
  <2>1. f[n] = g[n] /\ n + 1 \in 1 .. N /\ (n + 1) - 1 = n
    BY <1>2
  <2> QED
    BY <2>1
<1> HIDE DEF S
<1>3. N \in S
  BY <1>1, <1>2, Induction
<1> QED
  BY <1>3 DEF S
=============================================================================
