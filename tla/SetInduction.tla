---------------------------- MODULE SetInduction -----------------------------
(***************************************************************************)
(* Induction over the natural numbers, stated for sets of them, and what   *)
(* it gives for functions that are defined by recursion on a number: they  *)
(* exist, and have what every step of the recursion keeps.                 *)
(***************************************************************************)
EXTENDS Integers, WellFoundedInduction, TLAPS

\* Every nonempty set of natural numbers has a least element.
LEMMA LeastNatural ==
  ASSUME NEW T \in SUBSET Nat, T # {}
  PROVE  \E x \in T : \A y \in T : x <= y
<1>1. \E x \in T : \A y \in T : ~ (<<y, x>> \in OpToRel(<, Nat))
  BY WFMin, NatLessThanWellFounded
<1>2. PICK x \in T : \A y \in T : ~ (<<y, x>> \in OpToRel(<, Nat))
  BY <1>1
<1>3. ASSUME NEW y \in T PROVE x <= y
  <2>1. x \in Nat /\ y \in Nat
    OBVIOUS
  <2>2. ~(y < x)
    BY <1>2, <2>1 DEF OpToRel
  <2> QED
    BY <2>1, <2>2
<1> QED
  BY <1>3

\* A set of natural numbers that holds 0 and every successor is Nat.
LEMMA NatSetInduction ==
  ASSUME NEW S, 0 \in S, \A n \in Nat : n \in S => n + 1 \in S
  PROVE  Nat \subseteq S
<1>1. SUFFICES ASSUME Nat \ S # {} PROVE FALSE
  OBVIOUS
<1>2. PICK x \in Nat \ S : \A y \in Nat \ S : x <= y
  BY <1>1, LeastNatural
<1>3. x # 0 /\ x - 1 \in Nat
  OBVIOUS
<1>4. x - 1 \in S
  <2>1. CASE x - 1 \notin S
    <3>1. x <= x - 1
      BY <1>2, <1>3, <2>1
    <3> QED
      BY <3>1, <1>3
  <2> QED
    BY <2>1
<1>5. (x - 1) + 1 \in S
  BY <1>3, <1>4
<1> QED
  BY <1>2, <1>5

\* Steps from X to X can be repeated n times.
LEMMA IteratesExist ==
  ASSUME NEW X, NEW x \in X, NEW N \in Nat, NEW G \in [1 .. N -> [X -> X]]
  PROVE  \E r \in [0 .. N -> X] :
           r[0] = x /\ \A n \in 1 .. N : r[n] = G[n][r[n - 1]]
<1> DEFINE Runs(m) == \E r \in [0 .. m -> X] :
                        r[0] = x /\ \A n \in 1 .. m : r[n] = G[n][r[n - 1]]
           S == {m \in Nat : m <= N => Runs(m)}
<1>1. 0 \in S
  <2>1. [n \in 0 .. 0 |-> x] \in [0 .. 0 -> X]
    OBVIOUS
  <2>2. [n \in 0 .. 0 |-> x][0] = x /\ \A n \in 1 .. 0 : FALSE
    OBVIOUS
  <2>3. Runs(0)
    BY <2>1, <2>2
  <2> QED
    BY <2>3
<1>2. ASSUME NEW m \in Nat, m \in S PROVE m + 1 \in S
  <2> SUFFICES ASSUME m + 1 <= N PROVE Runs(m + 1)
    OBVIOUS
  <2>1. PICK r \in [0 .. m -> X] : r[0] = x /\ \A n \in 1 .. m : r[n] = G[n][r[n - 1]]
    BY <1>2
  <2> DEFINE q == [n \in 0 .. (m + 1) |-> IF n = m + 1 THEN G[n][r[m]] ELSE r[n]]
  <2>2. m + 1 \in 1 .. N /\ r[m] \in X
    OBVIOUS
  <2>3. ASSUME NEW n \in 0 .. (m + 1) PROVE q[n] \in X
    <3>1. CASE n = m + 1
      BY <3>1, <2>2
    <3>2. CASE n # m + 1
      <4>1. n \in 0 .. m
        BY <3>2
      <4> QED
        BY <4>1, <3>2
    <3> QED
      BY <3>1, <3>2
  <2>4. q \in [0 .. (m + 1) -> X]
    BY <2>3
  <2>5. q[0] = x
    BY <2>1
  <2>6. ASSUME NEW n \in 1 .. (m + 1) PROVE q[n] = G[n][q[n - 1]]
    <3>1. CASE n = m + 1
      <4>1. q[n - 1] = r[m] /\ q[n] = G[n][r[m]]
        BY <3>1
      <4> QED
        BY <4>1
    <3>2. CASE n # m + 1
      <4>1. n \in 1 .. m /\ n - 1 \in 0 .. m /\ n - 1 # m + 1
        BY <3>2
      <4>2. q[n] = r[n] /\ q[n - 1] = r[n - 1]
        BY <4>1, <3>2
      <4> QED
        BY <4>1, <4>2, <2>1
    <3> QED
      BY <3>1, <3>2
  <2> HIDE DEF q
  <2> QED
    BY <2>4, <2>5, <2>6
<1>3. Nat \subseteq S
  <2> HIDE DEF S
  <2> QED
    BY <1>1, <1>2, NatSetInduction
<1> QED
  BY <1>3

\* What every step keeps, every iterate has.
LEMMA IteratesIn ==
  ASSUME NEW X, NEW N \in Nat, NEW c, c[0] \in X,
         \A n \in 1 .. N : c[n - 1] \in X => c[n] \in X
  PROVE  c[N] \in X
<1> DEFINE S == {m \in Nat : m <= N => c[m] \in X}
<1>1. 0 \in S
  OBVIOUS
<1>2. ASSUME NEW m \in Nat, m \in S PROVE m + 1 \in S
  <2> SUFFICES ASSUME m + 1 <= N PROVE c[m + 1] \in X
    OBVIOUS
  <2>1. m + 1 \in 1 .. N /\ (m + 1) - 1 = m /\ c[m] \in X
    BY <1>2
  <2> QED
    BY <2>1
<1>3. Nat \subseteq S
  <2> HIDE DEF S
  <2> QED
    BY <1>1, <1>2, NatSetInduction
<1> QED
  BY <1>3
=============================================================================
