----------------------------- MODULE NumberProofs -----------------------------
(* Sets of sequence numbers have a first and, when bounded, a last member: *)
(* what the proofs need of a source head and of the latest input.          *)
EXTENDS Integers, WellFoundedInduction, TLAPS

\* A set of numbers with a member has a first one.
LEMMA FirstNumber ==
  ASSUME NEW T \in SUBSET Nat, T # {}
  PROVE  \E n \in T : \A m \in T : n <= m
<1> DEFINE R == OpToRel(<, Nat)
<1>1. IsWellFoundedOn(R, Nat) BY NatLessThanWellFounded, Zenon
<1>2. PICK n \in T : \A m \in T : ~(<<m, n>> \in R)
  <2> HIDE DEF R
  <2> QED BY <1>1, WFMin
<1>3. ASSUME NEW m \in T PROVE n <= m
  <2>1. <<m, n>> \in Nat \X Nat OBVIOUS
  <2>2. ~(m < n) BY <1>2, <2>1 DEF OpToRel
  <2> QED BY <2>2
<1> QED BY <1>3

\* Induction: a set that holds a number and with each number from there on the
\* next one holds them all.
LEMMA AllNumbers ==
  ASSUME NEW k \in Nat, NEW S, k \in S,
         \A n \in Nat : n >= k /\ n \in S => n + 1 \in S
  PROVE  \A n \in Nat : n >= k => n \in S
<1> DEFINE T == {n \in Nat : n >= k /\ n \notin S}
<1> SUFFICES ASSUME T # {} PROVE FALSE OBVIOUS
<1>1. PICK n \in T : \A m \in T : n <= m
  <2>1. T \in SUBSET Nat OBVIOUS
  <2> HIDE DEF T
  <2> QED BY <2>1, FirstNumber
<1>2. n # k /\ n - 1 \in Nat /\ n - 1 >= k BY <1>1
<1>3. n - 1 \in S BY <1>1, <1>2
<1>4. (n - 1) + 1 \in S BY <1>2, <1>3
<1> QED BY <1>1, <1>4

\* A set of numbers with a member and a bound has a last one.
LEMMA LastNumber ==
  ASSUME NEW k \in Nat, NEW S \in SUBSET (0..k), S # {}
  PROVE  \E n \in S : \A m \in S : m <= n
<1> DEFINE T == {n \in Nat : \A m \in S : m <= n}
<1>1. k \in T OBVIOUS
<1>2. PICK n \in T : \A m \in T : n <= m
  <2>1. T \in SUBSET Nat OBVIOUS
  <2> HIDE DEF T
  <2> QED BY <1>1, <2>1, FirstNumber
<1>3. n \in S
  <2>1. SUFFICES ASSUME n \notin S PROVE FALSE OBVIOUS
  <2>2. PICK i : i \in S OBVIOUS
  <2>3. \A m \in S : m < n /\ m \in 0..k BY <2>1
  <2>4. n - 1 \in Nat BY <2>2, <2>3
  <2>5. \A m \in S : m <= n - 1 BY <2>3
  <2>6. n - 1 \in T BY <2>4, <2>5
  <2> QED BY <1>2, <2>4, <2>6
<1> QED BY <1>3

=============================================================================
