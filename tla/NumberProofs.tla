---------------------------- MODULE NumberProofs ----------------------------
(***************************************************************************)
(* The greatest and the least number of a set, as FiniteSetsExt defines    *)
(* them: that they exist is what the models that choose them rely on.      *)
(***************************************************************************)
EXTENDS Integers, FiniteSetsExt, TLAPS, WellFoundedInduction

\* The naturals are well-founded under <.
LEMMA NatLess == IsWellFoundedOn({p \in Nat \X Nat : p[1] < p[2]}, Nat)
BY NatLessThanWellFounded, Zenon DEF OpToRel

\* Induction on the naturals, for a set instead of a predicate.
LEMMA SetInduction ==
  ASSUME NEW S \in SUBSET Nat, 0 \in S, \A n \in S : n + 1 \in S
  PROVE  \A n \in Nat : n \in S
<1> DEFINE T == Nat \ S
           R == {p \in Nat \X Nat : p[1] < p[2]}
<1> SUFFICES ASSUME T # {}
             PROVE  FALSE
  OBVIOUS
<1>1. PICK t \in T : \A u \in T : ~ (<<u, t>> \in R)
  BY NatLess, WFMin, Zenon
<1>2. t - 1 \in Nat /\ t - 1 < t
  OBVIOUS
<1>3. t - 1 \notin T
  BY <1>1, <1>2
<1>4. (t - 1) + 1 \in S
  BY <1>2, <1>3
<1> QED BY <1>4

\* A non-empty bounded set of naturals has a maximum, which Max picks.
LEMMA MaxOfBounded ==
  ASSUME NEW S \in SUBSET Nat, S # {}, NEW N \in Nat, \A x \in S : x <= N
  PROVE  /\ Max(S) \in S
         /\ \A x \in S : Max(S) >= x
<1> DEFINE T == {x \in Nat : \E y \in S : x = N - y}
           R == {p \in Nat \X Nat : p[1] < p[2]}
<1>1. T # {}
  <2>1. PICK y \in S : y \in Nat /\ y <= N
    OBVIOUS
  <2>2. N - y \in T
    BY <2>1
  <2> QED BY <2>2
<1>2. PICK t \in T : \A u \in T : ~ (<<u, t>> \in R)
  <2>1. T \subseteq Nat
    OBVIOUS
  <2> QED BY <1>1, <2>1, NatLess, WFMin, Zenon
<1>3. PICK x \in S : t = N - x
  OBVIOUS
<1>4. \A y \in S : x >= y
  <2> SUFFICES ASSUME NEW y \in S, ~(x >= y)
               PROVE  FALSE
    OBVIOUS
  <2>1. x \in Nat /\ y \in Nat /\ x <= N /\ y <= N
    OBVIOUS
  <2>2. N - y < t /\ N - y \in Nat /\ t \in Nat
    BY <1>3, <2>1
  <2>3. N - y \in T
    BY <2>2
  <2> QED BY <1>2, <2>2, <2>3
<1>5. \E z \in S : \A y \in S : z >= y
  BY <1>4
<1> QED BY <1>5, Zenon DEF Max

\* Max of two naturals is one of them and at least each of them.
LEMMA MaxOfTwo ==
  ASSUME NEW a \in Nat, NEW b \in Nat
  PROVE  /\ Max({a, b}) \in Nat
         /\ Max({a, b}) >= a /\ Max({a, b}) >= b
         /\ Max({a, b}) \in {a, b}
<1> DEFINE N == a + b
<1>1. /\ {a, b} \in SUBSET Nat /\ {a, b} # {} /\ N \in Nat
      /\ \A x \in {a, b} : x <= N
  OBVIOUS
<1>2. Max({a, b}) \in {a, b} /\ \A x \in {a, b} : Max({a, b}) >= x
  BY <1>1, MaxOfBounded
<1> QED BY <1>2

\* Min of two naturals is one of them and at most each of them.
LEMMA MinOfTwo ==
  ASSUME NEW a \in Nat, NEW b \in Nat
  PROVE  Min({a, b}) \in {a, b} /\ Min({a, b}) <= a /\ Min({a, b}) <= b
<1>1. \E x \in {a, b} : \A y \in {a, b} : x =< y
  OBVIOUS
<1>2. Min({a, b}) \in {a, b} /\ \A y \in {a, b} : Min({a, b}) =< y
  BY <1>1, Zenon DEF Min
<1> QED BY <1>2
=============================================================================
