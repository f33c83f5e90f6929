--------------------------- MODULE NumberInduction ---------------------------
(***************************************************************************)
(* Induction over the natural numbers for definitions by recursion.  The   *)
(* provers cannot instantiate a theorem that takes a predicate, so it is   *)
(* stated with a set: the numbers that have the property.  And what the    *)
(* proofs about blocks, words and granules need of division, which the     *)
(* provers do not find where a divisor is a constant of the specification. *)
(***************************************************************************)
EXTENDS Integers, WellFoundedInduction, TLAPS

\* A set of numbers has a least one.
LEMMA Least ==
    ASSUME NEW T, T \subseteq Nat, T # {}
    PROVE  \E n \in T : \A m \in T : n <= m
<1>1. PICK x \in T : \A y \in T : ~(<<y, x>> \in OpToRel(<, Nat))
  BY NatLessThanWellFounded, WFMin
<1>2. ASSUME NEW y \in T, y < x PROVE <<y, x>> \in OpToRel(<, Nat)
  <2>1. <<y, x>> \in Nat \X Nat /\ <<y, x>>[1] < <<y, x>>[2]
    BY <1>2
  <2>. QED BY <2>1 DEF OpToRel
<1>3. \A y \in T : ~(y < x)
  BY <1>1, <1>2
<1>. QED BY <1>3

\* What holds of 0, and of n + 1 when of n, holds of every number.
LEMMA Induction ==
    ASSUME NEW S, 0 \in S, \A n \in Nat : n \in S => n + 1 \in S
    PROVE  Nat \subseteq S
<1> SUFFICES ASSUME Nat \ S # {} PROVE FALSE
  OBVIOUS
<1>1. PICK n \in Nat \ S : \A m \in Nat \ S : n <= m
  BY Least
<1>2. n - 1 \in Nat /\ n - 1 \notin Nat \ S
  BY <1>1
<1>. QED BY <1>1, <1>2

------------------------------------------------------------------------------

\* Division of numbers: quotient and remainder, and a quotient that is known.
LEMMA DivMod ==
    ASSUME NEW n \in Nat, NEW d \in Nat \ {0}
    PROVE  \E q \in Nat, r \in 0 .. d - 1 : n = q * d + r /\ n \div d = q /\ n % d = r
<1>1. n % d = n - d * (n \div d) /\ n % d \in 0 .. d - 1
  OBVIOUS
<1>2. n \div d \in Nat
  OBVIOUS
<1>3. PICK q \in Nat : q = n \div d
  BY <1>2
<1>4. PICK r \in 0 .. d - 1 : r = n % d
  BY <1>1
<1>5. n = q * d + r
  BY <1>1, <1>3, <1>4
<1> QED
  BY <1>3, <1>4, <1>5

LEMMA DivIs ==
    ASSUME NEW d \in Nat \ {0}, NEW q \in Nat, NEW r \in 0 .. d - 1
    PROVE  (q * d + r) \div d = q /\ (q * d + r) % d = r
OBVIOUS

\* Multiples are in the order of their factors.
LEMMA TimesOrder ==
    ASSUME NEW a \in Int, NEW b \in Int, NEW c \in Nat \ {0}
    PROVE  (a * c <= b * c <=> a <= b) /\ (a * c < b * c <=> a < b)
OBVIOUS
==============================================================================
