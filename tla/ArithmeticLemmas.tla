--------------------------- MODULE ArithmeticLemmas ---------------------------
(***************************************************************************)
(* What the proofs need of division by a number that is not known, which   *)
(* the provers have no theory of, and of the smallest member of a set,     *)
(* which stands in for induction.                                          *)
(***************************************************************************)
EXTENDS Integers, TLAPS, WellFoundedInduction

Below == {ss \in Nat \X Nat : ss[1] < ss[2]}

LEMMA Smallest ==
  ASSUME NEW S \in SUBSET Nat, S # {}
  PROVE  \E x \in S : \A y \in S : x <= y
<1>1. IsWellFoundedOn(Below, Nat)
  BY NatLessThanWellFounded DEF OpToRel, Below
<1>2. PICK x \in S : \A y \in S : ~ (<<y, x>> \in Below)
  BY <1>1, WFMin
<1>3. ASSUME NEW y \in S PROVE x <= y
  <2>1. <<y, x>> \in Nat \X Nat /\ <<y, x>>[1] = y /\ <<y, x>>[2] = x
    OBVIOUS
  <2> QED BY <1>2, <2>1 DEF Below
<1> QED BY <1>3

-----------------------------------------------------------------------------
LEMMA DivModInt ==
  ASSUME NEW a \in Int, NEW w \in Nat \ {0}
  PROVE  \E q \in Int, r \in Nat : q = a \div w /\ r = a % w /\ r < w /\ a = q * w + r
<1> DEFINE q == a \div w  r == a % w
<1>1. q \in Int /\ r \in Nat
  OBVIOUS
<1>2. r < w
  OBVIOUS
<1>3. r = a - w * q
  OBVIOUS
<1>4. q = a \div w /\ r = a % w
  OBVIOUS
<1> HIDE DEF q, r
<1>5. a = q * w + r
  BY <1>1, <1>3
<1> QED BY <1>1, <1>2, <1>4, <1>5

LEMMA DivMod ==
  ASSUME NEW a \in Nat, NEW w \in Nat \ {0}
  PROVE  \E q, r \in Nat : q = a \div w /\ r = a % w /\ r < w /\ a = q * w + r
<1>1. PICK q \in Int, r \in Nat : q = a \div w /\ r = a % w /\ r < w /\ a = q * w + r
  BY DivModInt
<1>2. a \div w \in Nat
  OBVIOUS
<1> QED BY <1>1, <1>2

LEMMA Multiples ==
  ASSUME NEW b \in Int, NEW c \in Int, NEW w \in Nat, b < c
  PROVE  b * w + w <= c * w
<1>1. PICK d \in Nat : c = b + 1 + d
  <2>1. c - b - 1 \in Nat /\ c = b + 1 + (c - b - 1)
    OBVIOUS
  <2> QED BY <2>1
<1>2. c * w = b * w + w + d * w
  BY <1>1
<1>3. d * w \in Nat /\ b * w \in Int
  OBVIOUS
<1> QED BY <1>2, <1>3

(* What lies in the b-th window of w has the quotient b.                   *)
LEMMA Between ==
  ASSUME NEW b \in Int, NEW q \in Int, NEW r \in Nat, NEW w \in Nat \ {0}, r < w,
         b * w <= q * w + r, q * w + r < b * w + w
  PROVE  q = b
<1>1. q * w \in Int /\ b * w \in Int
  OBVIOUS
<1>2. ASSUME q < b PROVE FALSE
  BY <1>1, <1>2, Multiples
<1>3. ASSUME b < q PROVE FALSE
  BY <1>1, <1>3, Multiples
<1> QED BY <1>2, <1>3

LEMMA InWindow ==
  ASSUME NEW a \in Int, NEW b \in Int, NEW w \in Nat \ {0}, b * w <= a, a < b * w + w
  PROVE  a \div w = b /\ b * w + (a % w) = a
<1>1. PICK q \in Int, r \in Nat : q = a \div w /\ r = a % w /\ r < w /\ a = q * w + r
  BY DivModInt
<1>2. q = b
  BY <1>1, Between
<1>3. b * w + r = a
  BY <1>1, <1>2
<1> QED BY <1>1, <1>2, <1>3
=============================================================================
