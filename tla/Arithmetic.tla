---------------------------- MODULE Arithmetic -----------------------------
(***************************************************************************)
(* Facts about quotients and remainders of natural numbers that the proofs *)
(* about the drivers' ring buffers cite: SMT reasons about * , \div and %  *)
(* only one product at a time.                                             *)
(***************************************************************************)
EXTENDS Integers, TLAPS

\* Multiplication by a natural number is monotone.
LEMMA TimesMonotone ==
  ASSUME NEW a \in Int, NEW b \in Int, NEW c \in Nat, a <= b
  PROVE  a * c <= b * c
<1>1. (b - a) * c >= 0
  BY SMT
<1> QED
  BY <1>1, SMT

\* A quotient and a remainder put together again.
LEMMA DivMod ==
  ASSUME NEW a \in Nat, NEW b \in Nat \ {0}
  PROVE  /\ a \div b \in Nat
         /\ a % b \in 0 .. b - 1
         /\ a = (a \div b) * b + (a % b)
         /\ (a \div b) * b <= a
         /\ a < (a \div b) * b + b
BY SMT

\* The quotient of a number below k * b is below k.
LEMMA DivBelow ==
  ASSUME NEW a \in Nat, NEW b \in Nat \ {0}, NEW k \in Nat, a < k * b
  PROVE  a \div b < k
<1>1. /\ a \div b \in Nat
      /\ (a \div b) * b <= a
  BY DivMod
<1>2. SUFFICES ASSUME k <= a \div b PROVE FALSE
  BY <1>1
<1>3. k * b <= (a \div b) * b
  BY <1>1, <1>2, TimesMonotone
<1> QED
  BY <1>1, <1>3, SMT

\* The remainder of a number below the modulus, and of the modulus itself.
LEMMA ModSmall ==
  ASSUME NEW a \in Nat, NEW b \in Nat \ {0}
  PROVE  /\ a < b => a % b = a
         /\ a = b => a % b = 0
BY SMT

\* A remainder lies below a positive modulus, whatever the sign of the dividend.
LEMMA ModRange ==
  ASSUME NEW a \in Int, NEW b \in Nat \ {0}
  PROVE  a % b \in 0 .. b - 1
BY SMT

\* Dividing a multiple.
LEMMA DivExact ==
  ASSUME NEW k \in Nat, NEW b \in Nat \ {0}
  PROVE  (k * b) \div b = k
<1>1. k * b \in Nat
  BY SMT
<1>2. /\ (k * b) \div b \in Nat
      /\ ((k * b) \div b) * b <= k * b
      /\ k * b < ((k * b) \div b) * b + b
  BY <1>1, DivMod
<1> DEFINE q == (k * b) \div b
<1>3. CASE q < k
  <2>1. (q + 1) * b <= k * b
    BY <1>2, <1>3, TimesMonotone
  <2>2. (q + 1) * b = q * b + b
    BY <1>2, SMT
  <2> QED
    BY <1>1, <1>2, <2>1, <2>2, SMT
<1>4. CASE k < q
  <2>1. (k + 1) * b <= q * b
    BY <1>2, <1>4, TimesMonotone
  <2>2. (k + 1) * b = k * b + b
    BY SMT
  <2> QED
    BY <1>1, <1>2, <2>1, <2>2, SMT
<1> QED
  BY <1>2, <1>3, <1>4

\* A remainder is the only number below the modulus that is a multiple of
\* the modulus away from the dividend.
LEMMA ModUnique ==
  ASSUME NEW a \in Int, NEW b \in Nat \ {0}, NEW q \in Int, NEW r \in 0 .. b - 1, a = q * b + r
  PROVE  a % b = r
<1> DEFINE p == a \div b
           m == a % b
<1>1. p \in Int /\ m \in 0 .. b - 1 /\ a = p * b + m
  BY SMT
<1> HIDE DEF p, m
<1>2. (q - p) * b = m - r
  BY <1>1, SMT
<1>3. CASE q >= p + 1
  <2>1. 1 * b <= (q - p) * b
    BY <1>1, <1>3, TimesMonotone
  <2> QED
    BY <1>1, <1>2, <2>1, SMT
<1>4. CASE q + 1 <= p
  <2>1. (q - p) * b <= (0 - 1) * b
    BY <1>1, <1>4, TimesMonotone
  <2> QED
    BY <1>1, <1>2, <2>1, SMT
<1>5. CASE q = p
  <2>1. (q - p) * b = 0
    BY <1>1, <1>5, SMT
  <2> QED
    BY <1>1, <1>2, <2>1, SMT DEF m
<1> QED
  BY <1>1, <1>3, <1>4, <1>5

\* Going round once more changes no remainder.
LEMMA ModShift ==
  ASSUME NEW a \in Int, NEW b \in Nat \ {0}
  PROVE  (a + b) % b = a % b /\ (a - b) % b = a % b
<1> DEFINE q == a \div b
           r == a % b
<1>1. q \in Int /\ r \in 0 .. b - 1 /\ a = q * b + r
  BY SMT
<1> HIDE DEF q, r
<1>2. a + b = (q + 1) * b + r /\ a - b = (q - 1) * b + r
  BY <1>1, SMT
<1>3. (a + b) % b = r /\ (a - b) % b = r
  BY <1>1, <1>2, ModUnique
<1> QED
  BY <1>3 DEF r
=============================================================================
