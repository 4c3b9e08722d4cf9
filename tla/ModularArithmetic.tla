-------------------------- MODULE ModularArithmetic --------------------------
(***************************************************************************)
(* Facts about % and \div by a positive number, for the proofs about the   *)
(* two ring buffers: positions modulo the number of slots, and machine     *)
(* words modulo 2^usize::BITS.                                             *)
(***************************************************************************)
EXTENDS Integers, TLAPS

(* The remainder of the division by M is below M.                          *)
LEMMA ModRange ==
  ASSUME NEW M \in Nat \ {0}, NEW x \in Int
  PROVE  x % M \in 0 .. M - 1
  OBVIOUS

(* What is below M already is its own remainder.                           *)
LEMMA ModSmall ==
  ASSUME NEW M \in Nat \ {0}, NEW x \in 0 .. M - 1
  PROVE  x % M = x
  OBVIOUS

(* Quotient and remainder make up the number.                              *)
LEMMA DivMod ==
  ASSUME NEW M \in Nat \ {0}, NEW x \in Int
  PROVE  x \div M \in Int /\ x = (M * (x \div M)) + (x % M)
  OBVIOUS

(* Different multiples of M are at least M apart.                          *)
LEMMA MultiplesApart ==
  ASSUME NEW M \in Nat \ {0}, NEW a \in Int, NEW b \in Int, a < b
  PROVE  M * b >= M * a + M
<1>1. PICK k \in Nat : b = a + 1 + k
  <2> WITNESS b - a - 1 \in Nat
  <2> QED OBVIOUS
<1>2. M * b = M * a + M + M * k
  BY <1>1
<1>3. M * k >= 0
  BY <1>1
<1> QED BY <1>2, <1>3

(* Quotient and remainder are unique.                                      *)
LEMMA DivModUnique ==
  ASSUME NEW M \in Nat \ {0}, NEW a \in Int, NEW b \in Int,
         NEW r \in 0 .. M - 1, NEW s \in 0 .. M - 1,
         M * a + r = M * b + s
  PROVE  a = b /\ r = s
<1>1. CASE a < b
  BY MultiplesApart, <1>1
<1>2. CASE b < a
  BY MultiplesApart, <1>2
<1>3. CASE a = b
  BY <1>3
<1> QED BY <1>1, <1>2, <1>3

(* Two numbers less than M apart have different remainders.                *)
LEMMA ModInjective ==
  ASSUME NEW M \in Nat \ {0}, NEW x \in Int, NEW y \in Int,
         x < y, y < x + M
  PROVE  x % M # y % M
<1> SUFFICES ASSUME x % M = y % M PROVE FALSE
  OBVIOUS
<1> DEFINE a == x \div M
           b == y \div M
           r == x % M
<1>1. /\ a \in Int /\ b \in Int /\ r \in Int
      /\ x = M * a + r /\ y = M * b + r
  BY DivMod, ModRange
<1> HIDE DEF a, b, r
<1>2. CASE a < b
  BY MultiplesApart, <1>1, <1>2
<1>3. CASE b <= a
  BY MultiplesApart, <1>1, <1>3
<1> QED BY <1>1, <1>2, <1>3

(* Adding a multiple of M leaves the remainder as it is.                   *)
LEMMA ModPeriodic ==
  ASSUME NEW M \in Nat \ {0}, NEW x \in Int, NEW k \in Int
  PROVE  (x + M * k) % M = x % M
<1> DEFINE a == x \div M
           r == x % M
           y == x + M * k
           b == y \div M
           s == y % M
<1>1. a \in Int /\ r \in 0 .. M - 1 /\ x = M * a + r
  BY DivMod, ModRange
<1>2. y \in Int
  OBVIOUS
<1>3. b \in Int /\ s \in 0 .. M - 1 /\ y = M * b + s
  BY <1>2, DivMod, ModRange
<1> SUFFICES r = s
  OBVIOUS
<1>4. y = x + M * k
  OBVIOUS
<1> HIDE DEF a, b, r, s, y
<1>5. M * (a + k) = M * a + M * k
  BY <1>1
<1>6. M * (a + k) + r = M * b + s
  BY <1>1, <1>3, <1>4, <1>5
<1> QED BY <1>1, <1>3, <1>6, DivModUnique

LEMMA ModShift ==
  ASSUME NEW M \in Nat \ {0}, NEW x \in Int
  PROVE  (x + M) % M = x % M
<1>1. 1 \in Int /\ x + M * 1 = x + M
  OBVIOUS
<1>2. (x + M * 1) % M = x % M
  BY <1>1, ModPeriodic, Zenon
<1> QED BY <1>1, <1>2, Zenon

(* A remainder by a multiple of M has the remainder of the number itself.  *)
LEMMA ModOfMod ==
  ASSUME NEW M \in Nat \ {0}, NEW k \in Nat \ {0}, NEW N \in Nat \ {0}, N = M * k,
         NEW x \in Int
  PROVE  (x % N) % M = x % M
<1> DEFINE q == x \div N
           r == x % N
<1>1. q \in Int /\ x = (N * q) + r
  BY DivMod, Zenon
<1>2. r \in Int
  OBVIOUS
<1> HIDE DEF q, r
<1>3. k * q \in Int /\ M * (k * q) = (M * k) * q
  BY <1>1
<1>4. x = r + M * (k * q)
  BY <1>1, <1>2, <1>3
<1>5. (r + M * (k * q)) % M = r % M
  BY <1>2, <1>3, ModPeriodic, Zenon
<1>6. x % M = r % M
  BY <1>4, <1>5, Zenon
<1> QED BY <1>6 DEF r
==============================================================================
