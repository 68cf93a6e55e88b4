---------------------------- MODULE LightsProofs ----------------------------
(***************************************************************************)
(* Which lines are on, for any cameras and lights and any number of        *)
(* clients: the level arithmetic of arcl is set arithmetic.                *)
(***************************************************************************)
EXTENDS ExposureProofs, WellFoundedInduction

-----------------------------------------------------------------------------
(***************************************************************************)
(* Induction over the numbers, as a fact about a set of numbers.           *)
(***************************************************************************)
LEMMA AllNumbers ==
  ASSUME NEW S \in SUBSET Nat, 0 \in S, \A n \in S : n + 1 \in S
  PROVE  S = Nat
<1> SUFFICES ASSUME Nat \ S # {} PROVE FALSE
  OBVIOUS
<1>1. PICK m \in Nat \ S : \A k \in Nat \ S : ~(<<k, m>> \in OpToRel(<, Nat))
  <2>1. Nat \ S \subseteq Nat
    OBVIOUS
  <2> QED
    BY <2>1, NatLessThanWellFounded, WFMin, Zenon
<1>2. \A k \in Nat \ S : ~(k < m)
  BY <1>1 DEF OpToRel
<1>3. m # 0 /\ m - 1 \in Nat
  OBVIOUS
<1>4. m - 1 \in S
  BY <1>2, <1>3
<1> QED
  BY <1>3, <1>4

-----------------------------------------------------------------------------
(***************************************************************************)
(* Bits.  Without a carry the bits of a sum are those of its parts.        *)
(***************************************************************************)

LEMMA DivMod ==
  ASSUME NEW n \in Nat, NEW d \in Nat \ {0}
  PROVE  /\ n = d * (n \div d) + (n % d)
         /\ n \div d \in Nat /\ n % d \in Nat /\ n % d < d
OBVIOUS

LEMMA TimesMonotone ==
  ASSUME NEW d \in Nat, NEW p \in Nat, NEW q \in Nat, p < q
  PROVE  d * p + d <= d * q
<1>1. PICK e \in Nat : q = p + 1 + e
  <2>1. q - p - 1 \in Nat /\ q = p + 1 + (q - p - 1)
    OBVIOUS
  <2> QED
    BY <2>1
<1>2. d * q = d * p + d + d * e /\ d * e \in Nat /\ d * p \in Nat
  BY <1>1
<1> QED
  BY <1>2

LEMMA DivUnique ==
  ASSUME NEW d \in Nat \ {0}, NEW q \in Nat, NEW r \in Nat, r < d
  PROVE  (d * q + r) \div d = q /\ (d * q + r) % d = r
<1> DEFINE n == d * q + r
<1>1. n \in Nat /\ d * q \in Nat
  OBVIOUS
<1> HIDE DEF n
<1>2. /\ n = d * (n \div d) + (n % d)
      /\ n \div d \in Nat /\ n % d \in Nat /\ n % d < d
  BY <1>1, DivMod
<1>3. d * (n \div d) \in Nat
  BY <1>2
<1>4. ~(n \div d < q)
  <2>1. n \div d < q => d * (n \div d) + d <= d * q
    BY <1>2, TimesMonotone
  <2> QED
    BY <1>1, <1>2, <1>3, <2>1 DEF n
<1>5. ~(q < n \div d)
  <2>1. q < n \div d => d * q + d <= d * (n \div d)
    BY <1>2, TimesMonotone
  <2> QED
    BY <1>1, <1>2, <1>3, <2>1 DEF n
<1>6. n \div d = q
  BY <1>2, <1>4, <1>5
<1>7. n % d = r
  BY <1>1, <1>2, <1>6 DEF n
<1> QED
  BY <1>6, <1>7 DEF n

Bit(n, b) == (n \div 2 ^ b) % 2

LEMMA BitFacts ==
  ASSUME NEW n \in Nat, NEW b \in 0 .. 2 * PinWidth
  PROVE  /\ n \div 2 ^ b \in Nat
         /\ Bit(n, b) \in {0, 1}
         /\ n \div 2 ^ b = 2 * (n \div 2 ^ (b + 1)) + Bit(n, b)
         /\ (n % 2 ^ (b + 1)) = (n % 2 ^ b) + 2 ^ b * Bit(n, b)
<1> DEFINE P == 2 ^ b
           q == n \div P
           r == n % P
           h == q \div 2
           t == q % 2
<1>1. P \in Nat \ {0} /\ 2 ^ (b + 1) = 2 * P
  BY PowersOfTwo, ExposureAssumption
<1> HIDE DEF P
<1>2. n = P * q + r /\ q \in Nat /\ r \in Nat /\ r < P
  BY <1>1, DivMod
<1> HIDE DEF q, r
<1>3. q = 2 * h + t /\ h \in Nat /\ t \in {0, 1}
  BY <1>2
<1> HIDE DEF h, t
<1>4. n = 2 * P * h + (P * t + r) /\ P * t + r \in Nat /\ P * t + r < 2 * P /\ 2 * P \in Nat \ {0}
  <2>1. P * q = 2 * P * h + P * t
    BY <1>1, <1>3
  <2>2. P * t \in Nat /\ P * t <= P /\ 2 * P * h \in Nat
    BY <1>1, <1>3
  <2> QED
    BY <1>1, <1>2, <2>1, <2>2
<1>5. n \div (2 * P) = h /\ n % (2 * P) = P * t + r
  BY <1>3, <1>4, DivUnique
<1>6. Bit(n, b) = t
  BY DEF Bit, P, q, t
<1>7. 2 ^ b = P /\ n \div 2 ^ b = q /\ n % 2 ^ b = r
  BY DEF P, q, r
<1>8. n \div 2 ^ (b + 1) = h /\ n % 2 ^ (b + 1) = P * t + r
  BY <1>1, <1>5
<1>9. P * t \in Nat
  BY <1>1, <1>3
<1>10. n % 2 ^ (b + 1) = (n % 2 ^ b) + 2 ^ b * Bit(n, b)
  <2>1. n % 2 ^ (b + 1) = r + P * t
    BY <1>1, <1>2, <1>8, <1>9
  <2> QED
    BY <2>1, <1>6, <1>7
<1> QED
  BY <1>1, <1>2, <1>3, <1>6, <1>7, <1>8, <1>10

LEMMA NoCarry ==
  ASSUME NEW m \in Nat, NEW n \in Nat, Bits(m) \cap Bits(n) = {}
  PROVE  \A b \in 0 .. 2 * PinWidth : (m % 2 ^ b) + (n % 2 ^ b) < 2 ^ b
<1> DEFINE S == {b \in Nat : b <= 2 * PinWidth => (m % 2 ^ b) + (n % 2 ^ b) < 2 ^ b}
<1>1. 0 \in S
  BY PowersOfTwo, ExposureAssumption
<1>2. ASSUME NEW b \in S PROVE b + 1 \in S
  <2> SUFFICES ASSUME b + 1 <= 2 * PinWidth
               PROVE  (m % 2 ^ (b + 1)) + (n % 2 ^ (b + 1)) < 2 ^ (b + 1)
    OBVIOUS
  <2>1. b \in 0 .. 2 * PinWidth - 1 /\ b \in 0 .. 2 * PinWidth
    BY PowersOfTwo, ExposureAssumption
  <2>2. (m % 2 ^ b) + (n % 2 ^ b) < 2 ^ b
    BY <2>1
  <2>3. Bit(m, b) = 0 \/ Bit(n, b) = 0
    BY <2>1, BitFacts DEF Bits, Bit
  <2>4. /\ (m % 2 ^ (b + 1)) = (m % 2 ^ b) + 2 ^ b * Bit(m, b)
        /\ (n % 2 ^ (b + 1)) = (n % 2 ^ b) + 2 ^ b * Bit(n, b)
        /\ Bit(m, b) \in {0, 1} /\ Bit(n, b) \in {0, 1}
    BY <2>1, BitFacts
  <2>5. 2 ^ b \in Nat \ {0} /\ 2 ^ (b + 1) = 2 * 2 ^ b
    BY <2>1, PowersOfTwo, ExposureAssumption
  <2> DEFINE P == 2 ^ b
             x == m % P
             y == n % P
  <2>6. x \in Nat /\ y \in Nat
    BY <2>5, DivMod
  <2> HIDE DEF P, x, y
  <2>7. P * 0 = 0 /\ P * 1 = P
    BY <2>5 DEF P
  <2> QED
    BY <2>2, <2>3, <2>4, <2>5, <2>6, <2>7 DEF P, x, y
<1> HIDE DEF S
<1>3. S = Nat
  BY <1>1, <1>2, AllNumbers DEF S
<1> SUFFICES ASSUME NEW b \in 0 .. 2 * PinWidth
             PROVE  (m % 2 ^ b) + (n % 2 ^ b) < 2 ^ b
  OBVIOUS
<1>4. b \in Nat /\ b <= 2 * PinWidth
  BY PowersOfTwo, ExposureAssumption
<1> QED
  BY <1>3, <1>4 DEF S

LEMMA BitsOfSum ==
  ASSUME NEW m \in Nat, NEW n \in Nat, Bits(m) \cap Bits(n) = {}
  PROVE  Bits(m + n) = Bits(m) \cup Bits(n)
<1> SUFFICES ASSUME NEW b \in 0 .. 2 * PinWidth - 1
             PROVE  Bit(m + n, b) = 1 <=> Bit(m, b) = 1 \/ Bit(n, b) = 1
  BY DEF Bits, Bit
<1> DEFINE P == 2 ^ b
           p == m \div P
           q == n \div P
           x == m % P
           y == n % P
<1>1. b \in 0 .. 2 * PinWidth /\ P \in Nat \ {0}
  BY PowersOfTwo, ExposureAssumption
<1>2. x + y < P
  BY <1>1, NoCarry DEF P
<1>3. Bit(m, b) = p % 2 /\ Bit(n, b) = q % 2 /\ Bit(m + n, b) = ((m + n) \div P) % 2
  BY DEF Bit
<1>4. ~(p % 2 = 1 /\ q % 2 = 1)
  BY <1>3 DEF Bits, Bit
<1> HIDE DEF P
<1>5. m = P * p + x /\ n = P * q + y /\ p \in Nat /\ q \in Nat /\ x \in Nat /\ y \in Nat
  BY <1>1, DivMod
<1> HIDE DEF p, q, x, y
<1>6. m + n = P * (p + q) + (x + y)
  BY <1>1, <1>5
<1>7. (m + n) \div P = p + q
  BY <1>1, <1>2, <1>5, <1>6, DivUnique, p + q \in Nat, x + y \in Nat
<1> QED
  BY <1>3, <1>4, <1>5, <1>7

-----------------------------------------------------------------------------
(***************************************************************************)
(* Registers.  What BitsOf reads back of a register is, of the level that  *)
(* was written, the lines that the register is for.                        *)
(***************************************************************************)

LEMMA DivDiv ==
  ASSUME NEW n \in Nat, NEW P \in Nat \ {0}, NEW Q \in Nat \ {0}
  PROVE  n \div (P * Q) = (n \div P) \div Q
<1> DEFINE q == n \div P
           r == n % P
           s == q \div Q
           t == q % Q
<1>1. n = P * q + r /\ q \in Nat /\ r \in Nat /\ r < P
  BY DivMod
<1> HIDE DEF q, r
<1>2. q = Q * s + t /\ s \in Nat /\ t \in Nat /\ t < Q
  BY <1>1, DivMod
<1> HIDE DEF s, t
<1>3. P * q = (P * Q) * s + P * t /\ P * t + P <= P * Q
  BY <1>1, <1>2, TimesMonotone
<1>4. P * t \in Nat /\ P * Q \in Nat \ {0} /\ (P * Q) * s \in Nat
  BY <1>2
<1>5. n = (P * Q) * s + (P * t + r) /\ P * t + r \in Nat /\ P * t + r < P * Q
  <2> DEFINE u == P * t
             v == P * Q
             w == (P * Q) * s
             x == P * q
  <2>1. x = w + u /\ u + P <= v /\ u \in Nat /\ v \in Nat /\ w \in Nat /\ n = x + r
    BY <1>1, <1>3, <1>4
  <2> HIDE DEF u, v, w, x
  <2>2. n = w + (u + r) /\ u + r \in Nat /\ u + r < v
    BY <1>1, <2>1
  <2> QED
    BY <2>2 DEF u, v, w
<1>6. n \div (P * Q) = s
  BY <1>2, <1>4, <1>5, DivUnique
<1> QED
  BY <1>6 DEF s, q

LEMMA PowersAdd ==
  ASSUME NEW a \in Nat
  PROVE  \A b \in Nat : a + b <= 2 * PinWidth + 1 => 2 ^ (a + b) = 2 ^ a * 2 ^ b
<1> DEFINE S == {b \in Nat : a + b <= 2 * PinWidth + 1 => 2 ^ (a + b) = 2 ^ a * 2 ^ b}
<1>0. PinWidth \in Nat /\ \A b \in Nat : b <= 2 * PinWidth + 1 => 2 ^ b \in Nat \ {0}
  <2>1. PinWidth \in Nat
    BY ExposureAssumption
  <2>2. ASSUME NEW b \in Nat, b <= 2 * PinWidth + 1 PROVE 2 ^ b \in Nat \ {0}
    <3>1. CASE b = 0
      BY <3>1, PowersOfTwo
    <3>2. CASE b # 0
      <4>1. b - 1 \in 0 .. 2 * PinWidth /\ (b - 1) + 1 = b
        BY <2>1, <2>2, <3>2
      <4>2. 2 ^ (b - 1) \in Nat \ {0} /\ 2 ^ b = 2 * 2 ^ (b - 1)
        BY <4>1, PowersOfTwo
      <4> QED
        BY <4>2
    <3> QED
      BY <3>1, <3>2
  <2> QED
    BY <2>1, <2>2
<1>1. 0 \in S
  <2> SUFFICES ASSUME a <= 2 * PinWidth + 1 PROVE 2 ^ (a + 0) = 2 ^ a * 2 ^ 0
    OBVIOUS
  <2>1. a + 0 = a /\ 2 ^ a \in Nat /\ 2 ^ 0 = 1
    BY <1>0, PowersOfTwo
  <2> QED
    BY <2>1
<1>2. ASSUME NEW b \in S PROVE b + 1 \in S
  <2> SUFFICES ASSUME a + (b + 1) <= 2 * PinWidth + 1
               PROVE  2 ^ (a + (b + 1)) = 2 ^ a * 2 ^ (b + 1)
    OBVIOUS
  <2>1. a + b \in 0 .. 2 * PinWidth /\ b \in 0 .. 2 * PinWidth /\ a + (b + 1) = (a + b) + 1
    BY <1>0
  <2>2. 2 ^ (a + b) = 2 ^ a * 2 ^ b
    BY <1>0, <2>1
  <2>3. 2 ^ (a + (b + 1)) = 2 * 2 ^ (a + b) /\ 2 ^ (b + 1) = 2 * 2 ^ b
    BY <2>1, PowersOfTwo
  <2> DEFINE p == 2 ^ a
             q == 2 ^ b
  <2>4. p \in Nat /\ q \in Nat
    BY <1>0, <2>1
  <2> HIDE DEF p, q
  <2>5. 2 * (p * q) = p * (2 * q)
    BY <2>4
  <2> QED
    BY <2>2, <2>3, <2>5 DEF p, q
<1> HIDE DEF S
<1>3. S = Nat
  BY <1>1, <1>2, AllNumbers DEF S
<1> QED
  BY <1>3 DEF S

\* A whole number of times all the low lines does not change them.
LEMMA LowLines ==
  ASSUME NEW q \in Nat, NEW r \in Nat, NEW b \in 0 .. PinWidth - 1
  PROVE  Bit(PinRange * q + r, b) = Bit(r, b)
<1> DEFINE P == 2 ^ b
           H == 2 ^ (PinWidth - (b + 1))
           s == r \div P
           t == r % P
           h == H * q
<1>0. PinWidth \in Nat /\ b \in 0 .. 2 * PinWidth /\ PinWidth - (b + 1) \in 0 .. 2 * PinWidth
  BY ExposureAssumption
<1>1. P \in Nat \ {0} /\ H \in Nat \ {0} /\ 2 ^ (b + 1) = 2 * P
  BY <1>0, PowersOfTwo
<1>2. PinRange = (2 * P) * H
  <2>1. (b + 1) + (PinWidth - (b + 1)) = PinWidth /\ PinWidth <= 2 * PinWidth + 1
    BY <1>0
  <2>2. 2 ^ ((b + 1) + (PinWidth - (b + 1))) = 2 ^ (b + 1) * H
    BY <1>0, <2>1, PowersAdd, b + 1 \in Nat, PinWidth - (b + 1) \in Nat
  <2> QED
    BY <1>1, <2>1, <2>2 DEF PinRange
<1>3. /\ r \div P = s /\ Bit(r, b) = s % 2
      /\ Bit(PinRange * q + r, b) = ((PinRange * q + r) \div P) % 2
  BY DEF Bit
<1> HIDE DEF P, H
<1>4. r = P * s + t /\ s \in Nat /\ t \in Nat /\ t < P
  BY <1>1, DivMod
<1> HIDE DEF s, t
<1>5. PinRange * q = P * (2 * h) /\ h \in Nat
  BY <1>1, <1>2
<1> HIDE DEF h
<1>6. PinRange * q + r = P * (2 * h + s) + t /\ 2 * h + s \in Nat
  <2>1. P * (2 * h + s) = P * (2 * h) + P * s
    BY <1>1, <1>4, <1>5
  <2>2. P * (2 * h) \in Nat /\ P * s \in Nat
    BY <1>1, <1>4, <1>5
  <2> QED
    BY <1>4, <1>5, <2>1, <2>2
<1>7. (PinRange * q + r) \div P = 2 * h + s
  BY <1>1, <1>4, <1>6, DivUnique
<1>8. (2 * h + s) % 2 = s % 2
  BY <1>4, <1>5
<1> QED
  BY <1>3, <1>7, <1>8

\* The lines of the N pins are those of the level without the low lines.
LEMMA HighLines ==
  ASSUME NEW n \in Nat, NEW b \in PinWidth .. 2 * PinWidth - 1
  PROVE  b - PinWidth \in 0 .. PinWidth - 1 /\ Bit(n, b) = Bit(n \div PinRange, b - PinWidth)
<1> DEFINE c == b - PinWidth
<1>0. PinWidth \in Nat /\ b \in Nat /\ c \in 0 .. PinWidth - 1 /\ c \in 0 .. 2 * PinWidth
      /\ PinWidth + c = b /\ PinWidth + c <= 2 * PinWidth + 1
  BY ExposureAssumption
<1>1. 2 ^ (PinWidth + c) = 2 ^ PinWidth * 2 ^ c
  BY <1>0, PowersAdd, c \in Nat
<1>2. 2 ^ b = PinRange * 2 ^ c
  BY <1>0, <1>1 DEF PinRange
<1>3. 2 ^ c \in Nat \ {0} /\ PinRange \in Nat \ {0}
  BY <1>0, PowersOfTwo, ExposureAssumption
<1>4. n \div 2 ^ b = (n \div PinRange) \div 2 ^ c
  BY <1>2, <1>3, DivDiv
<1> QED
  BY <1>0, <1>4 DEF Bit

LEMMA ZeroBits == Bits(0) = {}
<1>1. ASSUME NEW b \in 0 .. 2 * PinWidth - 1 PROVE Bit(0, b) = 0
  <2>1. 2 ^ b \in Nat \ {0}
    BY PowersOfTwo, ExposureAssumption
  <2>2. \A P \in Nat \ {0} : (0 \div P) % 2 = 0
    OBVIOUS
  <2> QED
    BY <2>1, <2>2 DEF Bit
<1>2. Bits(0) = {b \in 0 .. 2 * PinWidth - 1 : Bit(0, b) = 1}
  BY DEF Bits, Bit
<1>3. \A b \in 0 .. 2 * PinWidth - 1 : Bit(0, b) # 1
  BY <1>1
<1> QED
  BY <1>2, <1>3, Zenon

LEMMA LowBits ==
  ASSUME NEW n \in Nat
  PROVE  Bits(n % PinRange) = Bits(n) \cap (0 .. PinWidth - 1)
<1> DEFINE q == n \div PinRange
           r == n % PinRange
<1>0. PinWidth \in Nat /\ PinRange \in Nat \ {0}
  BY ExposureAssumption
<1>1. n = PinRange * q + r /\ q \in Nat /\ r \in Nat /\ r < PinRange
  BY <1>0, DivMod
<1> HIDE DEF q, r
<1>2. ASSUME NEW b \in 0 .. PinWidth - 1 PROVE Bit(n, b) = Bit(r, b)
  BY <1>1, LowLines
<1>3. ASSUME NEW b \in PinWidth .. 2 * PinWidth - 1 PROVE Bit(r, b) = 0
  <2>1. r = PinRange * 0 + r
    BY <1>0, <1>1
  <2>2. r \div PinRange = 0
    BY <1>0, <1>1, <2>1, DivUnique
  <2>3. Bit(r, b) = Bit(0, b - PinWidth) /\ b - PinWidth \in 0 .. 2 * PinWidth - 1
    BY <1>0, <1>1, <2>2, HighLines
  <2>4. Bit(0, b - PinWidth) \in {0, 1}
    <3>1. b - PinWidth \in 0 .. 2 * PinWidth
      BY <1>0
    <3> QED
      BY <3>1, BitFacts, 0 \in Nat
  <2> QED
    BY <2>3, <2>4, ZeroBits DEF Bits, Bit
<1>4. 0 .. PinWidth - 1 \subseteq 0 .. 2 * PinWidth - 1
  BY <1>0
<1>5. \A b \in 0 .. 2 * PinWidth - 1 : b \in 0 .. PinWidth - 1 \/ b \in PinWidth .. 2 * PinWidth - 1
  BY <1>0
<1> SUFFICES Bits(r) = Bits(n) \cap (0 .. PinWidth - 1)
  BY DEF r
<1>6. ASSUME NEW b \in 0 .. PinWidth - 1 PROVE b \in Bits(r) <=> b \in Bits(n)
  BY <1>2, <1>4 DEF Bits, Bit
<1>7. ASSUME NEW b \in PinWidth .. 2 * PinWidth - 1
      PROVE  b \notin Bits(r) /\ b \notin 0 .. PinWidth - 1
  BY <1>0, <1>3 DEF Bits, Bit
<1>8. Bits(r) \subseteq 0 .. 2 * PinWidth - 1 /\ Bits(n) \subseteq 0 .. 2 * PinWidth - 1
  BY DEF Bits
<1> QED
  BY <1>5, <1>6, <1>7, <1>8

LEMMA HighBits ==
  ASSUME NEW n \in Nat
  PROVE  Bits(((n \div PinRange) % PinRange) * PinRange)
           = Bits(n) \cap (PinWidth .. 2 * PinWidth - 1)
<1> DEFINE q == n \div PinRange
           r == q % PinRange
           m == r * PinRange
<1>0. PinWidth \in Nat /\ PinRange \in Nat \ {0}
  BY ExposureAssumption
<1>1. q \in Nat /\ r \in Nat
  BY <1>0, DivMod
<1>2. Bits(r) = Bits(q) \cap (0 .. PinWidth - 1)
  BY <1>1, LowBits
<1>3. ASSUME NEW b \in PinWidth .. 2 * PinWidth - 1 PROVE Bit(n, b) = Bit(q, b - PinWidth)
  BY HighLines
<1> HIDE DEF q, r
<1>4. m \in Nat /\ m = PinRange * r + 0 /\ m \div PinRange = r
  <2>1. m \in Nat /\ m = PinRange * r + 0
    BY <1>0, <1>1
  <2>2. (PinRange * r + 0) \div PinRange = r
    BY <1>0, <1>1, DivUnique
  <2> QED
    BY <2>1, <2>2
<1> HIDE DEF m
<1>5. ASSUME NEW b \in 0 .. PinWidth - 1 PROVE b \notin Bits(m)
  <2>1. Bit(m, b) = Bit(0, b)
    BY <1>1, <1>4, LowLines
  <2>2. b \notin Bits(0)
    BY ZeroBits
  <2> QED
    BY <2>1, <2>2 DEF Bits, Bit
<1>6. ASSUME NEW b \in PinWidth .. 2 * PinWidth - 1 PROVE b \in Bits(m) <=> b \in Bits(n)
  <2>1. b - PinWidth \in 0 .. PinWidth - 1 /\ b \in 0 .. 2 * PinWidth - 1
        /\ b - PinWidth \in 0 .. 2 * PinWidth - 1
    BY <1>0
  <2>2. Bit(m, b) = Bit(r, b - PinWidth)
    BY <1>4, HighLines
  <2>3. b - PinWidth \in Bits(r) <=> b - PinWidth \in Bits(q)
    BY <1>2, <2>1
  <2>4. Bit(r, b - PinWidth) = 1 <=> Bit(q, b - PinWidth) = 1
    BY <2>1, <2>3 DEF Bits, Bit
  <2> QED
    BY <1>3, <2>1, <2>2, <2>4 DEF Bits, Bit
<1>7. \A b \in 0 .. 2 * PinWidth - 1 : b \in 0 .. PinWidth - 1 \/ b \in PinWidth .. 2 * PinWidth - 1
  BY <1>0
<1>8. Bits(m) \subseteq 0 .. 2 * PinWidth - 1 /\ Bits(n) \subseteq 0 .. 2 * PinWidth - 1
  BY DEF Bits
<1>9. (0 .. PinWidth - 1) \cap (PinWidth .. 2 * PinWidth - 1) = {}
  BY <1>0
<1>10. Bits(m) = Bits(n) \cap (PinWidth .. 2 * PinWidth - 1)
  BY <1>5, <1>6, <1>7, <1>8, <1>9
<1> QED
  BY <1>10 DEF m, r, q

LEMMA RegisterBits ==
  ASSUME NEW r \in Regs, NEW n \in Nat, reg[r] = Part(r, n)
  PROVE  /\ BitsOf(r) = Bits(n) \cap BitsFor(r)
         /\ reg[r] \in 0 .. PinRange - 1
<1>1. BitsOf(r) = Bits(n) \cap BitsFor(r)
  BY LowBits, HighBits DEF BitsOf, BitsFor, Part, Regs
<1>2. PinRange \in Nat \ {0} /\ n \div PinRange \in Nat
  BY ExposureAssumption, DivMod
<1>3. reg[r] \in 0 .. PinRange - 1
  BY <1>2, DivMod DEF Part
<1> QED
  BY <1>1, <1>3

LEMMA DarkBits ==
  ASSUME NEW r \in Regs, reg[r] = 0
  PROVE  BitsOf(r) = {}
<1>1. 0 * PinRange = 0
  BY ExposureAssumption
<1> QED
  BY <1>1, ZeroBits DEF BitsOf

-----------------------------------------------------------------------------
(***************************************************************************)
(* Levels.  SumUpTo is the function by which SumOfLines adds the lights    *)
(* up, and DueLevel the cameras and the lights from i on.                  *)
(***************************************************************************)
SumUpTo(lights) ==
  LET sum[i \in 0 .. Len(lights)] == IF i = 0 THEN 0 ELSE sum[i - 1] + lights[i][1]
  IN  sum

DueLevel(k, i) == (k.cameras + SumUpTo(k.lights)[Len(k.lights)]) - SumUpTo(k.lights)[i - 1]
LinesFrom(k, i) ==
  Bits(k.cameras) \cup UNION {Bits(k.lights[j][1]) : j \in i .. Len(k.lights)}

IsSum(g, l, n) == g = [i \in 0 .. n |-> IF i = 0 THEN 0 ELSE g[i - 1] + l[i][1]]

LEMMA SumExists ==
  ASSUME NEW l, NEW n \in Nat
  PROVE  \E g : IsSum(g, l, n)
<1> DEFINE S == {m \in Nat : \E g : IsSum(g, l, m)}
<1>1. 0 \in S
  <2>1. IsSum([i \in 0 .. 0 |-> 0], l, 0)
    BY DEF IsSum
  <2> QED
    BY <2>1
<1>2. ASSUME NEW m \in S PROVE m + 1 \in S
  <2>1. PICK g : IsSum(g, l, m)
    BY <1>2
  <2> DEFINE h == [i \in 0 .. m + 1 |-> IF i = m + 1 THEN g[m] + l[m + 1][1] ELSE g[i]]
  <2>2. \A i \in 0 .. m : h[i] = g[i] /\ g[i] = IF i = 0 THEN 0 ELSE g[i - 1] + l[i][1]
    BY <2>1 DEF IsSum
  <2>3. h[m + 1] = h[m] + l[m + 1][1] /\ m + 1 # 0
    BY <2>2
  <2>4. \A i \in 0 .. m + 1 : h[i] = IF i = 0 THEN 0 ELSE h[i - 1] + l[i][1]
    BY <2>2, <2>3
  <2>5. h = [i \in 0 .. m + 1 |-> h[i]]
    OBVIOUS
  <2> HIDE DEF h
  <2>6. IsSum(h, l, m + 1)
    BY <2>4, <2>5 DEF IsSum
  <2> QED
    BY <2>6
<1> HIDE DEF S
<1>3. S = Nat
  BY <1>1, <1>2, AllNumbers DEF S
<1> QED
  BY <1>3 DEF S

LEMMA LineFacts ==
  ASSUME NEW k \in Calls
  PROVE  /\ k.cameras \in Nat /\ Len(k.lights) \in Nat
         /\ \A i \in 1 .. Len(k.lights) : k.lights[i][1] \in Nat
<1>1. k.lights \in Seq(Nat \X Times) /\ k.cameras \in Nat
  BY DEF Calls
<1>2. \A i \in 1 .. Len(k.lights) : k.lights[i] \in Nat \X Times
  BY <1>1
<1> QED
  BY <1>1, <1>2

LEMMA SumFacts ==
  ASSUME NEW k \in Calls
  PROVE  /\ SumOfLines(k.lights) = SumUpTo(k.lights)[Len(k.lights)]
         /\ SumUpTo(k.lights)[0] = 0
         /\ \A i \in 1 .. Len(k.lights) :
              SumUpTo(k.lights)[i] = SumUpTo(k.lights)[i - 1] + k.lights[i][1]
         /\ \A i \in 0 .. Len(k.lights) : SumUpTo(k.lights)[i] \in Nat
<1> DEFINE l == k.lights
           n == Len(k.lights)
           g == SumUpTo(k.lights)
<1>0. n \in Nat /\ \A i \in 1 .. n : l[i][1] \in Nat
  BY LineFacts
<1>1. SumOfLines(l) = g[n]
  BY DEF SumOfLines, SumUpTo
<1>2. IsSum(g, l, n)
  <2>1. \E f : IsSum(f, l, n)
    BY <1>0, SumExists
  <2> QED
    BY <2>1 DEF SumUpTo, IsSum
<1> HIDE DEF g, n, l
<1>3. \A i \in 0 .. n : g[i] = IF i = 0 THEN 0 ELSE g[i - 1] + l[i][1]
  BY <1>2 DEF IsSum
<1>4. g[0] = 0 /\ \A i \in 1 .. n : g[i] = g[i - 1] + l[i][1]
  BY <1>0, <1>3
<1> DEFINE S == {i \in Nat : i <= n => g[i] \in Nat}
<1>5. 0 \in S
  BY <1>4
<1>6. ASSUME NEW i \in S PROVE i + 1 \in S
  <2> SUFFICES ASSUME i + 1 <= n PROVE g[i + 1] \in Nat
    OBVIOUS
  <2>1. g[i] \in Nat /\ i + 1 \in 1 .. n /\ (i + 1) - 1 = i
    BY <1>0
  <2>2. g[i + 1] = g[i] + l[i + 1][1] /\ l[i + 1][1] \in Nat
    BY <1>0, <1>4, <2>1
  <2> QED
    BY <2>1, <2>2
<1> HIDE DEF S
<1>7. S = Nat
  BY <1>5, <1>6, AllNumbers DEF S
<1>8. \A i \in 0 .. n : g[i] \in Nat
  BY <1>0, <1>7 DEF S
<1> QED
  BY <1>1, <1>4, <1>8 DEF g, n, l

LEMMA LevelFacts ==
  ASSUME NEW k \in Calls
  PROVE  /\ Len(k.lights) \in Nat
         /\ DueLevel(k, 1) = k.cameras + SumOfLines(k.lights)
         /\ DueLevel(k, Len(k.lights) + 1) = k.cameras
         /\ \A i \in 1 .. Len(k.lights) + 1 : DueLevel(k, i) \in Nat
         /\ \A i \in 1 .. Len(k.lights) :
              /\ k.lights[i][1] \in Nat
              /\ DueLevel(k, i) = DueLevel(k, i + 1) + k.lights[i][1]
<1> DEFINE l == k.lights
           n == Len(k.lights)
           g == SumUpTo(k.lights)
           a == k.cameras
<1>0. n \in Nat /\ a \in Nat /\ \A i \in 1 .. n : l[i][1] \in Nat
  BY LineFacts
<1>1. /\ SumOfLines(l) = g[n] /\ g[0] = 0
      /\ \A i \in 1 .. n : g[i] = g[i - 1] + l[i][1]
      /\ \A i \in 0 .. n : g[i] \in Nat
  BY SumFacts
<1> HIDE DEF g, n, l, a
<1>2. \A i : DueLevel(k, i) = (a + g[n]) - g[i - 1]
  BY DEF DueLevel, g, n, a
<1>3. DueLevel(k, 1) = a + SumOfLines(l) /\ DueLevel(k, n + 1) = a
  <2>1. g[n] \in Nat /\ 1 - 1 = 0 /\ (n + 1) - 1 = n
    BY <1>0, <1>1
  <2>2. DueLevel(k, 1) = (a + g[n]) - g[0] /\ DueLevel(k, n + 1) = (a + g[n]) - g[n]
    BY <1>2, <2>1
  <2> QED
    BY <1>0, <1>1, <2>1, <2>2
<1>4. ASSUME NEW i \in 1 .. n
      PROVE  /\ i + 1 \in 1 .. n + 1 /\ l[i][1] \in Nat
             /\ DueLevel(k, i) = DueLevel(k, i + 1) + l[i][1]
  <2>1. g[n] \in Nat /\ g[i] \in Nat /\ g[i - 1] \in Nat /\ l[i][1] \in Nat /\ (i + 1) - 1 = i
    <3>1. n \in 0 .. n /\ i \in 0 .. n /\ i - 1 \in 0 .. n /\ (i + 1) - 1 = i
      BY <1>0
    <3> QED
      BY <1>0, <1>1, <3>1
  <2>2. DueLevel(k, i) = (a + g[n]) - g[i - 1] /\ DueLevel(k, i + 1) = (a + g[n]) - g[i]
    BY <1>2, <2>1
  <2>3. g[i] = g[i - 1] + l[i][1]
    BY <1>1
  <2> QED
    BY <1>0, <2>1, <2>2, <2>3
<1> DEFINE S == {j \in Nat : j <= n => DueLevel(k, (n + 1) - j) \in Nat}
<1>5. 0 \in S
  <2>1. (n + 1) - 0 = n + 1
    BY <1>0
  <2> QED
    BY <1>0, <1>3, <2>1
<1>6. ASSUME NEW j \in S PROVE j + 1 \in S
  <2> SUFFICES ASSUME j + 1 <= n PROVE DueLevel(k, (n + 1) - (j + 1)) \in Nat
    OBVIOUS
  <2>1. (n + 1) - (j + 1) \in 1 .. n /\ ((n + 1) - (j + 1)) + 1 = (n + 1) - j
    BY <1>0
  <2>2. DueLevel(k, (n + 1) - j) \in Nat
    BY <1>0
  <2> QED
    BY <1>4, <2>1, <2>2
<1> HIDE DEF S
<1>7. S = Nat
  BY <1>5, <1>6, AllNumbers DEF S
<1>8. ASSUME NEW i \in 1 .. n + 1 PROVE DueLevel(k, i) \in Nat
  <2>1. (n + 1) - i \in Nat /\ (n + 1) - i <= n /\ (n + 1) - ((n + 1) - i) = i
    BY <1>0
  <2> QED
    BY <1>7, <2>1 DEF S
<1> QED
  BY <1>0, <1>3, <1>4, <1>8 DEF g, n, l, a

\* Level arithmetic is set arithmetic when no line is named twice.
LEMMA LevelIsLines ==
  ASSUME NEW k \in Calls, Disjoint(k)
  PROVE  \A i \in 1 .. Len(k.lights) + 1 : Bits(DueLevel(k, i)) = LinesFrom(k, i)
<1> DEFINE l == k.lights
           n == Len(k.lights)
           S == {j \in Nat : j <= n => Bits(DueLevel(k, (n + 1) - j)) = LinesFrom(k, (n + 1) - j)}
<1>0. /\ n \in Nat /\ DOMAIN l = 1 .. n
      /\ DueLevel(k, n + 1) = k.cameras
      /\ \A i \in 1 .. n + 1 : DueLevel(k, i) \in Nat
      /\ \A i \in 1 .. n : l[i][1] \in Nat /\ DueLevel(k, i) = DueLevel(k, i + 1) + l[i][1]
  BY LevelFacts DEF Calls
<1>1. 0 \in S
  <2>1. (n + 1) - 0 = n + 1 /\ (n + 1) .. n = {}
    BY <1>0
  <2>2. LinesFrom(k, n + 1) = Bits(k.cameras)
    BY <2>1 DEF LinesFrom
  <2> QED
    BY <1>0, <2>1, <2>2
<1>2. ASSUME NEW j \in S PROVE j + 1 \in S
  <2> SUFFICES ASSUME j + 1 <= n
               PROVE  Bits(DueLevel(k, (n + 1) - (j + 1))) = LinesFrom(k, (n + 1) - (j + 1))
    OBVIOUS
  <2> DEFINE i == (n + 1) - (j + 1)
  <2>1. i \in 1 .. n /\ i + 1 = (n + 1) - j /\ i + 1 \in 1 .. n + 1
    BY <1>0
  <2>2. Bits(DueLevel(k, i + 1)) = LinesFrom(k, i + 1)
    BY <2>1
  <2> HIDE DEF i
  <2>3. ASSUME NEW m \in (i + 1) .. n PROVE Bits(l[m][1]) \cap Bits(l[i][1]) = {}
    <3>1. m \in 1 .. n /\ m # i
      BY <1>0, <2>1
    <3> QED
      BY <1>0, <2>1, <3>1 DEF Disjoint
  <2>4. Bits(l[i][1]) \cap Bits(k.cameras) = {}
    BY <1>0, <2>1 DEF Disjoint
  <2>5. LinesFrom(k, i + 1) \cap Bits(l[i][1]) = {}
    BY <2>3, <2>4 DEF LinesFrom
  <2>6. Bits(DueLevel(k, i)) = LinesFrom(k, i + 1) \cup Bits(l[i][1])
    <3>1. /\ DueLevel(k, i + 1) \in Nat /\ l[i][1] \in Nat
          /\ DueLevel(k, i) = DueLevel(k, i + 1) + l[i][1]
      BY <1>0, <2>1
    <3> QED
      BY <2>2, <2>5, <3>1, BitsOfSum
  <2>7. \A m : m \in i .. n <=> m = i \/ m \in (i + 1) .. n
    BY <1>0, <2>1
  <2>8. LinesFrom(k, i) = LinesFrom(k, i + 1) \cup Bits(l[i][1])
    BY <2>7 DEF LinesFrom
  <2> QED
    BY <2>6, <2>8 DEF i
<1> HIDE DEF S
<1>3. S = Nat
  BY <1>1, <1>2, AllNumbers DEF S
<1> SUFFICES ASSUME NEW i \in 1 .. n + 1 PROVE Bits(DueLevel(k, i)) = LinesFrom(k, i)
  OBVIOUS
<1>4. (n + 1) - i \in Nat /\ (n + 1) - i <= n /\ (n + 1) - ((n + 1) - i) = i
  BY <1>0
<1> QED
  BY <1>3, <1>4 DEF S

-----------------------------------------------------------------------------
(***************************************************************************)
(* The level of a call is what is due of it, and zero at the end.          *)
(***************************************************************************)
LevelOf(c) ==
  /\ phase[c] = "first" => next[c] = 1
  /\ phase[c] = "drop" => next[c] > 1
  /\ phase[c] = "last" \/ pc[c] = "final" => next[c] = Len(call[c].lights) + 1
  /\ level[c] = IF phase[c] \in {"first", "drop"} THEN DueLevel(call[c], next[c]) ELSE 0
  /\ left[c] <= Longest /\ lit[c] <= Longest

LevelInv ==
  /\ level \in [Clients -> Nat]
  /\ disturbed \in [Clients -> BOOLEAN]
  /\ \A c \in Clients : LevelOf(c)

(***************************************************************************)
(* What c wrote last to r, if it has: its level, or the one before while   *)
(* the store is pending.  A register that is not zero shows what some call *)
(* in progress wrote last, and a call that nobody disturbs finds in all    *)
(* registers what it wrote.                                                *)
(***************************************************************************)
Wrote(c, r) == InProgress(c) /\ (phase[c] = "first" => ~Pending(c, r))
Shown(c, r) ==
  IF ~Pending(c, r) THEN level[c]
  ELSE IF phase[c] = "drop" THEN DueLevel(call[c], next[c] - 1) ELSE call[c].cameras

WriterInv ==
  \A r \in Regs : reg[r] = 0 \/ \E c \in Clients : Wrote(c, r) /\ reg[r] = Part(r, Shown(c, r))
OwnInv ==
  \A c \in Clients : InProgress(c) /\ ~disturbed[c] =>
    \A r \in Regs : ~Pending(c, r) => reg[r] = Part(r, level[c])

LightInv == LevelInv /\ WriterInv /\ OwnInv

LEMMA LevelInit == Init => LevelInv
BY LongestFacts DEF Init, LevelInv, LevelOf

LEMMA LevelUntouched ==
  ASSUME NEW d \in Clients, LevelOf(d), pc'[d] = pc[d], phase'[d] = phase[d],
         call'[d] = call[d], next'[d] = next[d], level'[d] = level[d],
         left'[d] = left[d], lit'[d] = lit[d]
  PROVE  LevelOf(d)'
BY DEF LevelOf

\* One step of arcl in client c.
LEMMA LevelArcl ==
  ASSUME ClockInv, LevelInv, NEW c \in Clients, arcl(c)
  PROVE  /\ level' \in [Clients -> Nat] /\ disturbed' \in [Clients -> BOOLEAN]
         /\ LevelOf(c)'
<1> USE DEF Go, Set, locals, history, Store, Disturb
<1>0. /\ TypeInv /\ CallOf(c) /\ ControlOf(c) /\ LevelOf(c) /\ call[c] \in Calls
      /\ level \in [Clients -> Nat] /\ disturbed \in [Clients -> BOOLEAN]
      /\ next[c] \in Nat /\ left[c] \in Nat
  BY DEF ClockInv, TypeInv, CallOf, LevelInv
<1> DEFINE n == Len(call[c].lights)
<1>a. /\ n \in Nat
      /\ \A i \in 1 .. n + 1 : DueLevel(call[c], i) \in Nat
      /\ \A i \in 1 .. n :
           /\ call[c].lights[i][1] \in Nat
           /\ DueLevel(call[c], i) = DueLevel(call[c], i + 1) + call[c].lights[i][1]
  BY <1>0, LevelFacts
<1>1. CASE Start(c)
  <2>1. PICK k \in Calls : /\ call' = [call EXCEPT ![c] = k]
                           /\ pc[c] = "idle" /\ pc' = [pc EXCEPT ![c] = "led"]
                           /\ phase' = [phase EXCEPT ![c] = "first"]
                           /\ level' = [level EXCEPT ![c] = k.cameras + SumOfLines(k.lights)]
                           /\ disturbed' = [disturbed EXCEPT ![c] = FALSE]
                           /\ UNCHANGED <<next, left, lit>>
    BY <1>1, SortedCalls DEF Start
  <2>3. DueLevel(k, 1) = k.cameras + SumOfLines(k.lights) /\ DueLevel(k, 1) \in Nat
    <3>1. Len(k.lights) \in Nat /\ 1 \in 1 .. Len(k.lights) + 1
      BY LevelFacts
    <3> QED
      BY <3>1, LevelFacts
  <2>4. level' = [level EXCEPT ![c] = DueLevel(k, 1)]
    BY <2>1, <2>3
  <2>5. level' \in [Clients -> Nat] /\ disturbed' \in [Clients -> BOOLEAN]
    BY <1>0, <2>1, <2>3, <2>4
  <2>6. /\ pc'[c] = "led" /\ phase'[c] = "first" /\ call'[c] = k /\ level'[c] = DueLevel(k, 1)
        /\ next'[c] = 1 /\ left'[c] = left[c] /\ lit'[c] = lit[c]
    BY <1>0, <2>1, <2>4 DEF TypeInv, ControlOf
  <2> QED
    BY <1>0, <2>5, <2>6 DEF LevelOf
<1>2. CASE StoreLed(c) \/ StoreP(c) \/ StoreN(c)
  <2>1. PICK to \in {"P", "N", "final", "loop"} :
          /\ pc[c] \in Regs /\ pc' = [pc EXCEPT ![c] = to]
          /\ to = "final" => phase[c] # "last" /\ call[c].lights = <<>>
          /\ disturbed' = [d \in Clients |-> disturbed[d] \/ (d # c /\ pc[d] # "idle")]
          /\ UNCHANGED <<phase, call, next, level, left, lit>>
    BY <1>2 DEF StoreLed, StoreP, StoreN, Regs
  <2>2. disturbed' \in [Clients -> BOOLEAN] /\ level' \in [Clients -> Nat]
    BY <1>0, <2>1
  <2>3. to = "final" => next[c] = n + 1
    BY <1>0, <1>a, <2>1 DEF ControlOf
  <2>4. pc'[c] = to
    BY <1>0, <2>1 DEF TypeInv
  <2> QED
    BY <1>0, <2>1, <2>2, <2>3, <2>4 DEF LevelOf
<1>3. CASE Wait(c) \/ FinalWait(c)
  <2>a. PICK t \in {Light(c)[2], TotalTime(c)}, to \in {"wait", "final"} :
          WaitUntil(c, t, to) /\ (to = "final" => ~LightsLeft(c))
    BY <1>3 DEF Wait, FinalWait
  <2>1. /\ to = "final" => ~LightsLeft(c)
        /\ pc[c] = "loop" /\ pc' = [pc EXCEPT ![c] = to]
        /\ curTime' = [curTime EXCEPT ![c] = t]
        /\ left' = [left EXCEPT ![c] = IF t - curTime[c] > 0 THEN t - curTime[c] ELSE 0]
        /\ UNCHANGED <<phase, call, next, level, lit, disturbed>>
    BY <2>a DEF WaitUntil
  <2>2. pc'[c] = to /\ left'[c] = IF t - curTime[c] > 0 THEN t - curTime[c] ELSE 0
    BY <1>0, <2>1 DEF TypeInv
  <2>3. left'[c] <= Longest
    <3>1. ClocksOf(c)' /\ TypeInv'
      BY <1>3, ArclStep DEF CallOf, arcl
    <3>2. t \in Nat /\ t <= Longest /\ curTime[c] \in Nat
      BY <1>0, <2>1, <3>1 DEF ClocksOf, TypeInv
    <3> QED
      BY <2>2, <3>2, LongestFacts
  <2>4. to = "final" => next[c] = n + 1
    BY <1>0, <1>a, <2>1 DEF ControlOf, LightsLeft
  <2> QED
    BY <1>0, <2>1, <2>2, <2>3, <2>4 DEF LevelOf
<1>4. CASE Drop(c)
  <2>1. /\ pc[c] = "wait" /\ next[c] \in 1 .. n
        /\ pc' = [pc EXCEPT ![c] = "led"] /\ phase' = [phase EXCEPT ![c] = "drop"]
        /\ next' = [next EXCEPT ![c] = next[c] + 1]
        /\ level' = [level EXCEPT ![c] = level[c] - call[c].lights[next[c]][1]]
        /\ UNCHANGED <<call, left, lit, disturbed>>
    BY <1>0, <1>a, <1>4 DEF Drop, Light, ControlOf
  <2>2. phase[c] \in {"first", "drop"}
    BY <1>0, <2>1 DEF ControlOf, TypeInv, Writing, Regs
  <2>3. /\ level[c] = DueLevel(call[c], next[c])
        /\ level[c] - call[c].lights[next[c]][1] = DueLevel(call[c], next[c] + 1)
        /\ DueLevel(call[c], next[c] + 1) \in Nat
    <3>1. next[c] + 1 \in 1 .. n + 1
      BY <1>a, <2>1
    <3>2. level[c] = DueLevel(call[c], next[c])
      BY <1>0, <2>2 DEF LevelOf
    <3>3. /\ DueLevel(call[c], next[c] + 1) \in Nat /\ call[c].lights[next[c]][1] \in Nat
          /\ DueLevel(call[c], next[c])
               = DueLevel(call[c], next[c] + 1) + call[c].lights[next[c]][1]
      BY <1>a, <2>1, <3>1
    <3> QED
      BY <3>2, <3>3
  <2>4. level' \in [Clients -> Nat]
    BY <1>0, <2>1, <2>3
  <2>5. /\ pc'[c] = "led" /\ phase'[c] = "drop" /\ next'[c] = next[c] + 1
        /\ level'[c] = DueLevel(call[c], next[c] + 1)
    BY <1>0, <2>1, <2>3 DEF TypeInv
  <2>6. next[c] + 1 > 1
    BY <2>1
  <2> QED
    BY <1>0, <2>1, <2>4, <2>5, <2>6 DEF LevelOf
<1>5. CASE LastLevel(c)
  <2>1. /\ pc[c] = "final" /\ pc' = [pc EXCEPT ![c] = "led"]
        /\ phase' = [phase EXCEPT ![c] = "last"] /\ level' = [level EXCEPT ![c] = 0]
        /\ UNCHANGED <<call, next, left, lit, disturbed>>
    BY <1>5 DEF LastLevel
  <2>2. pc'[c] = "led" /\ phase'[c] = "last" /\ level'[c] = 0 /\ level' \in [Clients -> Nat]
    BY <1>0, <2>1 DEF TypeInv
  <2> QED
    BY <1>0, <2>1, <2>2 DEF LevelOf
<1>6. CASE Finish(c)
  <2>1. /\ pc' = [pc EXCEPT ![c] = "idle"] /\ phase' = [phase EXCEPT ![c] = "none"]
        /\ level' = [level EXCEPT ![c] = 0] /\ lit' = [lit EXCEPT ![c] = 0] /\ UNCHANGED left
        /\ disturbed' = [d \in Clients |-> disturbed[d] \/ (d # c /\ pc[d] # "idle")]
    BY <1>6 DEF Finish
  <2>2. /\ pc'[c] = "idle" /\ phase'[c] = "none" /\ level'[c] = 0 /\ lit'[c] = 0
        /\ level' \in [Clients -> Nat] /\ disturbed' \in [Clients -> BOOLEAN]
    BY <1>0, <2>1 DEF TypeInv
  <2> QED
    BY <1>0, <2>1, <2>2, LongestFacts DEF LevelOf
<1> QED
  BY <1>1, <1>2, <1>3, <1>4, <1>5, <1>6 DEF arcl

LEMMA LevelStep ==
  ASSUME ClockInv, LevelInv, [Next]_vars
  PROVE  LevelInv'
<1>0. /\ TypeInv /\ level \in [Clients -> Nat] /\ disturbed \in [Clients -> BOOLEAN]
      /\ \A c \in Clients : LevelOf(c)
  BY DEF ClockInv, LevelInv
<1>1. ASSUME NEW c \in Clients, arcl(c) PROVE LevelInv'
  <2>1. /\ level' \in [Clients -> Nat] /\ disturbed' \in [Clients -> BOOLEAN]
        /\ LevelOf(c)'
    BY <1>1, LevelArcl
  <2>2. ASSUME NEW d \in Clients, d # c PROVE LevelOf(d)'
    <3>1. /\ pc'[d] = pc[d] /\ phase'[d] = phase[d] /\ call'[d] = call[d] /\ next'[d] = next[d]
          /\ level'[d] = level[d] /\ left'[d] = left[d] /\ lit'[d] = lit[d]
      BY <1>0, <1>1, <2>2 DEF arcl, Start, StoreLed, StoreP, StoreN, Wait, Drop, FinalWait,
        LastLevel, Finish, Store, WaitUntil, Go, Set, TypeInv, locals, history
    <3> QED
      BY <1>0, <3>1, LevelUntouched
  <2> QED
    BY <2>1, <2>2 DEF LevelInv
<1>2. ASSUME NEW c \in Clients, Abort(c) PROVE LevelInv'
  <2>1. PICK to \in {"idle", "abortN"} :
          /\ pc' = [pc EXCEPT ![c] = to]
          /\ disturbed' = [d \in Clients |-> disturbed[d] \/ (d # c /\ pc[d] # "idle")]
          /\ UNCHANGED <<phase, call, next, level, left, lit>>
    BY <1>2 DEF Abort, AbortStore, Disturb, Go, locals
  <2>2. level' \in [Clients -> Nat] /\ disturbed' \in [Clients -> BOOLEAN]
    BY <1>0, <2>1
  <2>3. \A d \in Clients : pc'[d] # "final" \/ pc'[d] = pc[d]
    BY <1>0, <2>1 DEF TypeInv
  <2>4. \A d \in Clients : LevelOf(d)'
    BY <1>0, <2>1, <2>3 DEF LevelOf
  <2> QED
    BY <2>2, <2>4 DEF LevelInv
<1>3. CASE Tick
  <2>1. UNCHANGED <<pc, phase, call, next, level, disturbed>>
    BY <1>3 DEF Tick, locals
  <2>2. ASSUME NEW c \in Clients PROVE LevelOf(c)'
    <3>1. /\ left[c] \in Nat /\ lit[c] \in Nat
          /\ left'[c] = IF left[c] > 0 THEN left[c] - 1 ELSE 0
          /\ lit'[c] = IF LightsOn(c) /\ lit[c] < Longest THEN lit[c] + 1 ELSE lit[c]
      BY <1>0, <1>3 DEF Tick, TypeInv
    <3>2. left'[c] <= Longest /\ lit'[c] <= Longest
      BY <1>0, <3>1, LongestFacts DEF LevelOf
    <3> QED
      BY <1>0, <2>1, <3>2 DEF LevelOf
  <2> QED
    BY <1>0, <2>1, <2>2 DEF LevelInv
<1>4. CASE UNCHANGED vars
  BY <1>0, <1>4, LevelUntouched DEF vars, locals, history, LevelInv
<1> QED
  BY <1>1, <1>2, <1>3, <1>4 DEF Next

-----------------------------------------------------------------------------
(***************************************************************************)
(* Registers show what was written last.  First what all stores of arcl    *)
(* have in common.                                                         *)
(***************************************************************************)
Successors == [led |-> {"P"}, P |-> {"N"}, N |-> {"loop", "final", "idle"}]

Stored(c, r, to) ==
  /\ pc[c] = r /\ pc' = [pc EXCEPT ![c] = to] /\ to \in Successors[r]
  /\ reg' = [reg EXCEPT ![r] = Part(r, level[c])]
  /\ disturbed' = [d \in Clients |-> disturbed[d] \/ (d # c /\ pc[d] # "idle")]
  /\ IF to = "idle" THEN phase[c] = "last" /\ phase'[c] = "none"
     ELSE UNCHANGED <<phase, call, next, level>>
  /\ \A d \in Clients \ {c} : /\ pc'[d] = pc[d] /\ phase'[d] = phase[d] /\ call'[d] = call[d]
                              /\ next'[d] = next[d] /\ level'[d] = level[d]

LEMMA Stores ==
  ASSUME TypeInv, NEW c \in Clients, DOMAIN level = Clients,
         StoreLed(c) \/ StoreP(c) \/ StoreN(c) \/ Finish(c)
  PROVE  \E r \in Regs, to \in {"P", "N", "loop", "final", "idle"} : Stored(c, r, to)
<1> USE DEF Store, Go, Set, Disturb, locals, Successors, Regs
<1>1. CASE StoreLed(c)
  <2>1. Stored(c, "led", "P")
    BY <1>1 DEF StoreLed, Stored, TypeInv
  <2> QED
    BY <2>1
<1>2. CASE StoreP(c)
  <2>1. Stored(c, "P", "N")
    BY <1>2 DEF StoreP, Stored, TypeInv
  <2> QED
    BY <2>1
<1>3. CASE StoreN(c)
  <2>1. Stored(c, "N", IF call[c].lights = <<>> THEN "final" ELSE "loop")
    BY <1>3 DEF StoreN, Stored, TypeInv
  <2> QED
    BY <2>1
<1>4. CASE Finish(c)
  <2>1. Stored(c, "N", "idle")
    BY <1>4 DEF Finish, Stored, TypeInv
  <2> QED
    BY <2>1
<1> QED
  BY <1>1, <1>2, <1>3, <1>4

\* The steps of arcl between its stores: what a client wrote is what it has written.
LEMMA Between ==
  ASSUME ClockInv, LevelInv, NEW c \in Clients, NEW d \in Clients, NEW r \in Regs,
         Start(c) \/ Wait(c) \/ FinalWait(c) \/ Drop(c) \/ LastLevel(c),
         Wrote(d, r)
  PROVE  Wrote(d, r)' /\ Shown(d, r)' = Shown(d, r)
<1> USE DEF Go, Set, locals, history, Wrote, Shown, Pending, InProgress, Regs
<1>0. /\ TypeInv /\ ControlOf(c) /\ LevelOf(c) /\ level \in [Clients -> Nat]
      /\ call[c] \in Calls /\ next[c] \in Nat
  BY DEF ClockInv, CallOf, LevelInv, TypeInv
<1>1. CASE d # c
  <2>1. /\ pc'[d] = pc[d] /\ phase'[d] = phase[d] /\ call'[d] = call[d]
        /\ next'[d] = next[d] /\ level'[d] = level[d]
    BY <1>0, <1>1 DEF Start, Wait, FinalWait, WaitUntil, Drop, LastLevel, TypeInv
  <2> QED
    BY <2>1
<1>2. CASE d = c /\ Start(c)
  BY <1>0, <1>2 DEF Start, ControlOf
<1>3. CASE d = c /\ (Wait(c) \/ FinalWait(c))
  <2>1. /\ pc[c] = "loop" /\ pc'[c] \in {"wait", "final"}
        /\ UNCHANGED <<phase, call, next, level>>
    BY <1>0, <1>3 DEF Wait, FinalWait, WaitUntil, TypeInv
  <2> QED
    BY <1>3, <2>1
<1>4. CASE d = c /\ Drop(c)
  <2>1. /\ pc[c] = "wait" /\ pc'[c] = "led" /\ phase'[c] = "drop"
        /\ next'[c] = next[c] + 1 /\ call' = call
    BY <1>0, <1>4 DEF Drop, TypeInv
  <2>2. phase[c] \in {"first", "drop"}
    BY <1>0, <2>1 DEF ControlOf, TypeInv, Writing
  <2>3. Shown(c, r) = DueLevel(call[c], next[c])
    BY <1>0, <2>1, <2>2 DEF LevelOf
  <2>4. Shown(c, r)' = DueLevel(call[c], (next[c] + 1) - 1) /\ (next[c] + 1) - 1 = next[c]
    BY <1>0, <2>1 DEF DueLevel
  <2>5. Wrote(c, r)'
    BY <2>1
  <2> HIDE DEF Shown, Wrote
  <2> QED
    BY <1>4, <2>3, <2>4, <2>5
<1>5. CASE d = c /\ LastLevel(c)
  <2>1. /\ pc[c] = "final" /\ pc'[c] = "led" /\ phase'[c] = "last"
        /\ UNCHANGED <<call, next>>
    BY <1>0, <1>5 DEF LastLevel, TypeInv
  <2>2. phase[c] \in {"first", "drop"}
    BY <1>0, <2>1 DEF ControlOf, TypeInv, Writing
  <2>3. Shown(c, r) = call[c].cameras
    BY <1>0, <2>1, <2>2, LevelFacts DEF LevelOf
  <2>4. Shown(c, r)' = call[c].cameras /\ Wrote(c, r)'
    BY <2>1
  <2> HIDE DEF Shown, Wrote
  <2> QED
    BY <1>5, <2>3, <2>4
<1> QED
  BY <1>1, <1>2, <1>3, <1>4, <1>5

LEMMA WriterStep ==
  ASSUME ClockInv, DarkInv, LevelInv, WriterInv, [Next]_vars
  PROVE  WriterInv'
<1>0. /\ TypeInv /\ \A c \in Clients : ControlOf(c) /\ LevelOf(c)
      /\ level \in [Clients -> Nat] /\ DOMAIN reg = Regs
  BY DEF ClockInv, CallOf, LevelInv, DarkInv, TypeInv
<1>1. ASSUME NEW c \in Clients, Start(c) \/ Wait(c) \/ FinalWait(c) \/ Drop(c) \/ LastLevel(c)
      PROVE WriterInv'
  <2>1. reg' = reg
    BY <1>1 DEF Start, Wait, FinalWait, WaitUntil, Drop, LastLevel
  <2>2. ASSUME NEW r \in Regs, NEW d \in Clients, Wrote(d, r), reg[r] = Part(r, Shown(d, r))
        PROVE  Wrote(d, r)' /\ reg'[r] = Part(r, Shown(d, r)')
    BY <1>1, <2>1, <2>2, Between
  <2>3. ASSUME NEW r \in Regs
        PROVE  reg'[r] = 0 \/ \E d \in Clients : Wrote(d, r)' /\ reg'[r] = Part(r, Shown(d, r)')
    BY <2>1, <2>2 DEF WriterInv
  <2> QED
    BY <2>3 DEF WriterInv, Part
<1>2. ASSUME NEW c \in Clients, StoreLed(c) \/ StoreP(c) \/ StoreN(c) \/ Finish(c)
      PROVE WriterInv'
  <2>1. PICK r \in Regs, to \in {"P", "N", "loop", "final", "idle"} : Stored(c, r, to)
    BY <1>0, <1>2, Stores
  <2>2. /\ pc[c] = r /\ pc'[c] = to /\ to \in Successors[r] /\ phase[c] # "none"
        /\ reg'[r] = Part(r, level[c]) /\ \A q \in Regs \ {r} : reg'[q] = reg[q]
    BY <1>0, <2>1 DEF Stored, ControlOf, TypeInv, Regs
  <2>3. ASSUME NEW q \in Regs, NEW d \in Clients, d # c, Wrote(d, q)
        PROVE  Wrote(d, q)' /\ Shown(d, q)' = Shown(d, q)
    BY <2>1, <2>3 DEF Stored, Wrote, Shown, Pending, InProgress
  <2>4. ASSUME NEW q \in Regs, q # r, to # "idle", Wrote(c, q)
        PROVE  Wrote(c, q)' /\ Shown(c, q)' = Shown(c, q)
    <3>1. Pending(c, q)' <=> Pending(c, q)
      BY <2>2, <2>4 DEF Pending, Successors, Regs
    <3>2. UNCHANGED <<phase, call, next, level>>
      BY <2>1, <2>4 DEF Stored
    <3> QED
      BY <2>4, <3>1, <3>2 DEF Wrote, Shown, InProgress, DueLevel
  <2>5. CASE to # "idle"
    <3>1. Wrote(c, r)' /\ reg'[r] = Part(r, Shown(c, r)')
      <4>1. ~Pending(c, r)'
        BY <2>2 DEF Pending, Successors, Regs
      <4>2. UNCHANGED <<phase, level>>
        BY <2>1, <2>5 DEF Stored
      <4> QED
        BY <2>2, <4>1, <4>2 DEF Wrote, Shown, InProgress
    <3>2. ASSUME NEW q \in Regs
          PROVE  reg'[q] = 0 \/ \E d \in Clients : Wrote(d, q)' /\ reg'[q] = Part(q, Shown(d, q)')
      <4>1. CASE q = r
        BY <3>1, <4>1
      <4>2. CASE q # r
        BY <2>2, <2>3, <2>4, <2>5, <4>2 DEF WriterInv
      <4> QED
        BY <4>1, <4>2
    <3> QED
      BY <3>2 DEF WriterInv, Part
  <2>6. CASE to = "idle"
    <3>1. phase[c] = "last" /\ level[c] = 0 /\ r = "N"
      BY <1>0, <2>1, <2>2, <2>6 DEF Stored, ControlOf, Successors, Regs
    <3>2. reg'[r] = 0
      BY <2>2, <3>1, PartOfZero
    <3>3. ASSUME NEW q \in Regs, q # r PROVE Shown(c, q) = 0
      BY <2>2, <3>1, <3>3 DEF Shown, Pending, Regs
    <3>4. ASSUME NEW q \in Regs
          PROVE  reg'[q] = 0 \/ \E d \in Clients : Wrote(d, q)' /\ reg'[q] = Part(q, Shown(d, q)')
      <4>1. CASE q = r
        BY <3>2, <4>1
      <4>2. CASE q # r
        BY <2>2, <2>3, <3>3, <4>2, PartOfZero DEF WriterInv
      <4> QED
        BY <4>1, <4>2
    <3> QED
      BY <3>4 DEF WriterInv, Part
  <2> QED
    BY <2>5, <2>6
<1>3. ASSUME NEW c \in Clients, Abort(c) PROVE WriterInv'
  <2>1. PICK r \in Regs, to \in {"idle", "abortN"} :
          /\ pc[c] \in {"idle", "abortN"} /\ pc' = [pc EXCEPT ![c] = to]
          /\ reg' = [reg EXCEPT ![r] = 0] /\ UNCHANGED <<phase, call, next, level>>
    BY <1>3 DEF Abort, AbortStore, Go, locals, Regs
  <2>2. ASSUME NEW q \in Regs, NEW d \in Clients, Wrote(d, q)
        PROVE  Wrote(d, q)' /\ Shown(d, q)' = Shown(d, q)
    <3>1. phase[d] # "none"
      BY <2>2 DEF Wrote, InProgress
    <3>2. d # c
      BY <1>0, <2>1, <3>1 DEF ControlOf
    <3>3. pc'[d] = pc[d]
      BY <2>1, <3>2
    <3> QED
      BY <2>1, <2>2, <3>3 DEF Wrote, Shown, Pending, InProgress, DueLevel
  <2>3. ASSUME NEW q \in Regs PROVE reg'[q] \in {0, reg[q]}
    BY <1>0, <2>1
  <2>4. ASSUME NEW q \in Regs
        PROVE  reg'[q] = 0 \/ \E d \in Clients : Wrote(d, q)' /\ reg'[q] = Part(q, Shown(d, q)')
    BY <2>2, <2>3 DEF WriterInv
  <2> QED
    BY <2>4 DEF WriterInv, Part
<1>4. CASE Tick \/ UNCHANGED vars
  <2>1. UNCHANGED <<pc, phase, call, next, level, reg>>
    BY <1>4 DEF Tick, vars, locals
  <2> QED
    BY <2>1 DEF WriterInv, Wrote, Shown, Pending, InProgress, DueLevel
<1> QED
  BY <1>1, <1>2, <1>3, <1>4 DEF Next, arcl

LEMMA OwnStep ==
  ASSUME ClockInv, DarkInv, LevelInv, OwnInv, [Next]_vars
  PROVE  OwnInv'
<1>0. /\ TypeInv /\ \A c \in Clients : ControlOf(c)
      /\ level \in [Clients -> Nat] /\ DOMAIN reg = Regs
      /\ disturbed \in [Clients -> BOOLEAN]
  BY DEF ClockInv, CallOf, LevelInv, DarkInv, TypeInv
<1>1. ASSUME NEW c \in Clients, Start(c) \/ Wait(c) \/ FinalWait(c) \/ Drop(c) \/ LastLevel(c)
      PROVE OwnInv'
  <2>1. ASSUME NEW d \in Clients, d # c
        PROVE  /\ pc'[d] = pc[d] /\ phase'[d] = phase[d] /\ level'[d] = level[d]
               /\ disturbed'[d] = disturbed[d] /\ reg' = reg
    BY <1>0, <1>1, <2>1 DEF Start, Wait, FinalWait, WaitUntil, Drop, LastLevel, TypeInv, Go, Set,
      history
  <2>2. CASE Wait(c) \/ FinalWait(c)
    <3>1. /\ pc[c] = "loop" /\ pc'[c] \in {"wait", "final"}
          /\ UNCHANGED <<phase, level, reg, disturbed>>
      BY <1>0, <2>2 DEF Wait, FinalWait, WaitUntil, TypeInv, Go
    <3> QED
      BY <2>1, <3>1 DEF OwnInv, InProgress, Pending
  <2>3. CASE Start(c) \/ Drop(c) \/ LastLevel(c)
    <3>1. pc'[c] = "led"
      BY <1>0, <2>3 DEF Start, Drop, LastLevel, TypeInv, Go
    <3> QED
      BY <2>1, <3>1 DEF OwnInv, InProgress, Pending
  <2> QED
    BY <1>1, <2>2, <2>3
<1>2. ASSUME NEW c \in Clients, StoreLed(c) \/ StoreP(c) \/ StoreN(c) \/ Finish(c)
      PROVE OwnInv'
  <2>1. PICK r \in Regs, to \in {"P", "N", "loop", "final", "idle"} : Stored(c, r, to)
    BY <1>0, <1>2, Stores
  <2>2. /\ pc[c] = r /\ pc'[c] = to /\ to \in Successors[r]
        /\ reg'[r] = Part(r, level[c]) /\ \A q \in Regs \ {r} : reg'[q] = reg[q]
    BY <1>0, <2>1 DEF Stored, TypeInv
  <2>3. ASSUME NEW d \in Clients, d # c, InProgress(d)' PROVE disturbed'[d]
    BY <1>0, <2>1, <2>3 DEF Stored, ControlOf, InProgress
  <2>4. ASSUME InProgress(c)', ~disturbed'[c], NEW q \in Regs, ~Pending(c, q)'
        PROVE  reg'[q] = Part(q, level'[c])
    <3>1. to # "idle" /\ UNCHANGED <<phase, level>> /\ ~disturbed[c]
      BY <2>1, <2>4 DEF Stored, InProgress
    <3>2. CASE q = r
      BY <2>2, <3>1, <3>2
    <3>3. CASE q # r
      <4>1. ~Pending(c, q)
        BY <2>2, <2>4, <3>3 DEF Pending, Successors, Regs
      <4>2. InProgress(c)
        BY <2>4, <3>1 DEF InProgress
      <4> QED
        BY <2>2, <3>1, <3>3, <4>1, <4>2 DEF OwnInv
    <3> QED
      BY <3>2, <3>3
  <2>5. ASSUME NEW d \in Clients, InProgress(d)', ~disturbed'[d], NEW q \in Regs, ~Pending(d, q)'
        PROVE  reg'[q] = Part(q, level'[d])
    BY <2>3, <2>4, <2>5
  <2> QED
    BY <2>5 DEF OwnInv, Part
<1>3. ASSUME NEW c \in Clients, Abort(c) PROVE OwnInv'
  <2>1. PICK to \in {"idle", "abortN"} :
          /\ pc[c] \in {"idle", "abortN"} /\ pc' = [pc EXCEPT ![c] = to]
          /\ disturbed' = [d \in Clients |-> disturbed[d] \/ (d # c /\ pc[d] # "idle")]
          /\ UNCHANGED phase
    BY <1>3 DEF Abort, AbortStore, Go, Disturb
  <2>2. ASSUME NEW d \in Clients, InProgress(d)' PROVE disturbed'[d]
    <3>1. phase[d] # "none"
      BY <2>1, <2>2 DEF InProgress
    <3>2. d # c /\ pc[d] # "idle"
      BY <1>0, <2>1, <3>1 DEF ControlOf
    <3> QED
      BY <2>1, <3>2
  <2> QED
    BY <2>2 DEF OwnInv
<1>4. CASE Tick \/ UNCHANGED vars
  BY <1>4 DEF OwnInv, InProgress, Pending, Part, Tick, vars, locals, history
<1> QED
  BY <1>1, <1>2, <1>3, <1>4 DEF Next, arcl

-----------------------------------------------------------------------------
LEMMA LightInit == Init => LightInv
<1>1. Init => WriterInv /\ OwnInv
  BY DEF Init, WriterInv, OwnInv, InProgress, Dark
<1> QED
  BY <1>1, LevelInit DEF LightInv

LEMMA LightStep == ClockInv /\ DarkInv /\ LightInv /\ [Next]_vars => LightInv'
BY LevelStep, WriterStep, OwnStep DEF LightInv

\* What was written last shows the lines that it stands for.
LEMMA ShownBits ==
  ASSUME ClockInv, LevelInv, NEW c \in Clients, NEW r \in Regs, Wrote(c, r)
  PROVE  /\ Shown(c, r) \in Nat
         /\ Disjoint(call[c]) =>
              Bits(Shown(c, r)) = IF Pending(c, r) THEN DueBefore(c) ELSE DueNow(c)
<1> DEFINE k == call[c]
           n == Len(k.lights)
<1>0. /\ k \in Calls /\ k.cameras \in Nat /\ ControlOf(c) /\ LevelOf(c) /\ next[c] \in Nat
      /\ phase[c] \in {"first", "drop", "last"} /\ level[c] \in Nat
  BY DEF ClockInv, TypeInv, CallOf, LevelInv, Wrote, InProgress, Calls
<1>1. n \in Nat /\ next[c] \in 1 .. n + 1
  BY <1>0, LevelFacts DEF ControlOf
<1>2. \A i \in 1 .. n + 1 : DueLevel(k, i) \in Nat
  BY <1>0, LevelFacts
<1>3. ASSUME Disjoint(k), NEW i \in 1 .. n + 1 PROVE Bits(DueLevel(k, i)) = DueFrom(c, i)
  BY <1>0, <1>3, LevelIsLines DEF LinesFrom, DueFrom
<1>4. CASE ~Pending(c, r)
  <2>1. Shown(c, r) = level[c]
    BY <1>4 DEF Shown
  <2>2. CASE phase[c] = "last"
    BY <1>0, <1>4, <2>1, <2>2, ZeroBits DEF LevelOf, DueNow
  <2>3. CASE phase[c] # "last"
    <3>1. level[c] = DueLevel(k, next[c])
      BY <1>0, <2>3 DEF LevelOf
    <3>2. DueNow(c) = DueFrom(c, next[c])
      BY <1>0, <2>3 DEF DueNow
    <3> QED
      BY <1>0, <1>1, <1>3, <1>4, <2>1, <3>1, <3>2
  <2> QED
    BY <2>2, <2>3
<1>5. CASE Pending(c, r) /\ phase[c] = "drop"
  <2>1. next[c] - 1 \in 1 .. n + 1
    BY <1>0, <1>1, <1>5 DEF LevelOf
  <2>2. Shown(c, r) = DueLevel(k, next[c] - 1) /\ DueBefore(c) = DueFrom(c, next[c] - 1)
    BY <1>5 DEF Shown, DueBefore
  <2> QED
    BY <1>2, <1>3, <1>5, <2>1, <2>2
<1>6. CASE Pending(c, r) /\ phase[c] = "last"
  <2>1. Shown(c, r) = k.cameras /\ DueBefore(c) = Bits(k.cameras)
    BY <1>6 DEF Shown, DueBefore
  <2> QED
    BY <1>0, <1>6, <2>1
<1>7. phase[c] = "first" => ~Pending(c, r)
  BY DEF Wrote
<1> QED
  BY <1>0, <1>4, <1>5, <1>6, <1>7

(***************************************************************************)
(* Type correctness: a level is never negative, however many lights a call *)
(* has, and no register gets more than its PinWidth lines.                 *)
(***************************************************************************)
THEOREM TypeCorrect == Spec => []TypeOK
<1>1. ASSUME ClockInv, DarkInv, LightInv PROVE TypeOK
  <2>1. TypeInv /\ LevelInv /\ \A c \in Clients : CallOf(c) /\ LevelOf(c)
    BY <1>1 DEF ClockInv, LightInv, LevelInv
  <2>2. ASSUME NEW c \in Clients PROVE next[c] \in 1 .. Len(call[c].lights) + 1
    <3>1. next[c] \in Nat /\ Len(call[c].lights) \in Nat
      BY <2>1, LevelFacts DEF TypeInv
    <3> QED
      BY <2>1, <3>1 DEF CallOf, ControlOf
  <2>3. ASSUME NEW c \in Clients PROVE curTime[c] \in Times
    <3>1. CASE Awaited(c) = 0
      BY <2>1, <3>1, LongestFacts DEF CallOf, ClocksOf
    <3>2. CASE Awaited(c) # 0
      <4>1. call[c] \in Calls /\ call[c].lights \in Seq(Nat \X Times)
        BY <2>1 DEF TypeInv, Calls
      <4>2. Awaited(c) \in 1 .. Len(call[c].lights)
        <5>1. Len(call[c].lights) \in Nat
          BY <4>1
        <5> QED
          BY <2>1, <2>2, <3>2, <5>1 DEF CallOf, ControlOf, Awaited
      <4>3. call[c].lights[Awaited(c)] \in Nat \X Times
        BY <4>1, <4>2
      <4>4. curTime[c] = call[c].lights[Awaited(c)][2]
        BY <2>1, <3>2 DEF CallOf, ClocksOf
      <4> QED
        BY <4>3, <4>4
    <3> QED
      BY <3>1, <3>2
  <2>4. curTime \in [Clients -> Times]
    BY <2>1, <2>3 DEF TypeInv
  <2>5. left \in [Clients -> 0 .. Longest] /\ lit \in [Clients -> 0 .. Longest]
    <3>1. \A c \in Clients : left[c] \in 0 .. Longest /\ lit[c] \in 0 .. Longest
      BY <2>1, LongestFacts DEF TypeInv, LevelOf
    <3> QED
      BY <2>1, <3>1 DEF TypeInv
  <2>6. ASSUME NEW r \in Regs PROVE reg[r] \in 0 .. PinRange - 1
    <3>1. CASE reg[r] = 0
      BY <3>1, ExposureAssumption
    <3>2. CASE reg[r] # 0
      <4>1. PICK c \in Clients : Wrote(c, r) /\ reg[r] = Part(r, Shown(c, r))
        BY <1>1, <3>2 DEF LightInv, WriterInv
      <4>2. Shown(c, r) \in Nat
        BY <1>1, <2>1, <4>1, ShownBits
      <4> QED
        BY <4>1, <4>2, RegisterBits
    <3> QED
      BY <3>1, <3>2
  <2>7. reg \in [Regs -> 0 .. PinRange - 1]
    BY <1>1, <2>6 DEF DarkInv
  <2> QED
    BY <2>1, <2>2, <2>4, <2>5, <2>7 DEF TypeInv, LevelInv, TypeOK
<1> QED
  BY ClockInit, ClockStep, DarkInit, DarkStep, LightInit, LightStep, <1>1, PTL DEF Spec

(***************************************************************************)
(* A line that is on is due in some call in progress, whatever calls and   *)
(* Aborts overlap, and however many (server.py:142-146, 160-187).          *)
(***************************************************************************)
THEOREM NoLightComesBack == Spec => []LitMeansDue
<1>1. ASSUME ClockInv, LightInv PROVE LitMeansDue
  <2> SUFFICES ASSUME \A c \in Clients : Disjoint(call[c]),
                      NEW r \in Regs, NEW b \in BitsOf(r)
               PROVE  \E c \in Clients : b \in IF Pending(c, r) THEN DueBefore(c) ELSE DueNow(c)
    BY DEF LitMeansDue
  <2>1. reg[r] # 0
    BY DarkBits
  <2>2. PICK c \in Clients : Wrote(c, r) /\ reg[r] = Part(r, Shown(c, r))
    BY <1>1, <2>1 DEF LightInv, WriterInv
  <2>3. /\ Shown(c, r) \in Nat
        /\ Bits(Shown(c, r)) = IF Pending(c, r) THEN DueBefore(c) ELSE DueNow(c)
    BY <1>1, <2>2, ShownBits DEF LightInv
  <2>4. b \in Bits(Shown(c, r))
    BY <2>2, <2>3, RegisterBits
  <2> QED
    BY <2>3, <2>4
<1> QED
  BY ClockInit, ClockStep, DarkInit, DarkStep, LightInit, LightStep, <1>1, PTL DEF Spec

LEMMA AloneShows ==
  ASSUME ClockInv, LightInv
  PROVE  UndisturbedShowsDue
<1> SUFFICES ASSUME NEW c \in Clients, InProgress(c), ~disturbed[c], Disjoint(call[c]),
                    NEW r \in Regs, ~Pending(c, r)
             PROVE  BitsOf(r) = DueNow(c) \cap BitsFor(r)
  BY DEF UndisturbedShowsDue
<1>1. reg[r] = Part(r, level[c]) /\ level[c] \in Nat
  BY DEF LightInv, OwnInv, LevelInv
<1>2. BitsOf(r) = Bits(level[c]) \cap BitsFor(r)
  BY <1>1, RegisterBits
<1>3. Wrote(c, r) /\ Shown(c, r) = level[c]
  BY DEF Wrote, Shown
<1>4. Bits(level[c]) = DueNow(c)
  BY <1>3, ShownBits DEF LightInv
<1> QED
  BY <1>2, <1>4

(***************************************************************************)
(* A call that no other thread disturbs shows all that is due, and no      *)
(* other line, for any cameras and lights (server.py:162-163).             *)
(***************************************************************************)
THEOREM AloneShowsDue == Spec => []UndisturbedShowsDue
BY ClockInit, ClockStep, DarkInit, DarkStep, LightInit, LightStep, AloneShows, PTL DEF Spec
-----------------------------------------------------------------------------
(***************************************************************************)
(* How long the lights are on.  While a call that nobody disturbs waits,   *)
(* the pins show every light that is still to be taken out.  So the time   *)
(* they have been on, with what is left of the wait, is at least the time  *)
(* asked for.                                                              *)
(***************************************************************************)
LEMMA WaitingLightsOn ==
  ASSUME ClockInv, LightInv, NEW c \in Clients,
         ~disturbed[c], Disjoint(call[c]), pc[c] \in {"wait", "final"}
  PROVE  LightsOn(c)
<1>1. InProgress(c) /\ phase[c] # "last" /\ \A r \in Regs : ~Pending(c, r)
  BY DEF ClockInv, CallOf, ControlOf, InProgress, Pending, Writing, Regs
<1>2. \A r \in Regs : BitsOf(r) = DueNow(c) \cap BitsFor(r)
  BY <1>1, AloneShows DEF UndisturbedShowsDue
<1>3. BitsOf("P") \cup BitsOf("N") = DueNow(c) \cap (BitsFor("P") \cup BitsFor("N"))
  BY <1>2 DEF Regs
<1>4. BitsFor("P") \cup BitsFor("N") = 0 .. 2 * PinWidth - 1
  BY ExposureAssumption DEF BitsFor
<1>5. DueNow(c) = DueFrom(c, next[c])
  BY <1>1 DEF DueNow, InProgress
<1>6. ASSUME NEW i \in next[c] .. Len(call[c].lights)
      PROVE  Bits(call[c].lights[i][1]) \subseteq DueNow(c) \cap (0 .. 2 * PinWidth - 1)
  <2>1. Bits(call[c].lights[i][1]) \subseteq 0 .. 2 * PinWidth - 1
    BY DEF Bits
  <2>2. Bits(call[c].lights[i][1]) \subseteq DueFrom(c, next[c])
    BY DEF DueFrom
  <2> QED
    BY <1>5, <2>1, <2>2
<1> QED
  BY <1>1, <1>3, <1>4, <1>6 DEF LightsOn

LitOf(c) ==
  ~disturbed[c] /\ Disjoint(call[c]) =>
    /\ lit[c] + left[c] >= curTime[c]
    /\ \A i \in Gone(c) : lit[c] >= call[c].lights[i][2]
LitInv == \A c \in Clients : LitOf(c)

LEMMA LitInit == Init => LitInv
BY DEF Init, LitInv, LitOf, Gone

LEMMA LitUntouched ==
  ASSUME NEW d \in Clients, LitOf(d), call'[d] = call[d], next'[d] = next[d],
         curTime'[d] = curTime[d], left'[d] = left[d], lit'[d] = lit[d],
         ~disturbed'[d] => ~disturbed[d]
  PROVE  LitOf(d)'
BY DEF LitOf, Gone, Disjoint

LEMMA LitStep ==
  ASSUME ClockInv, LightInv, LitInv, [Next]_vars
  PROVE  LitInv'
<1> USE DEF Go, Set, locals, history
<1>0. /\ TypeInv /\ \A c \in Clients : LitOf(c) /\ ControlOf(c) /\ ClocksOf(c)
      /\ \A c \in Clients : /\ call[c] \in Calls /\ next[c] \in Nat /\ curTime[c] \in Nat
                            /\ left[c] \in Nat /\ lit[c] \in Nat
  BY DEF ClockInv, CallOf, LitInv, TypeInv
<1>1. ASSUME NEW c \in Clients, arcl(c), NEW d \in Clients, d # c
      PROVE  LitOf(d)'
  <2>1. /\ call'[d] = call[d] /\ next'[d] = next[d] /\ curTime'[d] = curTime[d]
        /\ left'[d] = left[d] /\ lit'[d] = lit[d]
        /\ ~disturbed'[d] => ~disturbed[d]
    BY <1>0, <1>1 DEF arcl, Start, StoreLed, StoreP, StoreN, Wait, Drop, FinalWait, LastLevel,
      Finish, Store, Disturb, WaitUntil, TypeInv
  <2> QED
    BY <1>0, <2>1, LitUntouched
<1>2. ASSUME NEW c \in Clients, Start(c) \/ Finish(c)
      PROVE  LitOf(c)'
  <2>1. next'[c] = 1 /\ curTime'[c] = 0 /\ lit'[c] = 0 /\ left'[c] = 0
    BY <1>0, <1>2 DEF Start, Finish, Store, TypeInv, ControlOf
  <2> QED
    BY <2>1 DEF LitOf, Gone
<1>3. ASSUME NEW c \in Clients, StoreLed(c) \/ StoreP(c) \/ StoreN(c) \/ LastLevel(c)
      PROVE  LitOf(c)'
  <2>1. /\ call'[c] = call[c] /\ next'[c] = next[c] /\ curTime'[c] = curTime[c]
        /\ left'[c] = left[c] /\ lit'[c] = lit[c]
        /\ ~disturbed'[c] => ~disturbed[c]
    BY <1>0, <1>3 DEF StoreLed, StoreP, StoreN, LastLevel, Store, Disturb, TypeInv
  <2> QED
    BY <1>0, <2>1, LitUntouched
<1>4. ASSUME NEW c \in Clients, Wait(c) \/ FinalWait(c)
      PROVE  LitOf(c)'
  <2>1. PICK t \in Int, to \in {"wait", "final"} : WaitUntil(c, t, to)
    <3>1. Wait(c) => Light(c)[2] \in Int
      BY <1>0, LightFacts DEF Wait, LightsLeft, Light, ControlOf
    <3>2. FinalWait(c) => TotalTime(c) \in Int
      <4>1. ASSUME FinalWait(c) PROVE Len(call[c].lights) \in 1 .. Len(call[c].lights)
        BY <1>0, <4>1, LightFacts DEF FinalWait, WaitUntil, ControlOf
      <4> QED
        BY <1>0, <4>1, LightFacts DEF TotalTime, Last
    <3> QED
      BY <1>4, <3>1, <3>2 DEF Wait, FinalWait
  <2>2. /\ call' = call /\ next' = next /\ lit' = lit /\ disturbed' = disturbed
        /\ left[c] = 0 /\ curTime'[c] = t
        /\ left'[c] = IF t - curTime[c] > 0 THEN t - curTime[c] ELSE 0
    BY <1>0, <2>1 DEF WaitUntil, TypeInv, ControlOf
  <2>3. left'[c] >= t - curTime[c] /\ left'[c] \in Int
    BY <1>0, <2>2
  <2>4. lit[c] + left[c] >= curTime[c] => lit[c] + left'[c] >= t
    BY <1>0, <2>2, <2>3
  <2> QED
    BY <1>0, <2>2, <2>4 DEF LitOf, Gone, Disjoint
<1>5. ASSUME NEW c \in Clients, Drop(c)
      PROVE  LitOf(c)'
  <2>1. /\ call' = call /\ lit' = lit /\ disturbed' = disturbed /\ left' = left
        /\ curTime' = curTime /\ next'[c] = next[c] + 1 /\ left[c] = 0 /\ pc[c] = "wait"
    BY <1>0, <1>5 DEF Drop, TypeInv
  <2>2. curTime[c] = call[c].lights[next[c]][2]
    BY <1>0, <2>1 DEF ClocksOf, Awaited, ControlOf
  <2>3. Gone(c)' = Gone(c) \cup {next[c]}
    BY <1>0, <2>1 DEF Gone, ControlOf
  <2>4. lit[c] + left[c] >= curTime[c] => lit[c] >= curTime[c]
    BY <1>0, <2>1
  <2>5. (~disturbed[c] /\ Disjoint(call[c]))' <=> ~disturbed[c] /\ Disjoint(call[c])
    BY <2>1 DEF Disjoint
  <2>6. ASSUME ~disturbed[c], Disjoint(call[c])
        PROVE  /\ lit[c] >= call[c].lights[next[c]][2] /\ lit[c] + left[c] >= curTime[c]
               /\ \A i \in Gone(c) : lit[c] >= call[c].lights[i][2]
    BY <1>0, <2>2, <2>4, <2>6 DEF LitOf
  <2> QED
    BY <2>1, <2>3, <2>5, <2>6 DEF LitOf
<1>6. ASSUME NEW c \in Clients, Abort(c), NEW d \in Clients
      PROVE  LitOf(d)'
  <2>1. /\ call' = call /\ next' = next /\ curTime' = curTime /\ left' = left /\ lit' = lit
        /\ ~disturbed'[d] => ~disturbed[d]
    BY <1>6 DEF Abort, AbortStore, Disturb
  <2> QED
    BY <1>0, <2>1, LitUntouched
<1>7. ASSUME Tick, NEW c \in Clients
      PROVE  LitOf(c)'
  <2>1. /\ UNCHANGED <<call, next, curTime, disturbed>>
        /\ left'[c] = IF left[c] > 0 THEN left[c] - 1 ELSE 0
        /\ lit'[c] = IF LightsOn(c) /\ lit[c] < Longest THEN lit[c] + 1 ELSE lit[c]
    BY <1>7 DEF Tick
  <2>2. lit'[c] >= lit[c] /\ lit'[c] \in Nat
    BY <1>0, <2>1
  <2>3. ASSUME ~disturbed[c], Disjoint(call[c])
        PROVE  lit'[c] + left'[c] >= curTime[c]
    <3>1. lit[c] + left[c] >= curTime[c] /\ curTime[c] <= Longest
      BY <1>0, <2>3 DEF LitOf, ClocksOf
    <3>2. left[c] > 0 => LightsOn(c)
      BY <1>0, <2>3, WaitingLightsOn DEF ControlOf
    <3> QED
      BY <1>0, <2>1, <3>1, <3>2, LongestFacts
  <2>4. \A i \in Gone(c) : call[c].lights[i][2] \in Nat
    BY <1>0, LightFacts DEF Gone, ControlOf
  <2>5. (Gone(c))' = Gone(c) /\ Disjoint(call[c])' = Disjoint(call[c])
    BY <2>1 DEF Gone, Disjoint
  <2>6. ASSUME NEW i \in Gone(c), lit[c] >= call[c].lights[i][2]
        PROVE  lit'[c] >= call[c].lights[i][2]
    BY <1>0, <2>2, <2>4, <2>6
  <2> QED
    BY <1>0, <2>1, <2>3, <2>5, <2>6 DEF LitOf
<1>8. ASSUME UNCHANGED vars, NEW c \in Clients
      PROVE  LitOf(c)'
  BY <1>0, <1>8, LitUntouched DEF vars
<1> QED
  BY <1>1, <1>2, <1>3, <1>4, <1>5, <1>6, <1>7, <1>8 DEF Next, arcl, LitInv

(***************************************************************************)
(* A light has been on for at least its time when it is taken out, in a    *)
(* call that no other thread disturbs, for any times and any lights that   *)
(* are not named twice (server.py:171-177).                                *)
(***************************************************************************)
THEOREM LightsLast == Spec => []OnForItsTime
<1>1. LitInv => OnForItsTime
  BY DEF LitInv, LitOf, OnForItsTime
<1> QED
  BY ClockInit, ClockStep, DarkInit, DarkStep, LightInit, LightStep, LitInit, LitStep, <1>1,
    PTL DEF Spec
=============================================================================
