--------------------------- MODULE RawValueProofs ---------------------------
(***************************************************************************)
(* Address arithmetic, alignment, bits and byte order (src/src/address.rs, *)
(* src/src/endian.rs, src/src/bytes.rs), for raw values of any width and   *)
(* both build modes.                                                       *)
(*                                                                         *)
(* Everything about bits and bytes rests on the digits of a number in some *)
(* base: digit i + 1 of x is digit i of x \div b, a number below the n-th  *)
(* power is determined by its n lowest digits, and there is a number for   *)
(* any n digits.  The inductions are over sets of naturals (NatInduct).    *)
(***************************************************************************)
EXTENDS RawValueAlgebra, SequenceTheorems, WellFoundedInduction, TLAPS

----------------------------------------------------------------------------
(* Naturals                                                                *)

\* A set of naturals that is not empty has a least element.
LEMMA Least ==
  ASSUME NEW T \in SUBSET Nat, T # {}
  PROVE  \E x \in T : \A y \in T : x <= y
<1>1. PICK x \in T : \A y \in T : ~ (<<y, x>> \in OpToRel(<, Nat))
  BY WFMin, NatLessThanWellFounded, Zenon
<1>2. \A y \in T : ~ (y < x)
  BY <1>1, Zenon DEF OpToRel
<1>3. x \in Nat /\ \A y \in T : y \in Nat
  OBVIOUS
<1>4. \A y \in T : x <= y
  BY <1>2, <1>3
<1> QED
  BY <1>4

\* Induction, for a set: there is no least natural outside it.
LEMMA NatInduct ==
  ASSUME NEW S, 0 \in S, \A n \in Nat : n \in S => n + 1 \in S
  PROVE  \A n \in Nat : n \in S
<1> DEFINE Out == {n \in Nat : n \notin S}
<1>1. ASSUME Out # {}
      PROVE  FALSE
  <2>1. PICK x \in Out : \A y \in Out : x <= y
    BY <1>1, Least
  <2>2. x \in Nat /\ x # 0 /\ x \notin S
    OBVIOUS
  <2>3. x - 1 \in Nat /\ x - 1 \notin Out /\ (x - 1) + 1 = x
    BY <2>1, <2>2
  <2> QED
    BY <2>2, <2>3
<1> QED
  BY <1>1

----------------------------------------------------------------------------
(* Division                                                                *)

\* Division with remainder, as overflowing_add, overflowing_sub and the rounding
\* of checked_align_up (address.rs) need it.
LEMMA Remainder ==
  ASSUME NEW x \in Int, NEW p \in Nat \ {0}
  PROVE  x % p \in 0 .. p - 1 /\ x \div p \in Int /\ x = p * (x \div p) + (x % p)
OBVIOUS

\* There is one quotient and one remainder.
LEMMA DivisionUnique ==
  ASSUME NEW s \in Nat \ {0}, NEW r \in 0 .. s - 1, NEW x \in Int, NEW q \in Int, x = s * q + r
  PROVE  x % s = r /\ x \div s = q
<1> DEFINE k == x \div s
           y == x % s
           d == q - k
<1>1. y \in 0 .. s - 1 /\ k \in Int /\ x = s * k + y
  BY Remainder
<1> HIDE DEF k, y
<1>2. d \in Int /\ s * d = y - r
  BY <1>1
<1>3. s * d < s /\ s * d > - s
  BY <1>1, <1>2
<1>4. q = k + d
  BY <1>1
<1> HIDE DEF d
<1>5. d = 0
  <2>1. d >= 1 => s * d >= s
    BY <1>2
  <2>2. d <= -1 => s * d <= - s
    BY <1>2
  <2> QED
    BY <1>2, <1>3, <2>1, <2>2
<1>6. s * d = 0
  BY <1>5
<1>7. y = r
  BY <1>1, <1>2, <1>6
<1>8. k = q
  BY <1>1, <1>4, <1>5
<1> QED
  BY <1>7, <1>8 DEF y, k

\* The quotient of a natural is one, and no larger.
LEMMA QuotientIs ==
  ASSUME NEW x \in Nat, NEW p \in Nat \ {0}
  PROVE  /\ x \div p \in Nat
         /\ \A n \in Nat : x < p * n => x \div p < n
<1> DEFINE k == x \div p
           y == x % p
<1>1. y \in 0 .. p - 1 /\ k \in Int /\ x = p * k + y
  BY Remainder
<1> HIDE DEF k, y
<1>2. k >= 0
  <2> SUFFICES ASSUME k <= -1 PROVE FALSE
    BY <1>1
  <2>1. p * k <= - p
    BY <1>1
  <2> QED
    BY <1>1, <2>1
<1>3. ASSUME NEW n \in Nat, x < p * n, n <= k
      PROVE  FALSE
  <2>1. p * n <= p * k
    BY <1>1, <1>2, <1>3
  <2> QED
    BY <1>1, <1>3, <2>1
<1>4. \A n \in Nat : x < p * n => k < n
  BY <1>1, <1>3
<1> QED
  BY <1>1, <1>2, <1>4 DEF k

\* Dividing twice is dividing by the product.
LEMMA DivideTwice ==
  ASSUME NEW x \in Nat, NEW m \in Nat \ {0}, NEW n \in Nat \ {0}
  PROVE  x \div (m * n) = (x \div m) \div n
<1> DEFINE q == x \div m
           r == x % m
           t == q \div n
           u == q % n
           s == m * n
           v == m * u + r
<1>1. q \in Int /\ r \in 0 .. m - 1 /\ x = m * q + r
  BY Remainder
<1>2. t \in Int /\ u \in 0 .. n - 1 /\ q = n * t + u
  <2> HIDE DEF q
  <2> QED
    BY <1>1, Remainder
<1>3. s \in Nat \ {0}
  OBVIOUS
<1> HIDE DEF r, t, u, q
<1>4. x = s * t + v
  <2>1. m * q = m * (n * t) + m * u
    BY <1>1, <1>2
  <2>2. m * (n * t) = s * t
    BY <1>2
  <2> QED
    BY <1>1, <1>2, <2>1, <2>2
<1>5. v \in 0 .. s - 1
  <2>1. m * u <= m * (n - 1)
    BY <1>2
  <2>2. m * (n - 1) = s - m
    OBVIOUS
  <2>3. m * u \in Nat
    BY <1>2
  <2> HIDE DEF s
  <2> QED
    BY <1>1, <1>3, <2>1, <2>2, <2>3
<1> HIDE DEF s, v
<1>6. x \div s = t
  BY <1>2, <1>3, <1>4, <1>5, DivisionUnique
<1> QED
  BY <1>6 DEF s, t, q

----------------------------------------------------------------------------
(* Powers                                                                  *)

\* Some function satisfies the equation that defines the powers: it takes its
\* n-th value from a list of the powers up to n, of which there is one.
LEMMA PowersExist ==
  ASSUME NEW b \in Nat \ {0}
  PROVE  \E f \in [Nat -> Nat \ {0}] : f = [n \in Nat |-> IF n = 0 THEN 1 ELSE b * f[n - 1]]
<1> DEFINE Upto(n) == {g \in [0 .. n -> Nat \ {0}] : /\ g[0] = 1
                                                     /\ \A i \in 1 .. n : g[i] = b * g[i - 1]}
<1>1. \A n \in Nat : Upto(n) # {}
  <2> DEFINE S == {n \in Nat : Upto(n) # {}}
  <2>1. 0 \in S
    <3>1. [i \in 0 .. 0 |-> 1] \in Upto(0)
      OBVIOUS
    <3> QED
      BY <3>1
  <2>2. ASSUME NEW n \in Nat, n \in S
        PROVE  n + 1 \in S
    <3>1. PICK g : g \in Upto(n)
      BY <2>2
    <3> DEFINE h == [i \in 0 .. n + 1 |-> IF i = n + 1 THEN b * g[n] ELSE g[i]]
    <3>2. g \in [0 .. n -> Nat \ {0}] /\ g[0] = 1 /\ \A i \in 1 .. n : g[i] = b * g[i - 1]
      BY <3>1
    <3>3. g[n] \in Nat \ {0} /\ b * g[n] \in Nat \ {0}
      BY <3>2
    <3>4. h \in [0 .. n + 1 -> Nat \ {0}]
      BY <3>2, <3>3
    <3>5. h[0] = 1
      BY <3>2
    <3>6. ASSUME NEW i \in 1 .. n + 1
          PROVE  h[i] = b * h[i - 1]
      <4>1. CASE i = n + 1
        <5>1. h[i] = b * g[n] /\ i - 1 = n
          BY <4>1
        <5>2. h[n] = g[n]
          OBVIOUS
        <5> QED
          BY <5>1, <5>2
      <4>2. CASE i # n + 1
        <5>1. i \in 1 .. n /\ h[i] = g[i] /\ h[i - 1] = g[i - 1]
          BY <4>2
        <5> QED
          BY <3>2, <5>1
      <4> QED
        BY <4>1, <4>2
    <3> HIDE DEF h
    <3>7. h \in Upto(n + 1)
      BY <3>4, <3>5, <3>6
    <3> HIDE DEF Upto
    <3>8. Upto(n + 1) # {} /\ n + 1 \in Nat
      BY <3>7
    <3> QED
      BY <3>8
  <2> HIDE DEF S
  <2>3. \A n \in Nat : n \in S
    BY <2>1, <2>2, NatInduct
  <2> QED
    BY <2>3 DEF S
<1>2. ASSUME NEW m \in Nat, NEW n \in Nat, NEW g \in Upto(m), NEW h \in Upto(n)
      PROVE  \A i \in Nat : i <= m /\ i <= n => g[i] = h[i]
  <2> DEFINE S == {i \in Nat : i <= m /\ i <= n => g[i] = h[i]}
  <2>1. 0 \in S
    OBVIOUS
  <2>2. ASSUME NEW i \in Nat, i \in S
        PROVE  i + 1 \in S
    <3> SUFFICES ASSUME i + 1 <= m, i + 1 <= n PROVE g[i + 1] = h[i + 1]
      OBVIOUS
    <3>1. i + 1 \in 1 .. m /\ i + 1 \in 1 .. n /\ (i + 1) - 1 = i /\ g[i] = h[i]
      BY <2>2
    <3>2. g[i + 1] = b * g[(i + 1) - 1] /\ h[i + 1] = b * h[(i + 1) - 1]
      BY <3>1
    <3> QED
      BY <3>1, <3>2
  <2> HIDE DEF S
  <2>3. \A i \in Nat : i \in S
    BY <2>1, <2>2, NatInduct
  <2> QED
    BY <2>3 DEF S
<1> DEFINE list(n) == CHOOSE g : g \in Upto(n)
           f       == [n \in Nat |-> list(n)[n]]
<1>3. \A n \in Nat : list(n) \in Upto(n)
  BY <1>1
<1>4. ASSUME NEW n \in Nat
      PROVE  list(n)[n] \in Nat \ {0}
  <2>1. list(n) \in [0 .. n -> Nat \ {0}]
    BY <1>3
  <2> HIDE DEF list
  <2> QED
    BY <2>1
<1>5. list(0)[0] = 1
  BY <1>3
<1>6. ASSUME NEW n \in Nat, n # 0
      PROVE  list(n)[n] = b * list(n - 1)[n - 1]
  <2>1. n - 1 \in Nat /\ n - 1 <= n /\ n - 1 <= n - 1 /\ n \in 1 .. n
    BY <1>6
  <2>2. list(n) \in Upto(n) /\ list(n - 1) \in Upto(n - 1)
    BY <1>3, <2>1
  <2>3. list(n)[n] = b * list(n)[n - 1]
    BY <2>1, <2>2
  <2>4. list(n)[n - 1] = list(n - 1)[n - 1]
    <3> HIDE DEF list, Upto
    <3> QED
      BY <1>2, <2>1, <2>2
  <2> QED
    BY <2>3, <2>4
<1> HIDE DEF list
<1>7. f \in [Nat -> Nat \ {0}]
  BY <1>4
<1>8. \A n \in Nat : f[n] = IF n = 0 THEN 1 ELSE b * f[n - 1]
  BY <1>5, <1>6
<1>9. f = [n \in Nat |-> IF n = 0 THEN 1 ELSE b * f[n - 1]]
  BY <1>8
<1> QED
  BY <1>7, <1>9

\* Powers are positive, and the next one is b times as much.
LEMMA PowerIs ==
  ASSUME NEW b \in Nat \ {0}
  PROVE  /\ Power(b)[0] = 1
         /\ \A n \in Nat : Power(b)[n] \in Nat \ {0} /\ Power(b)[n + 1] = b * Power(b)[n]
<1> DEFINE Eqn(f) == f = [n \in Nat |-> IF n = 0 THEN 1 ELSE b * f[n - 1]]
           p == Power(b)
<1>1. \E f : Eqn(f)
  BY PowersExist
<1>2. Eqn(p)
  BY <1>1 DEF Power
<1> HIDE DEF p
<1>3. p[0] = 1 /\ \A n \in Nat : p[n + 1] = b * p[n]
  BY <1>2
<1> DEFINE S == {n \in Nat : p[n] \in Nat \ {0}}
<1>4. 0 \in S
  BY <1>3
<1>5. ASSUME NEW n \in Nat, n \in S
      PROVE  n + 1 \in S
  BY <1>3, <1>5
<1> HIDE DEF S
<1>6. \A n \in Nat : n \in S
  BY <1>4, <1>5, NatInduct
<1> QED
  BY <1>3, <1>6 DEF S, p

\* The power of a sum.
LEMMA PowerOfSum ==
  ASSUME NEW b \in Nat \ {0}, NEW m \in Nat
  PROVE  \A n \in Nat : Power(b)[m + n] = Power(b)[m] * Power(b)[n]
<1> DEFINE p == Power(b)
           S == {n \in Nat : p[m + n] = p[m] * p[n]}
<1>1. p[0] = 1 /\ \A n \in Nat : p[n] \in Nat \ {0} /\ p[n + 1] = b * p[n]
  BY PowerIs
<1> HIDE DEF p
<1>2. 0 \in S
  BY <1>1
<1>3. ASSUME NEW n \in Nat, n \in S
      PROVE  n + 1 \in S
  <2>1. p[m + (n + 1)] = b * p[m + n] /\ p[n + 1] = b * p[n]
    <3>1. m + n \in Nat /\ m + (n + 1) = (m + n) + 1
      OBVIOUS
    <3> QED
      BY <1>1, <3>1
  <2>2. p[m] \in Nat /\ p[n] \in Nat /\ p[m + n] = p[m] * p[n]
    BY <1>1, <1>3
  <2>3. \A x, y \in Nat : b * (x * y) = x * (b * y)
    OBVIOUS
  <2> QED
    BY <2>1, <2>2, <2>3
<1> HIDE DEF S
<1>4. \A n \in Nat : n \in S
  BY <1>2, <1>3, NatInduct
<1> QED
  BY <1>4 DEF S, p

----------------------------------------------------------------------------
(* Digits                                                                  *)

\* The lowest digit is the remainder, and the others are those of the quotient.
LEMMA DigitIs ==
  ASSUME NEW b \in Nat \ {0, 1}, NEW x \in Nat
  PROVE  /\ digit(b, x, 0) = x % b
         /\ \A i \in Nat : /\ digit(b, x, i) \in 0 .. b - 1
                           /\ digit(b, x, i + 1) = digit(b, x \div b, i)
<1> DEFINE p == Power(b)
<1>1. p[0] = 1 /\ \A n \in Nat : p[n] \in Nat \ {0} /\ p[n + 1] = b * p[n]
  BY PowerIs
<1> HIDE DEF p
<1>2. digit(b, x, 0) = x % b
  BY <1>1 DEF digit, p
<1>3. ASSUME NEW i \in Nat
      PROVE  digit(b, x, i) \in 0 .. b - 1
  <2> DEFINE q == x \div p[i]
  <2>1. q \in Int
    BY <1>1
  <2> HIDE DEF q
  <2>2. q % b \in 0 .. b - 1
    BY <2>1
  <2> QED
    BY <2>2 DEF digit, p, q
<1>4. ASSUME NEW i \in Nat
      PROVE  digit(b, x, i + 1) = digit(b, x \div b, i)
  <2>1. x \div (b * p[i]) = (x \div b) \div p[i]
    BY <1>1, DivideTwice
  <2>2. x \div p[i + 1] = (x \div b) \div p[i]
    BY <1>1, <2>1
  <2> QED
    BY <2>2 DEF digit, p
<1> QED
  BY <1>2, <1>3, <1>4

\* All digits of zero are zero.
LEMMA ZeroDigits ==
  ASSUME NEW b \in Nat \ {0, 1}
  PROVE  \A i \in Nat : digit(b, 0, i) = 0
<1> SUFFICES ASSUME NEW i \in Nat PROVE digit(b, 0, i) = 0
  OBVIOUS
<1> DEFINE p == Power(b)[i]
<1>1. p \in Nat \ {0}
  BY PowerIs
<1> HIDE DEF p
<1>2. 0 = p * 0 + 0 /\ 0 \in 0 .. p - 1 /\ 0 = b * 0 + 0 /\ 0 \in 0 .. b - 1
  BY <1>1
<1>3. 0 \div p = 0
  BY <1>1, <1>2, DivisionUnique
<1>4. 0 % b = 0
  BY <1>2, DivisionUnique
<1> QED
  BY <1>3, <1>4 DEF digit, p

\* The digits of b * q + r, for a single digit r.
LEMMA DigitsOfStep ==
  ASSUME NEW b \in Nat \ {0, 1}, NEW q \in Nat, NEW r \in 0 .. b - 1
  PROVE  /\ b * q + r \in Nat
         /\ digit(b, b * q + r, 0) = r
         /\ \A i \in Nat : digit(b, b * q + r, i + 1) = digit(b, q, i)
<1> DEFINE x == b * q + r
<1>1. x \in Nat
  OBVIOUS
<1>2. x = b * q + r /\ b \in Nat \ {0} /\ q \in Int /\ x \in Int
  BY <1>1
<1> HIDE DEF x
<1>3. x % b = r /\ x \div b = q
  BY <1>2, DivisionUnique
<1>4. digit(b, x, 0) = r /\ \A i \in Nat : digit(b, x, i + 1) = digit(b, q, i)
  BY <1>1, <1>3, DigitIs
<1> QED
  BY <1>1, <1>4 DEF x

\* The same for all numbers at once.
LEMMA DigitsOfNumbers ==
  ASSUME NEW b \in Nat \ {0, 1}
  PROVE  \A q \in Nat, r \in 0 .. b - 1 :
           /\ digit(b, b * q + r, 0) = r
           /\ \A h \in Nat : digit(b, b * q + r, h + 1) = digit(b, q, h)
<1> DEFINE D(x, i) == digit(b, x, i)
<1>1. \A q \in Nat, r \in 0 .. b - 1 :
        D(b * q + r, 0) = r /\ \A h \in Nat : D(b * q + r, h + 1) = D(q, h)
  BY DigitsOfStep
<1> QED
  BY <1>1, Zenon

\* A number as its lowest digit and the rest.
LEMMA TakeDigit ==
  ASSUME NEW b \in Nat \ {0, 1}, NEW x \in Nat
  PROVE  /\ x \div b \in Nat /\ x % b \in 0 .. b - 1 /\ x = b * (x \div b) + (x % b)
         /\ \A n \in Nat : x < Power(b)[n + 1] => x \div b < Power(b)[n]
<1>1. x \div b \in Nat /\ \A n \in Nat : x < b * n => x \div b < n
  BY QuotientIs
<1>2. x % b \in 0 .. b - 1 /\ x = b * (x \div b) + (x % b)
  BY Remainder
<1>3. \A n \in Nat : Power(b)[n] \in Nat /\ Power(b)[n + 1] = b * Power(b)[n]
  BY PowerIs
<1>4. \A n \in Nat : x < Power(b)[n + 1] => x \div b < Power(b)[n]
  BY <1>1, <1>3
<1> QED
  BY <1>1, <1>2, <1>4

\* The digits of a number of two parts: first those of the lower, then those of
\* the higher one.
LEMMA DigitsOfParts ==
  ASSUME NEW b \in Nat \ {0, 1}
  PROVE  \A k \in Nat : \A h, l, i \in Nat :
           l < Power(b)[k]
             => digit(b, Power(b)[k] * h + l, i) = IF i < k THEN digit(b, l, i) ELSE digit(b, h, i - k)
<1> DEFINE p == Power(b)
           D(x, i) == digit(b, x, i)
           Split(k) == \A h, l, i \in Nat :
                         l < p[k] => D(p[k] * h + l, i) = IF i < k THEN D(l, i) ELSE D(h, i - k)
           S == {k \in Nat : Split(k)}
<1>1. p[0] = 1 /\ \A n \in Nat : p[n] \in Nat \ {0} /\ p[n + 1] = b * p[n]
  BY PowerIs
<1>2. /\ \A x \in Nat : D(x, 0) = x % b /\ \A i \in Nat : D(x, i + 1) = D(x \div b, i)
      /\ \A q \in Nat, r \in 0 .. b - 1 :
           D(b * q + r, 0) = r /\ \A i \in Nat : D(b * q + r, i + 1) = D(q, i)
  BY DigitIs, DigitsOfStep
<1>3. \A l \in Nat : /\ l \div b \in Nat /\ l % b \in 0 .. b - 1 /\ l = b * (l \div b) + (l % b)
                     /\ \A n \in Nat : l < p[n + 1] => l \div b < p[n]
  BY TakeDigit
<1> HIDE DEF p, D
<1>4. 0 \in S
  <2> SUFFICES ASSUME NEW h \in Nat, NEW l \in Nat, NEW i \in Nat, l < p[0]
               PROVE  D(p[0] * h + l, i) = IF i < 0 THEN D(l, i) ELSE D(h, i - 0)
    OBVIOUS
  <2>1. p[0] * h + l = h /\ i - 0 = i /\ ~ (i < 0)
    BY <1>1
  <2> QED
    BY <2>1
<1>5. ASSUME NEW k \in Nat, k \in S
      PROVE  k + 1 \in S
  <2> SUFFICES ASSUME NEW h \in Nat, NEW l \in Nat, NEW i \in Nat, l < p[k + 1]
               PROVE  D(p[k + 1] * h + l, i) = IF i < k + 1 THEN D(l, i) ELSE D(h, i - (k + 1))
    OBVIOUS
  <2> DEFINE m == l \div b
             r == l % b
             y == p[k] * h + m
             x == p[k + 1] * h + l
  <2>1. m \in Nat /\ r \in 0 .. b - 1 /\ l = b * m + r /\ m < p[k]
    BY <1>3
  <2>2. p[k] \in Nat /\ p[k + 1] = b * p[k]
    BY <1>1
  <2>3. D(l, 0) = r /\ \A j \in Nat : D(l, j + 1) = D(m, j)
    BY <1>2
  <2> HIDE DEF m, r
  <2>4. y \in Nat /\ x = b * y + r
    <3>1. \A a \in Nat : (b * a) * h = b * (a * h)
      OBVIOUS
    <3>2. p[k + 1] * h = b * (p[k] * h) /\ p[k] * h \in Nat
      BY <2>2, <3>1
    <3> QED
      BY <2>1, <3>2
  <2>5. \A j \in Nat : D(y, j) = IF j < k THEN D(m, j) ELSE D(h, j - k)
    BY <1>5, <2>1
  <2> HIDE DEF x, y
  <2>6. D(x, 0) = r /\ \A j \in Nat : D(x, j + 1) = D(y, j)
    <3>1. D(b * y + r, 0) = r /\ \A j \in Nat : D(b * y + r, j + 1) = D(y, j)
      BY <1>2, <2>1, <2>4, Zenon
    <3> QED
      BY <2>4, <3>1, Zenon
  <2>7. CASE i = 0
    BY <2>3, <2>6, <2>7 DEF x
  <2>8. CASE i # 0
    <3> DEFINE j == i - 1
    <3>1. j \in Nat /\ i = j + 1 /\ (i < k + 1 <=> j < k) /\ i - (k + 1) = j - k
      BY <2>8
    <3> HIDE DEF j
    <3>2. D(x, i) = IF j < k THEN D(m, j) ELSE D(h, j - k)
      BY <2>5, <2>6, <3>1
    <3>3. D(l, i) = D(m, j)
      BY <2>3, <3>1
    <3> QED
      BY <3>1, <3>2, <3>3 DEF x
  <2> QED
    BY <2>7, <2>8
<1> HIDE DEF S
<1>6. \A k \in Nat : k \in S
  BY <1>4, <1>5, NatInduct
<1> QED
  BY <1>6 DEF S, p, D

\* One less than a power has the highest digit everywhere.
LEMMA TopDigits ==
  ASSUME NEW b \in Nat \ {0, 1}
  PROVE  \A n \in Nat : \A i \in Nat : i < n => digit(b, Power(b)[n] - 1, i) = b - 1
<1> DEFINE p == Power(b)
           D(x, i) == digit(b, x, i)
           S == {n \in Nat : \A i \in Nat : i < n => D(p[n] - 1, i) = b - 1}
<1>1. p[0] = 1 /\ \A n \in Nat : p[n] \in Nat \ {0} /\ p[n + 1] = b * p[n]
  BY PowerIs
<1>2. \A q \in Nat, r \in 0 .. b - 1 :
        D(b * q + r, 0) = r /\ \A i \in Nat : D(b * q + r, i + 1) = D(q, i)
  BY DigitsOfStep
<1> HIDE DEF p, D
<1>3. 0 \in S
  OBVIOUS
<1>4. ASSUME NEW n \in Nat, n \in S
      PROVE  n + 1 \in S
  <2> DEFINE q == p[n] - 1
             r == b - 1
             x == p[n + 1] - 1
  <2>1. q \in Nat /\ r \in 0 .. b - 1
    BY <1>1
  <2>2. x = b * q + r
    <3>1. p[n] \in Nat /\ p[n + 1] = b * p[n]
      BY <1>1
    <3>2. \A a \in Nat : b * a - 1 = b * (a - 1) + (b - 1)
      OBVIOUS
    <3> QED
      BY <3>1, <3>2
  <2>3. \A i \in Nat : i < n => D(q, i) = r
    BY <1>4
  <2> HIDE DEF q, r, x
  <2>4. D(x, 0) = r /\ \A i \in Nat : D(x, i + 1) = D(q, i)
    BY <1>2, <2>1, <2>2
  <2>5. ASSUME NEW i \in Nat, i < n + 1
        PROVE  D(x, i) = r
    <3>1. i # 0 => i - 1 \in Nat /\ i - 1 < n /\ i = (i - 1) + 1
      BY <2>5
    <3> QED
      BY <2>3, <2>4, <3>1
  <2>6. n + 1 \in Nat /\ \A i \in Nat : i < n + 1 => D(p[n + 1] - 1, i) = b - 1
    BY <2>5 DEF x, r
  <2> QED
    BY <2>6
<1> HIDE DEF S
<1>5. \A n \in Nat : n \in S
  BY <1>3, <1>4, NatInduct
<1> QED
  BY <1>5 DEF S, p, D

\* Numbers below the n-th power are equal if their n lowest digits are.
LEMMA DigitsDetermine ==
  ASSUME NEW b \in Nat \ {0, 1}
  PROVE  \A n \in Nat : \A x, y \in Nat :
           /\ x < Power(b)[n] /\ y < Power(b)[n]
           /\ \A i \in 0 .. n - 1 : digit(b, x, i) = digit(b, y, i)
           => x = y
<1> DEFINE p == Power(b)
           D(x, i) == digit(b, x, i)
           Same(x, y, n) == \A i \in 0 .. n - 1 : D(x, i) = D(y, i)
           S == {n \in Nat : \A x, y \in Nat : x < p[n] /\ y < p[n] /\ Same(x, y, n) => x = y}
<1>1. p[0] = 1
  BY PowerIs
<1>2. \A x \in Nat : D(x, 0) = x % b /\ \A i \in Nat : D(x, i + 1) = D(x \div b, i)
  BY DigitIs
<1>3. \A x \in Nat : /\ x \div b \in Nat /\ x = b * (x \div b) + (x % b)
                     /\ \A n \in Nat : x < p[n + 1] => x \div b < p[n]
  BY TakeDigit
<1> HIDE DEF p, D
<1>4. 0 \in S
  BY <1>1
<1>5. ASSUME NEW n \in Nat, n \in S
      PROVE  n + 1 \in S
  <2>1. ASSUME NEW x \in Nat, NEW y \in Nat, x < p[n + 1], y < p[n + 1], Same(x, y, n + 1)
        PROVE  x = y
    <3>1. x \div b \in Nat /\ y \div b \in Nat /\ x \div b < p[n] /\ y \div b < p[n]
      BY <1>3, <2>1
    <3>2. x % b = y % b
      <4>1. 0 \in 0 .. (n + 1) - 1
        OBVIOUS
      <4>2. D(x, 0) = D(y, 0)
        BY <2>1, <4>1
      <4> QED
        BY <1>2, <4>2
    <3>3. Same(x \div b, y \div b, n)
      <4> SUFFICES ASSUME NEW i \in 0 .. n - 1 PROVE D(x \div b, i) = D(y \div b, i)
        OBVIOUS
      <4>1. i \in Nat /\ i + 1 \in 0 .. (n + 1) - 1
        OBVIOUS
      <4>2. D(x, i + 1) = D(y, i + 1)
        BY <2>1, <4>1
      <4> QED
        BY <1>2, <4>1, <4>2
    <3> HIDE DEF Same
    <3>4. x \div b = y \div b
      BY <1>5, <3>1, <3>3
    <3> QED
      BY <1>3, <3>2, <3>4, Zenon
  <2> HIDE DEF Same
  <2> QED
    BY <2>1
<1> HIDE DEF S
<1>6. \A n \in Nat : n \in S
  BY <1>4, <1>5, NatInduct
<1> QED
  BY <1>6 DEF S, p, D

\* Any n digits are those of a number below the n-th power.
LEMMA DigitsExist ==
  ASSUME NEW b \in Nat \ {0, 1}
  PROVE  \A n \in Nat : \A d \in [0 .. n - 1 -> 0 .. b - 1] :
           \E x \in Nat : x < Power(b)[n] /\ \A i \in 0 .. n - 1 : digit(b, x, i) = d[i]
<1> DEFINE p == Power(b)
           D(x, i) == digit(b, x, i)
           Has(n, d) == \E x \in Nat : x < p[n] /\ \A i \in 0 .. n - 1 : D(x, i) = d[i]
           S == {n \in Nat : \A d \in [0 .. n - 1 -> 0 .. b - 1] : Has(n, d)}
<1>1. p[0] = 1 /\ \A n \in Nat : p[n] \in Nat \ {0} /\ p[n + 1] = b * p[n]
  BY PowerIs
<1>2. \A q \in Nat, r \in 0 .. b - 1 :
        b * q + r \in Nat /\ D(b * q + r, 0) = r /\ \A i \in Nat : D(b * q + r, i + 1) = D(q, i)
  BY DigitsOfStep
<1> HIDE DEF p, D
<1>3. 0 \in S
  <2>1. 0 \in Nat /\ 0 < p[0] /\ \A i \in 0 .. 0 - 1 : FALSE
    BY <1>1
  <2>2. \A d : Has(0, d)
    BY <2>1
  <2> QED
    BY <2>2
<1>4. ASSUME NEW n \in Nat, n \in S
      PROVE  n + 1 \in S
  <2>1. ASSUME NEW d \in [0 .. (n + 1) - 1 -> 0 .. b - 1]
        PROVE  Has(n + 1, d)
    <3> DEFINE e == [i \in 0 .. n - 1 |-> d[i + 1]]
    <3>1. e \in [0 .. n - 1 -> 0 .. b - 1]
      <4>1. \A i \in 0 .. n - 1 : i + 1 \in 0 .. (n + 1) - 1
        OBVIOUS
      <4> QED
        BY <4>1
    <3>2. PICK q \in Nat : q < p[n] /\ \A i \in 0 .. n - 1 : D(q, i) = e[i]
      <4> HIDE DEF e
      <4> QED
        BY <1>4, <3>1
    <3> DEFINE r == d[0]
               x == b * q + r
    <3>3. r \in 0 .. b - 1
      <4>1. 0 \in 0 .. (n + 1) - 1
        OBVIOUS
      <4> QED
        BY <4>1
    <3>4. x \in Nat /\ D(x, 0) = r /\ \A i \in Nat : D(x, i + 1) = D(q, i)
      <4> HIDE DEF r
      <4> QED
        BY <1>2, <3>3
    <3>5. x < p[n + 1]
      <4>1. \A a \in Nat : q < a => b * q + b <= b * a
        <5> SUFFICES ASSUME NEW a \in Nat, q < a PROVE b * q + b <= b * a
          OBVIOUS
        <5>1. b * (q + 1) <= b * a
          OBVIOUS
        <5> QED
          BY <5>1
      <4>2. b * q + b <= p[n + 1] /\ p[n + 1] \in Nat
        <5>1. p[n] \in Nat /\ p[n + 1] \in Nat /\ p[n + 1] = b * p[n] /\ q < p[n]
          <6>1. n + 1 \in Nat
            OBVIOUS
          <6>2. \A m \in Nat : p[m] \in Nat
            BY <1>1
          <6> QED
            BY <1>1, <3>2, <6>1, <6>2, Zenon
        <5>2. b * q + b <= b * p[n]
          BY <4>1, <5>1
        <5> QED
          BY <5>1, <5>2
      <4>3. b * q \in Nat
        OBVIOUS
      <4> HIDE DEF r
      <4> QED
        BY <3>3, <4>2, <4>3
    <3> HIDE DEF x
    <3>6. \A i \in 0 .. (n + 1) - 1 : D(x, i) = d[i]
      <4> SUFFICES ASSUME NEW i \in 0 .. (n + 1) - 1 PROVE D(x, i) = d[i]
        OBVIOUS
      <4>1. CASE i = 0
        BY <3>4, <4>1
      <4>2. CASE i # 0
        <5> DEFINE j == i - 1
        <5>1. j \in 0 .. n - 1 /\ j \in Nat /\ i = j + 1
          BY <4>2
        <5> HIDE DEF j
        <5>2. D(x, i) = D(q, j) /\ D(q, j) = e[j] /\ e[j] = d[j + 1]
          BY <3>2, <3>4, <5>1
        <5> QED
          BY <5>1, <5>2
      <4> QED
        BY <4>1, <4>2
    <3> QED
      BY <3>4, <3>5, <3>6
  <2> HIDE DEF Has
  <2> QED
    BY <2>1
<1> HIDE DEF S
<1>5. \A n \in Nat : n \in S
  BY <1>3, <1>4, NatInduct
<1> QED
  BY <1>5 DEF S, p, D

----------------------------------------------------------------------------
(* Arithmetic                                                              *)

\* The remainder of a value that is at most one width outside its range: what
\* an overflowing operation (address.rs) wraps to.
LEMMA WrapsTo ==
  ASSUME NEW s \in Nat \ {0}, NEW r \in 0 .. s - 1
  PROVE  r % s = r /\ (r + s) % s = r /\ (r - s) % s = r
<1>1. r = s * 0 + r /\ r + s = s * 1 + r /\ r - s = s * (-1) + r
  OBVIOUS
<1>2. r \in Int /\ r + s \in Int /\ r - s \in Int /\ -1 \in Int
  OBVIOUS
<1>3. \A x, q \in Int : x = s * q + r => x % s = r
  BY DivisionUnique
<1>4. r % s = r
  BY <1>1, <1>2, <1>3
<1>5. (r + s) % s = r
  BY <1>1, <1>2, <1>3
<1>6. (r - s) % s = r
  BY <1>1, <1>2, <1>3
<1> QED
  BY <1>4, <1>5, <1>6

\* The operands are raw values.
RawInv == addr \in Raw /\ other \in Raw

\* The caller keeps to raw values.
LEMMA Operands == Spec => []RawInv
<1>1. Init => RawInv
  BY AddrSpaceAssumption DEF Init, RawInv, Raw, default
<1>2. RawInv /\ [Next]_vars => RawInv'
  BY AddrSpaceAssumption DEF RawInv, Next, vars, Raw
<1> QED
  BY <1>1, <1>2, PTL DEF Spec

\* The checked, overflowing and plain operations (address.rs) agree for every
\* pair of raw values of any width and in both build modes: the overflow flag,
\* None and the range of the integer result say the same, and subtracting and
\* adding again gives the address back across the wrap.
THEOREM ArithmeticExact == Spec => []ArithmeticAgrees
<1>1. ASSUME NEW a \in Raw, NEW o \in Raw, a = addr, o = other
      PROVE  ArithmeticAgrees
  <2> DEFINE s      == AddrSpace
             mod(x) == x % s
  <2>1. a \in Nat /\ o \in Nat /\ s \in Nat \ {0} /\ a < s /\ o < s
    BY AddrSpaceAssumption DEF Raw
  <2>2. \A r \in 0 .. s - 1 : mod(r) = r /\ mod(r + s) = r /\ mod(r - s) = r
    BY <2>1, WrapsTo
  <2>3. s = AddrSpace /\ \A x : x % AddrSpace = mod(x)
    OBVIOUS
  <2> HIDE DEF s, mod
  <2>4. /\ a + o < s => mod(a + o) = a + o
        /\ a >= o => mod(a - o) = a - o
        /\ a < o => mod(a - o) = a - o + s
    <3>1. a + o < s => a + o \in 0 .. s - 1
      BY <2>1
    <3>2. a >= o => a - o \in 0 .. s - 1
      BY <2>1
    <3> DEFINE c == a - o + s
    <3>3. (a < o => c \in 0 .. s - 1) /\ c - s = a - o
      BY <2>1
    <3>4. a < o => mod(c - s) = c
      <4> HIDE DEF c
      <4> QED
        BY <2>2, <3>3
    <3> QED
      BY <2>2, <3>1, <3>2, <3>3, <3>4
  <2>5. mod(mod(a - o) + o) = a
    <3>1. mod(a - o) + o = a \/ mod(a - o) + o = a + s
      BY <2>1, <2>4
    <3>2. a \in 0 .. s - 1
      BY <2>1
    <3> QED
      BY <2>2, <3>1, <3>2
  <2> DEFINE sum  == [value |-> mod(a + o), overflow |-> a + o >= s]
             diff == [value |-> mod(a - o), overflow |-> a < o]
  <2>6. /\ sum.overflow <=> a + o >= s
        /\ diff.overflow <=> a < o
        /\ sum.value = mod(a + o) /\ diff.value = mod(a - o)
    BY Zenon
  <2>7. /\ overflowing_add(a, o) = sum /\ overflowing_sub(a, o) = diff
        /\ overflowing_add(diff.value, o).value = mod(diff.value + o)
    BY <2>3 DEF overflowing_add, overflowing_sub
  <2> HIDE DEF sum, diff
  <2>8. /\ sum.overflow <=> a + o \notin 0 .. s - 1
        /\ diff.overflow <=> a - o \notin 0 .. s - 1
    BY <2>1, <2>6
  <2>9. /\ (IF a + o < s THEN a + o ELSE -1) = IF sum.overflow THEN -1 ELSE sum.value
        /\ (IF a >= o THEN a - o ELSE -1) = IF diff.overflow THEN -1 ELSE diff.value
    BY <2>1, <2>4, <2>6
  <2>10. /\ ~ sum.overflow => a + o \in 0 .. s - 1 /\ a + o = sum.value
         /\ ~ diff.overflow => a - o \in 0 .. s - 1 /\ a - o = diff.value
    BY <2>1, <2>4, <2>6
  <2>11. mod(diff.value + o) = a
    BY <2>5, <2>6
  <2> QED
    BY <1>1, <2>3, <2>7, <2>8, <2>9, <2>10, <2>11
    DEF ArithmeticAgrees, Raw, overflowing_add, overflowing_sub, checked_add, checked_sub,
        checked_offset_from, unchecked_add, unchecked_sub, unchecked_offset_from, plain, None
<1>2. RawInv => ArithmeticAgrees
  BY <1>1 DEF RawInv
<1> QED
  BY <1>2, Operands, PTL

----------------------------------------------------------------------------
(* Alignment                                                               *)

\* Two multiples of p are p apart at least.
LEMMA MultiplesApart ==
  ASSUME NEW p \in Nat \ {0}, NEW m \in Int, NEW n \in Int, m % p = 0, n % p = 0, m < n
  PROVE  m + p <= n
<1> DEFINE j == m \div p
           k == n \div p
<1>1. j \in Int /\ k \in Int /\ m = p * j /\ n = p * k
  BY Remainder
<1> HIDE DEF j, k
<1>2. p * (k - j) > 0
  BY <1>1
<1>3. k - j >= 1
  BY <1>1, <1>2
<1>4. p * (k - j) >= p
  BY <1>1, <1>3
<1> QED
  BY <1>1, <1>4

\* Clearing the low bits (address.rs) rounds down to a multiple.
LEMMA ClearLowIs ==
  ASSUME NEW x \in Int, NEW p \in Nat \ {0}
  PROVE  /\ ClearLow(x, p) \in Int /\ ClearLow(x, p) % p = 0
         /\ ClearLow(x, p) <= x /\ x < ClearLow(x, p) + p
<1> DEFINE c == ClearLow(x, p)
           q == x \div p
<1>1. x % p \in 0 .. p - 1 /\ q \in Int /\ x = p * q + (x % p)
  BY Remainder
<1>2. c = p * q /\ c \in Int /\ c <= x /\ x < c + p
  BY <1>1 DEF ClearLow
<1>3. c % p = 0
  <2>1. c = p * q + 0 /\ 0 \in 0 .. p - 1
    BY <1>1, <1>2
  <2> HIDE DEF c, q
  <2> QED
    BY <1>1, <1>2, <2>1, DivisionUnique
<1> QED
  BY <1>2, <1>3

\* checked_align_up (address.rs) gives the least multiple m of the power of two
\* that is no less than the address, or None exactly when m is no address, in
\* particular when only the sum in between overflows; unchecked_align_up gives m
\* whenever it is an address.  A power of two below the width divides it.
LEMMA AlignsUp ==
  ASSUME NEW a \in Raw, NEW p \in Raw, IsPowerOfTwo(p), AddrSpace % p = 0,
         NEW m \in Int, m >= a, m % p = 0, \A n \in Int : n >= a /\ n % p = 0 => m <= n
  PROVE  /\ checked_align_up(a, p) = IF m \in Raw THEN m ELSE None
         /\ m \in Raw => unchecked_align_up(a, p) = m
<1> DEFINE top == a + p - 1
           c   == ClearLow(top, p)
<1>1. a \in Nat /\ p \in Nat \ {0} /\ AddrSpace \in Nat \ {0} /\ a < AddrSpace /\ top \in Int
  BY AddrSpaceAssumption DEF Raw, IsPowerOfTwo
<1>2. c \in Int /\ c % p = 0 /\ c <= top /\ top < c + p /\ c >= a
  <2>1. c \in Int /\ c % p = 0 /\ c <= top /\ top < c + p
    <3> HIDE DEF top
    <3> QED
      BY <1>1, ClearLowIs
  <2> HIDE DEF c
  <2> QED
    BY <1>1, <2>1
<1>3. a + (p - 1) = top /\ (top < AddrSpace => top \in Raw /\ top # None /\ top # Panic)
  BY <1>1 DEF Raw, None, Panic
<1>4. checked_align_up(a, p) = IF top < AddrSpace THEN c ELSE None
  BY <1>3 DEF checked_align_up, checked_add
<1>5. top < AddrSpace => unchecked_align_up(a, p) = c
  BY <1>3 DEF unchecked_align_up, unchecked_add, plain
<1> HIDE DEF c
<1>6. m = c
  <2>1. m <= c
    BY <1>2
  <2>2. ASSUME m < c PROVE FALSE
    <3>1. m + p <= c
      BY <1>1, <1>2, <2>2, MultiplesApart
    <3> QED
      BY <1>1, <1>2, <3>1
  <2> QED
    BY <1>2, <2>1, <2>2
<1>7. top < AddrSpace <=> c < AddrSpace
  <2> HIDE DEF top
  <2>1. top < AddrSpace => c < AddrSpace
    BY <1>1, <1>2
  <2>2. c < AddrSpace => c + p <= AddrSpace
    <3>1. AddrSpace \in Int
      BY <1>1
    <3> QED
      BY <1>1, <1>2, <3>1, MultiplesApart
  <2> QED
    BY <1>1, <1>2, <2>1, <2>2
<1>8. m \in Raw <=> top < AddrSpace
  BY <1>1, <1>2, <1>6, <1>7 DEF Raw
<1> QED
  BY <1>4, <1>5, <1>6, <1>8

----------------------------------------------------------------------------
(* Powers of two                                                           *)

\* Every number is an odd one times a power of two.
LEMMA OddPart ==
  \A x \in Nat \ {0} : \E k, m \in Nat : m % 2 = 1 /\ x = Power(2)[k] * m
<1> DEFINE Parts(x) == \E k, m \in Nat : m % 2 = 1 /\ x = Power(2)[k] * m
           Out == {x \in Nat \ {0} : ~ Parts(x)}
<1>1. Power(2)[0] = 1 /\ \A n \in Nat : Power(2)[n] \in Nat /\ Power(2)[n + 1] = 2 * Power(2)[n]
  BY PowerIs
<1>2. ASSUME Out # {}
      PROVE  FALSE
  <2> HIDE DEF Parts
  <2>1. PICK x \in Out : \A y \in Out : x <= y
    BY <1>2, Least
  <2>2. x \in Nat \ {0} /\ ~ Parts(x)
    OBVIOUS
  <2>3. CASE x % 2 = 1
    <3>1. x = Power(2)[0] * x /\ 0 \in Nat
      BY <1>1, <2>2
    <3> QED
      BY <2>2, <2>3, <3>1 DEF Parts
  <2>4. CASE x % 2 # 1
    <3> DEFINE y == x \div 2
    <3>1. y \in Nat \ {0} /\ y < x /\ x = 2 * y
      BY <2>2, <2>4
    <3> HIDE DEF y
    <3>2. Parts(y)
      BY <2>1, <3>1
    <3>3. PICK k \in Nat, m \in Nat : m % 2 = 1 /\ y = Power(2)[k] * m
      BY <3>2 DEF Parts
    <3>4. x = Power(2)[k + 1] * m /\ k + 1 \in Nat
      <4>1. \A p \in Nat : 2 * (p * m) = (2 * p) * m
        OBVIOUS
      <4> QED
        BY <1>1, <3>1, <3>3, <4>1
    <3> QED
      BY <2>2, <3>3, <3>4 DEF Parts
  <2> QED
    BY <2>3, <2>4
<1> QED
  BY <1>2

\* No odd number but 1 divides a power of two.
LEMMA OddDivisor ==
  \A k \in Nat : \A d, q \in Nat : d * q = Power(2)[k] /\ d % 2 = 1 => d = 1
<1> DEFINE p == Power(2)
           S == {k \in Nat : \A d, q \in Nat : d * q = p[k] /\ d % 2 = 1 => d = 1}
<1>1. p[0] = 1 /\ \A n \in Nat : p[n] \in Nat /\ p[n + 1] = 2 * p[n]
  BY PowerIs
<1> HIDE DEF p
<1>2. 0 \in S
  <2>1. ASSUME NEW d \in Nat, NEW q \in Nat, d * q = 1, d # 1
        PROVE  FALSE
    <3>1. d # 0 /\ q # 0
      BY <2>1
    <3>2. d >= 2 /\ q >= 1
      BY <2>1, <3>1
    <3>3. d * q >= d
      BY <3>2
    <3> QED
      BY <2>1, <3>2, <3>3
  <2> QED
    BY <1>1, <2>1
<1>3. ASSUME NEW k \in Nat, k \in S
      PROVE  k + 1 \in S
  <2>1. ASSUME NEW d \in Nat, NEW q \in Nat, d * q = p[k + 1], d % 2 = 1
        PROVE  d = 1
    <3> DEFINE e == d \div 2
               r == q \div 2
    <3>1. e \in Nat /\ d = 2 * e + 1 /\ r \in Nat /\ (q = 2 * r \/ q = 2 * r + 1)
      BY <2>1
    <3>2. p[k] \in Nat /\ d * q = 2 * p[k]
      BY <1>1, <2>1
    <3> HIDE DEF e, r
    <3>3. q = 2 * r
      <4> SUFFICES ASSUME q = 2 * r + 1 PROVE FALSE
        BY <3>1
      <4>1. d * q = 2 * (d * r + e) + 1
        <5>1. d * (2 * r + 1) = 2 * (d * r) + d
          BY <3>1
        <5>2. d * r \in Nat
          BY <3>1
        <5> QED
          BY <3>1, <5>1, <5>2
      <4>2. d * r + e \in Nat
        BY <3>1
      <4> QED
        BY <3>2, <4>1, <4>2
    <3>4. d * r = p[k]
      <4>1. d * (2 * r) = 2 * (d * r) /\ d * r \in Nat
        BY <3>1
      <4> QED
        BY <3>2, <3>3, <4>1
    <3> QED
      BY <1>3, <2>1, <3>1, <3>4
  <2> QED
    BY <2>1
<1> HIDE DEF S
<1>4. \A k \in Nat : k \in S
  BY <1>2, <1>3, NatInduct
<1> QED
  BY <1>4 DEF S, p

\* What IsPowerOfTwo, the assertions of checked_align_up (address.rs), stands
\* for: only a power of two has no odd part.
LEMMA PowerOfTwoIs ==
  ASSUME NEW x \in Nat, NEW k \in Nat, NEW m \in Nat, m % 2 = 1, x = Power(2)[k] * m
  PROVE  IsPowerOfTwo(x) <=> m = 1
<1> DEFINE p == Power(2)[k]
<1>1. p \in Nat \ {0}
  BY PowerIs
<1>2. x # 0 /\ m # 0 /\ m <= x
  <2>1. m # 0
    OBVIOUS
  <2> HIDE DEF p
  <2>2. p * m >= m
    BY <1>1, <2>1
  <2> QED
    BY <1>1, <2>1, <2>2 DEF p
<1>3. ASSUME IsPowerOfTwo(x), m # 1
      PROVE  FALSE
  <2>1. m \in 2 .. x
    BY <1>2, <1>3
  <2>2. x % m = 0
    <3>1. x = m * p + 0 /\ 0 \in 0 .. m - 1 /\ p \in Int /\ m \in Nat \ {0} /\ x \in Int
      BY <1>1, <1>2
    <3> HIDE DEF p
    <3> QED
      BY <3>1, DivisionUnique
  <2>3. m % 2 = 0
    BY <1>3, <2>1, <2>2 DEF IsPowerOfTwo
  <2> QED
    BY <2>3
<1>4. ASSUME m = 1, NEW d \in 2 .. x, x % d = 0
      PROVE  d % 2 = 0
  <2>1. d \in Nat \ {0} /\ d # 1
    OBVIOUS
  <2> DEFINE q == x \div d
  <2>2. q \in Nat /\ x = d * q
    <3>1. q \in Nat
      BY <2>1, QuotientIs
    <3>2. x = d * q + (x % d)
      <4>1. x \in Int
        OBVIOUS
      <4> QED
        BY <2>1, <4>1, Remainder
    <3> HIDE DEF q
    <3> QED
      BY <1>4, <2>1, <3>1, <3>2
  <2> HIDE DEF q
  <2>3. x = Power(2)[k]
    BY <1>1, <1>4
  <2>4. d % 2 # 1
    BY <2>1, <2>2, <2>3, OddDivisor
  <2> QED
    BY <2>1, <2>4
<1> QED
  BY <1>2, <1>3, <1>4 DEF IsPowerOfTwo

----------------------------------------------------------------------------
(* Bits                                                                    *)

\* There are as many raw values as the width has bits for.
LEMMA RawIs ==
  /\ \A x \in Raw : x \in Nat /\ x < Power(2)[Bits]
  /\ \A x \in Nat : x < Power(2)[Bits] => x \in Raw
BY AddrSpaceAssumption, BitsAssumption DEF Raw

\* A raw value whose bits are those that the operator asks for is its result.
LEMMA BitsDetermine ==
  ASSUME NEW x \in Raw, NEW y \in Raw, \A i \in 0 .. Bits - 1 : bit(x, i) <=> bit(y, i)
  PROVE  x = y
<1>1. x \in Nat /\ y \in Nat /\ x < Power(2)[Bits] /\ y < Power(2)[Bits] /\ Bits \in Nat
  BY RawIs, BitsAssumption
<1>2. ASSUME NEW i \in 0 .. Bits - 1
      PROVE  digit(2, x, i) = digit(2, y, i)
  <2>1. i \in Nat
    BY <1>1
  <2>2. digit(2, x, i) \in 0 .. 1 /\ digit(2, y, i) \in 0 .. 1
    <3>1. 2 \in Nat \ {0, 1} /\ 2 - 1 = 1
      OBVIOUS
    <3>2. \A z \in Nat : digit(2, z, i) \in 0 .. 2 - 1
      BY <2>1, <3>1, DigitIs
    <3> QED
      BY <1>1, <3>1, <3>2
  <2>3. digit(2, x, i) = 1 <=> digit(2, y, i) = 1
    BY DEF bit
  <2> QED
    BY <2>2, <2>3
<1> QED
  BY <1>1, <1>2, DigitsDetermine

\* bitand (address.rs).
LEMMA BitandIs ==
  ASSUME NEW x \in Raw, NEW y \in Raw, NEW v \in Raw,
         \A i \in 0 .. Bits - 1 : bit(v, i) <=> bit(x, i) /\ bit(y, i)
  PROVE  bitand(x, y) = v
<1> DEFINE Fits(w) == \A i \in 0 .. Bits - 1 : bit(w, i) <=> bit(x, i) /\ bit(y, i)
<1>1. bitand(x, y) = CHOOSE w \in Raw : Fits(w)
  BY DEF bitand
<1>2. Fits(v)
  OBVIOUS
<1>3. \A w \in Raw : Fits(w) => w = v
  BY BitsDetermine
<1> HIDE DEF Fits
<1> QED
  BY <1>1, <1>2, <1>3

\* bitor (address.rs).
LEMMA BitorIs ==
  ASSUME NEW x \in Raw, NEW y \in Raw, NEW v \in Raw,
         \A i \in 0 .. Bits - 1 : bit(v, i) <=> bit(x, i) \/ bit(y, i)
  PROVE  bitor(x, y) = v
<1> DEFINE Fits(w) == \A i \in 0 .. Bits - 1 : bit(w, i) <=> bit(x, i) \/ bit(y, i)
<1>1. bitor(x, y) = CHOOSE w \in Raw : Fits(w)
  BY DEF bitor
<1>2. Fits(v)
  OBVIOUS
<1>3. \A w \in Raw : Fits(w) => w = v
  BY BitsDetermine
<1> HIDE DEF Fits
<1> QED
  BY <1>1, <1>2, <1>3

\* The bits of a number of two parts, of zero, and of one less than a power.
LEMMA BitsAre ==
  /\ \A k, h, l, i \in Nat :
       l < Power(2)[k]
         => (bit(Power(2)[k] * h + l, i) <=> IF i < k THEN bit(l, i) ELSE bit(h, i - k))
  /\ \A i \in Nat : ~ bit(0, i)
  /\ \A n, i \in Nat : i < n => bit(Power(2)[n] - 1, i)
<1>1. 2 \in Nat \ {0, 1} /\ 2 - 1 = 1 /\ 0 # 1
  OBVIOUS
<1>2. ASSUME NEW k \in Nat, NEW h \in Nat, NEW l \in Nat, NEW i \in Nat, l < Power(2)[k]
      PROVE  bit(Power(2)[k] * h + l, i) <=> IF i < k THEN bit(l, i) ELSE bit(h, i - k)
  <2>1. digit(2, Power(2)[k] * h + l, i) = IF i < k THEN digit(2, l, i) ELSE digit(2, h, i - k)
    BY <1>1, <1>2, DigitsOfParts
  <2> QED
    BY <2>1 DEF bit
<1>3. \A i \in Nat : ~ bit(0, i)
  BY <1>1, ZeroDigits DEF bit
<1>4. \A n, i \in Nat : i < n => bit(Power(2)[n] - 1, i)
  BY <1>1, TopDigits DEF bit
<1> QED
  BY <1>2, <1>3, <1>4

\* p & (p - 1), which checked_align_up (address.rs) asserts to be zero, clears
\* the lowest bit that is set.
LEMMA LowestBit ==
  ASSUME NEW x \in Raw, NEW k \in Nat, NEW m \in Nat, m % 2 = 1, x = Power(2)[k] * m
  PROVE  bitand(x, x - 1) = Power(2)[k] * (m - 1)
<1> DEFINE p == Power(2)[k]
           e == m \div 2
           n == m - 1
           v == p * n
<1>1. p \in Nat \ {0} /\ Bits \in Nat
  BY PowerIs, BitsAssumption
<1>2. e \in Nat /\ n \in Nat /\ n = 2 * e + 0 /\ m = 2 * e + 1 /\ m = n + 1
  OBVIOUS
<1> HIDE DEF e, n, p
<1>3. x = p * m + 0 /\ v = p * n + 0 /\ x - 1 = p * n + (p - 1)
  <2>1. p * (n + 1) = p * n + p /\ p * n \in Nat
    BY <1>1, <1>2
  <2>2. x = p * m /\ p * m = p * (n + 1)
    BY <1>2 DEF p
  <2> QED
    BY <1>1, <2>1, <2>2
<1>4. x - 1 \in Raw /\ v \in Raw
  <2>1. p * n \in Nat /\ x = p * n + p
    <3>1. p * (n + 1) = p * n + p /\ p * n \in Nat
      BY <1>1, <1>2
    <3>2. x = p * (n + 1)
      BY <1>2 DEF p
    <3> QED
      BY <3>1, <3>2
  <2> HIDE DEF v
  <2>2. v \in Nat /\ x = v + p
    BY <2>1 DEF v
  <2> QED
    BY <1>1, <2>2, AddrSpaceAssumption DEF Raw
<1>5. ASSUME NEW i \in 0 .. Bits - 1
      PROVE  bit(v, i) <=> bit(x, i) /\ bit(x - 1, i)
  <2>1. i \in Nat /\ 0 < p /\ p - 1 < p /\ p - 1 \in Nat
    BY <1>1
  <2> HIDE DEF v
  <2>2. /\ bit(x, i) <=> IF i < k THEN bit(0, i) ELSE bit(m, i - k)
        /\ bit(v, i) <=> IF i < k THEN bit(0, i) ELSE bit(n, i - k)
        /\ bit(x - 1, i) <=> IF i < k THEN bit(p - 1, i) ELSE bit(n, i - k)
    <3>1. \A h, l \in Nat :
            l < p => (bit(p * h + l, i) <=> IF i < k THEN bit(l, i) ELSE bit(h, i - k))
      BY <2>1, BitsAre DEF p
    <3>2. bit(p * m + 0, i) <=> IF i < k THEN bit(0, i) ELSE bit(m, i - k)
      BY <2>1, <3>1
    <3>3. bit(p * n + 0, i) <=> IF i < k THEN bit(0, i) ELSE bit(n, i - k)
      BY <1>2, <2>1, <3>1
    <3>4. bit(p * n + (p - 1), i) <=> IF i < k THEN bit(p - 1, i) ELSE bit(n, i - k)
      BY <1>2, <2>1, <3>1
    <3> QED
      BY <1>3, <3>2, <3>3, <3>4
  <2>3. ~ bit(0, i)
    BY <2>1, BitsAre
  <2>4. ASSUME ~ (i < k), bit(n, i - k)
        PROVE  bit(m, i - k)
    <3> DEFINE j == i - k
    <3>1. j \in Nat /\ 2 \in Nat \ {0, 1} /\ 0 \in 0 .. 2 - 1 /\ 1 \in 0 .. 2 - 1
      BY <2>1, <2>4
    <3> HIDE DEF j
    <3>2. /\ digit(2, n, 0) = 0 /\ \A h \in Nat : digit(2, n, h + 1) = digit(2, e, h)
          /\ \A h \in Nat : digit(2, m, h + 1) = digit(2, e, h)
      <4>1. \A q \in Nat, r \in 0 .. 2 - 1 :
              digit(2, 2 * q + r, 0) = r /\ \A h \in Nat : digit(2, 2 * q + r, h + 1) = digit(2, q, h)
        BY <3>1, DigitsOfNumbers, Zenon
      <4>2. /\ digit(2, 2 * e + 0, 0) = 0
            /\ \A h \in Nat : digit(2, 2 * e + 0, h + 1) = digit(2, e, h)
            /\ \A h \in Nat : digit(2, 2 * e + 1, h + 1) = digit(2, e, h)
        BY <1>2, <3>1, <4>1
      <4> QED
        BY <1>2, <4>2
    <3>3. digit(2, n, j) = 1
      BY <2>4 DEF bit, j
    <3>4. j # 0
      BY <3>2, <3>3
    <3>5. j - 1 \in Nat /\ j = (j - 1) + 1
      BY <3>1, <3>4
    <3>6. digit(2, m, j) = 1
      BY <3>2, <3>3, <3>5
    <3> QED
      BY <3>6 DEF bit, j
  <2> QED
    BY <2>2, <2>3, <2>4
<1>6. bitand(x, x - 1) = v
  <2> HIDE DEF v
  <2> QED
    BY <1>4, <1>5, BitandIs
<1> QED
  BY <1>6 DEF p, n

\* A raw value that is a power of two is one of the powers below the width, and
\* divides the number of raw values.
LEMMA RawPower ==
  ASSUME NEW k \in Nat, Power(2)[k] \in Raw
  PROVE  /\ k < Bits
         /\ \E n \in Nat : /\ n = Bits - k /\ AddrSpace = Power(2)[k] * Power(2)[n]
                           /\ Power(2)[n] \in Nat \ {0}
<1> DEFINE p == Power(2)
<1>1. /\ Bits \in Nat /\ AddrSpace = p[Bits] /\ p[k] < p[Bits]
      /\ \A n \in Nat : p[n] \in Nat \ {0}
  BY PowerIs, RawIs, BitsAssumption
<1>2. \A m, n \in Nat : p[m + n] = p[m] * p[n]
  BY PowerOfSum
<1> HIDE DEF p
<1>3. k < Bits
  <2> SUFFICES ASSUME k >= Bits PROVE FALSE
    BY <1>1
  <2> DEFINE d == k - Bits
  <2>1. d \in Nat /\ k = Bits + d
    BY <1>1
  <2> HIDE DEF d
  <2>2. p[k] = p[Bits] * p[d]
    BY <1>1, <1>2, <2>1
  <2>3. \A x, y \in Nat \ {0} : x * y >= x
    OBVIOUS
  <2>4. p[k] >= p[Bits]
    BY <1>1, <2>1, <2>2, <2>3
  <2> QED
    BY <1>1, <2>4
<1> DEFINE n == Bits - k
<1>4. n \in Nat /\ Bits = k + n
  BY <1>1, <1>3
<1> HIDE DEF n
<1>5. AddrSpace = p[k] * p[n] /\ p[n] \in Nat \ {0}
  BY <1>1, <1>2, <1>4
<1> QED
  BY <1>3, <1>4, <1>5 DEF p, n

\* A mask of the k lowest bits, & and | (address.rs) take an address apart into
\* its remainder and the multiple below it, and put it together again.
LEMMA MaskIs ==
  ASSUME NEW a \in Raw, NEW k \in Nat, Power(2)[k] \in Raw
  PROVE  LET p == Power(2)[k]
         IN  /\ mask(a, p - 1) = a % p
             /\ bitand(a, complement(p - 1)) = ClearLow(a, p)
             /\ bitor(ClearLow(a, p), a % p) = a
<1> DEFINE p == Power(2)[k]
           h == a \div p
           l == a % p
           c == p * h
<1>1. PICK n \in Nat : /\ n = Bits - k /\ AddrSpace = p * Power(2)[n]
                       /\ Power(2)[n] \in Nat \ {0} /\ k < Bits
  BY RawPower
<1> DEFINE q == Power(2)[n]
           u == p * (q - 1)
<1>2. /\ Bits \in Nat /\ p \in Nat \ {0} /\ AddrSpace \in Nat \ {0} /\ a \in Nat /\ a < AddrSpace
      /\ AddrSpace = p * q /\ q \in Nat \ {0} /\ p < AddrSpace
  BY <1>1, PowerIs, BitsAssumption, AddrSpaceAssumption DEF Raw
<1> HIDE DEF p, q
<1>3. h \in Nat /\ l \in 0 .. p - 1 /\ a = p * h + l
  <2>1. a \in Int
    BY <1>2
  <2>2. a \div p \in Nat
    BY <1>2, QuotientIs
  <2>3. a % p \in 0 .. p - 1 /\ a = p * (a \div p) + (a % p)
    BY <1>2, <2>1, Remainder
  <2> QED
    BY <2>2, <2>3
<1> HIDE DEF h, l
<1>4. c \in Nat /\ c <= a /\ ClearLow(a, p) = c /\ l <= a /\ l \in Nat
  <2>1. c \in Nat
    BY <1>2, <1>3
  <2>2. ClearLow(a, p) = a - l
    BY DEF ClearLow, l
  <2>3. a = c + l
    BY <1>3
  <2> HIDE DEF c
  <2> QED
    BY <1>2, <1>3, <2>1, <2>2, <2>3
<1>5. u = p * q - p /\ u \in Nat
  BY <1>2
<1>6. complement(p - 1) = u /\ u \in Raw /\ p - 1 \in Raw /\ c \in Raw /\ l \in Raw
  <2> HIDE DEF u, c
  <2>1. complement(p - 1) = u
    BY <1>2, <1>5 DEF complement
  <2> QED
    BY <1>2, <1>4, <1>5, <2>1 DEF Raw
<1>7. ASSUME NEW i \in 0 .. Bits - 1
      PROVE  /\ bit(a, i) <=> IF i < k THEN bit(l, i) ELSE bit(h, i - k)
             /\ bit(c, i) <=> i >= k /\ bit(h, i - k)
             /\ bit(l, i) <=> i < k /\ bit(l, i)
             /\ bit(p - 1, i) <=> i < k
             /\ bit(u, i) <=> i >= k
  <2>1. i \in Nat /\ (~ (i < k) => i - k \in Nat /\ i - k < n)
    BY <1>1, <1>2
  <2>2. /\ 0 \in Nat /\ 0 < p /\ p - 1 \in Nat /\ p - 1 < p /\ l \in Nat /\ l < p
        /\ q - 1 \in Nat
    BY <1>2, <1>3
  <2>3. \A x, y \in Nat :
          y < p => (bit(p * x + y, i) <=> IF i < k THEN bit(y, i) ELSE bit(x, i - k))
    BY <2>1, BitsAre DEF p
  <2>4. /\ \A j \in Nat : ~ bit(0, j)
        /\ i < k => bit(p - 1, i)
        /\ ~ (i < k) => bit(q - 1, i - k)
    BY <2>1, BitsAre DEF p, q
  <2>5. bit(a, i) <=> IF i < k THEN bit(l, i) ELSE bit(h, i - k)
    BY <1>3, <2>2, <2>3
  <2>6. bit(p * h + 0, i) <=> IF i < k THEN bit(0, i) ELSE bit(h, i - k)
    BY <1>3, <2>2, <2>3
  <2>7. bit(p * 0 + l, i) <=> IF i < k THEN bit(l, i) ELSE bit(0, i - k)
    BY <2>2, <2>3
  <2>8. bit(p * 0 + (p - 1), i) <=> IF i < k THEN bit(p - 1, i) ELSE bit(0, i - k)
    BY <2>2, <2>3
  <2>9. bit(p * (q - 1) + 0, i) <=> IF i < k THEN bit(0, i) ELSE bit(q - 1, i - k)
    BY <2>2, <2>3
  <2>10. /\ p * h + 0 = c /\ p * 0 + l = l /\ p * 0 + (p - 1) = p - 1
         /\ p * (q - 1) + 0 = u
    BY <1>2, <1>3, <2>2
  <2>11. i >= k <=> ~ (i < k)
    BY <2>1
  <2> HIDE DEF c, u
  <2>12. (i < k => ~ bit(0, i)) /\ (~ (i < k) => ~ bit(0, i - k))
    BY <2>1, <2>4
  <2> QED
    BY <2>4, <2>5, <2>6, <2>7, <2>8, <2>9, <2>10, <2>11, <2>12
<1> HIDE DEF c, u
<1>8. mask(a, p - 1) = l
  <2>1. \A i \in 0 .. Bits - 1 : bit(l, i) <=> bit(a, i) /\ bit(p - 1, i)
    BY <1>7
  <2> QED
    BY <1>6, <2>1, BitandIs DEF mask
<1>9. bitand(a, u) = c
  <2>1. ASSUME NEW i \in 0 .. Bits - 1
        PROVE  bit(c, i) <=> bit(a, i) /\ bit(u, i)
    <3>1. i >= k <=> ~ (i < k)
      BY <1>2
    <3> QED
      BY <1>7, <3>1
  <2> QED
    BY <1>6, <2>1, BitandIs
<1>10. bitor(c, l) = a
  <2>1. ASSUME NEW i \in 0 .. Bits - 1
        PROVE  bit(a, i) <=> bit(c, i) \/ bit(l, i)
    <3>1. i >= k <=> ~ (i < k)
      BY <1>2
    <3> QED
      BY <1>7, <3>1
  <2> QED
    BY <1>6, <2>1, BitorIs
<1> QED
  BY <1>4, <1>6, <1>8, <1>9, <1>10 DEF p, l

\* The multiple that an address is rounded up to: the one below it, or the next.
LEMMA NextMultiple ==
  ASSUME NEW x \in Nat, NEW p \in Nat \ {0}
  PROVE  LET m == ClearLow(x, p) + (IF x % p = 0 THEN 0 ELSE p)
         IN  /\ m \in Nat /\ m >= x /\ m < x + p /\ m % p = 0
             /\ \A n \in Int : n >= x /\ n % p = 0 => m <= n
<1> DEFINE c == ClearLow(x, p)
           l == x % p
           m == c + (IF l = 0 THEN 0 ELSE p)
<1>1. x \in Int
  OBVIOUS
<1>2. c \in Int /\ c % p = 0 /\ c <= x /\ x < c + p
  BY <1>1, ClearLowIs
<1>3. l \in 0 .. p - 1 /\ c = x - l
  BY <1>1, Remainder DEF ClearLow
<1>4. (c + p) % p = 0
  <2>1. c = p * (c \div p) + 0 /\ c \div p \in Int
    <3> HIDE DEF c
    <3>1. c = p * (c \div p) + (c % p) /\ c \div p \in Int
      BY <1>2, Remainder
    <3> QED
      BY <1>2, <3>1
  <2> DEFINE k == c \div p
             d == c + p
  <2>2. k \in Int /\ c = p * k
    <3> HIDE DEF c
    <3> QED
      BY <2>1
  <2> HIDE DEF k, c
  <2>3. d \in Int /\ d = p * (k + 1) + 0 /\ k + 1 \in Int /\ 0 \in 0 .. p - 1
    BY <1>2, <2>2
  <2> HIDE DEF d
  <2>4. d % p = 0
    BY <2>3, DivisionUnique
  <2> QED
    BY <2>4 DEF d
<1> HIDE DEF c, l
<1>5. m \in Nat /\ m >= x /\ m < x + p /\ m % p = 0
  <2>1. CASE l = 0
    <3>1. m = c
      BY <1>2, <2>1
    <3> HIDE DEF m
    <3> QED
      BY <1>2, <1>3, <2>1, <3>1
  <2>2. CASE l # 0
    <3>1. m = c + p
      BY <2>2
    <3> HIDE DEF m
    <3>2. m \in Nat /\ m >= x /\ m < x + p
      BY <1>2, <1>3, <2>2, <3>1
    <3> QED
      BY <1>4, <3>1, <3>2
  <2> QED
    BY <2>1, <2>2
<1>6. ASSUME NEW n \in Int, n >= x, n % p = 0
      PROVE  m <= n
  <2>1. CASE l = 0
    <3>1. m = c
      BY <1>2, <2>1
    <3> QED
      BY <1>2, <1>6, <3>1
  <2>2. CASE l # 0
    <3>1. m = c + p /\ c < n
      BY <1>2, <1>3, <1>6, <2>2
    <3>2. c + p <= n
      BY <1>2, <1>6, <3>1, MultiplesApart
    <3> QED
      BY <3>1, <3>2
  <2> QED
    BY <2>1, <2>2
<1> QED
  BY <1>5, <1>6 DEF m, c, l

\* checked_align_up (address.rs) rounds up to the least multiple of the power of
\* two, gives None exactly when that is no address, also when only the sum in
\* between overflows, and panics exactly for what is no power of two; all of it
\* agrees with what &, | and mask compute bit by bit, at any width.
THEOREM AlignmentExact == Spec => []AlignUpExact
<1>1. ASSUME NEW a \in Raw, NEW o \in Raw, a = addr, o = other
      PROVE  AlignUpExact
  <2> DEFINE Multiples == {m \in a .. 2 * AddrSpace : m % o = 0}
             least == CHOOSE m \in Multiples : \A n \in Multiples : m <= n
             Powers == {Power(2)[k] : k \in 0 .. Bits - 1}
             low  == mask(a, o - 1)
             high == bitand(a, complement(o - 1))
  <2>1. a \in Nat /\ o \in Nat /\ a < AddrSpace /\ o < AddrSpace /\ AddrSpace \in Nat /\ Bits \in Nat
    BY AddrSpaceAssumption, BitsAssumption DEF Raw
  <2>2. ASSUME o \notin Powers
        PROVE  checked_align_up(a, o) = Panic /\ (o # 0 => bitand(o, o - 1) # 0)
    <3>1. CASE o = 0
      BY <3>1 DEF checked_align_up, IsPowerOfTwo
    <3>2. CASE o # 0
      <4>1. PICK k \in Nat, m \in Nat : m % 2 = 1 /\ o = Power(2)[k] * m
        BY <2>1, <3>2, OddPart
      <4> DEFINE p == Power(2)[k]
      <4>2. p \in Nat \ {0}
        BY PowerIs
      <4>3. m # 1
        <5> SUFFICES ASSUME m = 1 PROVE FALSE
          OBVIOUS
        <5>1. o = Power(2)[k]
          BY <4>1, <4>2
        <5>2. k < Bits
          BY <5>1, RawPower
        <5>3. k \in 0 .. Bits - 1
          BY <2>1, <5>2
        <5> QED
          BY <2>2, <5>1, <5>3
      <4>4. ~ IsPowerOfTwo(o)
        BY <2>1, <4>1, <4>3, PowerOfTwoIs
      <4>5. bitand(o, o - 1) = p * (m - 1)
        BY <4>1, LowestBit
      <4>6. p * (m - 1) # 0
        <5>1. m - 1 \in Nat \ {0}
          BY <4>1, <4>3
        <5> HIDE DEF p
        <5>2. \A x, y \in Nat \ {0} : x * y # 0
          OBVIOUS
        <5> QED
          BY <4>2, <5>1, <5>2
      <4> QED
        BY <4>4, <4>5, <4>6 DEF checked_align_up
    <3> QED
      BY <3>1, <3>2
  <2>3. ASSUME o \in Powers
        PROVE  /\ bitand(o, o - 1) = 0 /\ high = ClearLow(a, o)
               /\ low < o /\ high % o = 0 /\ low + high = a
               /\ bitor(high, low) = a
               /\ high + (IF low = 0 THEN 0 ELSE o) = least
               /\ IF least \notin Raw THEN checked_align_up(a, o) = None
                  ELSE checked_align_up(a, o) = least /\ unchecked_align_up(a, o) = least
    <3>1. PICK k \in Nat : o = Power(2)[k]
      BY <2>1, <2>3
    <3>2. PICK n \in Nat : AddrSpace = o * Power(2)[n] /\ Power(2)[n] \in Nat \ {0}
      BY <3>1, RawPower
    <3>3. o \in Nat \ {0}
      BY <3>1, PowerIs
    <3>4. o = Power(2)[k] * 1 /\ 1 % 2 = 1 /\ 1 \in Nat
      BY <3>1, <3>3
    <3>5. IsPowerOfTwo(o)
      BY <2>1, <3>4, PowerOfTwoIs
    <3>6. bitand(o, o - 1) = 0
      <4>1. bitand(o, o - 1) = Power(2)[k] * (1 - 1)
        BY <3>4, LowestBit
      <4> QED
        BY <3>1, <3>3, <4>1
    <3>7. low = a % o /\ high = ClearLow(a, o) /\ bitor(ClearLow(a, o), a % o) = a
      BY <3>1, MaskIs
    <3> HIDE DEF low, high
    <3>8. low < o /\ high % o = 0 /\ low + high = a
      <4>1. a \in Int
        BY <2>1
      <4>2. a % o \in 0 .. o - 1 /\ ClearLow(a, o) % o = 0 /\ ClearLow(a, o) \in Int
        BY <3>3, <4>1, Remainder, ClearLowIs
      <4>3. ClearLow(a, o) = a - (a % o)
        BY DEF ClearLow
      <4> QED
        BY <3>7, <4>1, <4>2, <4>3
    <3> DEFINE m == high + (IF low = 0 THEN 0 ELSE o)
    <3>9. /\ m \in Nat /\ m >= a /\ m < a + o /\ m % o = 0
          /\ \A j \in Int : j >= a /\ j % o = 0 => m <= j
      BY <2>1, <3>3, <3>7, NextMultiple
    <3> HIDE DEF m
    <3>10. least = m
      <4>1. m \in Multiples
        BY <2>1, <3>9
      <4>2. \A j \in Multiples : j \in Int /\ m <= j
        <5>1. \A j \in Multiples : j \in Int /\ j >= a /\ j % o = 0
          BY <2>1
        <5> HIDE DEF Multiples
        <5> QED
          BY <3>9, <5>1
      <4>3. \A j \in Multiples : (\A i \in Multiples : j <= i) => j = m
        BY <3>9, <4>1, <4>2
      <4> HIDE DEF Multiples
      <4> QED
        BY <4>1, <4>2, <4>3
    <3>11. AddrSpace % o = 0
      <4>1. AddrSpace = o * Power(2)[n] + 0 /\ 0 \in 0 .. o - 1 /\ AddrSpace \in Int /\ Power(2)[n] \in Int
        BY <2>1, <3>2, <3>3
      <4> QED
        BY <3>3, <4>1, DivisionUnique
    <3>12. /\ checked_align_up(a, o) = IF m \in Raw THEN m ELSE None
           /\ m \in Raw => unchecked_align_up(a, o) = m
      <4>1. m \in Int
        BY <3>9
      <4> QED
        BY <3>5, <3>9, <3>11, <4>1, AlignsUp
    <3> HIDE DEF least
    <3>13. m = high + (IF low = 0 THEN 0 ELSE o)
      BY DEF m
    <3> QED
      BY <3>6, <3>7, <3>8, <3>10, <3>12, <3>13
  <2> HIDE DEF least, Powers, low, high
  <2> QED
    BY <1>1, <2>2, <2>3 DEF AlignUpExact, least, Powers, Multiples, low, high
<1>2. RawInv => AlignUpExact
  BY <1>1 DEF RawInv
<1> QED
  BY <1>2, Operands, PTL

----------------------------------------------------------------------------
(* Bytes                                                                   *)

ByteValues == 0 .. ByteSpace - 1

\* The bytes of a value are bytes; byte i is one of its digits.
LEMMA BytesAre ==
  ASSUME NEW v \in Raw, NEW host \in Orders
  PROVE  /\ as_slice(host, v) \in [1 .. ValueSize -> ByteValues]
         /\ \A i \in 1 .. ValueSize :
              as_slice(host, v)[i] = digit(ByteSpace, v, IF host = "little" THEN i - 1 ELSE ValueSize - i)
<1>1. v \in Nat /\ ValueSize \in Nat /\ ByteSpace \in Nat \ {0, 1}
  BY ByteAssumption, AddrSpaceAssumption DEF Raw
<1>2. \A i \in Nat : digit(ByteSpace, v, i) \in ByteValues
  BY <1>1, DigitIs DEF ByteValues
<1> DEFINE at(i) == IF host = "little" THEN i - 1 ELSE ValueSize - i
<1>3. \A i \in 1 .. ValueSize : at(i) \in Nat
  BY <1>1
<1>4. as_slice(host, v) = [i \in 1 .. ValueSize |-> digit(ByteSpace, v, at(i))]
  BY DEF as_slice
<1> HIDE DEF at
<1>5. /\ as_slice(host, v) \in [1 .. ValueSize -> ByteValues]
      /\ \A i \in 1 .. ValueSize : as_slice(host, v)[i] = digit(ByteSpace, v, at(i))
  BY <1>2, <1>3, <1>4
<1> QED
  BY <1>5 DEF at

\* Any bytes are those of one raw value.
LEMMA BytesDetermine ==
  ASSUME NEW host \in Orders
  PROVE  /\ \A v, w \in Raw : as_slice(host, v) = as_slice(host, w) => v = w
         /\ \A s \in [1 .. ValueSize -> ByteValues] : \E v \in Raw : as_slice(host, v) = s
<1> DEFINE b == ByteSpace
           n == ValueSize
           at(i) == IF host = "little" THEN i - 1 ELSE n - i
           place(j) == IF host = "little" THEN j + 1 ELSE n - j
<1>1. /\ n \in Nat /\ b \in Nat \ {0, 1} /\ AddrSpace = Power(b)[n] /\ AddrSpace \in Nat
      /\ \A x : x \in Raw <=> x \in Nat /\ x < Power(b)[n]
  BY ByteAssumption, AddrSpaceAssumption DEF Raw
<1>2. \A v \in Raw : /\ as_slice(host, v) \in [1 .. n -> ByteValues]
                     /\ \A i \in 1 .. n : as_slice(host, v)[i] = digit(b, v, at(i))
  BY BytesAre
<1>3. /\ \A j \in 0 .. n - 1 : place(j) \in 1 .. n /\ at(place(j)) = j
      /\ \A i \in 1 .. n : at(i) \in 0 .. n - 1 /\ place(at(i)) = i
  <2>1. CASE host = "little"
    BY <1>1, <2>1
  <2>2. CASE host # "little"
    BY <1>1, <2>2
  <2> QED
    BY <2>1, <2>2
<1> HIDE DEF b, n, at, place
<1>4. ASSUME NEW v \in Raw, NEW w \in Raw, as_slice(host, v) = as_slice(host, w)
      PROVE  v = w
  <2>1. ASSUME NEW j \in 0 .. n - 1
        PROVE  digit(b, v, j) = digit(b, w, j)
    <3>1. place(j) \in 1 .. n /\ at(place(j)) = j
      BY <1>3
    <3>2. /\ as_slice(host, v)[place(j)] = digit(b, v, at(place(j)))
          /\ as_slice(host, w)[place(j)] = digit(b, w, at(place(j)))
      BY <1>2, <3>1
    <3> QED
      BY <1>4, <3>1, <3>2
  <2>2. v \in Nat /\ w \in Nat /\ v < Power(b)[n] /\ w < Power(b)[n]
    BY <1>1
  <2> QED
    BY <1>1, <2>1, <2>2, DigitsDetermine
<1>5. ASSUME NEW s \in [1 .. n -> ByteValues]
      PROVE  \E v \in Raw : as_slice(host, v) = s
  <2> DEFINE d == [j \in 0 .. n - 1 |-> s[place(j)]]
  <2>1. d \in [0 .. n - 1 -> 0 .. b - 1]
    BY <1>3 DEF ByteValues, b
  <2>2. \A j \in 0 .. n - 1 : d[j] = s[place(j)]
    OBVIOUS
  <2> HIDE DEF d
  <2>3. PICK v \in Nat : v < Power(b)[n] /\ \A j \in 0 .. n - 1 : digit(b, v, j) = d[j]
    BY <1>1, <2>1, DigitsExist
  <2>4. v \in Raw
    BY <1>1, <2>3
  <2>5. as_slice(host, v) \in [1 .. n -> ByteValues]
    BY <1>2, <2>4
  <2>6. ASSUME NEW i \in 1 .. n
        PROVE  as_slice(host, v)[i] = s[i]
    <3>1. at(i) \in 0 .. n - 1 /\ place(at(i)) = i
      BY <1>3
    <3>2. as_slice(host, v)[i] = digit(b, v, at(i))
      BY <1>2, <2>4
    <3>3. digit(b, v, at(i)) = s[place(at(i))]
      BY <2>2, <2>3, <3>1
    <3> QED
      BY <3>1, <3>2, <3>3
  <2> DEFINE t == as_slice(host, v)
  <2>7. t \in [1 .. n -> ByteValues] /\ \A i \in 1 .. n : t[i] = s[i]
    BY <2>5, <2>6
  <2> HIDE DEF t
  <2>8. t = s
    BY <1>1, <2>7
  <2> QED
    BY <2>4, <2>8 DEF t
<1>6. \A v, w \in Raw : as_slice(host, v) = as_slice(host, w) => v = w
  BY <1>4
<1>7. \A s \in [1 .. n -> ByteValues] : \E v \in Raw : as_slice(host, v) = s
  BY <1>5
<1> QED
  BY <1>6, <1>7 DEF n

\* read_obj (bytes.rs) finds the value with those bytes.
LEMMA ReadIs ==
  ASSUME NEW host \in Orders, NEW s \in [1 .. ValueSize -> ByteValues]
  PROVE  read_obj(host, s) \in Raw /\ as_slice(host, read_obj(host, s)) = s
<1>1. \E v \in Raw : as_slice(host, v) = s
  BY BytesDetermine
<1> QED
  BY <1>1 DEF read_obj

\* Swapping the bytes (endian.rs) gives the value that a host of the other order
\* finds, both ways.
LEMMA SwapIs ==
  ASSUME NEW v \in Raw
  PROVE  /\ swap_bytes(v) \in Raw
         /\ as_slice("big", swap_bytes(v)) = as_slice("little", v)
         /\ as_slice("little", swap_bytes(v)) = as_slice("big", v)
<1> DEFINE w == swap_bytes(v)
           n == ValueSize
<1>1. "little" \in Orders /\ "big" \in Orders /\ "big" # "little" /\ n \in Nat
  BY ByteAssumption DEF Orders
<1>2. as_slice("little", v) \in [1 .. n -> ByteValues]
  BY <1>1, BytesAre
<1>3. w \in Raw /\ as_slice("big", w) = as_slice("little", v)
  BY <1>1, <1>2, ReadIs DEF swap_bytes
<1> HIDE DEF w
<1>4. \A x \in Raw : /\ as_slice("little", x) \in [1 .. n -> ByteValues]
                     /\ as_slice("big", x) \in [1 .. n -> ByteValues]
                     /\ \A i \in 1 .. n : as_slice("little", x)[i] = digit(ByteSpace, x, i - 1)
                     /\ \A i \in 1 .. n : as_slice("big", x)[i] = digit(ByteSpace, x, n - i)
  BY <1>1, BytesAre
<1>5. ASSUME NEW i \in 1 .. n
      PROVE  as_slice("little", w)[i] = as_slice("big", v)[i]
  <2> DEFINE j == n - i + 1
  <2>1. j \in 1 .. n /\ n - j = i - 1 /\ j - 1 = n - i
    BY <1>1
  <2> HIDE DEF j
  <2>2. as_slice("little", w)[i] = digit(ByteSpace, w, i - 1)
    BY <1>3, <1>4
  <2>3. as_slice("big", w)[j] = digit(ByteSpace, w, n - j)
    BY <1>3, <1>4, <2>1
  <2>4. as_slice("little", v)[j] = digit(ByteSpace, v, j - 1)
    BY <1>4, <2>1
  <2>5. as_slice("big", v)[i] = digit(ByteSpace, v, n - i)
    BY <1>4
  <2> QED
    BY <1>3, <2>1, <2>2, <2>3, <2>4, <2>5
<1> DEFINE s == as_slice("little", w)
           t == as_slice("big", v)
<1>6. s \in [1 .. n -> ByteValues] /\ t \in [1 .. n -> ByteValues] /\ \A i \in 1 .. n : s[i] = t[i]
  BY <1>3, <1>4, <1>5
<1> HIDE DEF s, t
<1> HIDE DEF n
<1>7. s = t
  BY <1>1, <1>6
<1> QED
  BY <1>3, <1>7 DEF s, t, w, n

\* What From (endian.rs) wraps lies in the memory of any host in the order of
\* the type.
LEMMA FromIs ==
  ASSUME NEW order \in Orders, NEW host \in Orders, NEW v \in Raw
  PROVE  /\ to_new(order, host, v) \in Raw /\ from_new(order, host, v) = to_new(order, host, v)
         /\ as_slice(host, to_new(order, host, v)) = as_slice(order, v)
         /\ as_slice(order, to_new(order, host, v)) = as_slice(host, v)
<1>1. from_new(order, host, v) = to_new(order, host, v)
  BY DEF from_new, to_new
<1>2. CASE order = host
  BY <1>1, <1>2 DEF to_new
<1>3. CASE order # host
  <2>1. to_new(order, host, v) = swap_bytes(v)
    BY <1>3 DEF to_new
  <2>2. (order = "little" /\ host = "big") \/ (order = "big" /\ host = "little")
    BY <1>3 DEF Orders
  <2> QED
    BY <1>1, <2>1, <2>2, SwapIs
<1> QED
  BY <1>2, <1>3

\* Who reads the bytes of the type's order and converts has the value again.
LEMMA BackIs ==
  ASSUME NEW order \in Orders, NEW host \in Orders, NEW v \in Raw, NEW x \in Raw,
         as_slice(host, x) = as_slice(order, v)
  PROVE  to_new(order, host, x) = v
<1>1. to_new(order, host, x) \in Raw /\ as_slice(order, to_new(order, host, x)) = as_slice(host, x)
  BY FromIs
<1> QED
  BY <1>1, BytesDetermine

\* A part of a sequence as a function.
LEMMA SubSeqIs ==
  ASSUME NEW s, NEW m \in Int, NEW n \in Int, m <= n + 1
  PROVE  SubSeq(s, m, n) = [i \in 1 .. n - m + 1 |-> s[m + i - 1]]
<1> DEFINE S == {s[i] : i \in m .. n}
           part == SubSeq(s, m, n)
<1>1. \A i \in m .. n : s[i] \in S
  OBVIOUS
<1>2. /\ part \in Seq(S) /\ Len(part) = IF m <= n THEN n - m + 1 ELSE 0
      /\ \A i \in 1 .. n - m + 1 : part[i] = s[m + i - 1]
  BY <1>1, SubSeqProperties
<1>3. Len(part) = n - m + 1
  BY <1>2
<1> HIDE DEF part, S
<1>4. part = [i \in 1 .. Len(part) |-> part[i]]
  BY <1>2, LenProperties
<1> QED
  BY <1>2, <1>3, <1>4 DEF part

\* The bytes that write_obj (bytes.rs) has put into memory.
LEMMA WrittenBytes ==
  ASSUME NEW host \in Orders, NEW v \in Raw, NEW k \in 0 .. 2
  PROVE  SubSeq(write_obj(host, [i \in 1 .. ValueSize + 2 |-> 0], k, v), k + 1, k + ValueSize)
           = as_slice(host, v)
<1> DEFINE n == ValueSize
           s == as_slice(host, v)
           zeros == [i \in 1 .. n + 2 |-> 0]
           memory == write_obj(host, zeros, k, v)
           part == SubSeq(memory, k + 1, k + n)
<1>1. n \in Nat \ {0} /\ s \in [1 .. n -> ByteValues]
  BY BytesAre, ByteAssumption
<1> HIDE DEF n, s
<1>2. memory = [i \in 1 .. n + 2 |-> IF i - k \in 1 .. n THEN s[i - k] ELSE 0]
  BY DEF write_obj, n, s
<1>3. ASSUME NEW i \in 1 .. n
      PROVE  memory[(k + 1) + i - 1] = s[i]
  <2>1. (k + 1) + i - 1 \in 1 .. n + 2 /\ ((k + 1) + i - 1) - k = i
    BY <1>1
  <2> HIDE DEF memory
  <2> QED
    BY <1>2, <2>1
<1> HIDE DEF memory
<1>4. part = [i \in 1 .. n |-> memory[(k + 1) + i - 1]]
  <2>1. k + 1 \in Int /\ k + n \in Int /\ k + 1 <= (k + n) + 1 /\ (k + n) - (k + 1) + 1 = n
    BY <1>1
  <2>2. part = [i \in 1 .. (k + n) - (k + 1) + 1 |-> memory[(k + 1) + i - 1]]
    BY <2>1, SubSeqIs
  <2> QED
    BY <2>1, <2>2
<1> HIDE DEF part
<1>5. part = [i \in 1 .. n |-> s[i]]
  BY <1>3, <1>4
<1>6. part = s
  BY <1>1, <1>5
<1> QED
  BY <1>6 DEF part, memory, zeros, n, s

\* A value of an endian type (endian.rs) lies in memory in the order of the type
\* whichever host wrote it, any host reads the same number out of it, and both
\* == operators compare that number, for values of any size.
THEOREM ByteOrderExact == Spec => []EndianExact
<1>1. ASSUME addr \in Raw, other \in Raw
      PROVE  EndianExact
  <2>1. ASSUME NEW order \in Orders, NEW writer \in Orders, NEW reader \in Orders, NEW k \in 0 .. 2
        PROVE  LET x      == from(order, writer, addr)
                   memory == write_obj(writer, [i \in 1 .. ValueSize + 2 |-> 0], k, x)
                   bytes  == SubSeq(memory, k + 1, k + ValueSize)
                   weight(i) == Power(ByteSpace)[IF order = "little" THEN i - 1 ELSE ValueSize - i]
               IN  /\ \A i \in 1 .. ValueSize : bytes[i] = (addr \div weight(i)) % ByteSpace
                   /\ to_native(order, reader, read_obj(reader, bytes)) = addr
                   /\ eq_native(order, writer, x, other) <=> addr = other
                   /\ eq_new(order, writer, other, x) <=> addr = other
    <3> DEFINE x == from(order, writer, addr)
               memory == write_obj(writer, [i \in 1 .. ValueSize + 2 |-> 0], k, x)
               bytes  == SubSeq(memory, k + 1, k + ValueSize)
               weight(i) == Power(ByteSpace)[IF order = "little" THEN i - 1 ELSE ValueSize - i]
    <3>1. x \in Raw /\ x = to_new(order, writer, addr) /\ as_slice(writer, x) = as_slice(order, addr)
      BY <1>1, FromIs DEF from
    <3>2. bytes = as_slice(order, addr)
      <4> HIDE DEF x
      <4> QED
        BY <3>1, WrittenBytes
    <3> HIDE DEF bytes, x
    <3>3. \A i \in 1 .. ValueSize : bytes[i] = (addr \div weight(i)) % ByteSpace
      BY <1>1, <3>2, BytesAre DEF digit
    <3>4. to_native(order, reader, read_obj(reader, bytes)) = addr
      <4> DEFINE y == read_obj(reader, bytes)
      <4>1. bytes \in [1 .. ValueSize -> ByteValues]
        BY <1>1, <3>2, BytesAre
      <4>2. y \in Raw /\ as_slice(reader, y) = as_slice(order, addr)
        BY <3>2, <4>1, ReadIs
      <4> HIDE DEF y
      <4>3. to_new(order, reader, y) = addr /\ from_new(order, reader, y) = to_new(order, reader, y)
        BY <1>1, <4>2, BackIs, FromIs
      <4> QED
        BY <4>3 DEF to_native, y
    <3>5. eq_native(order, writer, x, other) <=> addr = other
      <4>1. as_slice(writer, to_new(order, writer, other)) = as_slice(order, other)
        BY <1>1, FromIs
      <4>2. x = to_new(order, writer, other) => as_slice(order, addr) = as_slice(order, other)
        BY <3>1, <4>1
      <4>3. x = to_new(order, writer, other) => addr = other
        BY <1>1, <4>2, BytesDetermine
      <4> QED
        BY <3>1, <4>3 DEF eq_native
    <3>6. eq_new(order, writer, other, x) <=> addr = other
      <4>1. to_new(order, writer, x) = addr
        BY <1>1, <3>1, BackIs
      <4> QED
        BY <4>1 DEF eq_new
    <3> QED
      BY <3>3, <3>4, <3>5, <3>6 DEF bytes, x
  <2> QED
    BY <1>1, <2>1 DEF EndianExact
<1>2. RawInv => EndianExact
  BY <1>1 DEF RawInv
<1> QED
  BY <1>2, Operands, PTL
=============================================================================
