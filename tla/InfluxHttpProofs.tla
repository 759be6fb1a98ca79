-------------------------- MODULE InfluxHttpProofs --------------------------
(***************************************************************************)
(* Theorems about InfluxHttp: wherever the answer of the database is split *)
(* or cut off, the parser of http_request() is at the place of the answer  *)
(* that its state stands for, or it has run past the end of what has       *)
(* arrived, and then it never gets to a success it should not report.      *)
(***************************************************************************)
EXTENDS InfluxHttp, SequenceTheorems, NaturalsInduction, WellFoundedInduction, TLAPS

-----------------------------------------------------------------------------
(* Numbers as digits *)

LEMMA LeastNumber ==
  ASSUME NEW S \in SUBSET Nat, S # {}
  PROVE  \E x \in S : \A y \in S : x <= y
<1> DEFINE R == OpToRel(<, Nat)
<1>1. \A x, y \in Nat : y < x => <<y, x>> \in R
  BY DEF OpToRel
<1>2. IsWellFoundedOn(R, Nat)
  BY NatLessThanWellFounded
<1> HIDE DEF R
<1>3. PICK x \in S : \A y \in S : ~(<<y, x>> \in R)
  BY <1>2, WFMin
<1>4. \A y \in S : ~(y < x)
  BY <1>1, <1>3, Zenon
<1>5. \A y \in S : y \in Nat
  OBVIOUS
<1>6. QED
  BY <1>4, <1>5

Bases == {10, 16}

\* What division by the base of a number leaves.
LEMMA Quotient ==
  ASSUME NEW base \in Bases, NEW n \in Nat
  PROVE  /\ n \div base \in Nat /\ n % base \in 0..(base - 1)
         /\ n = base * (n \div base) + (n % base)
         /\ n >= base => n \div base < n
<1>1. CASE base = 10
  <2>1. /\ n \div 10 \in Nat /\ n % 10 \in 0..(10 - 1)
        /\ n = 10 * (n \div 10) + (n % 10)
        /\ n >= 10 => n \div 10 < n
    OBVIOUS
  <2>2. QED
    BY <1>1, <2>1, Zenon
<1>2. CASE base = 16
  <2>1. /\ n \div 16 \in Nat /\ n % 16 \in 0..(16 - 1)
        /\ n = 16 * (n \div 16) + (n % 16)
        /\ n >= 16 => n \div 16 < n
    OBVIOUS
  <2>2. QED
    BY <1>2, <2>1, Zenon
<1>3. QED
  BY <1>1, <1>2 DEF Bases

\* d gives the digits of the numbers in S.
GivesDigits(d, base, S) ==
  d = [k \in S |-> IF k < base THEN <<k>> ELSE Append(d[k \div base], k % base)]

LEMMA DigitsUpTo ==
  ASSUME NEW base \in Bases, NEW n \in Nat
  PROVE  \E d : GivesDigits(d, base, 0..n)
<1> DEFINE Bad == {m \in Nat : ~ \E d : GivesDigits(d, base, 0..m)}
<1>1. SUFFICES ASSUME Bad # {} PROVE FALSE
  OBVIOUS
<1>2. PICK m \in Bad : \A y \in Bad : m <= y
  <2>1. Bad \in SUBSET Nat
    OBVIOUS
  <2> HIDE DEF Bad
  <2>2. QED
    BY <1>1, <2>1, LeastNumber
<1>3. m \in Nat /\ ~ \E d : GivesDigits(d, base, 0..m)
  BY <1>2
<1>4. PICK d : m > 0 => GivesDigits(d, base, 0..(m - 1))
  <2>1. CASE m > 0
    <3>1. m - 1 \in Nat /\ ~(m - 1 \in Bad)
      BY <1>2, <2>1
    <3>2. QED
      BY <3>1
  <2>2. QED
    BY <1>3, <2>1
<1> HIDE DEF Bad
<1> DEFINE F(k) == IF k < base THEN <<k>> ELSE Append(d[k \div base], k % base)
           g == [k \in 0..m |-> F(k)]
<1>5. \A k \in 0..m : k < m => g[k] = d[k]
  <2>1. SUFFICES ASSUME NEW k \in 0..m, k < m PROVE g[k] = d[k]
    OBVIOUS
  <2>2. k \in 0..(m - 1) /\ m > 0
    BY <1>3, <2>1
  <2>3. d[k] = F(k)
    BY <1>4, <2>2 DEF GivesDigits
  <2>4. QED
    BY <2>3
<1>6. \A k \in 0..m : ~(k < base) => k \div base \in 0..m /\ k \div base < m
  <2>1. SUFFICES ASSUME NEW k \in 0..m, ~(k < base) PROVE k \div base \in 0..m /\ k \div base < m
    OBVIOUS
  <2>2. k \in Nat /\ k >= base
    BY <2>1 DEF Bases
  <2>3. PICK q \in Nat : q = k \div base /\ q < k
    BY <2>2, Quotient
  <2>4. QED
    BY <1>3, <2>3
<1>7. \A k \in 0..m : F(k) = IF k < base THEN <<k>> ELSE Append(g[k \div base], k % base)
  <2> HIDE DEF g
  <2>1. QED
    BY <1>5, <1>6
<1>8. GivesDigits(g, base, 0..m)
  <2>1. g = [k \in 0..m |-> IF k < base THEN <<k>> ELSE Append(g[k \div base], k % base)]
    BY <1>7
  <2>2. QED
    BY <2>1, Zenon DEF GivesDigits
<1>9. QED
  BY <1>3, <1>8

LEMMA DigitsAgree ==
  ASSUME NEW base \in Bases, NEW d, NEW e, NEW m \in Nat, NEW n \in Nat, m <= n,
         GivesDigits(d, base, 0..m), GivesDigits(e, base, 0..n)
  PROVE  d[m] = e[m]
<1> DEFINE Bad == {k \in 0..m : d[k] # e[k]}
<1>1. SUFFICES ASSUME Bad # {} PROVE FALSE
  OBVIOUS
<1>2. PICK k \in Bad : \A y \in Bad : k <= y
  <2>1. Bad \in SUBSET Nat
    OBVIOUS
  <2> HIDE DEF Bad
  <2>2. QED
    BY <1>1, <2>1, LeastNumber
<1>3. k \in 0..m /\ k \in 0..n /\ d[k] # e[k] /\ k \in Nat
  BY <1>2
<1>4. /\ d[k] = IF k < base THEN <<k>> ELSE Append(d[k \div base], k % base)
      /\ e[k] = IF k < base THEN <<k>> ELSE Append(e[k \div base], k % base)
  <2> HIDE DEF Bad
  <2>1. QED
    BY <1>3, Zenon DEF GivesDigits
<1>5. k >= base
  BY <1>3, <1>4 DEF Bases
<1>6. PICK q \in Nat : q = k \div base /\ q < k
  BY <1>3, <1>5, Quotient
<1>7. q \in 0..m /\ ~(q \in Bad)
  BY <1>2, <1>3, <1>6
<1>8. d[q] = e[q]
  BY <1>7
<1>9. QED
  BY <1>3, <1>4, <1>6, <1>8, Zenon

\* The recursion in the definition of Digits.
LEMMA DigitsOf ==
  ASSUME NEW base \in Bases, NEW n \in Nat
  PROVE  Digits(n, base) = IF n < base THEN <<n>> ELSE Append(Digits(n \div base, base), n % base)
<1> DEFINE Up(k) == CHOOSE d : GivesDigits(d, base, 0..k)
           D == [k \in Nat |-> Up(k)[k]]
           C == CHOOSE d : GivesDigits(d, base, Nat)
<1>1. \A k \in Nat : GivesDigits(Up(k), base, 0..k)
  BY DigitsUpTo
<1> HIDE DEF Up, D, C
<1>a. ASSUME NEW q \in Nat, NEW k \in Nat, q <= k
      PROVE  Up(q)[q] = Up(k)[q]
  <2>1. PICK d, e : d = Up(q) /\ e = Up(k)
    OBVIOUS
  <2>2. GivesDigits(d, base, 0..q) /\ GivesDigits(e, base, 0..k)
    BY <1>1, <2>1
  <2>3. d[q] = e[q]
    BY <1>a, <2>2, DigitsAgree
  <2>4. QED
    BY <2>1, <2>3
<1> USE DEF D
<1>2. ASSUME NEW k \in Nat
      PROVE  D[k] = IF k < base THEN <<k>> ELSE Append(D[k \div base], k % base)
  <2>1. k \in 0..k
    OBVIOUS
  <2>2. Up(k)[k] = IF k < base THEN <<k>> ELSE Append(Up(k)[k \div base], k % base)
    BY <1>1, <2>1, Zenon DEF GivesDigits
  <2>3. ASSUME k >= base
        PROVE  Up(k)[k \div base] = D[k \div base]
    <3>1. PICK q \in Nat : q = k \div base /\ q <= k
      BY <2>3, Quotient
    <3>2. Up(q)[q] = Up(k)[q]
      BY <1>a, <3>1
    <3>3. QED
      BY <3>1, <3>2
  <2>4. base \in Nat
    BY DEF Bases
  <2>5. QED
    BY <2>2, <2>3, <2>4
<1>3. D = [k \in Nat |-> IF k < base THEN <<k>> ELSE Append(D[k \div base], k % base)]
  BY <1>2
<1>4. GivesDigits(D, base, Nat)
  BY <1>3, Zenon DEF GivesDigits
<1>5. GivesDigits(C, base, Nat)
  BY <1>4, Zenon DEF C
<1>6. \A k \in Nat : C[k] = IF k < base THEN <<k>> ELSE Append(C[k \div base], k % base)
  <2> HIDE DEF C
  <2>1. QED
    BY <1>5, Zenon DEF GivesDigits
<1>7. \A k \in Nat : Digits(k, base) = C[k]
  BY Zenon DEF Digits, GivesDigits, C
<1>8. n \div base \in Nat
  BY Quotient
<1> HIDE DEF C, D
<1>9. QED
  BY <1>6, <1>7, <1>8

\* q[j] is what the first j of the digits D say.
Values(D, base, q) ==
  q[0] = 0 /\ \A j \in 1..Len(D) : q[j] = base * q[j - 1] + D[j]

ValuesUpTo(D, base, n, w, q) ==
  /\ D \in Seq(0..(base - 1)) /\ Len(D) = w
  /\ Values(D, base, q) /\ q[w] = n /\ \A j \in 0..w : q[j] \in 0..n

Leading(D, base, j) == (CHOOSE q : Values(D, base, q))[j]

\* D are the w digits of n.
IsDigits(D, base, n, w) ==
  /\ D \in Seq(0..(base - 1)) /\ Len(D) = w
  /\ Leading(D, base, 0) = 0 /\ Leading(D, base, w) = n
  /\ \A j \in 0..w : Leading(D, base, j) \in 0..n
  /\ \A j \in 0..(w - 1) : /\ D[j + 1] \in 0..(base - 1)
                           /\ Leading(D, base, j + 1) = base * Leading(D, base, j) + D[j + 1]

LEMMA OneDigit ==
  ASSUME NEW base \in Bases, NEW n \in Nat, n < base
  PROVE  \E q : ValuesUpTo(<<n>>, base, n, 1, q)
<1> DEFINE q == [j \in 0..1 |-> IF j = 0 THEN 0 ELSE n]
<1>1. base \in Nat
  BY DEF Bases
<1>2. <<n>> \in Seq(0..(base - 1)) /\ Len(<<n>>) = 1 /\ <<n>>[1] = n
  BY <1>1
<1>3. q[0] = 0 /\ q[1] = n
  OBVIOUS
<1> HIDE DEF q
<1>4. \A j \in 1..1 : q[j] = base * q[j - 1] + <<n>>[j]
  <2>1. n = base * 0 + n
    BY DEF Bases
  <2>2. \A j \in 1..1 : j = 1 /\ j - 1 = 0
    OBVIOUS
  <2>3. QED
    BY <1>2, <1>3, <2>1, <2>2
<1>5. \A j \in 0..1 : q[j] \in 0..n
  BY <1>3
<1>6. QED
  BY <1>2, <1>3, <1>4, <1>5 DEF ValuesUpTo, Values

LEMMA OneDigitMore ==
  ASSUME NEW base \in Bases, NEW n \in Nat, NEW k \in Nat, NEW r \in 0..(base - 1),
         n = base * k + r, k <= n,
         NEW D, NEW w \in Nat \ {0}, NEW p, ValuesUpTo(D, base, k, w, p)
  PROVE  \E q : ValuesUpTo(Append(D, r), base, n, w + 1, q)
<1> DEFINE q == [j \in 0..(w + 1) |-> IF j <= w THEN p[j] ELSE n]
           E == Append(D, r)
<1>1. /\ D \in Seq(0..(base - 1)) /\ Len(D) = w
      /\ p[0] = 0 /\ p[w] = k
  BY DEF ValuesUpTo, Values
<1>2. \A j \in 1..w : p[j] = base * p[j - 1] + D[j]
  BY DEF ValuesUpTo, Values
<1>3. \A j \in 0..w : p[j] \in 0..k
  BY DEF ValuesUpTo
<1>4. E \in Seq(0..(base - 1)) /\ Len(E) = w + 1 /\ E[w + 1] = r
  BY <1>1
<1>5. \A j \in 1..w : E[j] = D[j]
  BY <1>1
<1>6. q[w + 1] = n /\ \A j \in 0..w : q[j] = p[j]
  OBVIOUS
<1> HIDE DEF q, E
<1>7. q[0] = 0 /\ q[w] = k
  BY <1>1, <1>6
<1>8. ASSUME NEW j \in 1..(w + 1)
      PROVE  q[j] = base * q[j - 1] + E[j]
  <2>1. CASE j \in 1..w
    <3>1. j - 1 \in 0..w /\ j \in 0..w
      BY <2>1
    <3>2. q[j] = p[j] /\ q[j - 1] = p[j - 1]
      BY <1>6, <3>1
    <3>3. QED
      BY <1>2, <1>5, <2>1, <3>2, Zenon
  <2>2. CASE j = w + 1
    <3>1. j - 1 = w
      BY <2>2
    <3>2. q[j] = n /\ q[j - 1] = k /\ E[j] = r
      BY <1>4, <1>6, <1>7, <2>2, <3>1
    <3>3. QED
      BY <3>2, Zenon
  <2>3. QED
    BY <2>1, <2>2
<1>9. ASSUME NEW j \in 0..(w + 1)
      PROVE  q[j] \in 0..n
  <2>1. CASE j \in 0..w
    <3>1. q[j] \in 0..k
      BY <1>3, <1>6, <2>1
    <3>2. QED
      BY <3>1
  <2>2. CASE j = w + 1
    BY <1>6, <2>2
  <2>3. QED
    BY <2>1, <2>2
<1>10. Values(E, base, q)
  <2>1. \A j \in 1..Len(E) : q[j] = base * q[j - 1] + E[j]
    BY <1>4, <1>8, Zenon
  <2>2. QED
    BY <1>7, <2>1, Zenon DEF Values
<1>11. ValuesUpTo(E, base, n, w + 1, q)
  BY <1>4, <1>6, <1>9, <1>10, Zenon DEF ValuesUpTo
<1>12. QED
  BY <1>11 DEF E

LEMMA ValuesExist ==
  ASSUME NEW base \in Bases, NEW n \in Nat
  PROVE  \E w \in Nat \ {0} : \E q : ValuesUpTo(Digits(n, base), base, n, w, q)
<1> DEFINE Bad == {m \in Nat : ~ \E w \in Nat \ {0} : \E q : ValuesUpTo(Digits(m, base), base, m, w, q)}
<1>1. SUFFICES ASSUME Bad # {} PROVE FALSE
  OBVIOUS
<1>2. PICK m \in Bad : \A y \in Bad : m <= y
  <2>1. Bad \in SUBSET Nat
    OBVIOUS
  <2> HIDE DEF Bad
  <2>2. QED
    BY <1>1, <2>1, LeastNumber
<1>3. m \in Nat /\ ~ \E w \in Nat \ {0} : \E q : ValuesUpTo(Digits(m, base), base, m, w, q)
  BY <1>2, Zenon
<1>4. \A k \in Nat : k < m => \E w \in Nat \ {0} : \E q : ValuesUpTo(Digits(k, base), base, k, w, q)
  <2>1. ASSUME NEW k \in Nat, k < m
        PROVE  ~(k \in Bad)
    <3> HIDE DEF Bad
    <3>1. QED
      BY <1>2, <1>3, <2>1
  <2>2. QED
    BY <2>1, Zenon
<1> HIDE DEF Bad
<1>5. CASE m < base
  <2>1. Digits(m, base) = <<m>>
    BY <1>3, <1>5, DigitsOf
  <2>2. PICK q : ValuesUpTo(<<m>>, base, m, 1, q)
    BY <1>3, <1>5, OneDigit
  <2>3. 1 \in Nat \ {0}
    OBVIOUS
  <2>4. QED
    BY <1>3, <2>1, <2>2, <2>3, Zenon
<1>6. CASE ~(m < base)
  <2>1. base \in Nat
    BY DEF Bases
  <2>2. PICK k \in Nat : k = m \div base /\ k < m
    <3>1. m \in Nat
      BY <1>3
    <3>2. m >= base
      BY <1>6, <2>1, <3>1
    <3>3. m \div base \in Nat /\ m \div base < m
      BY <3>1, <3>2, Quotient
    <3>4. QED
      BY <3>3
  <2>3. PICK r \in 0..(base - 1) : r = m % base /\ m = base * k + r
    BY <1>3, <2>2, Quotient
  <2>4. Digits(m, base) = Append(Digits(k, base), r)
    BY <1>3, <1>6, <2>2, <2>3, DigitsOf
  <2>a. PICK w \in Nat \ {0} : \E p : ValuesUpTo(Digits(k, base), base, k, w, p)
    BY <1>4, <2>2, Zenon
  <2>5. PICK p : ValuesUpTo(Digits(k, base), base, k, w, p)
    BY <2>a, Zenon
  <2>6. PICK q : ValuesUpTo(Append(Digits(k, base), r), base, m, w + 1, q)
    <3>1. PICK D : D = Digits(k, base) /\ ValuesUpTo(D, base, k, w, p)
      BY <2>5
    <3>2. k <= m
      BY <1>3, <2>2
    <3>3. \E q : ValuesUpTo(Append(D, r), base, m, w + 1, q)
      BY <1>3, <2>3, <3>1, <3>2, OneDigitMore
    <3>4. QED
      BY <3>1, <3>3
  <2>7. w + 1 \in Nat \ {0}
    OBVIOUS
  <2>8. QED
    BY <1>3, <2>4, <2>6, <2>7, Zenon
<1>7. QED
  BY <1>5, <1>6

LEMMA ValuesAgree ==
  ASSUME NEW base, NEW D, NEW w \in Nat, Len(D) = w, NEW p, NEW q,
         Values(D, base, p), Values(D, base, q)
  PROVE  \A j \in 0..w : p[j] = q[j]
<1> DEFINE Bad == {j \in 0..w : p[j] # q[j]}
<1>1. SUFFICES ASSUME Bad # {} PROVE FALSE
  OBVIOUS
<1>2. PICK j \in Bad : \A y \in Bad : j <= y
  <2>1. Bad \in SUBSET Nat
    OBVIOUS
  <2> HIDE DEF Bad
  <2>2. QED
    BY <1>1, <2>1, LeastNumber
<1>3. j \in 0..w /\ p[j] # q[j]
  BY <1>2
<1>4. p[0] = 0 /\ q[0] = 0
  BY DEF Values
<1>5. j \in 1..w /\ j - 1 \in 0..w
  BY <1>3, <1>4
<1>6. ~(j - 1 \in Bad)
  <2>1. ~(j <= j - 1)
    BY <1>3
  <2> HIDE DEF Bad
  <2>2. QED
    BY <1>2, <2>1
<1>7. p[j - 1] = q[j - 1]
  BY <1>5, <1>6
<1>8. p[j] = base * p[j - 1] + D[j] /\ q[j] = base * q[j - 1] + D[j]
  <2> HIDE DEF Bad
  <2>1. QED
    BY <1>5, Zenon DEF Values
<1>9. QED
  BY <1>3, <1>7, <1>8, Zenon

LEMMA DigitsSay ==
  ASSUME NEW base \in Bases, NEW n \in Nat
  PROVE  \E w \in Nat \ {0} : IsDigits(Digits(n, base), base, n, w)
<1> DEFINE D == Digits(n, base)
           p == CHOOSE q : Values(D, base, q)
<1>a. PICK w \in Nat \ {0} : \E q : ValuesUpTo(D, base, n, w, q)
  BY ValuesExist, Zenon
<1> HIDE DEF D
<1>1. PICK q : ValuesUpTo(D, base, n, w, q)
  BY <1>a, Zenon
<1>2. /\ D \in Seq(0..(base - 1)) /\ Len(D) = w /\ Values(D, base, q)
      /\ q[0] = 0 /\ q[w] = n
  BY <1>1 DEF ValuesUpTo, Values
<1>3. \A j \in 0..w : q[j] \in 0..n
  BY <1>1 DEF ValuesUpTo
<1>4. \A j \in 1..w : q[j] = base * q[j - 1] + D[j]
  BY <1>2 DEF Values
<1>5. Values(D, base, p)
  BY <1>2, Zenon
<1> HIDE DEF p
<1>6. \A j \in 0..w : p[j] = q[j]
  BY <1>2, <1>5, ValuesAgree
<1>7. \A j \in 0..w : Leading(D, base, j) = q[j]
  BY <1>6 DEF Leading, p
<1>8. ASSUME NEW j \in 0..(w - 1)
      PROVE  /\ D[j + 1] \in 0..(base - 1)
             /\ Leading(D, base, j + 1) = base * Leading(D, base, j) + D[j + 1]
  <2>1. j \in 0..w /\ j + 1 \in 0..w /\ j + 1 \in 1..w /\ (j + 1) - 1 = j
    OBVIOUS
  <2>2. D[j + 1] \in 0..(base - 1)
    BY <1>2, <2>1, ElementOfSeq
  <2>3. q[j + 1] = base * q[j] + D[j + 1]
    BY <1>4, <2>1
  <2>4. QED
    BY <1>7, <2>1, <2>2, <2>3
<1>9. Leading(D, base, 0) = 0 /\ Leading(D, base, w) = n /\ \A j \in 0..w : Leading(D, base, j) \in 0..n
  BY <1>2, <1>3, <1>7
<1>10. IsDigits(D, base, n, w)
  BY <1>2, <1>8, <1>9, Zenon DEF IsDigits
<1>11. QED
  BY <1>10 DEF D

LEMMA Digits10 ==
  ASSUME NEW n \in Nat
  PROVE  \E w \in Nat \ {0} : IsDigits(Digits(n, 10), 10, n, w)
BY DigitsSay DEF Bases

LEMMA Digits16 ==
  ASSUME NEW n \in Nat
  PROVE  \E w \in Nat \ {0} : IsDigits(Digits(n, 16), 16, n, w)
BY DigitsSay DEF Bases

LEMMA NextDecimal ==
  ASSUME NEW n, NEW D, NEW w, IsDigits(D, 10, n, w), NEW j \in 0..(w - 1)
  PROVE  /\ D[j + 1] \in 0..(10 - 1)
         /\ Leading(D, 10, j + 1) = 10 * Leading(D, 10, j) + D[j + 1]
BY Zenon DEF IsDigits

LEMMA NextHexDigit ==
  ASSUME NEW n, NEW D, NEW w, IsDigits(D, 16, n, w), NEW j \in 0..(w - 1)
  PROVE  /\ D[j + 1] \in 0..(16 - 1)
         /\ Leading(D, 16, j + 1) = 16 * Leading(D, 16, j) + D[j + 1]
BY Zenon DEF IsDigits

-----------------------------------------------------------------------------
(* Sequences of sequences made into one. The function in the definition of *)
(* FlattenSeq is unique and exists, by induction: of the lengths for which *)
(* that fails there would be a least one.                                  *)

\* f[i] joins the first i of the sequences, up to the nth.
Joins(f, seqs, n) ==
  f = [i \in 1..n |-> IF i = 1 THEN seqs[i] ELSE f[i - 1] \o seqs[i]]

LEMMA JoinsExist ==
  ASSUME NEW S, NEW seqs \in Seq(S)
  PROVE  \E f : Joins(f, seqs, Len(seqs))
<1> DEFINE Bad == {n \in Nat : n <= Len(seqs) /\ ~ \E f : Joins(f, seqs, n)}
<1>1. SUFFICES ASSUME Bad # {} PROVE FALSE
  BY LenProperties
<1>2. PICK n \in Bad : \A y \in Bad : n <= y
  BY <1>1, LeastNumber
<1>3. n # 0
  <2>1. Joins(<<>>, seqs, 0)
    BY DEF Joins
  <2>2. QED
    BY <2>1
<1>4. n - 1 \in Nat /\ ~(n - 1 \in Bad)
  BY <1>2, <1>3
<1>5. PICK f : Joins(f, seqs, n - 1)
  BY <1>4
<1> DEFINE g == [i \in 1..n |-> IF i = 1 THEN seqs[i] ELSE f[i - 1] \o seqs[i]]
<1>6. \A i \in 1..(n - 1) : f[i] = IF i = 1 THEN seqs[i] ELSE f[i - 1] \o seqs[i]
  BY <1>5 DEF Joins
<1>7. \A i \in 1..(n - 1) : g[i] = f[i]
  BY <1>6
<1>8. \A i \in 1..n : i # 1 => i - 1 \in 1..(n - 1)
  BY <1>3
<1>9. g = [i \in 1..n |-> IF i = 1 THEN seqs[i] ELSE g[i - 1] \o seqs[i]]
  BY <1>7, <1>8
<1>10. Joins(g, seqs, n)
  BY <1>9 DEF Joins
<1>11. QED
  BY <1>10

LEMMA JoinsAgree ==
  ASSUME NEW s, NEW t, NEW f, NEW g, NEW k, NEW n, k \in Nat, n \in Nat, k <= n,
         Joins(f, s, k), Joins(g, t, n), \A i \in 1..k : s[i] = t[i]
  PROVE  \A i \in 1..k : f[i] = g[i]
<1> DEFINE Bad == {i \in 1..k : f[i] # g[i]}
<1>1. SUFFICES ASSUME Bad # {} PROVE FALSE
  OBVIOUS
<1>2. PICK i \in Bad : \A y \in Bad : i <= y
  <2>1. Bad \in SUBSET Nat
    OBVIOUS
  <2> HIDE DEF Bad
  <2>2. QED
    BY <1>1, <2>1, LeastNumber
<1>3. /\ f[i] = IF i = 1 THEN s[i] ELSE f[i - 1] \o s[i]
      /\ g[i] = IF i = 1 THEN t[i] ELSE g[i - 1] \o t[i]
  <2>1. i \in 1..k /\ i \in 1..n
    OBVIOUS
  <2> HIDE DEF Bad
  <2>2. QED
    BY <2>1, Zenon DEF Joins
<1>4. s[i] = t[i]
  OBVIOUS
<1>5. i # 1
  BY <1>3, <1>4
<1>6. i - 1 \in 1..k /\ ~(i - 1 \in Bad)
  BY <1>2, <1>5
<1>7. f[i - 1] = g[i - 1]
  BY <1>6
<1>8. QED
  BY <1>3, <1>4, <1>5, <1>7

(* FlattenSeq appends one sequence after the other.                        *)
LEMMA FlattenNone == FlattenSeq(<<>>) = <<>>
  BY DEF FlattenSeq

LEMMA FlattenJoins ==
  ASSUME NEW S, NEW seqs \in Seq(S), seqs # <<>>
  PROVE  \E f : Joins(f, seqs, Len(seqs)) /\ FlattenSeq(seqs) = f[Len(seqs)]
<1> DEFINE f == CHOOSE h : Joins(h, seqs, Len(seqs))
<1>1. Joins(f, seqs, Len(seqs))
  BY JoinsExist
<1>2. Len(seqs) # 0
  BY EmptySeq
<1>3. FlattenSeq(seqs) = f[Len(seqs)]
  BY <1>2 DEF FlattenSeq, Joins
<1>4. QED
  BY <1>1, <1>3

Neutral(x) == <<>> \o x = x

FlattensAs(t, s, x) == FlattenSeq(t) = FlattenSeq(s) \o x

\* t has one more sequence at its end than s.
OneMoreThan(Q, s, n, t, m) ==
  /\ m = n + 1 /\ s \in Seq(Q) /\ t \in Seq(Q) /\ Neutral(t[m])
  /\ Len(s) = n /\ Len(t) = m /\ \A i \in 1..n : s[i] = t[i]

LEMMA FlattenOneMore ==
  ASSUME NEW Q, NEW s, NEW n \in Nat, NEW t, NEW m \in Nat, OneMoreThan(Q, s, n, t, m)
  PROVE  FlattensAs(t, s, t[m])
<1>0. /\ m = n + 1 /\ s \in Seq(Q) /\ t \in Seq(Q) /\ Neutral(t[m])
      /\ Len(s) = n /\ Len(t) = m /\ \A i \in 1..n : s[i] = t[i]
  BY Zenon DEF OneMoreThan
<1>1. t # <<>>
  BY <1>0
<1>2. PICK g : Joins(g, t, Len(t)) /\ FlattenSeq(t) = g[Len(t)]
  BY <1>0, <1>1, FlattenJoins
<1>3. Joins(g, t, m) /\ FlattenSeq(t) = g[m]
  BY <1>0, <1>2, Zenon
<1>4. g[m] = IF m = 1 THEN t[m] ELSE g[m - 1] \o t[m]
  <2>1. m \in 1..m
    BY <1>0
  <2>2. QED
    BY <1>3, <2>1, Zenon DEF Joins
<1>6. CASE n = 0
  <2>1. s = <<>>
    BY <1>0, <1>6, EmptySeq
  <2>2. g[m] = t[m] /\ <<>> \o t[m] = t[m]
    BY <1>0, <1>4, <1>6 DEF Neutral
  <2>3. QED
    BY <1>3, <2>1, <2>2, FlattenNone DEF FlattensAs
<1>7. CASE n # 0
  <2>1. s # <<>>
    BY <1>0, <1>7
  <2>2. PICK f : Joins(f, s, Len(s)) /\ FlattenSeq(s) = f[Len(s)]
    BY <1>0, <2>1, FlattenJoins
  <2>3. Joins(f, s, n) /\ FlattenSeq(s) = f[n]
    BY <1>0, <2>2, Zenon
  <2>4. n <= m
    BY <1>0
  <2>5. \A i \in 1..n : f[i] = g[i]
    <3>1. \A i \in 1..n : s[i] = t[i]
      BY <1>0, Zenon
    <3>2. Joins(f, s, n) /\ Joins(g, t, m)
      BY <1>3, <2>3, Zenon
    <3>3. QED
      BY <2>4, <3>1, <3>2, JoinsAgree
  <2>6. n \in 1..n /\ m - 1 = n /\ m # 1
    BY <1>0, <1>7
  <2>7. QED
    BY <1>3, <1>4, <2>3, <2>5, <2>6, Zenon DEF FlattensAs
<1>8. QED
  BY <1>6, <1>7

LEMMA FlattenNext ==
  ASSUME NEW Q, NEW seqs \in Seq(Q), NEW n \in Nat, NEW k \in Nat, k = n + 1, k <= Len(seqs),
         Neutral(seqs[k])
  PROVE  FlattenSeq(SubSeq(seqs, 1, k)) = FlattenSeq(SubSeq(seqs, 1, n)) \o seqs[k]
<1>1. /\ SubSeq(seqs, 1, n) \in Seq(Q) /\ SubSeq(seqs, 1, k) \in Seq(Q)
      /\ Len(SubSeq(seqs, 1, n)) = n /\ Len(SubSeq(seqs, 1, k)) = k
      /\ SubSeq(seqs, 1, k)[k] = seqs[k]
      /\ \A i \in 1..n : SubSeq(seqs, 1, n)[i] = SubSeq(seqs, 1, k)[i]
  BY LenProperties
<1>2. PICK s, t : s = SubSeq(seqs, 1, n) /\ t = SubSeq(seqs, 1, k)
  OBVIOUS
<1>3. /\ s \in Seq(Q) /\ t \in Seq(Q) /\ Len(s) = n /\ Len(t) = k
      /\ Neutral(t[k]) /\ \A i \in 1..n : s[i] = t[i]
  BY <1>1, <1>2, Zenon
<1>4. t[k] = seqs[k]
  BY <1>1, <1>2, Zenon
<1>5. FlattensAs(t, s, t[k])
  <2>1. OneMoreThan(Q, s, n, t, k)
    BY <1>3, Zenon DEF OneMoreThan
  <2>2. QED
    BY <2>1, FlattenOneMore, Zenon
<1>6. QED
  BY <1>2, <1>4, <1>5, Zenon DEF FlattensAs

\* The first n of the sequences as one.
Joined(seqs, n) == FlattenSeq(SubSeq(seqs, 1, n))

\* The sequence s is what w has after its first p elements.
Lies(w, p, s) ==
  /\ p + Len(s) <= Len(w)
  /\ \A i \in 1..Len(s) : w[p + i] = s[i]

LEMMA LiesParts ==
  ASSUME NEW S, NEW w \in Seq(S), NEW s \in Seq(S), NEW t \in Seq(S), NEW p \in Nat, NEW n \in Nat,
         Len(s) = n, Lies(w, p, s \o t)
  PROVE  Lies(w, p, s) /\ Lies(w, p + n, t)
<1> DEFINE st == s \o t
<1>1. PICK m \in Nat, l \in Nat : m = Len(t) /\ l = Len(w)
  BY LenProperties
<1>2. /\ Len(st) = n + m
      /\ \A i \in 1..n : st[i] = s[i]
      /\ \A i \in 1..m : st[n + i] = t[i]
  <2>1. /\ Len(st) = Len(s) + Len(t)
        /\ \A i \in 1..(Len(s) + Len(t)) : st[i] = IF i <= Len(s) THEN s[i] ELSE t[i - Len(s)]
    BY ConcatProperties, Zenon
  <2>2. Len(s) = n
    OBVIOUS
  <2> HIDE DEF st
  <2>3. Len(st) = n + m /\ \A i \in 1..(n + m) : st[i] = IF i <= n THEN s[i] ELSE t[i - n]
    BY <1>1, <2>1, <2>2, Zenon
  <2>4. ASSUME NEW i \in 1..m PROVE st[n + i] = t[i]
    <3>1. n + i \in 1..(n + m) /\ ~(n + i <= n) /\ (n + i) - n = i
      OBVIOUS
    <3>2. QED
      BY <2>3, <3>1, Zenon
  <2>5. ASSUME NEW i \in 1..n PROVE st[i] = s[i]
    <3>1. i \in 1..(n + m) /\ i <= n
      OBVIOUS
    <3>2. QED
      BY <2>3, <3>1, Zenon
  <2>6. QED
    BY <2>3, <2>4, <2>5
<1> HIDE DEF st
<1>3. p + (n + m) <= l /\ \A i \in 1..(n + m) : w[p + i] = st[i]
  BY <1>1, <1>2 DEF Lies, st
<1>4. Lies(w, p, s)
  <2>1. p + n <= l
    BY <1>3
  <2>2. \A i \in 1..n : i \in 1..(n + m)
    OBVIOUS
  <2>3. \A i \in 1..n : w[p + i] = s[i]
    BY <1>2, <1>3, <2>2
  <2>4. QED
    BY <1>1, <2>1, <2>3 DEF Lies
<1>5. Lies(w, p + n, t)
  <2>1. (p + n) + m <= l
    BY <1>3
  <2>2. \A i \in 1..m : w[(p + n) + i] = t[i]
    <3>1. TAKE i \in 1..m
    <3>2. n + i \in 1..(n + m) /\ p + (n + i) = (p + n) + i
      OBVIOUS
    <3>3. w[p + (n + i)] = st[n + i]
      BY <1>3, <3>2
    <3>4. QED
      BY <1>2, <3>2, <3>3
  <2>3. QED
    BY <1>1, <2>1, <2>2 DEF Lies
<1>6. QED
  BY <1>4, <1>5

LEMMA JoinLength ==
  ASSUME NEW S, NEW s \in Seq(S), NEW t \in Seq(S), NEW n \in Nat, NEW m \in Nat,
         Len(s) = n, Len(t) = m
  PROVE  s \o t \in Seq(S) /\ Len(s \o t) = n + m
OBVIOUS

LEMMA JoinAt ==
  ASSUME NEW S, NEW s \in Seq(S), NEW t \in Seq(S), NEW n \in Nat, NEW m \in Nat,
         Len(s) = n, Len(t) = m
  PROVE  \A i \in 1..(n + m) : (s \o t)[i] = IF i <= n THEN s[i] ELSE t[i - n]
OBVIOUS

LEMMA LiesWhole ==
  ASSUME NEW S, NEW w \in Seq(S)
  PROVE  Lies(w, 0, w)
BY DEF Lies

LEMMA LiesOne ==
  ASSUME NEW w, NEW p \in Nat, NEW c, Lies(w, p, <<c>>)
  PROVE  w[p + 1] = c
BY DEF Lies

LEMMA LiesTwo ==
  ASSUME NEW w, NEW p \in Nat, NEW c, NEW d, Lies(w, p, <<c, d>>)
  PROVE  w[p + 1] = c /\ w[p + 2] = d
BY DEF Lies

LEMMA JoinedEnds ==
  ASSUME NEW Q, NEW seqs \in Seq(Q)
  PROVE  Joined(seqs, 0) = <<>> /\ Joined(seqs, Len(seqs)) = FlattenSeq(seqs)
<1>1. SubSeq(seqs, 1, 0) = <<>> /\ SubSeq(seqs, 1, Len(seqs)) = seqs
  OBVIOUS
<1>2. QED
  BY <1>1, FlattenNone DEF Joined

LEMMA JoinedNext ==
  ASSUME NEW Q, NEW seqs \in Seq(Q), NEW n \in Nat, NEW k \in Nat, k = n + 1, k <= Len(seqs),
         NEW S, seqs[k] \in Seq(S)
  PROVE  Joined(seqs, k) = Joined(seqs, n) \o seqs[k]
<1>1. Neutral(seqs[k])
  BY DEF Neutral
<1>2. QED
  BY <1>1, FlattenNext DEF Joined

LEMMA JoinedType ==
  ASSUME NEW Q, NEW seqs \in Seq(Q), NEW S, \A k \in 1..Len(seqs) : seqs[k] \in Seq(S),
         NEW n \in Nat, n <= Len(seqs)
  PROVE  Joined(seqs, n) \in Seq(S)
<1> DEFINE Bad == {i \in Nat : i <= Len(seqs) /\ ~(Joined(seqs, i) \in Seq(S))}
<1>1. SUFFICES ASSUME Bad # {} PROVE FALSE
  BY Zenon
<1>2. PICK i \in Bad : \A y \in Bad : i <= y
  <2>1. Bad \in SUBSET Nat
    OBVIOUS
  <2> HIDE DEF Bad
  <2>2. QED
    BY <1>1, <2>1, LeastNumber
<1>3. i # 0
  <2>1. Joined(seqs, 0) \in Seq(S)
    <3>1. Joined(seqs, 0) = <<>>
      BY JoinedEnds
    <3>2. <<>> \in Seq(S)
      OBVIOUS
    <3>3. QED
      BY <3>1, <3>2, Zenon
  <2>2. QED
    BY <2>1
<1>4. PICK j \in Nat : i = j + 1
  BY <1>3
<1>5. Joined(seqs, j) \in Seq(S)
  <2>1. ~(j \in Bad) /\ j <= Len(seqs)
    BY <1>2, <1>4, LenProperties
  <2>2. QED
    BY <2>1
<1>6. i \in Nat /\ i <= Len(seqs) /\ i \in 1..Len(seqs)
  BY <1>3, LenProperties
<1>7. seqs[i] \in Seq(S)
  BY <1>6
<1>8. Joined(seqs, i) = Joined(seqs, j) \o seqs[i]
  BY <1>4, <1>6, <1>7, JoinedNext
<1>9. Joined(seqs, i) \in Seq(S)
  BY <1>5, <1>7, <1>8
<1>10. QED
  BY <1>9

(* Where a joined sequence lies, each of its beginnings does.              *)
LEMMA JoinedLies ==
  ASSUME NEW Q, NEW seqs \in Seq(Q), NEW S, \A k \in 1..Len(seqs) : seqs[k] \in Seq(S),
         NEW w \in Seq(S), NEW p \in Nat, Lies(w, p, FlattenSeq(seqs)),
         NEW n \in Nat, n <= Len(seqs)
  PROVE  Lies(w, p, Joined(seqs, n))
<1>1. PICK N \in Nat : N = Len(seqs)
  BY LenProperties
<1> DEFINE Bad == {j \in 0..N : ~Lies(w, p, Joined(seqs, N - j))}
<1>2. SUFFICES ASSUME Bad # {} PROVE FALSE
  <2>1. N - n \in 0..N /\ N - (N - n) = n
    BY <1>1
  <2>2. QED
    BY <1>2, <2>1
<1>3. PICK j \in Bad : \A y \in Bad : j <= y
  <2>1. Bad \in SUBSET Nat
    OBVIOUS
  <2> HIDE DEF Bad
  <2>2. QED
    BY <1>2, <2>1, LeastNumber
<1>4. j # 0
  <2>1. Lies(w, p, Joined(seqs, N))
    BY <1>1, JoinedEnds
  <2>2. N - 0 = N
    OBVIOUS
  <2>3. QED
    BY <2>1, <2>2
<1>5. PICK i \in Nat, k \in Nat : i = N - j /\ k = i + 1 /\ k = N - (j - 1) /\ k <= N
  BY <1>4
<1>6. Lies(w, p, Joined(seqs, k))
  <2>1. j - 1 \in 0..N /\ ~(j <= j - 1)
    BY <1>4
  <2>2. ~(j - 1 \in Bad)
    BY <1>3, <2>1, Zenon
  <2>3. QED
    BY <1>5, <2>1, <2>2, Zenon
<1>7. seqs[k] \in Seq(S)
  BY <1>1, <1>5
<1>8. Joined(seqs, k) = Joined(seqs, i) \o seqs[k]
  BY <1>1, <1>5, <1>7, JoinedNext
<1>9. Joined(seqs, i) \in Seq(S)
  BY <1>1, <1>5, JoinedType
<1>10. PICK l \in Nat : Len(Joined(seqs, i)) = l
  BY <1>9, LenProperties
<1>11. Lies(w, p, Joined(seqs, i))
  BY <1>6, <1>7, <1>8, <1>9, <1>10, LiesParts
<1>12. QED
  BY <1>5, <1>11

(* Where a joined sequence lies, each of its parts does, after those before *)
(* it.                                                                     *)
LEMMA PartLies ==
  ASSUME NEW Q, NEW seqs \in Seq(Q), NEW S, \A k \in 1..Len(seqs) : seqs[k] \in Seq(S),
         NEW w \in Seq(S), NEW p \in Nat, Lies(w, p, FlattenSeq(seqs)),
         NEW n \in Nat, NEW k \in Nat, k = n + 1, k <= Len(seqs)
  PROVE  /\ Len(Joined(seqs, n)) \in Nat /\ Len(seqs[k]) \in Nat
         /\ Len(Joined(seqs, k)) = Len(Joined(seqs, n)) + Len(seqs[k])
         /\ Lies(w, p + Len(Joined(seqs, n)), seqs[k])
<1>1. k \in 1..Len(seqs) /\ n <= Len(seqs)
  BY LenProperties
<1>2. seqs[k] \in Seq(S)
  BY <1>1
<1>3. Joined(seqs, n) \in Seq(S)
  BY <1>1, JoinedType
<1>4. Joined(seqs, k) = Joined(seqs, n) \o seqs[k]
  BY <1>2, JoinedNext
<1>5. Lies(w, p, Joined(seqs, k))
  <2>1. \A i \in Nat : i <= Len(seqs) => Lies(w, p, Joined(seqs, i))
    <3>1. TAKE i \in Nat
    <3>2. HAVE i <= Len(seqs)
    <3>3. QED
      BY <3>2, JoinedLies
  <2>2. QED
    BY <2>1
<1>6. PICK l \in Nat, m \in Nat : l = Len(Joined(seqs, n)) /\ m = Len(seqs[k])
  BY <1>2, <1>3, LenProperties
<1>7. Len(Joined(seqs, k)) = l + m
  BY <1>2, <1>3, <1>4, <1>6
<1>8. Lies(w, p + l, seqs[k])
  <2>1. PICK s, t : s = Joined(seqs, n) /\ t = seqs[k]
    OBVIOUS
  <2>2. s \in Seq(S) /\ t \in Seq(S) /\ Len(s) = l /\ Lies(w, p, s \o t)
    BY <1>2, <1>3, <1>4, <1>5, <1>6, <2>1, Zenon
  <2>3. Lies(w, p + l, t)
    BY <2>2, LiesParts
  <2>4. QED
    BY <2>1, <2>3, Zenon
<1>9. QED
  BY <1>6, <1>7, <1>8, Zenon

-----------------------------------------------------------------------------
(* Where the parts of an answer lie on the wire *)

Text == Chars \ {NUL}

LEMMA DigitsText ==
  ASSUME NEW base \in {10, 16}, NEW D, NEW n, NEW w \in Nat \ {0}, IsDigits(D, base, n, w)
  PROVE  D \in Seq(Text) /\ Len(D) = w
<1>1. 0..(base - 1) \subseteq Text
  BY DEF Text, Chars, NUL
<1>2. QED
  <2>1. D \in Seq(0..(base - 1)) /\ Len(D) = w
    BY Zenon DEF IsDigits
  <2> DEFINE R == 0..(base - 1)
  <2>2. D \in Seq(R) /\ R \subseteq Text
    BY <1>1, <2>1
  <2> HIDE DEF R
  <2>3. D \in Seq(Text)
    BY <2>2
  <2>4. QED
    BY <2>1, <2>3

\* The data of a chunk of n characters follow p + hw + 2 characters.
IsFrame(w, p, n, hw) ==
  /\ IsDigits(Digits(n, 16), 16, n, hw)
  /\ \A i \in 1..hw : w[p + i] = Digits(n, 16)[i]
  /\ w[p + hw + 1] = CR /\ w[p + hw + 2] = LF
  /\ w[p + hw + n + 3] = CR /\ w[p + hw + n + 4] = LF
  /\ p + hw + n + 4 <= Len(w)

LEMMA EndLineText == EndLine \in Seq(Text) /\ Len(EndLine) = 2
  BY DEF EndLine, Text, Chars, NUL, CR, LF

LEMMA LineLength ==
  ASSUME NEW s \in Seq(Text), NEW n \in Nat, Len(s) = n
  PROVE  s \o EndLine \in Seq(Text) /\ Len(s \o EndLine) = n + 2
<1>1. PICK e \in Seq(Text), m \in Nat : e = EndLine /\ m = 2 /\ Len(e) = m
  BY EndLineText
<1>2. Len(e) = m
  BY <1>1
<1>3. s \o e \in Seq(Text) /\ Len(s \o e) = n + m
  BY <1>2, JoinLength
<1>4. QED
  BY <1>1, <1>3

LEMMA ChunkLies ==
  ASSUME NEW n \in Nat, NEW d \in Seq(Text), Len(d) = n
  PROVE  \E hw \in Nat \ {0} :
           /\ Chunk(d) \in Seq(Text) /\ Len(Chunk(d)) = hw + n + 4
           /\ \A w \in Seq(Text), p \in Nat :
                Lies(w, p, Chunk(d)) => IsFrame(w, p, n, hw) /\ Lies(w, p + hw + 2, d)
<1> DEFINE D == Digits(n, 16)
<1>1. PICK hw \in Nat \ {0} : IsDigits(D, 16, n, hw)
  BY Digits16
<1>2. D \in Seq(Text) /\ Len(D) = hw
  BY <1>1, DigitsText
<1> DEFINE A == D \o EndLine
           B == A \o d
<1>5. Chunk(d) = B \o EndLine
  BY DEF Chunk
<1> HIDE DEF D
<1>3. A \in Seq(Text) /\ Len(A) = hw + 2
  BY <1>2, LineLength
<1> HIDE DEF A
<1>4. B \in Seq(Text) /\ Len(B) = hw + 2 + n
  BY <1>3, JoinLength
<1> HIDE DEF B
<1>6. Chunk(d) \in Seq(Text) /\ Len(Chunk(d)) = hw + n + 4
  <2>1. B \o EndLine \in Seq(Text) /\ Len(B \o EndLine) = (hw + 2 + n) + 2
    BY <1>4, LineLength
  <2>2. QED
    BY <1>5, <2>1
<1> HIDE DEF D, A, B
<1>7. ASSUME NEW w \in Seq(Text), NEW p \in Nat, Lies(w, p, Chunk(d))
      PROVE  IsFrame(w, p, n, hw) /\ Lies(w, p + hw + 2, d)
  <2>1. Lies(w, p, B \o EndLine)
    BY <1>5, <1>7
  <2>2. Lies(w, p, B) /\ Lies(w, p + (hw + 2 + n), EndLine)
    <3>1. hw + 2 + n \in Nat
      OBVIOUS
    <3>2. QED
      BY <1>4, <2>1, EndLineText, LiesParts, <3>1, Zenon
  <2>3. Lies(w, p, A) /\ Lies(w, p + (hw + 2), d)
    <3>1. hw + 2 \in Nat
      OBVIOUS
    <3>2. QED
      BY <1>3, <2>2, LiesParts, <3>1, Zenon DEF B
  <2>4. Lies(w, p, D) /\ Lies(w, p + hw, EndLine)
    BY <1>2, <2>3, EndLineText, LiesParts DEF A
  <2>5. w[p + hw + 1] = CR /\ w[p + hw + 2] = LF
    BY <2>4, LiesTwo DEF EndLine
  <2>6. w[(p + (hw + 2 + n)) + 1] = CR /\ w[(p + (hw + 2 + n)) + 2] = LF
    BY <2>2, LiesTwo DEF EndLine
  <2>7. \A i \in 1..hw : w[p + i] = D[i]
    BY <1>2, <2>4 DEF Lies
  <2>8. p + hw + n + 4 <= Len(w)
    BY <2>2, EndLineText, LenProperties DEF Lies
  <2>9. /\ (p + (hw + 2 + n)) + 1 = p + hw + n + 3 /\ (p + (hw + 2 + n)) + 2 = p + hw + n + 4
        /\ p + (hw + 2) = p + hw + 2
    OBVIOUS
  <2>10. IsFrame(w, p, n, hw)
    BY <1>1, <2>5, <2>6, <2>7, <2>8, <2>9 DEF IsFrame, D
  <2>11. QED
    BY <2>3, <2>9, <2>10
<1>8. QED
  BY <1>6, <1>7

Ends(w, p, s) == Lies(w, p, s) /\ Len(w) = p + Len(s)

WireChunks(a) == [k \in DOMAIN a.chunks |-> Chunk(a.chunks[k])]

\* A chunk of n characters is what follows after p characters of the wire, and
\* its data are what follows after m characters of the body. That without data
\* is the last one.
IsChunk(w, b, p, m, n, hw) ==
  /\ n \in Nat /\ hw \in Nat \ {0} /\ p \in Nat /\ m \in Nat /\ m <= p
  /\ IsFrame(w, p, n, hw)
  /\ \A i \in 1..n : b[m + i] = w[(p + hw + 2) + i]
  /\ m + n <= Len(b)
  /\ n = 0 => m = Len(b) /\ Len(w) = p + hw + 4

\* The first of the chunks that begin after p characters of the wire and
\* continue the body after m of its characters.
More(w, a, p, m) ==
  \E e, n, l \in Nat :
    /\ n <= Len(a.chunks)
    /\ Ends(w, e, FlattenSeq(WireChunks(a)) \o Chunk(<<>>))
    /\ l = Len(Joined(WireChunks(a), n)) /\ p = e + l
    /\ m = Len(Joined(a.chunks, n)) /\ m <= l

LEMMA StatusType ==
  ASSUME NEW a \in Answers
  PROVE  a.status \in 100..599 /\ a.status \in Nat
<1>1. a.status \in 100..599
  BY HttpAssumption, Zenon DEF AnswerShape
<1>2. QED
  BY <1>1

LEMMA FramingType ==
  ASSUME NEW a \in Answers
  PROVE  /\ a.framing \in {"length", "chunked", "none"}
         /\ a.framing = "none" <=> a.chunks = <<>>
BY HttpAssumption, Zenon DEF AnswerShape

LEMMA ChunkType ==
  ASSUME NEW a \in Answers
  PROVE  /\ a.chunks \in Seq(Seq(Text) \ {<<>>})
         /\ \A k \in 1..Len(a.chunks) : a.chunks[k] \in Seq(Text) /\ Len(a.chunks[k]) # 0
<1> DEFINE Q == Seq(Text) \ {<<>>}
<1>1. a.chunks \in Seq(Q)
  BY HttpAssumption, Zenon DEF AnswerShape, Text
<1>2. \A x \in Q : x \in Seq(Text) /\ Len(x) # 0
  BY EmptySeq
<1> HIDE DEF Q
<1>3. \A k \in 1..Len(a.chunks) : a.chunks[k] \in Q
  BY <1>1, ElementOfSeq
<1>4. \A k \in 1..Len(a.chunks) : a.chunks[k] \in Seq(Text) /\ Len(a.chunks[k]) # 0
  BY <1>2, <1>3, Zenon
<1>5. QED
  BY <1>1, <1>4, Zenon DEF Q

LEMMA ChunksType ==
  ASSUME NEW a \in Answers
  PROVE  /\ a.chunks \in Seq(Seq(Text)) /\ Len(a.chunks) \in Nat
         /\ DOMAIN a.chunks = 1..Len(a.chunks)
<1> DEFINE P == Seq(Text)
           Q == P \ {<<>>}
<1>1. a.chunks \in Seq(Q)
  BY ChunkType, Zenon
<1>2. Q \subseteq P
  OBVIOUS
<1> HIDE DEF Q, P
<1>3. Seq(Q) \subseteq Seq(P)
  BY <1>2
<1>4. a.chunks \in Seq(P)
  BY <1>1, <1>3, Zenon
<1>5. Len(a.chunks) \in Nat /\ DOMAIN a.chunks = 1..Len(a.chunks)
  BY <1>1, LenProperties
<1>6. QED
  BY <1>4, <1>5, Zenon DEF P

LEMMA BodyType ==
  ASSUME NEW a \in Answers
  PROVE  /\ Body(a) \in Seq(Text) /\ Size(a) \in Nat
         /\ Len(Body(a)) = Size(a) /\ Len(Body(a)) \in Nat
<1>1. PICK N \in Nat : N = Len(a.chunks) /\ N <= N
  BY ChunksType
<1>2. a.chunks \in Seq(Seq(Text)) /\ \A k \in 1..Len(a.chunks) : a.chunks[k] \in Seq(Text)
  BY ChunksType, ChunkType, Zenon
<1> DEFINE Q == Seq(Text)
<1>3. a.chunks \in Seq(Q)
  BY <1>2
<1> HIDE DEF Q
<1>4. Joined(a.chunks, N) \in Seq(Text)
  BY <1>1, <1>2, <1>3, JoinedType
<1>5. Body(a) \in Seq(Text)
  BY <1>1, <1>3, <1>4, JoinedEnds, Zenon DEF Body
<1>6. Len(Body(a)) \in Nat /\ Len(Body(a)) = Size(a)
  BY <1>5, LenProperties DEF Body, Size
<1>7. QED
  BY <1>5, <1>6, Zenon

LEMMA FitsAnInt ==
  ASSUME NEW a \in Answers, NEW x \in Nat, x <= a.status \/ x <= Size(a)
  PROVE  x \in 0..MaxInt
<1>1. Size(a) \in 0..MaxInt /\ MaxInt \in Nat /\ MaxInt >= 599
  BY HttpAssumption, Zenon
<1>2. a.status \in 100..599
  BY StatusType
<1>3. QED
  BY <1>1, <1>2

LEMMA WireChunksType ==
  ASSUME NEW a \in Answers
  PROVE  /\ WireChunks(a) \in Seq(Seq(Text)) /\ Len(WireChunks(a)) = Len(a.chunks)
         /\ \A k \in 1..Len(a.chunks) :
              /\ WireChunks(a)[k] = Chunk(a.chunks[k])
              /\ WireChunks(a)[k] \in Seq(Text)
         /\ \A k \in 1..Len(a.chunks) : Len(a.chunks[k]) \in Nat \ {0}
<1>1. PICK N \in Nat : N = Len(a.chunks)
  BY ChunksType
<1>2. DOMAIN a.chunks = 1..N
  BY <1>1, ChunksType
<1>3. \A k \in 1..N : Len(a.chunks[k]) \in Nat \ {0}
  <2>1. TAKE k \in 1..N
  <2>2. PICK n \in Nat : k = n + 1
    OBVIOUS
  <2>3. Lies(Body(a), 0, FlattenSeq(a.chunks))
    BY BodyType, LiesWhole DEF Body
  <2>4. PICK l \in Nat, m \in Nat : m = Len(a.chunks[k]) /\ Lies(Body(a), 0 + l, a.chunks[k])
    <3> DEFINE Q == Seq(Text)
    <3>1. a.chunks \in Seq(Q) /\ \A i \in 1..Len(a.chunks) : a.chunks[i] \in Seq(Text)
      BY ChunksType, ChunkType
    <3> HIDE DEF Q
    <3>2. k \in Nat /\ k <= Len(a.chunks) /\ Body(a) \in Seq(Text)
      BY <1>1, BodyType
    <3>3. 0 \in Nat
      OBVIOUS
    <3>4. QED
      BY <2>2, <2>3, <3>1, <3>2, <3>3, PartLies, Zenon
  <2>5. PICK s \in Nat : s = Len(Body(a))
    BY BodyType
  <2>6. (0 + l) + m <= s
    BY <2>4, <2>5, Zenon DEF Lies
  <2>7. m # 0
    BY <1>1, <2>4, ChunkType
  <2>8. m \in Nat \ {0}
    BY <2>6, <2>7
  <2>9. QED
    BY <2>4, <2>8, Zenon
<1>4. \A k \in 1..N : Chunk(a.chunks[k]) \in Seq(Text)
  <2>1. TAKE k \in 1..N
  <2>2. PICK n \in Nat : n = Len(a.chunks[k])
    <3>1. PICK n \in Nat \ {0} : n = Len(a.chunks[k])
      BY <1>3
    <3>2. n \in Nat
      OBVIOUS
    <3>3. QED
      BY <3>1, <3>2, Zenon
  <2>3. PICK d : d = a.chunks[k]
    OBVIOUS
  <2>4. d \in Seq(Text) /\ Len(d) = n
    BY <1>1, <2>2, <2>3, ChunkType, Zenon
  <2>5. Chunk(d) \in Seq(Text)
    BY <2>4, ChunkLies
  <2>6. QED
    BY <2>3, <2>5, Zenon
<1>5. WireChunks(a) = [k \in 1..N |-> Chunk(a.chunks[k])]
  BY <1>2 DEF WireChunks
<1>6. WireChunks(a) \in Seq(Seq(Text)) /\ Len(WireChunks(a)) = N
  <2> DEFINE Q == Seq(Text)
             C(k) == Chunk(a.chunks[k])
  <2>1. \A k \in 1..N : C(k) \in Q
    BY <1>4
  <2> HIDE DEF Q, C
  <2>2. [k \in 1..N |-> C(k)] \in Seq(Q) /\ Len([k \in 1..N |-> C(k)]) = N
    BY <2>1
  <2>3. QED
    BY <1>5, <2>2 DEF Q, C
<1>7. \A k \in 1..N : WireChunks(a)[k] = Chunk(a.chunks[k])
  BY <1>5
<1>8. \A k \in 1..N : WireChunks(a)[k] \in Seq(Text)
  BY <1>4, <1>7, Zenon
<1>9. QED
  BY <1>1, <1>3, <1>6, <1>7, <1>8, Zenon

LEMMA LastChunk ==
  \E hw \in Nat \ {0} :
           /\ Chunk(<<>>) \in Seq(Text) /\ Len(Chunk(<<>>)) = hw + 4
           /\ \A w \in Seq(Text), p \in Nat : Lies(w, p, Chunk(<<>>)) => IsFrame(w, p, 0, hw)
<1>1. PICK n \in Nat, d \in Seq(Text) : n = 0 /\ d = <<>> /\ Len(d) = n
  <2>1. 0 \in Nat /\ <<>> \in Seq(Text) /\ Len(<<>>) = 0
    OBVIOUS
  <2>2. QED
    BY <2>1, Zenon
<1>2. Len(d) = n
  BY <1>1
<1>3. PICK hw \in Nat \ {0} :
           /\ Chunk(d) \in Seq(Text) /\ Len(Chunk(d)) = hw + n + 4
           /\ \A w \in Seq(Text), p \in Nat :
                Lies(w, p, Chunk(d)) => IsFrame(w, p, n, hw) /\ Lies(w, p + hw + 2, d)
  BY <1>2, ChunkLies
<1>4. hw + n + 4 = hw + 4
  BY <1>1
<1>5. QED
  BY <1>1, <1>3, <1>4, Zenon

LEMMA NextChunk ==
  ASSUME NEW a \in Answers, NEW w \in Seq(Text), NEW p, NEW m, More(w, a, p, m)
  PROVE  \E n, hw \in Nat :
           /\ IsChunk(w, Body(a), p, m, n, hw)
           /\ n > 0 => More(w, a, p + hw + n + 4, m + n)
<1> DEFINE W == WireChunks(a)
           Q == Seq(Text)
           L == Chunk(<<>>)
<1>1. PICK e \in Nat, i \in Nat, l \in Nat :
        /\ i <= Len(a.chunks)
        /\ Ends(w, e, FlattenSeq(W) \o L)
        /\ l = Len(Joined(W, i)) /\ p = e + l
        /\ m = Len(Joined(a.chunks, i)) /\ m <= l
  BY DEF More
<1>2. PICK N \in Nat : N = Len(a.chunks)
  BY ChunksType
<1>3. /\ W \in Seq(Q) /\ Len(W) = N
      /\ \A k \in 1..N : W[k] = Chunk(a.chunks[k]) /\ W[k] \in Seq(Text)
      /\ \A k \in 1..N : Len(a.chunks[k]) \in Nat \ {0} /\ a.chunks[k] \in Seq(Text)
      /\ a.chunks \in Seq(Q)
  <2>1. /\ W \in Seq(Q) /\ Len(W) = Len(a.chunks)
        /\ \A k \in 1..Len(a.chunks) : W[k] = Chunk(a.chunks[k]) /\ W[k] \in Seq(Text)
        /\ \A k \in 1..Len(a.chunks) : Len(a.chunks[k]) \in Nat \ {0}
    BY WireChunksType
  <2>2. /\ \A k \in 1..Len(a.chunks) : a.chunks[k] \in Seq(Text)
        /\ a.chunks \in Seq(Q)
    BY ChunksType, ChunkType
  <2> HIDE DEF W, Q
  <2>3. QED
    BY <1>2, <2>1, <2>2, Zenon
<1>4. PICK lw \in Nat \ {0} :
           /\ L \in Seq(Text) /\ Len(L) = lw + 4
           /\ \A v \in Seq(Text), q \in Nat : Lies(v, q, L) => IsFrame(v, q, 0, lw)
  BY LastChunk
<1>5. /\ Joined(W, N) = FlattenSeq(W) /\ Joined(a.chunks, N) = Body(a)
  BY <1>2, <1>3, JoinedEnds DEF Body
<1> HIDE DEF W, Q, L
<1>6. Joined(W, N) \in Seq(Text) /\ Joined(W, i) \in Seq(Text) /\ Joined(a.chunks, i) \in Seq(Text)
  <2>1. \A j \in Nat : j <= N => Joined(W, j) \in Seq(Text)
    BY <1>3, JoinedType
  <2>2. \A k \in 1..Len(a.chunks) : a.chunks[k] \in Seq(Text)
    BY <1>2, <1>3
  <2>3. Joined(a.chunks, i) \in Seq(Text)
    BY <1>1, <1>3, <2>2, JoinedType
  <2>4. N <= N /\ i <= N
    BY <1>1, <1>2
  <2>5. QED
    BY <2>1, <2>3, <2>4
<1>7. PICK F \in Seq(Text), f \in Nat : F = FlattenSeq(W) /\ Len(F) = f
  BY <1>5, <1>6, LenProperties
<1>8. Lies(w, e, F) /\ Lies(w, e + f, L) /\ Len(w) = e + (f + (lw + 4))
  <2>1. Ends(w, e, F \o L)
    BY <1>1, <1>7
  <2>2. Lies(w, e, F) /\ Lies(w, e + f, L)
    BY <1>4, <1>7, <2>1, LiesParts DEF Ends
  <2>3. Len(F \o L) = f + (lw + 4)
    BY <1>4, <1>7
  <2>4. QED
    BY <2>1, <2>2, <2>3 DEF Ends
<1>9. CASE i = N
  <2>1. l = f /\ m = Len(Body(a))
    BY <1>1, <1>2, <1>5, <1>7, <1>9
  <2>2. IsFrame(w, e + f, 0, lw)
    BY <1>4, <1>8
  <2>3. m \in Nat /\ p \in Nat /\ p = e + f
    BY <1>1, <2>1, BodyType
  <2>4. IsChunk(w, Body(a), p, m, 0, lw)
    <3>1. m <= p /\ p + 0 = p /\ m + 0 <= m /\ Len(w) = p + lw + 4
      BY <1>1, <1>8, <2>1, <2>3
    <3>2. \A x \in 1..0 : Body(a)[m + x] = w[(p + lw + 2) + x]
      OBVIOUS
    <3>3. IsFrame(w, p, 0, lw) /\ m = Len(Body(a)) /\ 0 \in Nat
      BY <2>1, <2>2, <2>3
    <3>4. m + 0 <= Len(Body(a))
      BY <3>1, <3>3, Zenon
    <3>5. QED
      BY <2>3, <3>1, <3>2, <3>3, <3>4, Zenon DEF IsChunk
  <2>5. 0 \in Nat /\ lw \in Nat /\ ~(0 > 0)
    OBVIOUS
  <2>6. QED
    BY <2>4, <2>5, Zenon
<1>10. CASE i # N
  <2>1. PICK k \in Nat : k = i + 1 /\ k \in 1..N
    BY <1>1, <1>2, <1>10
  <2>2. PICK m2 \in Nat : /\ m2 = Len(W[k]) /\ Len(Joined(W, k)) = l + m2
                         /\ Lies(w, e + l, W[k])
    <3>1. Lies(w, e, FlattenSeq(W))
      BY <1>7, <1>8
    <3>2. k <= N /\ k = i + 1
      BY <2>1
    <3>3. k <= Len(W) /\ \A j \in 1..Len(W) : W[j] \in Seq(Text)
      BY <1>3, <3>2, Zenon
    <3>4. W \in Seq(Q)
      BY <1>3
    <3>5. /\ Len(Joined(W, i)) \in Nat /\ Len(W[k]) \in Nat
          /\ Len(Joined(W, k)) = Len(Joined(W, i)) + Len(W[k])
          /\ Lies(w, e + Len(Joined(W, i)), W[k])
      <4>1. PICK V : V = W
        OBVIOUS
      <4>2. /\ Lies(w, e, FlattenSeq(V)) /\ V \in Seq(Q) /\ k <= Len(V)
            /\ \A j \in 1..Len(V) : V[j] \in Seq(Text)
        BY <3>1, <3>3, <3>4, <4>1, Zenon
      <4>3. k = i + 1
        BY <3>2
      <4>4. /\ Len(Joined(V, i)) \in Nat /\ Len(V[k]) \in Nat
            /\ Len(Joined(V, k)) = Len(Joined(V, i)) + Len(V[k])
            /\ Lies(w, e + Len(Joined(V, i)), V[k])
        BY <4>2, <4>3, PartLies, SMTT(30)
      <4>5. QED
        BY <4>1, <4>4, Zenon
    <3>6. QED
      BY <1>1, <3>5, Zenon
  <2>3. PICK n \in Nat : /\ m \in Nat /\ n = Len(a.chunks[k]) /\ Len(Joined(a.chunks, k)) = m + n
                        /\ Lies(Body(a), 0 + m, a.chunks[k])
    <3>1. Lies(Body(a), 0, FlattenSeq(a.chunks)) /\ Body(a) \in Seq(Text)
      BY BodyType, LiesWhole DEF Body
    <3>2. k <= N /\ k = i + 1 /\ 0 \in Nat
      BY <2>1
    <3>3. k <= Len(a.chunks) /\ \A j \in 1..Len(a.chunks) : a.chunks[j] \in Seq(Text)
      BY <1>2, <1>3, <3>2, Zenon
    <3>4. a.chunks \in Seq(Q)
      BY <1>3
    <3>5. /\ Len(Joined(a.chunks, i)) \in Nat /\ Len(a.chunks[k]) \in Nat
          /\ Len(Joined(a.chunks, k)) = Len(Joined(a.chunks, i)) + Len(a.chunks[k])
          /\ Lies(Body(a), 0 + Len(Joined(a.chunks, i)), a.chunks[k])
      <4>1. PICK z \in Nat : z = 0
        OBVIOUS
      <4>2. PICK V, B : V = a.chunks /\ B = Body(a)
        OBVIOUS
      <4>3. /\ Lies(B, z, FlattenSeq(V)) /\ B \in Seq(Text)
            /\ V \in Seq(Q) /\ k <= Len(V) /\ \A j \in 1..Len(V) : V[j] \in Seq(Text)
        BY <3>1, <3>3, <3>4, <4>1, <4>2, Zenon
      <4>4. k = i + 1
        BY <3>2
      <4>5. /\ Len(Joined(V, i)) \in Nat /\ Len(V[k]) \in Nat
            /\ Len(Joined(V, k)) = Len(Joined(V, i)) + Len(V[k])
            /\ Lies(B, z + Len(Joined(V, i)), V[k])
        BY <4>3, <4>4, PartLies
      <4>6. QED
        BY <4>1, <4>2, <4>5, Zenon
    <3>6. QED
      BY <1>1, <3>5, Zenon
  <2>4. n \in Nat \ {0}
    BY <1>3, <2>1, <2>3
  <2>5. PICK d : d = a.chunks[k]
    OBVIOUS
  <2>6. d \in Seq(Text) /\ Len(d) = n /\ W[k] = Chunk(d)
    BY <1>3, <2>1, <2>3, <2>5, Zenon
  <2>7. n \in Nat
    BY <2>4
  <2>8. PICK hw \in Nat \ {0} :
           /\ Len(Chunk(d)) = hw + n + 4
           /\ \A v \in Seq(Text), q \in Nat :
                Lies(v, q, Chunk(d)) => IsFrame(v, q, n, hw) /\ Lies(v, q + hw + 2, d)
    BY <2>6, <2>7, ChunkLies
  <2>9. p \in Nat /\ p = e + l
    BY <1>1
  <2>10. Lies(w, p, Chunk(d))
    BY <2>2, <2>6, <2>9, Zenon
  <2>11. IsFrame(w, p, n, hw) /\ Lies(w, p + hw + 2, d)
    BY <2>8, <2>9, <2>10
  <2>12. m2 = hw + n + 4
    BY <2>2, <2>6, <2>8, Zenon
  <2>13. PICK b \in Nat : b = Len(Body(a))
    BY BodyType
  <2>14. (0 + m) + n <= b /\ \A j \in 1..n : Body(a)[(0 + m) + j] = d[j]
    BY <2>3, <2>5, <2>6, <2>13, Zenon DEF Lies
  <2>15. \A j \in 1..n : w[(p + hw + 2) + j] = d[j]
    BY <2>6, <2>11, Zenon DEF Lies
  <2>16. \A j \in 1..n : Body(a)[m + j] = w[(p + hw + 2) + j]
    <3>1. m \in Nat /\ 0 + m = m
      BY <2>3
    <3>2. QED
      BY <2>14, <2>15, <3>1, Zenon
  <2>17. IsChunk(w, Body(a), p, m, n, hw)
    <3>1. m \in Nat /\ n \in Nat /\ b \in Nat
      BY <2>3
    <3>2. m <= p /\ m + n <= b /\ n # 0
      BY <1>1, <2>4, <2>9, <2>14, <3>1
    <3>3. QED
      BY <2>7, <2>9, <2>11, <2>13, <2>16, <3>1, <3>2, Zenon DEF IsChunk
  <2>18. More(w, a, p + hw + n + 4, m + n)
    <3>1. k <= Len(a.chunks) /\ l + m2 = Len(Joined(W, k)) /\ m + n = Len(Joined(a.chunks, k))
      BY <1>2, <2>1, <2>2, <2>3
    <3>2. p + hw + n + 4 = e + (l + m2) /\ m + n <= l + m2 /\ l + m2 \in Nat
      BY <1>1, <2>9, <2>12
    <3>3. QED
      BY <1>1, <3>1, <3>2 DEF More, W, L
  <2>19. QED
    BY <2>17, <2>18
<1>11. QED
  BY <1>9, <1>10

LEMMA EndsParts ==
  ASSUME NEW S, NEW w \in Seq(S), NEW s \in Seq(S), NEW t \in Seq(S), NEW p \in Nat, NEW n \in Nat,
         Len(s) = n, Ends(w, p, s \o t)
  PROVE  Lies(w, p, s) /\ Ends(w, p + n, t)
<1>1. PICK m \in Nat : Len(t) = m
  BY LenProperties
<1>2. Len(s \o t) = n + m
  BY <1>1, JoinLength
<1>3. Lies(w, p, s) /\ Lies(w, p + n, t)
  BY LiesParts DEF Ends
<1>4. Len(w) = p + (n + m)
  BY <1>2 DEF Ends
<1>5. p + (n + m) = (p + n) + m
  OBVIOUS
<1>6. QED
  BY <1>1, <1>3, <1>4, <1>5, Zenon DEF Ends

LEMMA CharText ==
  /\ TEXT \in Text /\ SP \in Text /\ CR \in Text /\ LF \in Text
  /\ CONTENT_LENGTH \in Text /\ CHUNKED \in Text
BY DEF Text, Chars, NUL, TEXT, SP, CR, LF, CONTENT_LENGTH, CHUNKED

LEMMA OneMore ==
  ASSUME NEW s \in Seq(Text), NEW n \in Nat, Len(s) = n, NEW c \in Text
  PROVE  /\ <<c>> \in Seq(Text) /\ Len(<<c>>) = 1
         /\ s \o <<c>> \in Seq(Text) /\ Len(s \o <<c>>) = n + 1
OBVIOUS

LEMMA TwoMore ==
  ASSUME NEW s \in Seq(Text), NEW n \in Nat, Len(s) = n, NEW c \in Text, NEW d \in Text
  PROVE  /\ <<c, d>> \in Seq(Text) /\ Len(<<c, d>>) = 2
         /\ s \o <<c, d>> \in Seq(Text) /\ Len(s \o <<c, d>>) = n + 2
OBVIOUS

\* The status line and the line after it.
Opening(a) ==
  <<TEXT, SP>> \o Digits(a.status, 10) \o <<SP, TEXT>> \o EndLine \o <<TEXT>> \o EndLine

IsOpening(w, a, p, ds) ==
  /\ IsDigits(Digits(a.status, 10), 10, a.status, ds)
  /\ w[p + 1] = TEXT /\ w[p + 2] = SP
  /\ \A i \in 1..ds : w[(p + 2) + i] = Digits(a.status, 10)[i]
  /\ w[p + (ds + 3)] = SP /\ w[p + (ds + 4)] = TEXT
  /\ w[p + (ds + 5)] = CR /\ w[p + (ds + 6)] = LF
  /\ w[p + (ds + 7)] = TEXT /\ w[p + (ds + 8)] = CR /\ w[p + (ds + 9)] = LF

LEMMA OpeningLies ==
  ASSUME NEW a \in Answers
  PROVE  \E ds \in Nat \ {0} :
           /\ Opening(a) \in Seq(Text) /\ Len(Opening(a)) = ds + 9
           /\ \A w \in Seq(Text), p \in Nat : Lies(w, p, Opening(a)) => IsOpening(w, a, p, ds)
<1> DEFINE D == Digits(a.status, 10)
           A1 == <<TEXT, SP>>
           A2 == A1 \o D
           A3 == A2 \o <<SP, TEXT>>
           A4 == A3 \o EndLine
           A5 == A4 \o <<TEXT>>
<1>1. a.status \in Nat
  BY StatusType
<1>2. PICK ds \in Nat \ {0} : IsDigits(D, 10, a.status, ds)
  BY <1>1, Digits10
<1>3. D \in Seq(Text) /\ Len(D) = ds
  BY <1>2, DigitsText
<1>4. Opening(a) = A5 \o EndLine
  BY DEF Opening
<1> HIDE DEF D
<1>5. A1 \in Seq(Text) /\ Len(A1) = 2
  BY CharText
<1> HIDE DEF A1
<1>6. A2 \in Seq(Text) /\ Len(A2) = ds + 2
  <2>1. PICK m \in Nat : m = 2
    OBVIOUS
  <2>2. A1 \in Seq(Text) /\ Len(A1) = m
    BY <1>5, <2>1
  <2>3. A2 \in Seq(Text) /\ Len(A2) = m + ds
    BY <1>3, <2>2, JoinLength
  <2>4. QED
    BY <2>1, <2>3
<1> HIDE DEF A2
<1>7. A3 \in Seq(Text) /\ Len(A3) = ds + 4
  BY <1>6, TwoMore, CharText
<1> HIDE DEF A3
<1>8. A4 \in Seq(Text) /\ Len(A4) = ds + 6
  BY <1>7, LineLength
<1> HIDE DEF A4
<1>9. A5 \in Seq(Text) /\ Len(A5) = ds + 7
  BY <1>8, OneMore, CharText
<1> HIDE DEF A5
<1>10. Opening(a) \in Seq(Text) /\ Len(Opening(a)) = ds + 9
  BY <1>4, <1>9, LineLength
<1>11. ASSUME NEW w \in Seq(Text), NEW p \in Nat, Lies(w, p, Opening(a))
       PROVE  IsOpening(w, a, p, ds)
  <2>1. Lies(w, p, A5) /\ Lies(w, p + (ds + 7), EndLine)
    <3>1. ds + 7 \in Nat
      OBVIOUS
    <3>2. QED
      <4>1. Lies(w, p, A5 \o EndLine)
        BY <1>4, <1>11, Zenon
      <4>2. QED
        BY <1>9, <3>1, <4>1, EndLineText, LiesParts, Zenon
  <2> DEFINE One == <<TEXT>>
             Two == <<SP, TEXT>>
  <2>0. One \in Seq(Text) /\ Two \in Seq(Text) /\ A5 = A4 \o One /\ A3 = A2 \o Two
    BY CharText DEF A5, A3
  <2> HIDE DEF One, Two
  <2>2. Lies(w, p, A4) /\ Lies(w, p + (ds + 6), One)
    <3>1. ds + 6 \in Nat
      OBVIOUS
    <3>2. QED
      BY <1>8, <2>0, <2>1, LiesParts, <3>1, Zenon
  <2>3. Lies(w, p, A3) /\ Lies(w, p + (ds + 4), EndLine)
    <3>1. ds + 4 \in Nat
      OBVIOUS
    <3>2. QED
      BY <1>7, <2>2, EndLineText, LiesParts, <3>1, Zenon DEF A4
  <2>4. Lies(w, p, A2) /\ Lies(w, p + (ds + 2), Two)
    <3>1. ds + 2 \in Nat
      OBVIOUS
    <3>2. QED
      BY <1>6, <2>0, <2>3, LiesParts, <3>1, Zenon
  <2>5. Lies(w, p, A1) /\ Lies(w, p + 2, D)
    BY <1>3, <1>5, <2>4, LiesParts DEF A2
  <2>6. w[p + 1] = TEXT /\ w[p + 2] = SP
    BY <2>5, LiesTwo DEF A1
  <2>7. \A i \in 1..ds : w[(p + 2) + i] = D[i]
    BY <1>3, <2>5, Zenon DEF Lies
  <2>8. w[(p + (ds + 2)) + 1] = SP /\ w[(p + (ds + 2)) + 2] = TEXT
    BY <2>4, LiesTwo DEF Two
  <2>9. w[(p + (ds + 4)) + 1] = CR /\ w[(p + (ds + 4)) + 2] = LF
    BY <2>3, LiesTwo DEF EndLine
  <2>10. w[(p + (ds + 6)) + 1] = TEXT
    BY <2>2, LiesOne DEF One
  <2>11. w[(p + (ds + 7)) + 1] = CR /\ w[(p + (ds + 7)) + 2] = LF
    BY <2>1, LiesTwo DEF EndLine
  <2>12. /\ (p + (ds + 2)) + 1 = p + (ds + 3) /\ (p + (ds + 2)) + 2 = p + (ds + 4)
         /\ (p + (ds + 4)) + 1 = p + (ds + 5) /\ (p + (ds + 4)) + 2 = p + (ds + 6)
         /\ (p + (ds + 6)) + 1 = p + (ds + 7)
         /\ (p + (ds + 7)) + 1 = p + (ds + 8) /\ (p + (ds + 7)) + 2 = p + (ds + 9)
    OBVIOUS
  <2>13. QED
    BY <1>2, <2>6, <2>7, <2>8, <2>9, <2>10, <2>11, <2>12 DEF IsOpening, D
<1>12. QED
  BY <1>10, <1>11

\* The Content-Length of the body begins after p characters.
IsLength(w, a, p, lw) ==
  /\ IsDigits(Digits(Size(a), 10), 10, Size(a), lw)
  /\ w[p + 1] = CONTENT_LENGTH
  /\ \A i \in 1..lw : w[(p + 1) + i] = Digits(Size(a), 10)[i]
  /\ w[p + (lw + 2)] = CR /\ w[p + (lw + 3)] = LF
  /\ w[p + (lw + 4)] = CR /\ w[p + (lw + 5)] = LF

LEMMA LengthLies ==
  ASSUME NEW a \in Answers, NEW w \in Seq(Text), NEW p \in Nat,
         Ends(w, p, <<CONTENT_LENGTH>> \o Digits(Size(a), 10) \o EndLine \o EndLine \o Body(a))
  PROVE  \E lw \in Nat \ {0} : IsLength(w, a, p, lw) /\ Ends(w, p + (lw + 5), Body(a))
<1> DEFINE D == Digits(Size(a), 10)
           A1 == <<CONTENT_LENGTH>>
           A2 == A1 \o D
           A3 == A2 \o EndLine
           A4 == A3 \o EndLine
<1>1. Size(a) \in Nat /\ Body(a) \in Seq(Text)
  BY BodyType
<1>2. PICK lw \in Nat \ {0} : IsDigits(D, 10, Size(a), lw)
  BY <1>1, Digits10
<1>3. D \in Seq(Text) /\ Len(D) = lw
  BY <1>2, DigitsText
<1>4. Ends(w, p, A4 \o Body(a))
  OBVIOUS
<1> HIDE DEF D
<1>5. A1 \in Seq(Text) /\ Len(A1) = 1
  BY CharText
<1> HIDE DEF A1
<1>6. A2 \in Seq(Text) /\ Len(A2) = lw + 1
  <2>1. PICK m \in Nat : m = 1
    OBVIOUS
  <2>2. A1 \in Seq(Text) /\ Len(A1) = m
    BY <1>5, <2>1
  <2>3. A2 \in Seq(Text) /\ Len(A2) = m + lw
    BY <1>3, <2>2, JoinLength
  <2>4. QED
    BY <2>1, <2>3
<1> HIDE DEF A2
<1>7. A3 \in Seq(Text) /\ Len(A3) = lw + 3
  BY <1>6, LineLength
<1> HIDE DEF A3
<1>8. A4 \in Seq(Text) /\ Len(A4) = lw + 5
  BY <1>7, LineLength
<1> HIDE DEF A4
<1>9. Lies(w, p, A4) /\ Ends(w, p + (lw + 5), Body(a))
  <2>1. lw + 5 \in Nat
    OBVIOUS
  <2>2. QED
    BY <1>1, <1>4, <1>8, EndsParts, <2>1, Zenon
<1>10. Lies(w, p, A3) /\ Lies(w, p + (lw + 3), EndLine)
  <2>1. lw + 3 \in Nat
    OBVIOUS
  <2>2. QED
    BY <1>7, <1>9, EndLineText, LiesParts, <2>1, Zenon DEF A4
<1>11. Lies(w, p, A2) /\ Lies(w, p + (lw + 1), EndLine)
  <2>1. lw + 1 \in Nat
    OBVIOUS
  <2>2. QED
    BY <1>6, <1>10, EndLineText, LiesParts, <2>1, Zenon DEF A3
<1>12. Lies(w, p, A1) /\ Lies(w, p + 1, D)
  BY <1>3, <1>5, <1>11, LiesParts DEF A2
<1>13. w[p + 1] = CONTENT_LENGTH
  BY <1>12, LiesOne DEF A1
<1>14. \A i \in 1..lw : w[(p + 1) + i] = D[i]
  BY <1>3, <1>12, Zenon DEF Lies
<1>15. w[(p + (lw + 1)) + 1] = CR /\ w[(p + (lw + 1)) + 2] = LF
  BY <1>11, LiesTwo DEF EndLine
<1>16. w[(p + (lw + 3)) + 1] = CR /\ w[(p + (lw + 3)) + 2] = LF
  BY <1>10, LiesTwo DEF EndLine
<1>17. /\ (p + (lw + 1)) + 1 = p + (lw + 2) /\ (p + (lw + 1)) + 2 = p + (lw + 3)
       /\ (p + (lw + 3)) + 1 = p + (lw + 4) /\ (p + (lw + 3)) + 2 = p + (lw + 5)
  OBVIOUS
<1>18. IsLength(w, a, p, lw)
  BY <1>2, <1>13, <1>14, <1>15, <1>16, <1>17 DEF IsLength, D
<1>19. QED
  BY <1>9, <1>18

LEMMA WireChunksFlat ==
  ASSUME NEW a \in Answers
  PROVE  FlattenSeq(WireChunks(a)) \in Seq(Text)
<1> DEFINE W == WireChunks(a)
           Q == Seq(Text)
<1>1. PICK N \in Nat : N = Len(W)
  BY WireChunksType, ChunksType
<1>2. W \in Seq(Q) /\ \A k \in 1..Len(W) : W[k] \in Seq(Text)
  BY WireChunksType
<1> HIDE DEF W, Q
<1>3. Joined(W, N) = FlattenSeq(W)
  BY <1>1, <1>2, JoinedEnds
<1>4. N <= Len(W)
  BY <1>1
<1>5. Joined(W, N) \in Seq(Text)
  BY <1>2, <1>4, JoinedType
<1>6. QED
  BY <1>3, <1>5 DEF W

LEMMA ChunkedLies ==
  ASSUME NEW a \in Answers, NEW w \in Seq(Text), NEW p \in Nat,
         Ends(w, p, <<CHUNKED>> \o EndLine \o EndLine \o FlattenSeq(WireChunks(a)) \o Chunk(<<>>))
  PROVE  /\ w[p + 1] = CHUNKED /\ w[p + 2] = CR /\ w[p + 3] = LF
         /\ w[p + 4] = CR /\ w[p + 5] = LF
         /\ More(w, a, p + 5, 0)
<1> DEFINE A1 == <<CHUNKED>>
           A2 == A1 \o EndLine
           A3 == A2 \o EndLine
           F == FlattenSeq(WireChunks(a))
           L == Chunk(<<>>)
<1>1. F \in Seq(Text) /\ L \in Seq(Text)
  BY WireChunksFlat, LastChunk
<1>2. Ends(w, p, (A3 \o F) \o L)
  OBVIOUS
<1> HIDE DEF F, L
<1>3. A1 \in Seq(Text) /\ Len(A1) = 1
  BY CharText
<1> HIDE DEF A1
<1>4. A2 \in Seq(Text) /\ Len(A2) = 3
  <2>1. PICK m \in Nat : m = 1
    OBVIOUS
  <2>2. A1 \in Seq(Text) /\ Len(A1) = m
    BY <1>3, <2>1
  <2>3. A2 \in Seq(Text) /\ Len(A2) = m + 2
    BY <2>2, LineLength
  <2>4. QED
    BY <2>1, <2>3
<1> HIDE DEF A2
<1>5. A3 \in Seq(Text) /\ Len(A3) = 5
  <2>1. PICK m \in Nat : m = 3
    OBVIOUS
  <2>2. A2 \in Seq(Text) /\ Len(A2) = m
    BY <1>4, <2>1
  <2>3. A3 \in Seq(Text) /\ Len(A3) = m + 2
    BY <2>2, LineLength
  <2>4. QED
    BY <2>1, <2>3
<1> HIDE DEF A3
<1>6. Ends(w, p, A3 \o (F \o L))
  <2>1. A3 \in Seq(Text)
    BY <1>5
  <2>2. (A3 \o F) \o L = A3 \o (F \o L)
    BY <1>1, <2>1, ConcatAssociative
  <2>3. QED
    BY <1>2, <2>2, Zenon
<1>7. F \o L \in Seq(Text)
  BY <1>1
<1>8. Lies(w, p, A3) /\ Ends(w, p + 5, F \o L)
  <2>0. PICK G : G = F \o L
    OBVIOUS
  <2>1. PICK m \in Nat : m = 5
    OBVIOUS
  <2>2. G \in Seq(Text) /\ Len(A3) = m /\ A3 \in Seq(Text) /\ Ends(w, p, A3 \o G)
    BY <1>5, <1>6, <1>7, <2>0, <2>1, Zenon
  <2>3. Lies(w, p, A3) /\ Ends(w, p + m, G)
    BY <2>2, EndsParts
  <2>4. QED
    BY <2>0, <2>1, <2>3, Zenon
<1>9. Lies(w, p, A2) /\ Lies(w, p + 3, EndLine)
  BY <1>4, <1>8, EndLineText, LiesParts DEF A3
<1>10. Lies(w, p, A1) /\ Lies(w, p + 1, EndLine)
  BY <1>3, <1>9, EndLineText, LiesParts DEF A2
<1>11. w[p + 1] = CHUNKED
  BY <1>10, LiesOne DEF A1
<1>12. w[(p + 1) + 1] = CR /\ w[(p + 1) + 2] = LF
  BY <1>10, LiesTwo DEF EndLine
<1>13. w[(p + 3) + 1] = CR /\ w[(p + 3) + 2] = LF
  BY <1>9, LiesTwo DEF EndLine
<1>14. /\ (p + 1) + 1 = p + 2 /\ (p + 1) + 2 = p + 3
       /\ (p + 3) + 1 = p + 4 /\ (p + 3) + 2 = p + 5
  OBVIOUS
<1>15. More(w, a, p + 5, 0)
  <2>1. Joined(WireChunks(a), 0) = <<>> /\ Joined(a.chunks, 0) = <<>>
    BY ChunksType, WireChunksType, JoinedEnds
  <2>2. PICK z \in Nat : z = 0
    OBVIOUS
  <2>3. z <= Len(a.chunks) /\ z = Len(<<>>) /\ p + 5 \in Nat /\ (p + 5) + z = p + 5 /\ z <= z
    BY <2>2, ChunksType
  <2>4. QED
    BY <1>8, <2>1, <2>2, <2>3, Zenon DEF More, F, L
<1>16. QED
  BY <1>11, <1>12, <1>13, <1>14, <1>15

\* The status has ds digits, and the body begins after e characters.
Layout(w, a, ds, e) ==
  /\ w \in Seq(Text) /\ ds \in Nat \ {0} /\ e \in Nat /\ ds + 11 <= e /\ e <= Len(w)
  /\ IsDigits(Digits(a.status, 10), 10, a.status, ds)
  /\ w[1] = TEXT /\ w[2] = SP
  /\ \A i \in 1..ds : w[2 + i] = Digits(a.status, 10)[i]
  /\ w[ds + 3] = SP /\ w[ds + 4] = TEXT /\ w[ds + 5] = CR /\ w[ds + 6] = LF
  /\ w[ds + 7] = TEXT /\ w[ds + 8] = CR /\ w[ds + 9] = LF
  /\ w[e - 1] = CR /\ w[e] = LF
  /\ \/ a.framing = "none" /\ e = ds + 11
     \/ /\ a.framing = "length"
        /\ \E lw \in Nat \ {0} : e = ds + lw + 14 /\ IsLength(w, a, ds + 9, lw)
     \/ /\ a.framing = "chunked" /\ e = ds + 14
        /\ w[ds + 10] = CHUNKED /\ w[ds + 11] = CR /\ w[ds + 12] = LF
        /\ More(w, a, e, 0)
  /\ a.framing # "chunked" => Ends(w, e, Body(a))

LEMMA FramingLies ==
  ASSUME NEW a \in Answers, NEW w \in Seq(Text), NEW ds \in Nat \ {0}, NEW F \in Seq(Text),
         a.framing = "none" => F = EndLine,
         a.framing = "length" =>
           F = <<CONTENT_LENGTH>> \o Digits(Size(a), 10) \o EndLine \o EndLine \o Body(a),
         a.framing = "chunked" =>
           F = <<CHUNKED>> \o EndLine \o EndLine \o FlattenSeq(WireChunks(a)) \o Chunk(<<>>),
         IsOpening(w, a, 0, ds), Ends(w, ds + 9, F)
  PROVE  \E e \in Nat : Layout(w, a, ds, e)
<1> DEFINE p == ds + 9
<1>1. /\ IsDigits(Digits(a.status, 10), 10, a.status, ds)
      /\ w[1] = TEXT /\ w[2] = SP
      /\ \A i \in 1..ds : w[2 + i] = Digits(a.status, 10)[i]
      /\ w[ds + 3] = SP /\ w[ds + 4] = TEXT /\ w[ds + 5] = CR /\ w[ds + 6] = LF
      /\ w[ds + 7] = TEXT /\ w[ds + 8] = CR /\ w[ds + 9] = LF
  <2>1. /\ 0 + 1 = 1 /\ 0 + 2 = 2 /\ 0 + (ds + 3) = ds + 3 /\ 0 + (ds + 4) = ds + 4
        /\ 0 + (ds + 5) = ds + 5 /\ 0 + (ds + 6) = ds + 6 /\ 0 + (ds + 7) = ds + 7
        /\ 0 + (ds + 8) = ds + 8 /\ 0 + (ds + 9) = ds + 9
    OBVIOUS
  <2>2. QED
    BY <2>1, Zenon DEF IsOpening
<1>2. PICK l \in Nat : l = Len(w)
  BY LenProperties
<1>3. CASE a.framing = "none"
  <2>1. Ends(w, p, <<CR, LF>>)
    BY <1>3, Zenon DEF EndLine
  <2>2. PICK q \in Nat : q = p
    OBVIOUS
  <2>3. q + 1 = (ds + 11) - 1 /\ q + 2 = ds + 11 /\ ds + 11 \in Nat /\ ds + 11 <= ds + 11
    BY <2>2
  <2>4. w[q + 1] = CR /\ w[q + 2] = LF /\ Len(w) = q + 2
    <3>1. Ends(w, q, <<CR, LF>>)
      BY <2>1, <2>2, Zenon
    <3>2. w[q + 1] = CR /\ w[q + 2] = LF
      BY <3>1, LiesTwo DEF Ends
    <3>3. Len(w) = q + Len(<<CR, LF>>)
      BY <3>1, Zenon DEF Ends
    <3>4. QED
      BY <3>2, <3>3
  <2>5. Ends(w, ds + 11, Body(a))
    <3>1. Body(a) = <<>>
      BY <1>3, FramingType, FlattenNone DEF Body
    <3>2. PICK e \in Nat : e = ds + 11
      OBVIOUS
    <3>3. Len(w) = e
      BY <2>3, <2>4, <3>2
    <3>4. Ends(w, e, <<>>)
      BY <3>3 DEF Ends, Lies
    <3>5. QED
      BY <3>1, <3>2, <3>4, Zenon
  <2>6. Layout(w, a, ds, ds + 11)
    <3>1. ds + 11 <= Len(w)
      BY <2>3, <2>4, Zenon
    <3>2. QED
      BY <1>1, <1>3, <2>3, <2>4, <2>5, <3>1, Zenon DEF Layout
  <2>7. QED
    BY <2>3, <2>6, Zenon
<1>4. CASE a.framing = "length"
  <2>1. Ends(w, p, <<CONTENT_LENGTH>> \o Digits(Size(a), 10) \o EndLine \o EndLine \o Body(a))
    BY <1>4, Zenon
  <2>2. p \in Nat
    OBVIOUS
  <2> HIDE DEF p
  <2>3. PICK lw \in Nat \ {0} : IsLength(w, a, p, lw) /\ Ends(w, p + (lw + 5), Body(a))
    BY <2>1, <2>2, LengthLies
  <2>4. PICK e \in Nat : e = ds + lw + 14
    OBVIOUS
  <2>5. /\ p + (lw + 5) = e /\ p + (lw + 4) = e - 1 /\ ds + 11 <= e
    BY <2>4 DEF p
  <2>6. w[e - 1] = CR /\ w[e] = LF
    BY <2>3, <2>5, Zenon DEF IsLength
  <2>7. e <= Len(w)
    <3>1. PICK s \in Nat : s = Len(Body(a))
      BY BodyType
    <3>2. Len(w) = e + s
      BY <2>3, <2>5, <3>1 DEF Ends
    <3>3. QED
      BY <1>2, <3>2
  <2>8. Layout(w, a, ds, e)
    BY <1>1, <1>4, <2>3, <2>4, <2>5, <2>6, <2>7, Zenon DEF Layout, p
  <2>9. QED
    BY <2>8
<1>5. CASE a.framing = "chunked"
  <2>1. Ends(w, p, <<CHUNKED>> \o EndLine \o EndLine \o FlattenSeq(WireChunks(a)) \o Chunk(<<>>))
    BY <1>5, Zenon
  <2>2. p \in Nat
    OBVIOUS
  <2> HIDE DEF p
  <2>3. /\ w[p + 1] = CHUNKED /\ w[p + 2] = CR /\ w[p + 3] = LF
        /\ w[p + 4] = CR /\ w[p + 5] = LF
        /\ More(w, a, p + 5, 0)
    BY <2>1, <2>2, ChunkedLies
  <2>4. PICK e \in Nat : e = ds + 14
    OBVIOUS
  <2>5. /\ p + 5 = e /\ p + 4 = e - 1 /\ ds + 11 <= e
        /\ p + 1 = ds + 10 /\ p + 2 = ds + 11 /\ p + 3 = ds + 12
    BY <2>4 DEF p
  <2>6. e <= Len(w)
    <3>1. PICK n \in Nat, hw \in Nat : IsChunk(w, Body(a), e, 0, n, hw)
      BY <2>3, <2>5, NextChunk
    <3>2. e + hw + n + 4 <= Len(w)
      BY <3>1 DEF IsChunk, IsFrame
    <3>3. QED
      BY <1>2, <3>2
  <2>7. Layout(w, a, ds, e)
    BY <1>1, <1>5, <2>3, <2>4, <2>5, <2>6, Zenon DEF Layout
  <2>8. QED
    BY <2>7
<1>6. QED
  BY <1>3, <1>4, <1>5, FramingType

LEMMA FramingText ==
  ASSUME NEW a \in Answers
  PROVE  /\ <<CONTENT_LENGTH>> \o Digits(Size(a), 10) \o EndLine \o EndLine \o Body(a) \in Seq(Text)
         /\ <<CHUNKED>> \o EndLine \o EndLine \o FlattenSeq(WireChunks(a)) \o Chunk(<<>>)
              \in Seq(Text)
<1> DEFINE D == Digits(Size(a), 10)
           F == FlattenSeq(WireChunks(a))
           E == EndLine
           L == Chunk(<<>>)
           B == Body(a)
           X == <<CONTENT_LENGTH>>
           Y == <<CHUNKED>>
<1>1. Size(a) \in Nat /\ B \in Seq(Text) /\ L \in Seq(Text) /\ F \in Seq(Text)
  BY BodyType, LastChunk, WireChunksFlat
<1>2. PICK lw \in Nat \ {0} : IsDigits(D, 10, Size(a), lw)
  BY <1>1, Digits10
<1>3. D \in Seq(Text)
  BY <1>2, DigitsText
<1>4. E \in Seq(Text) /\ X \in Seq(Text) /\ Y \in Seq(Text)
  BY EndLineText, CharText
<1> HIDE DEF D, F, E, L, B, X, Y
<1>5. X \o D \o E \o E \o B \in Seq(Text) /\ Y \o E \o E \o F \o L \in Seq(Text)
  BY <1>1, <1>3, <1>4
<1>6. QED
  BY <1>5 DEF D, F, E, L, B, X, Y

LEMMA WireLayout ==
  ASSUME NEW a \in Answers
  PROVE  \E ds, e \in Nat : Layout(Wire(a), a, ds, e)
<1> DEFINE F == CASE a.framing = "none" -> EndLine
                  [] a.framing = "length" ->
                       <<CONTENT_LENGTH>> \o Digits(Size(a), 10) \o EndLine \o EndLine \o Body(a)
                  [] a.framing = "chunked" ->
                       <<CHUNKED>> \o EndLine \o EndLine \o FlattenSeq(WireChunks(a)) \o Chunk(<<>>)
<1>1. Wire(a) = Opening(a) \o F
  BY Zenon DEF Wire, Opening, WireChunks
<1>2. F \in Seq(Text)
  BY FramingType, FramingText, EndLineText, Zenon
<1>3. PICK G : G = F
  OBVIOUS
<1>4. /\ G \in Seq(Text)
      /\ a.framing = "none" => G = EndLine
      /\ a.framing = "length" =>
           G = <<CONTENT_LENGTH>> \o Digits(Size(a), 10) \o EndLine \o EndLine \o Body(a)
      /\ a.framing = "chunked" =>
           G = <<CHUNKED>> \o EndLine \o EndLine \o FlattenSeq(WireChunks(a)) \o Chunk(<<>>)
  BY <1>2, <1>3, Zenon
<1> HIDE DEF F
<1>5. PICK ds \in Nat \ {0} :
           /\ Opening(a) \in Seq(Text) /\ Len(Opening(a)) = ds + 9
           /\ \A w \in Seq(Text), p \in Nat : Lies(w, p, Opening(a)) => IsOpening(w, a, p, ds)
  BY OpeningLies
<1>6. PICK w, A : w = Wire(a) /\ A = Opening(a)
  OBVIOUS
<1>7. A \in Seq(Text) /\ w = A \o G
  BY <1>1, <1>3, <1>5, <1>6, Zenon
<1>8. w \in Seq(Text)
  BY <1>4, <1>7
<1>9. PICK n \in Nat, z \in Nat : n = ds + 9 /\ z = 0
  OBVIOUS
<1>10. Lies(w, z, A) /\ Ends(w, z + n, G)
  <2>1. Lies(w, z, w)
    BY <1>8, <1>9, LiesWhole
  <2>2. PICK l \in Nat : l = Len(w)
    BY <1>8, LenProperties
  <2>3. Len(w) = z + Len(w)
    BY <1>9, <2>2
  <2>4. Ends(w, z, A \o G)
    BY <1>7, <2>1, <2>3, Zenon DEF Ends
  <2>5. Len(A) = n
    BY <1>5, <1>6, <1>9, Zenon
  <2>6. QED
    BY <1>4, <1>7, <1>8, <2>4, <2>5, EndsParts
<1>11. IsOpening(w, a, 0, ds) /\ Ends(w, ds + 9, G)
  <2>1. IsOpening(w, a, z, ds)
    BY <1>5, <1>6, <1>8, <1>10, Zenon
  <2>2. z + n = ds + 9
    BY <1>9
  <2>3. QED
    BY <1>9, <1>10, <2>1, <2>2, Zenon
<1>12. \E e \in Nat : Layout(w, a, ds, e)
  BY <1>4, <1>8, <1>11, FramingLies
<1>13. ds \in Nat
  OBVIOUS
<1>14. QED
  BY <1>6, <1>12, <1>13, Zenon

-----------------------------------------------------------------------------
(* The parser has read `pos` characters of the wire w and is at `at`, with *)
(* m characters of the body appended so far.                               *)

Expected(a) == IF a.framing = "length" THEN Size(a) ELSE 0

AtStatus(at, pos, chk, cl, code) ==
  at = "status" /\ pos \in {0, 1} /\ ~chk /\ cl = 0 /\ code = 0

AtCode(a, ds, at, pos, chk, cl, code) ==
  /\ at = "code" /\ ~chk /\ cl = 0
  /\ \E j \in 0..ds : pos = 2 + j /\ code = Leading(Digits(a.status, 10), 10, j)

AtLines(a, ds, at, pos, chk, cl, code) ==
  /\ ~chk /\ cl = 0 /\ code = a.status
  /\ \/ at = "line" /\ pos \in {ds + 3, ds + 4, ds + 5, ds + 7, ds + 8}
     \/ at = "header" /\ pos \in {ds + 6, ds + 9}

AtLength(w, a, ds, e, at, pos, chk, cl, code) ==
  /\ a.framing = "length" /\ ~chk /\ code = a.status
  /\ \E lw \in Nat \ {0} :
       /\ e = ds + lw + 14 /\ IsLength(w, a, ds + 9, lw)
       /\ \/ at = "length" /\ \E j \in 0..lw :
               pos = ds + 10 + j /\ cl = Leading(Digits(Size(a), 10), 10, j)
          \/ at = "line" /\ pos = e - 3 /\ cl = Size(a)

AtChunked(a, ds, at, pos, chk, cl, code) ==
  /\ a.framing = "chunked" /\ chk /\ cl = 0 /\ code = a.status
  /\ at = "line" /\ pos \in {ds + 10, ds + 11}

AtHeadersEnd(a, e, at, pos, chk, cl, code) ==
  /\ (chk <=> a.framing = "chunked") /\ cl = Expected(a) /\ code = a.status
  /\ \/ at = "header" /\ pos = e - 2
     \/ at = "headersEnd" /\ pos = e - 1

InHead(w, a, at, pos, chk, cl, code) ==
  \E ds, e \in Nat :
    /\ Layout(w, a, ds, e)
    /\ \/ AtStatus(at, pos, chk, cl, code)
       \/ AtCode(a, ds, at, pos, chk, cl, code)
       \/ AtLines(a, ds, at, pos, chk, cl, code)
       \/ AtLength(w, a, ds, e, at, pos, chk, cl, code)
       \/ AtChunked(a, ds, at, pos, chk, cl, code)
       \/ AtHeadersEnd(a, e, at, pos, chk, cl, code)

InPlain(w, a, at, pos, chk, cl, code, m) ==
  /\ a.framing # "chunked" /\ ~chk /\ code = a.status /\ at = "body"
  /\ \E e \in Nat : Ends(w, e, Body(a)) /\ pos = e + m /\ cl = Size(a) - m

\* In the chunk IsChunk(w, Body(a), p, k, n, hw).
InChunk(p, k, n, hw, at, pos, cl, m) ==
  \/ at = "size" /\ m = k /\ \E j \in 0..hw : pos = p + j /\ cl = Leading(Digits(n, 16), 16, j)
  \/ at = "sizeEnd" /\ m = k /\ pos = p + hw + 1 /\ cl = n
  \/ at = "lastCR" /\ n = 0 /\ m = k /\ pos = p + hw + 2
  \/ at = "lastLF" /\ n = 0 /\ m = k /\ pos = p + hw + 3
  \/ at = "body" /\ n > 0 /\ \E i \in 0..n : m = k + i /\ pos = p + hw + 2 + i /\ cl = n - i
  \/ at = "bodyCR" /\ n > 0 /\ m = k + n /\ pos = p + hw + n + 2 /\ cl = 0
  \/ at = "bodyLF" /\ n > 0 /\ m = k + n /\ pos = p + hw + n + 3 /\ cl = 0

InChunks(w, a, at, pos, chk, cl, code, m) ==
  /\ a.framing = "chunked" /\ chk /\ code = a.status
  /\ \E p, k, n, hw \in Nat :
       /\ IsChunk(w, Body(a), p, k, n, hw)
       /\ n > 0 => More(w, a, p + hw + n + 4, k + n)
       /\ InChunk(p, k, n, hw, at, pos, cl, m)

Placed(w, a, at, pos, chk, cl, code, m) ==
  \/ InHead(w, a, at, pos, chk, cl, code) /\ m = 0
  \/ InPlain(w, a, at, pos, chk, cl, code, m)
  \/ InChunks(w, a, at, pos, chk, cl, code, m)

PlacedNow ==
  Placed(wire, answer, pc, taken - left, chunked, content_length, ret_code, Len(resp))

\* The answer has been cut off, and all of it that arrived has been read.
Lost == conn \in {"closed", "broken"} /\ left = 0 /\ taken < Len(wire)

\* The parser goes on with what the buffer begins with.
Stale ==
  /\ Lost /\ conn = "closed"
  /\ pc = "header" => first = LF
  /\ pc \in {"headersEnd", "sizeEnd", "lastLF", "bodyLF"} => first = CR
  /\ pc = "size" => first # CR
  /\ pc = "lastCR" => first = LF
  /\ pc # "bodyCR"
  /\ pc = "body" =>
       /\ first = LF
       /\ chunked => content_length > 0
       /\ ~chunked => /\ content_length = Size(answer) /\ ret_code = answer.status /\ resp = <<>>
                      /\ content_length = 0 => taken = Len(wire) - 1

Failed == taken = 0 \/ Lost

Complete ==
  /\ resp = Body(answer)
  /\ taken - left = Len(wire) \/ (Lost /\ conn = "closed" /\ taken = Len(wire) - 1)

Cut == Lost /\ conn = "broken" /\ answer.framing = "length" /\ resp # Body(answer)

ReadInv ==
  /\ first \notin {CONTENT_LENGTH, CHUNKED}
  /\ Len(resp) <= taken - left
  /\ Lies(Body(answer), 0, resp)

Outset ==
  pc \in {"connect", "write"} =>
    /\ conn = "none" <=> pc = "connect"
    /\ taken = 0 /\ left = 0 /\ ~chunked /\ content_length = 0 /\ ret_code = 0 /\ resp = <<>>

PlaceInv ==
  pc \in Reading =>
    /\ conn # "none"
    /\ \/ PlacedNow
       \/ Stale
       \/ Lost /\ conn = "broken" /\ pc = "bodyCR"

EndInv ==
  /\ pc = "close" =>
       \/ ret_code < 0 /\ Failed
       \/ ret_code = answer.status /\ (Complete \/ Cut)
  /\ pc = "parse" =>
       \/ ret_code < 0 /\ Failed
       \/ ret_code = Result(answer.status) /\ (Complete \/ Cut)
  /\ pc \in {"parse", "returned"} => conn # "open"
  /\ data = "rows" => pc = "returned" /\ Complete
  /\ pc = "returned" =>
       \/ Failed
       \/ Cut
       \/ data = IF answer.status \notin 200..299 THEN "nothing"
                 ELSE IF answer.rows THEN "rows" ELSE "exception"

IInv == TypeOK /\ ReadInv /\ Outset /\ PlaceInv /\ EndInv

-----------------------------------------------------------------------------
(* Where the next character of the answer leads: one lemma per state of    *)
(* the parser, from the layout of the answer alone                         *)

LEMMA PlacedHead ==
  ASSUME NEW w, NEW a, NEW pos, NEW chk, NEW cl, NEW code, NEW m,
         NEW at \in {"status", "code", "line", "header", "length", "headersEnd"},
         Placed(w, a, at, pos, chk, cl, code, m)
  PROVE  InHead(w, a, at, pos, chk, cl, code) /\ m = 0
<1>1. ~InPlain(w, a, at, pos, chk, cl, code, m)
  BY DEF InPlain
<1>2. ~InChunks(w, a, at, pos, chk, cl, code, m)
  <2>1. \A p, k, n, hw : ~InChunk(p, k, n, hw, at, pos, cl, m)
    BY DEF InChunk
  <2>2. QED
    BY <2>1 DEF InChunks
<1>3. QED
  BY <1>1, <1>2 DEF Placed

LEMMA PlacedChunk ==
  ASSUME NEW w, NEW a, NEW pos, NEW chk, NEW cl, NEW code, NEW m,
         NEW at \in {"size", "sizeEnd", "lastCR", "lastLF", "bodyCR", "bodyLF"},
         Placed(w, a, at, pos, chk, cl, code, m)
  PROVE  InChunks(w, a, at, pos, chk, cl, code, m)
<1>1. ~InPlain(w, a, at, pos, chk, cl, code, m)
  BY DEF InPlain
<1>2. ~InHead(w, a, at, pos, chk, cl, code)
  <2>1. ~AtStatus(at, pos, chk, cl, code)
    BY DEF AtStatus
  <2>2. \A ds : ~AtCode(a, ds, at, pos, chk, cl, code) /\ ~AtLines(a, ds, at, pos, chk, cl, code)
    BY DEF AtCode, AtLines
  <2>3. \A ds, e : ~AtLength(w, a, ds, e, at, pos, chk, cl, code)
    BY DEF AtLength
  <2>4. \A ds, e : /\ ~AtChunked(a, ds, at, pos, chk, cl, code)
                   /\ ~AtHeadersEnd(a, e, at, pos, chk, cl, code)
    BY DEF AtChunked, AtHeadersEnd
  <2>5. QED
    BY <2>1, <2>2, <2>3, <2>4 DEF InHead
<1>3. QED
  BY <1>1, <1>2 DEF Placed

LEMMA FromStatus ==
  ASSUME NEW w, NEW a, NEW pos, NEW chk, NEW cl, NEW code, NEW m,
         Placed(w, a, "status", pos, chk, cl, code, m)
  PROVE  /\ pos < Len(w)
         /\ w[pos + 1] = SP => Placed(w, a, "code", pos + 1, chk, cl, code, m)
         /\ w[pos + 1] # SP => Placed(w, a, "status", pos + 1, chk, cl, code, m)
<1>1. InHead(w, a, "status", pos, chk, cl, code) /\ m = 0
  BY PlacedHead
<1>2. PICK ds, e \in Nat : Layout(w, a, ds, e) /\ AtStatus("status", pos, chk, cl, code)
  BY <1>1 DEF InHead, AtCode, AtLines, AtLength, AtChunked, AtHeadersEnd
<1>3. PICK len \in Nat : len = Len(w)
  BY <1>2, LenProperties DEF Layout
<1>4. ds \in Nat \ {0} /\ 13 <= len + 1 /\ w[1] = TEXT /\ w[2] = SP /\ SP # TEXT
  BY <1>2, <1>3 DEF Layout, SP, TEXT
<1>5. pos \in {0, 1} /\ ~chk /\ cl = 0 /\ code = 0
  BY <1>2 DEF AtStatus
<1>6. pos < Len(w)
  BY <1>3, <1>4, <1>5
<1>7. CASE pos = 0
  <2>1. w[pos + 1] # SP /\ pos + 1 \in {0, 1}
    BY <1>4, <1>7
  <2>2. InHead(w, a, "status", pos + 1, chk, cl, code)
    BY <1>2, <1>5, <2>1 DEF InHead, AtStatus
  <2>3. QED
    BY <1>1, <1>6, <2>1, <2>2 DEF Placed
<1>8. CASE pos = 1
  <2>1. w[pos + 1] = SP /\ pos + 1 = 2 + 0 /\ 0 \in 0..ds
    BY <1>4, <1>8
  <2>2. Leading(Digits(a.status, 10), 10, 0) = 0
    BY <1>2, Zenon DEF Layout, IsDigits
  <2>3. AtCode(a, ds, "code", pos + 1, chk, cl, code)
    BY <1>5, <2>1, <2>2 DEF AtCode
  <2>4. QED
    BY <1>1, <1>2, <1>6, <2>1, <2>3 DEF Placed, InHead
<1>9. QED
  BY <1>5, <1>7, <1>8

LEMMA FromCode ==
  ASSUME NEW w, NEW a \in Answers, NEW pos, NEW chk, NEW cl, NEW code, NEW m,
         Placed(w, a, "code", pos, chk, cl, code, m)
  PROVE  /\ pos < Len(w)
         /\ w[pos + 1] \in Decimals =>
              /\ 10 * code + w[pos + 1] \in 0..MaxInt
              /\ Placed(w, a, "code", pos + 1, chk, cl, 10 * code + w[pos + 1], m)
         /\ w[pos + 1] \notin Decimals => Placed(w, a, "line", pos + 1, chk, cl, code, m)
<1>1. InHead(w, a, "code", pos, chk, cl, code) /\ m = 0
  BY PlacedHead
<1>2. PICK ds, e \in Nat : Layout(w, a, ds, e) /\ AtCode(a, ds, "code", pos, chk, cl, code)
  BY <1>1 DEF InHead, AtStatus, AtLines, AtLength, AtChunked, AtHeadersEnd
<1>3. PICK len \in Nat : len = Len(w)
  BY <1>2, LenProperties DEF Layout
<1>4. ds \in Nat \ {0} /\ ds + 11 <= len /\ w[ds + 3] = SP
  BY <1>2, <1>3 DEF Layout
<1> DEFINE D == Digits(a.status, 10)
<1>5. IsDigits(D, 10, a.status, ds) /\ \A i \in 1..ds : w[2 + i] = D[i]
  BY <1>2 DEF Layout
<1>6. PICK j \in 0..ds : pos = 2 + j /\ code = Leading(D, 10, j)
  BY <1>2 DEF AtCode
<1>7. ~chk /\ cl = 0
  BY <1>2 DEF AtCode
<1>8. PICK s \in Nat : s = a.status
  <2>1. a.status \in 100..599
    BY StatusType
  <2>2. a.status \in Nat
    BY <2>1
  <2>3. QED
    BY <2>2
<1> HIDE DEF D
<1>9. pos < Len(w)
  BY <1>3, <1>4, <1>6
<1>10. CASE j = ds
  <2>1. pos + 1 = ds + 3 /\ w[pos + 1] \notin Decimals
    BY <1>4, <1>6, <1>10 DEF Decimals, SP
  <2>2. code = a.status
    BY <1>5, <1>6, <1>10, Zenon DEF IsDigits
  <2>3. AtLines(a, ds, "line", pos + 1, chk, cl, code)
    BY <1>7, <2>1, <2>2 DEF AtLines
  <2>4. InHead(w, a, "line", pos + 1, chk, cl, code)
    BY <1>2, <2>3 DEF InHead
  <2>5. QED
    BY <1>1, <1>9, <2>1, <2>4 DEF Placed
<1>11. CASE j # ds
  <2>1. j \in 0..(ds - 1) /\ j + 1 \in 0..ds /\ j + 1 \in 1..ds /\ pos + 1 = 2 + (j + 1)
    BY <1>4, <1>6, <1>11
  <2>2. PICK c : c = w[pos + 1] /\ c = D[j + 1]
    BY <1>5, <2>1
  <2>3. D[j + 1] \in 0..(10 - 1) /\ Leading(D, 10, j + 1) = 10 * Leading(D, 10, j) + D[j + 1]
    <3>1. PICK v \in Nat \ {0} : v = ds
      BY <1>4
    <3>2. PICK i \in 0..(v - 1) : i = j
      BY <2>1, <3>1
    <3>3. IsDigits(D, 10, s, v)
      BY <1>5, <1>8, <3>1
    <3>4. D[i + 1] \in 0..(10 - 1) /\ Leading(D, 10, i + 1) = 10 * Leading(D, 10, i) + D[i + 1]
      BY <3>3, NextDecimal, Zenon
    <3>5. QED
      BY <3>2, <3>4
  <2>4. c \in Decimals /\ Leading(D, 10, j + 1) = 10 * code + c
    BY <1>6, <2>2, <2>3 DEF Decimals
  <2>5. Leading(D, 10, j + 1) \in 0..s
    BY <1>5, <1>8, <2>1, Zenon DEF IsDigits
  <2>6. 10 * code + c \in 0..MaxInt
    <3>1. PICK x \in Nat : x = 10 * code + c /\ x <= s
      BY <1>8, <2>4, <2>5
    <3>2. x <= a.status
      BY <1>8, <3>1
    <3>3. QED
      BY <3>1, <3>2, FitsAnInt
  <2>7. AtCode(a, ds, "code", pos + 1, chk, cl, 10 * code + c)
    BY <1>7, <2>1, <2>4 DEF AtCode, D
  <2>8. InHead(w, a, "code", pos + 1, chk, cl, 10 * code + c)
    BY <1>2, <2>7 DEF InHead
  <2>9. QED
    BY <1>1, <1>9, <2>2, <2>4, <2>6, <2>8 DEF Placed
<1>12. QED
  BY <1>10, <1>11

LEMMA FromLine ==
  ASSUME NEW w, NEW a, NEW pos, NEW chk, NEW cl, NEW code, NEW m,
         Placed(w, a, "line", pos, chk, cl, code, m)
  PROVE  /\ pos < Len(w)
         /\ w[pos + 1] = LF => Placed(w, a, "header", pos + 1, chk, cl, code, m)
         /\ w[pos + 1] # LF => Placed(w, a, "line", pos + 1, chk, cl, code, m)
<1>1. InHead(w, a, "line", pos, chk, cl, code) /\ m = 0
  BY PlacedHead
<1>2. PICK ds, e \in Nat :
        /\ Layout(w, a, ds, e)
        /\ \/ AtLines(a, ds, "line", pos, chk, cl, code)
           \/ AtLength(w, a, ds, e, "line", pos, chk, cl, code)
           \/ AtChunked(a, ds, "line", pos, chk, cl, code)
  BY <1>1 DEF InHead, AtStatus, AtCode, AtHeadersEnd
<1>3. PICK len \in Nat : len = Len(w)
  BY <1>2, LenProperties DEF Layout
<1>4. /\ ds \in Nat \ {0} /\ e <= len /\ ds + 11 <= e
      /\ w[ds + 3] = SP /\ w[ds + 4] = TEXT /\ w[ds + 5] = CR /\ w[ds + 6] = LF
      /\ w[ds + 7] = TEXT /\ w[ds + 8] = CR /\ w[ds + 9] = LF
  BY <1>2, <1>3 DEF Layout
<1>5. LF # TEXT /\ LF # CR
  BY DEF LF, TEXT, CR
<1>6. CASE AtLines(a, ds, "line", pos, chk, cl, code)
  <2>1. pos \in {ds + 3, ds + 4, ds + 5, ds + 7, ds + 8} /\ ~chk /\ cl = 0 /\ code = a.status
    BY <1>6 DEF AtLines
  <2>2. pos < Len(w)
    BY <1>3, <1>4, <2>1
  <2>3. \/ w[pos + 1] = LF /\ pos + 1 \in {ds + 6, ds + 9}
        \/ w[pos + 1] # LF /\ pos + 1 \in {ds + 3, ds + 4, ds + 5, ds + 7, ds + 8}
    BY <1>4, <1>5, <2>1
  <2>4. \/ w[pos + 1] = LF /\ AtLines(a, ds, "header", pos + 1, chk, cl, code)
        \/ w[pos + 1] # LF /\ AtLines(a, ds, "line", pos + 1, chk, cl, code)
    BY <2>1, <2>3 DEF AtLines
  <2>5. QED
    BY <1>1, <1>2, <2>2, <2>4 DEF Placed, InHead
<1>7. CASE AtLength(w, a, ds, e, "line", pos, chk, cl, code)
  <2>1. /\ a.framing = "length" /\ ~chk /\ code = a.status
        /\ pos = e - 3 /\ cl = Size(a)
    BY <1>7 DEF AtLength
  <2>2. PICK lw \in Nat \ {0} : e = ds + lw + 14 /\ IsLength(w, a, ds + 9, lw)
    BY <1>7 DEF AtLength
  <2>3. w[(ds + 9) + (lw + 3)] = LF
    BY <2>2 DEF IsLength
  <2>4. pos + 1 = (ds + 9) + (lw + 3) /\ pos + 1 = e - 2 /\ pos < len
    BY <1>4, <2>1, <2>2
  <2>5. AtHeadersEnd(a, e, "header", pos + 1, chk, cl, code)
    BY <2>1, <2>4 DEF AtHeadersEnd, Expected
  <2>6. QED
    BY <1>1, <1>2, <1>3, <2>3, <2>4, <2>5 DEF Placed, InHead
<1>8. CASE AtChunked(a, ds, "line", pos, chk, cl, code)
  <2>1. /\ a.framing = "chunked" /\ chk /\ cl = 0 /\ code = a.status
        /\ pos \in {ds + 10, ds + 11}
    BY <1>8 DEF AtChunked
  <2>2. e = ds + 14 /\ w[ds + 11] = CR /\ w[ds + 12] = LF
    BY <1>2, <2>1 DEF Layout
  <2>3. pos < Len(w)
    BY <1>3, <1>4, <2>1, <2>2
  <2>4. CASE pos = ds + 10
    <3>1. w[pos + 1] # LF /\ pos + 1 = ds + 11
      BY <1>5, <2>2, <2>4
    <3>2. AtChunked(a, ds, "line", pos + 1, chk, cl, code)
      BY <2>1, <3>1 DEF AtChunked
    <3>3. QED
      BY <1>1, <1>2, <2>3, <3>1, <3>2 DEF Placed, InHead
  <2>5. CASE pos = ds + 11
    <3>1. w[pos + 1] = LF /\ pos + 1 = e - 2
      BY <2>2, <2>5
    <3>2. AtHeadersEnd(a, e, "header", pos + 1, chk, cl, code)
      BY <2>1, <3>1 DEF AtHeadersEnd, Expected
    <3>3. QED
      BY <1>1, <1>2, <2>3, <3>1, <3>2 DEF Placed, InHead
  <2>6. QED
    BY <2>1, <2>4, <2>5
<1>9. QED
  BY <1>2, <1>6, <1>7, <1>8

LEMMA FromHeader ==
  ASSUME NEW w, NEW a \in Answers, NEW pos, NEW chk, NEW cl, NEW code, NEW m,
         Placed(w, a, "header", pos, chk, cl, code, m)
  PROVE  /\ pos < Len(w)
         /\ w[pos + 1] = CONTENT_LENGTH => Placed(w, a, "length", pos + 1, chk, cl, code, m)
         /\ w[pos + 1] = CHUNKED => Placed(w, a, "line", pos + 1, TRUE, cl, code, m)
         /\ w[pos + 1] = CR => Placed(w, a, "headersEnd", pos + 1, chk, cl, code, m)
         /\ w[pos + 1] \notin {CONTENT_LENGTH, CHUNKED, CR} =>
              Placed(w, a, "line", pos + 1, chk, cl, code, m)
<1>1. InHead(w, a, "header", pos, chk, cl, code) /\ m = 0
  BY PlacedHead
<1>2. PICK ds, e \in Nat :
        /\ Layout(w, a, ds, e)
        /\ \/ AtLines(a, ds, "header", pos, chk, cl, code)
           \/ AtHeadersEnd(a, e, "header", pos, chk, cl, code)
  BY <1>1 DEF InHead, AtStatus, AtCode, AtLength, AtChunked
<1>3. PICK len \in Nat : len = Len(w)
  BY <1>2, LenProperties DEF Layout
<1>4. /\ ds \in Nat \ {0} /\ e <= len /\ ds + 11 <= e
      /\ w[ds + 7] = TEXT /\ w[e - 1] = CR
  BY <1>2, <1>3 DEF Layout
<1>5. CONTENT_LENGTH # CHUNKED /\ CR \notin {CONTENT_LENGTH, CHUNKED} /\ TEXT \notin {CONTENT_LENGTH, CHUNKED, CR}
  BY DEF TEXT, CR, CONTENT_LENGTH, CHUNKED
<1>6. CASE AtHeadersEnd(a, e, "header", pos, chk, cl, code)
  <2>1. /\ (chk <=> a.framing = "chunked") /\ cl = Expected(a) /\ code = a.status
        /\ pos = e - 2
    BY <1>6 DEF AtHeadersEnd
  <2>2. w[pos + 1] = CR /\ pos + 1 = e - 1 /\ pos < Len(w)
    BY <1>3, <1>4, <2>1
  <2>3. AtHeadersEnd(a, e, "headersEnd", pos + 1, chk, cl, code)
    BY <2>1, <2>2 DEF AtHeadersEnd
  <2>4. QED
    BY <1>1, <1>2, <1>5, <2>2, <2>3 DEF Placed, InHead
<1>7. CASE AtLines(a, ds, "header", pos, chk, cl, code)
  <2>1. ~chk /\ cl = 0 /\ code = a.status /\ pos \in {ds + 6, ds + 9}
    BY <1>7 DEF AtLines
  <2>2. pos < Len(w)
    BY <1>3, <1>4, <2>1
  <2>3. CASE pos = ds + 6
    <3>1. w[pos + 1] = TEXT /\ pos + 1 = ds + 7
      BY <1>4, <2>3
    <3>2. AtLines(a, ds, "line", pos + 1, chk, cl, code)
      BY <2>1, <3>1 DEF AtLines
    <3>3. QED
      BY <1>1, <1>2, <1>5, <2>2, <3>1, <3>2 DEF Placed, InHead
  <2>4. CASE pos = ds + 9 /\ a.framing = "none"
    <3>1. e = ds + 11
      BY <1>2, <2>4 DEF Layout
    <3>2. w[pos + 1] = CR /\ pos + 1 = e - 1
      BY <1>4, <2>4, <3>1
    <3>3. AtHeadersEnd(a, e, "headersEnd", pos + 1, chk, cl, code)
      BY <2>1, <2>4, <3>2 DEF AtHeadersEnd, Expected
    <3>4. QED
      BY <1>1, <1>2, <1>5, <2>2, <3>2, <3>3 DEF Placed, InHead
  <2>5. CASE pos = ds + 9 /\ a.framing = "length"
    <3>1. PICK lw \in Nat \ {0} : e = ds + lw + 14 /\ IsLength(w, a, ds + 9, lw)
      BY <1>2, <2>5 DEF Layout
    <3>2. w[pos + 1] = CONTENT_LENGTH
      BY <2>5, <3>1 DEF IsLength
    <3>3. pos + 1 = ds + 10 + 0 /\ 0 \in 0..lw
      BY <2>5
    <3>4. Leading(Digits(Size(a), 10), 10, 0) = 0
      BY <3>1, Zenon DEF IsLength, IsDigits
    <3>5. AtLength(w, a, ds, e, "length", pos + 1, chk, cl, code)
      BY <2>1, <2>5, <3>1, <3>3, <3>4 DEF AtLength
    <3>6. QED
      BY <1>1, <1>2, <1>5, <2>2, <3>2, <3>5 DEF Placed, InHead
  <2>6. CASE pos = ds + 9 /\ a.framing = "chunked"
    <3>0. w[ds + 10] = CHUNKED
      BY <1>2, <2>6 DEF Layout
    <3>1. w[pos + 1] = CHUNKED /\ pos + 1 = ds + 10
      BY <2>6, <3>0
    <3>2. AtChunked(a, ds, "line", pos + 1, TRUE, cl, code)
      BY <2>1, <2>6, <3>1 DEF AtChunked
    <3>3. QED
      BY <1>1, <1>2, <1>5, <2>2, <3>1, <3>2 DEF Placed, InHead
  <2>7. a.framing \in {"length", "chunked", "none"}
    BY FramingType
  <2>8. QED
    BY <2>1, <2>3, <2>4, <2>5, <2>6, <2>7
<1>8. QED
  BY <1>2, <1>6, <1>7

LEMMA FromLength ==
  ASSUME NEW w, NEW a \in Answers, NEW pos, NEW chk, NEW cl, NEW code, NEW m,
         Placed(w, a, "length", pos, chk, cl, code, m)
  PROVE  /\ pos < Len(w)
         /\ w[pos + 1] \in Decimals =>
              /\ 10 * cl + w[pos + 1] \in 0..MaxInt
              /\ Placed(w, a, "length", pos + 1, chk, 10 * cl + w[pos + 1], code, m)
         /\ w[pos + 1] \notin Decimals => Placed(w, a, "line", pos + 1, chk, cl, code, m)
<1>1. InHead(w, a, "length", pos, chk, cl, code) /\ m = 0
  BY PlacedHead
<1>2. PICK ds, e \in Nat :
        Layout(w, a, ds, e) /\ AtLength(w, a, ds, e, "length", pos, chk, cl, code)
  BY <1>1 DEF InHead, AtStatus, AtCode, AtLines, AtChunked, AtHeadersEnd
<1>3. PICK len \in Nat : len = Len(w)
  BY <1>2, LenProperties DEF Layout
<1>4. ds \in Nat \ {0} /\ e <= len
  BY <1>2, <1>3 DEF Layout
<1> DEFINE D == Digits(Size(a), 10)
<1>5. PICK lw \in Nat \ {0} :
        /\ e = ds + lw + 14 /\ IsLength(w, a, ds + 9, lw)
        /\ \E j \in 0..lw : pos = ds + 10 + j /\ cl = Leading(D, 10, j)
  BY <1>2 DEF AtLength
<1>6. PICK j \in 0..lw : pos = ds + 10 + j /\ cl = Leading(D, 10, j)
  BY <1>5
<1>7. /\ IsDigits(D, 10, Size(a), lw)
      /\ \A i \in 1..lw : w[((ds + 9) + 1) + i] = D[i]
      /\ w[(ds + 9) + (lw + 2)] = CR
  BY <1>5 DEF IsLength
<1>8. a.framing = "length" /\ ~chk /\ code = a.status
  BY <1>2 DEF AtLength
<1>9. PICK s \in Nat : s = Size(a)
  BY BodyType
<1> HIDE DEF D
<1>10. pos < Len(w)
  BY <1>3, <1>4, <1>5, <1>6
<1>11. CASE j = lw
  <2>1. pos + 1 = e - 3 /\ pos + 1 = (ds + 9) + (lw + 2)
    BY <1>5, <1>6, <1>11
  <2>2. w[pos + 1] \notin Decimals
    BY <1>7, <2>1 DEF Decimals, CR
  <2>3. cl = Size(a)
    BY <1>6, <1>7, <1>11, Zenon DEF IsDigits
  <2>4. AtLength(w, a, ds, e, "line", pos + 1, chk, cl, code)
    BY <1>5, <1>8, <2>1, <2>3 DEF AtLength
  <2>5. InHead(w, a, "line", pos + 1, chk, cl, code)
    BY <1>2, <2>4 DEF InHead
  <2>6. QED
    BY <1>1, <1>10, <2>2, <2>5 DEF Placed
<1>12. CASE j # lw
  <2>1. /\ j \in 0..(lw - 1) /\ j + 1 \in 0..lw /\ j + 1 \in 1..lw
        /\ pos + 1 = ds + 10 + (j + 1) /\ pos + 1 = ((ds + 9) + 1) + (j + 1)
    BY <1>4, <1>6, <1>12
  <2>2. PICK c : c = w[pos + 1] /\ c = D[j + 1]
    BY <1>7, <2>1
  <2>3. D[j + 1] \in 0..(10 - 1) /\ Leading(D, 10, j + 1) = 10 * Leading(D, 10, j) + D[j + 1]
    <3>1. IsDigits(D, 10, s, lw)
      BY <1>7, <1>9
    <3>2. PICK i \in 0..(lw - 1) : i = j
      BY <2>1
    <3>3. D[i + 1] \in 0..(10 - 1) /\ Leading(D, 10, i + 1) = 10 * Leading(D, 10, i) + D[i + 1]
      BY <3>1, NextDecimal, Zenon
    <3>4. QED
      BY <3>2, <3>3
  <2>4. c \in Decimals /\ Leading(D, 10, j + 1) = 10 * cl + c
    BY <1>6, <2>2, <2>3 DEF Decimals
  <2>5. Leading(D, 10, j + 1) \in 0..s
    BY <1>7, <1>9, <2>1, Zenon DEF IsDigits
  <2>6. 10 * cl + c \in 0..MaxInt
    <3>1. PICK x \in Nat : x = 10 * cl + c /\ x <= s
      BY <1>9, <2>4, <2>5
    <3>2. x <= Size(a)
      BY <1>9, <3>1
    <3>3. QED
      BY <3>1, <3>2, FitsAnInt
  <2>7. AtLength(w, a, ds, e, "length", pos + 1, chk, 10 * cl + c, code)
    BY <1>5, <1>8, <2>1, <2>4 DEF AtLength, D
  <2>8. InHead(w, a, "length", pos + 1, chk, 10 * cl + c, code)
    BY <1>2, <2>7 DEF InHead
  <2>9. QED
    BY <1>1, <1>10, <2>2, <2>4, <2>6, <2>8 DEF Placed
<1>13. QED
  BY <1>11, <1>12

\* An answer without a body has the size 0.
LEMMA NoBody ==
  ASSUME NEW a \in Answers, a.framing = "none"
  PROVE  Size(a) = 0
<1>1. a.chunks = <<>>
  BY FramingType
<1>2. QED
  BY <1>1, FlattenNone DEF Size

\* Where a chunk may begin, the parser is to read its size.
LEMMA AtMore ==
  ASSUME NEW w \in Seq(Text), NEW a \in Answers, NEW p, NEW m, More(w, a, p, m),
         a.framing = "chunked"
  PROVE  Placed(w, a, "size", p, TRUE, 0, a.status, m)
<1>1. PICK n, hw \in Nat : /\ IsChunk(w, Body(a), p, m, n, hw)
                           /\ n > 0 => More(w, a, p + hw + n + 4, m + n)
  BY NextChunk
<1>2. hw \in Nat \ {0} /\ p \in Nat /\ m \in Nat
  BY <1>1 DEF IsChunk
<1>3. p = p + 0 /\ 0 \in 0..hw
  BY <1>2
<1>4. Leading(Digits(n, 16), 16, 0) = 0
  BY <1>1, Zenon DEF IsChunk, IsFrame, IsDigits
<1>5. InChunk(p, m, n, hw, "size", p, 0, m)
  BY <1>3, <1>4 DEF InChunk
<1>6. InChunks(w, a, "size", p, TRUE, 0, a.status, m)
  BY <1>1, <1>2, <1>5 DEF InChunks
<1>7. QED
  BY <1>6 DEF Placed

LEMMA FromHeadersEnd ==
  ASSUME NEW w, NEW a \in Answers, NEW pos, NEW chk, NEW cl, NEW code, NEW m,
         Placed(w, a, "headersEnd", pos, chk, cl, code, m)
  PROVE  /\ pos < Len(w) /\ w[pos + 1] = LF /\ code = a.status /\ m = 0
         /\ chk <=> a.framing = "chunked"
         /\ chk => Placed(w, a, "size", pos + 1, TRUE, cl, code, m)
         /\ ~chk => Placed(w, a, "body", pos + 1, FALSE, cl, code, m)
         /\ ~chk => cl = Size(a)
         /\ ~chk /\ cl = 0 => pos + 1 = Len(w)
<1>1. InHead(w, a, "headersEnd", pos, chk, cl, code) /\ m = 0
  BY PlacedHead
<1>2. PICK ds, e \in Nat :
        Layout(w, a, ds, e) /\ AtHeadersEnd(a, e, "headersEnd", pos, chk, cl, code)
  BY <1>1 DEF InHead, AtStatus, AtCode, AtLines, AtLength, AtChunked
<1>3. PICK len \in Nat : len = Len(w)
  BY <1>2, LenProperties DEF Layout
<1>4. w \in Seq(Text) /\ ds \in Nat \ {0} /\ e <= len /\ w[e] = LF /\ ds + 11 <= e
  BY <1>2, <1>3 DEF Layout
<1>5. /\ (chk <=> a.framing = "chunked") /\ cl = Expected(a) /\ code = a.status
      /\ pos = e - 1
  BY <1>2 DEF AtHeadersEnd
<1>6. pos < Len(w) /\ pos + 1 = e /\ w[pos + 1] = LF
  BY <1>3, <1>4, <1>5
<1>7. CASE chk
  <2>1. a.framing = "chunked" /\ cl = 0
    BY <1>5, <1>7 DEF Expected
  <2>2. More(w, a, e, 0)
    BY <1>2, <2>1 DEF Layout
  <2>3. PICK z : z = 0
    OBVIOUS
  <2>4. Placed(w, a, "size", e, TRUE, 0, a.status, z)
    BY <1>4, <2>1, <2>2, <2>3, AtMore
  <2>5. QED
    BY <1>1, <1>5, <1>6, <1>7, <2>1, <2>3, <2>4
<1>8. CASE ~chk
  <2>1. a.framing # "chunked" /\ Ends(w, e, Body(a))
    BY <1>2, <1>5, <1>8 DEF Layout
  <2>2. PICK s \in Nat : s = Size(a) /\ s = Len(Body(a))
    BY BodyType
  <2>3. cl = s
    <3>1. CASE a.framing = "length"
      BY <1>5, <2>2, <3>1 DEF Expected
    <3>2. CASE a.framing = "none"
      BY <1>5, <2>2, <3>2, NoBody DEF Expected
    <3>3. QED
      BY <2>1, <3>1, <3>2, FramingType
  <2>4. Len(w) = e + s
    BY <2>1, <2>2 DEF Ends
  <2>5. cl = 0 => pos + 1 = Len(w)
    BY <1>6, <2>3, <2>4
  <2>6. pos + 1 = e + m /\ cl = s - m
    BY <1>1, <1>6, <2>3
  <2>7. InPlain(w, a, "body", pos + 1, FALSE, cl, code, m)
    BY <1>5, <2>1, <2>2, <2>6 DEF InPlain
  <2>8. QED
    BY <1>1, <1>5, <1>6, <1>8, <2>2, <2>3, <2>5, <2>7 DEF Placed
<1>9. QED
  BY <1>7, <1>8

\* The end of the headers of an answer that is not chunked.
LEMMA FromPlainEnd ==
  ASSUME NEW w, NEW a \in Answers, NEW pos, NEW cl, NEW code, NEW m,
         Placed(w, a, "headersEnd", pos, FALSE, cl, code, m)
  PROVE  cl = Size(a) /\ (cl = 0 => pos + 1 = Len(w))
BY FromHeadersEnd

\* The same, with what follows for the numbers.
OneChunk(w, a, at, pos, cl, m, p, k, n, hw, len, b) ==
  /\ IsChunk(w, Body(a), p, k, n, hw)
  /\ n > 0 => More(w, a, p + hw + n + 4, k + n)
  /\ InChunk(p, k, n, hw, at, pos, cl, m)
  /\ n \in Nat /\ hw \in Nat \ {0} /\ len = Len(w) /\ b = Len(Body(a))
  /\ p + hw + n + 4 <= len /\ k + n <= b
  /\ n = 0 => k = b /\ len = p + hw + 4

\* The chunk the parser is in, with the lengths of the answer and its body.
LEMMA InOneChunk ==
  ASSUME NEW w \in Seq(Text), NEW a \in Answers, NEW pos, NEW chk, NEW cl, NEW code, NEW m, NEW at,
         InChunks(w, a, at, pos, chk, cl, code, m)
  PROVE  /\ a.framing = "chunked" /\ chk /\ code = a.status
         /\ \E p, k, n, hw, len, b \in Nat : OneChunk(w, a, at, pos, cl, m, p, k, n, hw, len, b)
<1>1. a.framing = "chunked" /\ chk /\ code = a.status
  BY DEF InChunks
<1>2. PICK p, k, n, hw \in Nat :
        /\ IsChunk(w, Body(a), p, k, n, hw)
        /\ n > 0 => More(w, a, p + hw + n + 4, k + n)
        /\ InChunk(p, k, n, hw, at, pos, cl, m)
  BY DEF InChunks
<1>3. PICK b \in Nat : b = Len(Body(a))
  BY BodyType
<1>4. /\ n \in Nat /\ hw \in Nat \ {0} /\ p \in Nat /\ k \in Nat
      /\ k + n <= b
      /\ n = 0 => k = b /\ Len(w) = p + hw + 4
      /\ p + hw + n + 4 <= Len(w)
  BY <1>2, <1>3 DEF IsChunk, IsFrame
<1>5. PICK len \in Nat : len = Len(w)
  BY LenProperties
<1>6. OneChunk(w, a, at, pos, cl, m, p, k, n, hw, len, b)
  BY <1>2, <1>3, <1>4, <1>5 DEF OneChunk
<1>7. QED
  BY <1>1, <1>6

LEMMA FromSize ==
  ASSUME NEW w \in Seq(Text), NEW a \in Answers, NEW pos, NEW chk, NEW cl, NEW code, NEW m,
         Placed(w, a, "size", pos, chk, cl, code, m)
  PROVE  /\ pos < Len(w)
         /\ w[pos + 1] \in 0..15 =>
              /\ 16 * cl + w[pos + 1] \in 0..MaxInt
              /\ Placed(w, a, "size", pos + 1, chk, 16 * cl + w[pos + 1], code, m)
         /\ w[pos + 1] \notin 0..15 =>
              w[pos + 1] = CR /\ Placed(w, a, "sizeEnd", pos + 1, chk, cl, code, m)
<1>1. InChunks(w, a, "size", pos, chk, cl, code, m)
  BY PlacedChunk
<1>2. /\ a.framing = "chunked" /\ chk /\ code = a.status
      /\ \E p, k, n, hw, len, b \in Nat : OneChunk(w, a, "size", pos, cl, m, p, k, n, hw, len, b)
  BY <1>1, InOneChunk
<1>3. PICK p, k, n, hw, len, b \in Nat : OneChunk(w, a, "size", pos, cl, m, p, k, n, hw, len, b)
  BY <1>2
<1> DEFINE D == Digits(n, 16)
<1>4. PICK j \in 0..hw : m = k /\ pos = p + j /\ cl = Leading(D, 16, j)
  BY <1>3 DEF InChunk, OneChunk
<1>5. IsDigits(D, 16, n, hw) /\ (\A i \in 1..hw : w[p + i] = D[i]) /\ w[p + hw + 1] = CR
  BY <1>3 DEF IsChunk, IsFrame, OneChunk
<1>6. pos < Len(w)
  <2>1. p + j < p + hw + n + 4 /\ len = Len(w) /\ p + hw + n + 4 <= len
    BY <1>3 DEF OneChunk
  <2>2. QED
    BY <1>4, <2>1
<1> HIDE DEF D
<1>7. /\ IsChunk(w, Body(a), p, k, n, hw)
      /\ n > 0 => More(w, a, p + hw + n + 4, k + n)
      /\ n \in Nat /\ hw \in Nat \ {0} /\ len = Len(w) /\ p + hw + n + 4 <= len
  BY <1>3 DEF OneChunk
<1>8. CASE j = hw
  <2>1. w[pos + 1] = CR /\ CR \notin 0..15
    BY <1>4, <1>5, <1>8 DEF CR
  <2>2. cl = n /\ pos + 1 = p + hw + 1
    <3>1. cl = n
      BY <1>4, <1>5, <1>8, Zenon DEF IsDigits
    <3>2. QED
      BY <1>4, <1>8, <3>1
  <2>3. InChunk(p, k, n, hw, "sizeEnd", pos + 1, cl, m)
    BY <1>4, <2>2 DEF InChunk
  <2>4. Placed(w, a, "sizeEnd", pos + 1, chk, cl, code, m)
    BY <1>2, <1>7, <2>3, Zenon DEF InChunks, Placed
  <2>5. QED
    BY <1>6, <2>1, <2>4
<1>9. CASE j # hw
  <2>1. /\ j \in 0..(hw - 1) /\ j + 1 \in 0..hw /\ j + 1 \in 1..hw /\ pos + 1 = p + (j + 1)
    BY <1>4, <1>9
  <2>2. PICK c : c = w[pos + 1] /\ c = D[j + 1]
    BY <1>5, <2>1
  <2>3. D[j + 1] \in 0..(16 - 1) /\ Leading(D, 16, j + 1) = 16 * Leading(D, 16, j) + D[j + 1]
    <3>1. PICK x \in Nat, v \in Nat \ {0} : x = n /\ v = hw
      BY <1>7
    <3>2. PICK i \in 0..(v - 1) : i = j
      BY <2>1, <3>1
    <3>3. IsDigits(D, 16, x, v)
      BY <1>5, <3>1
    <3>4. D[i + 1] \in 0..(16 - 1) /\ Leading(D, 16, i + 1) = 16 * Leading(D, 16, i) + D[i + 1]
      BY <3>3, NextHexDigit, Zenon
    <3>5. QED
      BY <3>2, <3>4
  <2>4. c \in 0..15 /\ Leading(D, 16, j + 1) = 16 * cl + c
    BY <1>4, <2>2, <2>3
  <2>5. Leading(D, 16, j + 1) \in 0..n
    BY <1>5, <2>1, Zenon DEF IsDigits
  <2>6. 16 * cl + c \in 0..MaxInt
    <3>1. PICK x \in 0..n : x = 16 * cl + c
      BY <2>4, <2>5
    <3>2. PICK y \in Nat : y = n
      BY <1>7
    <3>3. x \in Nat /\ x <= y
      BY <3>1, <3>2
    <3>4. y <= Size(a)
      <4>1. PICK s \in Nat : s = Size(a) /\ s = Len(Body(a))
        BY BodyType
      <4>2. k + y <= s
        BY <1>7, <3>2, <4>1, Zenon DEF IsChunk
      <4>3. QED
        BY <4>1, <4>2
    <3>5. x <= Size(a)
      BY <3>3, <3>4, BodyType
    <3>6. QED
      BY <3>1, <3>3, <3>5, FitsAnInt
  <2>7. InChunk(p, k, n, hw, "size", pos + 1, 16 * cl + c, m)
    BY <1>4, <2>1, <2>4 DEF InChunk, D
  <2>8. Placed(w, a, "size", pos + 1, chk, 16 * cl + c, code, m)
    BY <1>2, <1>7, <2>7, Zenon DEF InChunks, Placed
  <2>9. QED
    BY <1>6, <2>2, <2>4, <2>6, <2>8
<1>10. QED
  BY <1>8, <1>9

LEMMA FromSizeEnd ==
  ASSUME NEW w \in Seq(Text), NEW a \in Answers, NEW pos, NEW chk, NEW cl, NEW code, NEW m,
         Placed(w, a, "sizeEnd", pos, chk, cl, code, m)
  PROVE  /\ pos < Len(w) /\ w[pos + 1] = LF /\ chk /\ cl \in Nat
         /\ cl = 0 => Placed(w, a, "lastCR", pos + 1, chk, cl, code, m)
         /\ cl # 0 => Placed(w, a, "body", pos + 1, chk, cl, code, m)
<1>1. InChunks(w, a, "sizeEnd", pos, chk, cl, code, m)
  BY PlacedChunk
<1>2. /\ a.framing = "chunked" /\ chk /\ code = a.status
      /\ \E p, k, n, hw, len, b \in Nat : OneChunk(w, a, "sizeEnd", pos, cl, m, p, k, n, hw, len, b)
  BY <1>1, InOneChunk
<1>3. PICK p, k, n, hw, len, b \in Nat : OneChunk(w, a, "sizeEnd", pos, cl, m, p, k, n, hw, len, b)
  BY <1>2
<1>4. m = k /\ pos = p + hw + 1 /\ cl = n
  BY <1>3 DEF InChunk, OneChunk
<1>5. w[p + hw + 2] = LF
  BY <1>3 DEF IsChunk, IsFrame, OneChunk
<1>6. /\ IsChunk(w, Body(a), p, k, n, hw)
      /\ n > 0 => More(w, a, p + hw + n + 4, k + n)
      /\ n \in Nat /\ hw \in Nat \ {0} /\ len = Len(w) /\ p + hw + n + 4 <= len
  BY <1>3 DEF OneChunk
<1>7. pos < Len(w) /\ w[pos + 1] = LF /\ pos + 1 = p + hw + 2
  BY <1>4, <1>5, <1>6
<1>8. CASE n = 0
  <2>1. InChunk(p, k, n, hw, "lastCR", pos + 1, cl, m)
    BY <1>4, <1>7, <1>8 DEF InChunk
  <2>2. Placed(w, a, "lastCR", pos + 1, chk, cl, code, m)
    BY <1>2, <1>6, <2>1, Zenon DEF InChunks, Placed
  <2>3. QED
    BY <1>2, <1>4, <1>7, <1>6, <1>8, <2>2
<1>9. CASE n # 0
  <2>1. 0 \in 0..n /\ m = k + 0 /\ pos + 1 = p + hw + 2 + 0 /\ cl = n - 0 /\ n > 0
    BY <1>4, <1>7, <1>6, <1>9
  <2>2. InChunk(p, k, n, hw, "body", pos + 1, cl, m)
    BY <2>1 DEF InChunk
  <2>3. Placed(w, a, "body", pos + 1, chk, cl, code, m)
    BY <1>2, <1>6, <2>2, Zenon DEF InChunks, Placed
  <2>4. QED
    BY <1>2, <1>4, <1>7, <1>6, <1>9, <2>3
<1>10. QED
  BY <1>8, <1>9

LEMMA FromLastCR ==
  ASSUME NEW w \in Seq(Text), NEW a \in Answers, NEW pos, NEW chk, NEW cl, NEW code, NEW m,
         Placed(w, a, "lastCR", pos, chk, cl, code, m)
  PROVE  /\ pos < Len(w) /\ w[pos + 1] = CR
         /\ Placed(w, a, "lastLF", pos + 1, chk, cl, code, m)
<1>1. InChunks(w, a, "lastCR", pos, chk, cl, code, m)
  BY PlacedChunk
<1>2. /\ a.framing = "chunked" /\ chk /\ code = a.status
      /\ \E p, k, n, hw, len, b \in Nat : OneChunk(w, a, "lastCR", pos, cl, m, p, k, n, hw, len, b)
  BY <1>1, InOneChunk
<1>3. PICK p, k, n, hw, len, b \in Nat : OneChunk(w, a, "lastCR", pos, cl, m, p, k, n, hw, len, b)
  BY <1>2
<1>4. n = 0 /\ m = k /\ pos = p + hw + 2
  BY <1>3 DEF InChunk, OneChunk
<1>5. w[p + hw + n + 3] = CR
  BY <1>3 DEF IsChunk, IsFrame, OneChunk
<1>6. /\ IsChunk(w, Body(a), p, k, n, hw)
      /\ n > 0 => More(w, a, p + hw + n + 4, k + n)
      /\ n \in Nat /\ hw \in Nat \ {0} /\ len = Len(w) /\ p + hw + n + 4 <= len
      /\ b = Len(Body(a)) /\ k + n <= b
      /\ n = 0 => k = b /\ len = p + hw + 4
  BY <1>3 DEF OneChunk
<1>7. pos < Len(w) /\ w[pos + 1] = CR /\ pos + 1 = p + hw + 3
  <2>1. pos + 1 = p + hw + n + 3 /\ pos + 1 = p + hw + 3
    BY <1>4
  <2>2. QED
    BY <1>4, <1>5, <1>6, <2>1
<1>8. InChunk(p, k, n, hw, "lastLF", pos + 1, cl, m)
  BY <1>4, <1>7 DEF InChunk
<1>9. Placed(w, a, "lastLF", pos + 1, chk, cl, code, m)
  BY <1>2, <1>6, <1>8, Zenon DEF InChunks, Placed
<1>10. QED
  BY <1>7, <1>9

LEMMA FromLastLF ==
  ASSUME NEW w \in Seq(Text), NEW a \in Answers, NEW pos, NEW chk, NEW cl, NEW code, NEW m,
         Placed(w, a, "lastLF", pos, chk, cl, code, m)
  PROVE  /\ pos < Len(w) /\ w[pos + 1] = LF /\ pos + 1 = Len(w)
         /\ code = a.status /\ m = Len(Body(a))
<1>1. InChunks(w, a, "lastLF", pos, chk, cl, code, m)
  BY PlacedChunk
<1>2. /\ a.framing = "chunked" /\ chk /\ code = a.status
      /\ \E p, k, n, hw, len, b \in Nat : OneChunk(w, a, "lastLF", pos, cl, m, p, k, n, hw, len, b)
  BY <1>1, InOneChunk
<1>3. PICK p, k, n, hw, len, b \in Nat : OneChunk(w, a, "lastLF", pos, cl, m, p, k, n, hw, len, b)
  BY <1>2
<1>4. n = 0 /\ m = k /\ pos = p + hw + 3
  BY <1>3 DEF InChunk, OneChunk
<1>5. w[p + hw + n + 4] = LF
  BY <1>3 DEF IsChunk, IsFrame, OneChunk
<1>6. /\ IsChunk(w, Body(a), p, k, n, hw)
      /\ n > 0 => More(w, a, p + hw + n + 4, k + n)
      /\ n \in Nat /\ hw \in Nat \ {0} /\ len = Len(w) /\ p + hw + n + 4 <= len
      /\ b = Len(Body(a)) /\ k + n <= b
      /\ n = 0 => k = b /\ len = p + hw + 4
  BY <1>3 DEF OneChunk
<1>7. pos + 1 = p + hw + n + 4 /\ pos + 1 = p + hw + 4
  BY <1>4
<1>8. QED
  BY <1>2, <1>4, <1>5, <1>6, <1>7

LEMMA FromBodyCR ==
  ASSUME NEW w \in Seq(Text), NEW a \in Answers, NEW pos, NEW chk, NEW cl, NEW code, NEW m,
         Placed(w, a, "bodyCR", pos, chk, cl, code, m)
  PROVE  /\ pos < Len(w) /\ w[pos + 1] = CR
         /\ Placed(w, a, "bodyLF", pos + 1, chk, cl, code, m)
<1>1. InChunks(w, a, "bodyCR", pos, chk, cl, code, m)
  BY PlacedChunk
<1>2. /\ a.framing = "chunked" /\ chk /\ code = a.status
      /\ \E p, k, n, hw, len, b \in Nat : OneChunk(w, a, "bodyCR", pos, cl, m, p, k, n, hw, len, b)
  BY <1>1, InOneChunk
<1>3. PICK p, k, n, hw, len, b \in Nat : OneChunk(w, a, "bodyCR", pos, cl, m, p, k, n, hw, len, b)
  BY <1>2
<1>4. n > 0 /\ m = k + n /\ pos = p + hw + n + 2 /\ cl = 0
  BY <1>3 DEF InChunk, OneChunk
<1>5. w[p + hw + n + 3] = CR
  BY <1>3 DEF IsChunk, IsFrame, OneChunk
<1>6. /\ IsChunk(w, Body(a), p, k, n, hw)
      /\ n > 0 => More(w, a, p + hw + n + 4, k + n)
      /\ n \in Nat /\ hw \in Nat \ {0} /\ len = Len(w) /\ p + hw + n + 4 <= len
      /\ b = Len(Body(a)) /\ k + n <= b
      /\ n = 0 => k = b /\ len = p + hw + 4
  BY <1>3 DEF OneChunk
<1>7. pos < Len(w) /\ w[pos + 1] = CR /\ pos + 1 = p + hw + n + 3
  BY <1>4, <1>5, <1>6
<1>8. InChunk(p, k, n, hw, "bodyLF", pos + 1, cl, m)
  BY <1>4, <1>7 DEF InChunk
<1>9. Placed(w, a, "bodyLF", pos + 1, chk, cl, code, m)
  BY <1>2, <1>6, <1>8, Zenon DEF InChunks, Placed
<1>10. QED
  BY <1>7, <1>9

LEMMA FromBodyLF ==
  ASSUME NEW w \in Seq(Text), NEW a \in Answers, NEW pos, NEW chk, NEW cl, NEW code, NEW m,
         Placed(w, a, "bodyLF", pos, chk, cl, code, m)
  PROVE  /\ pos < Len(w) /\ w[pos + 1] = LF
         /\ Placed(w, a, "size", pos + 1, chk, cl, code, m)
<1>1. InChunks(w, a, "bodyLF", pos, chk, cl, code, m)
  BY PlacedChunk
<1>2. /\ a.framing = "chunked" /\ chk /\ code = a.status
      /\ \E p, k, n, hw, len, b \in Nat : OneChunk(w, a, "bodyLF", pos, cl, m, p, k, n, hw, len, b)
  BY <1>1, InOneChunk
<1>3. PICK p, k, n, hw, len, b \in Nat : OneChunk(w, a, "bodyLF", pos, cl, m, p, k, n, hw, len, b)
  BY <1>2
<1>4. n > 0 /\ m = k + n /\ pos = p + hw + n + 3 /\ cl = 0
  BY <1>3 DEF InChunk, OneChunk
<1>5. w[p + hw + n + 4] = LF
  BY <1>3 DEF IsChunk, IsFrame, OneChunk
<1>6. /\ IsChunk(w, Body(a), p, k, n, hw)
      /\ n > 0 => More(w, a, p + hw + n + 4, k + n)
      /\ n \in Nat /\ hw \in Nat \ {0} /\ len = Len(w) /\ p + hw + n + 4 <= len
      /\ b = Len(Body(a)) /\ k + n <= b
      /\ n = 0 => k = b /\ len = p + hw + 4
  BY <1>3 DEF OneChunk
<1>7. pos < Len(w) /\ w[pos + 1] = LF /\ pos + 1 = p + hw + n + 4
  BY <1>4, <1>5, <1>6
<1>8. PICK q, z : q = p + hw + n + 4 /\ z = k + n
  OBVIOUS
<1>9. More(w, a, q, z)
  BY <1>4, <1>6, <1>8
<1>10. Placed(w, a, "size", q, TRUE, 0, a.status, z)
  BY <1>2, <1>9, AtMore
<1>11. InChunks(w, a, "size", q, TRUE, 0, a.status, z)
  BY <1>10, PlacedChunk
<1>12. InChunks(w, a, "size", pos + 1, chk, cl, code, m)
  <2>1. pos + 1 = q /\ cl = 0 /\ m = z /\ code = a.status /\ chk
    BY <1>2, <1>4, <1>7, <1>8
  <2>2. QED
    BY <1>11, <2>1 DEF InChunks
<1>13. QED
  BY <1>7, <1>12 DEF Placed

\* In the body, the parser has either all of it before it or one chunk.
LEMMA PlacedBody ==
  ASSUME NEW w \in Seq(Text), NEW a \in Answers, NEW pos, NEW chk, NEW cl, NEW code, NEW m,
         Placed(w, a, "body", pos, chk, cl, code, m)
  PROVE  \/ InPlain(w, a, "body", pos, chk, cl, code, m)
         \/ InChunks(w, a, "body", pos, chk, cl, code, m)
<1>1. ~InHead(w, a, "body", pos, chk, cl, code)
  <2>1. ~AtStatus("body", pos, chk, cl, code)
    BY DEF AtStatus
  <2>2. \A ds : /\ ~AtCode(a, ds, "body", pos, chk, cl, code)
                /\ ~AtLines(a, ds, "body", pos, chk, cl, code)
    BY DEF AtCode, AtLines
  <2>3. \A ds, e : ~AtLength(w, a, ds, e, "body", pos, chk, cl, code)
    BY DEF AtLength
  <2>4. \A ds, e : /\ ~AtChunked(a, ds, "body", pos, chk, cl, code)
                   /\ ~AtHeadersEnd(a, e, "body", pos, chk, cl, code)
    BY DEF AtChunked, AtHeadersEnd
  <2>5. QED
    BY <2>1, <2>2, <2>3, <2>4 DEF InHead
<1>2. QED
  BY <1>1 DEF Placed

\* What is left of a body with a Content-Length reaches to the end of the answer.
LEMMA FromPlainBody ==
  ASSUME NEW w \in Seq(Text), NEW a \in Answers, NEW pos \in Nat, NEW chk, NEW cl \in Int, NEW code,
         NEW m \in Nat, m <= Len(Body(a)), InPlain(w, a, "body", pos, chk, cl, code, m)
  PROVE  /\ a.framing # "chunked" /\ ~chk /\ code = a.status
         /\ cl >= 0 /\ pos + cl = Len(w) /\ m + cl = Len(Body(a))
         /\ a.framing = "none" => cl = 0
         /\ \A n \in 0..cl :
              /\ \A i \in 1..n : w[pos + i] = Body(a)[m + i]
              /\ Placed(w, a, "body", pos + n, chk, cl - n, code, m + n)
<1>1. PICK len, b \in Nat : len = Len(w) /\ b = Len(Body(a)) /\ b = Size(a)
  BY BodyType
<1>2. a.framing # "chunked" /\ ~chk /\ code = a.status
  BY DEF InPlain
<1>3. PICK e \in Nat : Ends(w, e, Body(a)) /\ pos = e + m /\ cl = b - m
  BY <1>1 DEF InPlain
<1>4. len = e + b /\ \A i \in 1..b : w[e + i] = Body(a)[i]
  BY <1>1, <1>3 DEF Ends, Lies
<1>5. m <= b
  BY <1>1
<1>6. cl >= 0 /\ pos + cl = len /\ m + cl = b
  BY <1>3, <1>4, <1>5
<1>7. a.framing = "none" => cl = 0
  BY <1>1, <1>3, <1>5, NoBody
<1>8. ASSUME NEW n \in 0..cl
      PROVE  /\ \A i \in 1..n : w[pos + i] = Body(a)[m + i]
             /\ Placed(w, a, "body", pos + n, chk, cl - n, code, m + n)
  <2>1. ASSUME NEW i \in 1..n
        PROVE  w[pos + i] = Body(a)[m + i]
    <3>1. m + i \in 1..b /\ e + (m + i) = pos + i
      BY <1>3, <1>6
    <3>2. QED
      BY <1>4, <3>1
  <2>2. pos + n = e + (m + n) /\ cl - n = b - (m + n)
    BY <1>3
  <2>3. InPlain(w, a, "body", pos + n, chk, cl - n, code, m + n)
    BY <1>1, <1>2, <1>3, <2>2, Zenon DEF InPlain
  <2>4. QED
    BY <2>1, <2>3 DEF Placed
<1>9. QED
  BY <1>1, <1>2, <1>6, <1>7, <1>8

\* What is left of a chunk does not reach to the end of the answer.
LEMMA FromChunkBody ==
  ASSUME NEW w \in Seq(Text), NEW a \in Answers, NEW pos \in Nat, NEW chk, NEW cl \in Int, NEW code,
         NEW m \in Nat, InChunks(w, a, "body", pos, chk, cl, code, m)
  PROVE  /\ a.framing = "chunked" /\ chk /\ code = a.status
         /\ cl >= 0 /\ pos + cl < Len(w) /\ m + cl <= Len(Body(a))
         /\ cl = 0 => Placed(w, a, "bodyCR", pos, chk, cl, code, m)
         /\ \A x \in 0..cl :
              /\ \A i \in 1..x : w[pos + i] = Body(a)[m + i]
              /\ Placed(w, a, "body", pos + x, chk, cl - x, code, m + x)
<1>1. /\ a.framing = "chunked" /\ chk /\ code = a.status
      /\ \E p, k, n, hw, len, b \in Nat : OneChunk(w, a, "body", pos, cl, m, p, k, n, hw, len, b)
  BY InOneChunk
<1>2. PICK p, k, n, hw, len, b \in Nat : OneChunk(w, a, "body", pos, cl, m, p, k, n, hw, len, b)
  BY <1>1
<1>3. /\ IsChunk(w, Body(a), p, k, n, hw)
      /\ n > 0 => More(w, a, p + hw + n + 4, k + n)
      /\ n \in Nat /\ hw \in Nat \ {0} /\ len = Len(w) /\ p + hw + n + 4 <= len
      /\ b = Len(Body(a)) /\ k + n <= b
  BY <1>2 DEF OneChunk
<1>4. PICK j \in 0..n : n > 0 /\ m = k + j /\ pos = p + hw + 2 + j /\ cl = n - j
  BY <1>2 DEF InChunk, OneChunk
<1>5. \A i \in 1..n : Body(a)[k + i] = w[(p + hw + 2) + i]
  BY <1>3 DEF IsChunk
<1>6. cl >= 0 /\ pos + cl < Len(w) /\ m + cl <= b
  <2>1. pos + cl = p + hw + n + 2 /\ m + cl = k + n /\ cl >= 0
    BY <1>4
  <2>2. QED
    BY <1>3, <2>1
<1>7. ASSUME cl = 0
      PROVE  Placed(w, a, "bodyCR", pos, chk, cl, code, m)
  <2>1. m = k + n /\ pos = p + hw + n + 2
    BY <1>4, <1>7
  <2>2. InChunk(p, k, n, hw, "bodyCR", pos, cl, m)
    BY <1>4, <1>7, <2>1 DEF InChunk
  <2>3. QED
    BY <1>1, <1>3, <2>2, Zenon DEF InChunks, Placed
<1>8. ASSUME NEW x \in 0..cl
      PROVE  /\ \A i \in 1..x : w[pos + i] = Body(a)[m + i]
             /\ Placed(w, a, "body", pos + x, chk, cl - x, code, m + x)
  <2>1. ASSUME NEW i \in 1..x
        PROVE  w[pos + i] = Body(a)[m + i]
    <3>1. j + i \in 1..n /\ (p + hw + 2) + (j + i) = pos + i /\ k + (j + i) = m + i
      BY <1>4
    <3>2. QED
      BY <1>5, <3>1
  <2>2. j + x \in 0..n /\ m + x = k + (j + x) /\ pos + x = p + hw + 2 + (j + x) /\ cl - x = n - (j + x)
    BY <1>4
  <2>3. InChunk(p, k, n, hw, "body", pos + x, cl - x, m + x)
    BY <1>4, <2>2 DEF InChunk
  <2>4. InChunks(w, a, "body", pos + x, chk, cl - x, code, m + x)
    BY <1>1, <1>3, <2>3, Zenon DEF InChunks
  <2>5. QED
    BY <2>1, <2>4 DEF Placed
<1>9. QED
  BY <1>1, <1>3, <1>6, <1>7, <1>8

\* No character of the answer is the one a failed recv() stands for.
LEMMA WireText ==
  ASSUME NEW a \in Answers
  PROVE  Wire(a) \in Seq(Text)
<1>1. PICK ds, e \in Nat : Layout(Wire(a), a, ds, e)
  BY WireLayout
<1>2. QED
  BY <1>1 DEF Layout

\* The place of a parser that has read nothing.
LEMMA FromNothing ==
  ASSUME NEW a \in Answers
  PROVE  Placed(Wire(a), a, "status", 0, FALSE, 0, 0, 0)
<1>1. PICK ds, e \in Nat : Layout(Wire(a), a, ds, e)
  BY WireLayout
<1>2. AtStatus("status", 0, FALSE, 0, 0)
  BY DEF AtStatus
<1>3. InHead(Wire(a), a, "status", 0, FALSE, 0, 0)
  BY <1>1, <1>2 DEF InHead
<1>4. QED
  BY <1>3 DEF Placed

\* A parser that has not lost its place has something left to read.
LEMMA PlacedInside ==
  ASSUME NEW w \in Seq(Text), NEW a \in Answers, NEW pos, NEW chk, NEW cl, NEW code, NEW m,
         NEW at \in Reading \ {"body"}, Placed(w, a, at, pos, chk, cl, code, m)
  PROVE  pos < Len(w)
<1>1. CASE at = "status"
  <2>1. Placed(w, a, "status", pos, chk, cl, code, m)
    BY <1>1
  <2>2. QED
    BY <2>1, FromStatus
<1>2. CASE at = "code"
  <2>1. Placed(w, a, "code", pos, chk, cl, code, m)
    BY <1>2
  <2>2. QED
    BY <2>1, FromCode
<1>3. CASE at = "line"
  <2>1. Placed(w, a, "line", pos, chk, cl, code, m)
    BY <1>3
  <2>2. QED
    BY <2>1, FromLine
<1>4. CASE at = "header"
  <2>1. Placed(w, a, "header", pos, chk, cl, code, m)
    BY <1>4
  <2>2. QED
    BY <2>1, FromHeader
<1>5. CASE at = "length"
  <2>1. Placed(w, a, "length", pos, chk, cl, code, m)
    BY <1>5
  <2>2. QED
    BY <2>1, FromLength
<1>6. CASE at = "headersEnd"
  <2>1. Placed(w, a, "headersEnd", pos, chk, cl, code, m)
    BY <1>6
  <2>2. QED
    BY <2>1, FromHeadersEnd
<1>7. CASE at = "size"
  <2>1. Placed(w, a, "size", pos, chk, cl, code, m)
    BY <1>7
  <2>2. QED
    BY <2>1, FromSize
<1>8. CASE at = "sizeEnd"
  <2>1. Placed(w, a, "sizeEnd", pos, chk, cl, code, m)
    BY <1>8
  <2>2. QED
    BY <2>1, FromSizeEnd
<1>9. CASE at = "lastCR"
  <2>1. Placed(w, a, "lastCR", pos, chk, cl, code, m)
    BY <1>9
  <2>2. QED
    BY <2>1, FromLastCR
<1>10. CASE at = "lastLF"
  <2>1. Placed(w, a, "lastLF", pos, chk, cl, code, m)
    BY <1>10
  <2>2. QED
    BY <2>1, FromLastLF
<1>11. CASE at = "bodyCR"
  <2>1. Placed(w, a, "bodyCR", pos, chk, cl, code, m)
    BY <1>11
  <2>2. QED
    BY <2>1, FromBodyCR
<1>12. CASE at = "bodyLF"
  <2>1. Placed(w, a, "bodyLF", pos, chk, cl, code, m)
    BY <1>12
  <2>2. QED
    BY <2>1, FromBodyLF
<1>13. QED
  BY <1>1, <1>2, <1>3, <1>4, <1>5, <1>6, <1>7, <1>8, <1>9, <1>10, <1>11, <1>12 DEF Reading

\* An int stays one, and nothing that fits in one wraps around.
LEMMA WrapRange ==
  ASSUME NEW n \in Int
  PROVE  Wrap(n) \in (-MaxInt - 1)..MaxInt
BY HttpAssumption DEF Wrap

LEMMA WrapSmall ==
  ASSUME NEW n \in 0..MaxInt
  PROVE  Wrap(n) = n
<1>1. n \in Nat /\ n <= MaxInt /\ MaxInt \in Nat
  BY HttpAssumption
<1> DEFINE b == 2 * (MaxInt + 1)
           x == n + MaxInt + 1
<1>2. b \in Nat /\ x \in Nat /\ x < b /\ b > 0
  BY <1>1
<1>3. Wrap(n) = (x % b) - MaxInt - 1
  BY DEF Wrap
<1>4. x - MaxInt - 1 = n
  BY <1>1
<1> HIDE DEF x, b
<1>5. x % b = x
  BY <1>2
<1>6. QED
  BY <1>3, <1>4, <1>5

-----------------------------------------------------------------------------
(* What a step of the parser gets to see *)

\* The next character of the answer.
ReadsWire ==
  /\ ~Lost /\ taken - left < Len(wire)
  /\ ch = wire[taken - left + 1] /\ ch \in Text
  /\ taken' - left' = taken - left + 1
  /\ taken' \in 0..Len(wire) /\ left' \in 0..taken'
  /\ first' \in Text \ {CONTENT_LENGTH, CHUNKED}

\* recv() has returned 0.
ReadsStale == left = 0 /\ conn = "closed" /\ ch = first /\ UNCHANGED buffer

\* recv() has failed.
ReadsNothing == left = 0 /\ conn = "broken" /\ ch = NUL /\ UNCHANGED buffer

\* A piece of the answer begins with no header's name as a whole.
LEMMA PieceStarts ==
  ASSUME NEW c \in Text
  PROVE  Starts(c) \subseteq Text \ {CONTENT_LENGTH, CHUNKED}
BY DEF Starts, Text, Chars, TEXT, CONTENT_LENGTH, CHUNKED, SP, NUL

\* The three outcomes of _GET_NEXT_CHAR.
LEMMA ReadsNext ==
  ASSUME TypeOK, ReadInv, conn # "none", GetNextChar
  PROVE  ReadsWire \/ ReadsStale \/ ReadsNothing
<1>1. /\ wire \in Seq(Text) /\ conn \in {"open", "closed", "broken"}
      /\ taken \in 0..Len(wire) /\ left \in 0..taken /\ first \in Text
  BY WireText DEF TypeOK, Text
<1>2. PICK len \in Nat : len = Len(wire)
  BY <1>1, LenProperties
<1>3. CASE left > 0 /\ left' = left - 1 /\ UNCHANGED <<taken, first>>
  <2>1. ch = wire[taken - left + 1]
    BY <1>3 DEF ch
  <2>2. taken - left + 1 \in 1..len /\ taken - left < len
    BY <1>1, <1>2, <1>3
  <2>3. ch \in Text
    BY <1>1, <1>2, <2>1, <2>2, ElementOfSeq
  <2>4. ~Lost
    BY <1>3 DEF Lost
  <2>5. /\ taken' - left' = taken - left + 1
        /\ taken' \in 0..Len(wire) /\ left' \in 0..taken'
        /\ first' \in Text \ {CONTENT_LENGTH, CHUNKED}
    BY <1>1, <1>3 DEF ReadInv
  <2>6. QED
    BY <1>2, <2>1, <2>2, <2>3, <2>4, <2>5 DEF ReadsWire
<1>4. CASE \E n \in 1..Len(wire) : Piece(n) /\ left' = n - 1
  <2>1. PICK n \in 1..len : Piece(n) /\ left' = n - 1
    BY <1>2, <1>4
  <2>2. /\ conn = "open" /\ left = 0 /\ n \in 1..(len - taken)
        /\ taken' = taken + n /\ first' \in Starts(wire[taken + 1])
    BY <1>2, <2>1 DEF Piece
  <2>3. ch = wire[taken - left + 1]
    BY <2>2 DEF ch
  <2>4. taken - left + 1 \in 1..len /\ taken - left < len /\ taken - left + 1 = taken + 1
    BY <1>1, <1>2, <2>2
  <2>5. ch \in Text
    BY <1>1, <1>2, <2>3, <2>4, ElementOfSeq
  <2>6. ~Lost
    BY <2>2 DEF Lost
  <2>7. first' \in Text \ {CONTENT_LENGTH, CHUNKED}
    BY <2>2, <2>3, <2>4, <2>5, PieceStarts
  <2>8. /\ taken' - left' = taken - left + 1
        /\ taken' \in 0..Len(wire) /\ left' \in 0..taken'
    BY <1>1, <1>2, <2>1, <2>2
  <2>9. QED
    BY <1>2, <2>3, <2>4, <2>5, <2>6, <2>7, <2>8 DEF ReadsWire
<1>5. CASE left = 0 /\ conn = "closed" /\ UNCHANGED buffer
  <2>1. ch = first
    BY <1>5 DEF ch
  <2>2. QED
    BY <1>5, <2>1 DEF ReadsStale
<1>6. CASE left = 0 /\ conn = "broken" /\ UNCHANGED buffer
  <2>1. ch = NUL
    BY <1>6 DEF ch
  <2>2. QED
    BY <1>6, <2>1 DEF ReadsNothing
<1>7. QED
  BY <1>3, <1>4, <1>5, <1>6 DEF GetNextChar

\* Once the answer has been cut off, the parser gets no more of it.
LEMMA AtPlace ==
  ASSUME IInv, pc \in Reading \ {"body"}, GetNextChar, UNCHANGED network
  PROVE  /\ wire \in Seq(Text) /\ answer \in Answers
         /\ \/ ReadsWire /\ PlacedNow
            \/ ReadsStale /\ Lost /\ Lost'
            \/ ReadsNothing /\ Lost /\ Lost'
<1>1. wire \in Seq(Text) /\ answer \in Answers
  BY WireText DEF IInv, TypeOK
<1>2. conn # "none" /\ (PlacedNow \/ Stale \/ (Lost /\ conn = "broken" /\ pc = "bodyCR"))
  BY DEF IInv, PlaceInv
<1>3. ReadsWire \/ ReadsStale \/ ReadsNothing
  BY <1>2, ReadsNext DEF IInv
<1>4. PlacedNow => taken - left < Len(wire)
  BY <1>1, PlacedInside DEF PlacedNow
<1>5. PlacedNow \/ Lost
  BY <1>2 DEF Stale
<1>6. CASE ReadsWire
  BY <1>1, <1>5, <1>6 DEF ReadsWire
<1>7. CASE ReadsStale \/ ReadsNothing
  <2>1. left = 0 /\ conn \in {"closed", "broken"} /\ UNCHANGED buffer
    BY <1>7 DEF ReadsStale, ReadsNothing
  <2>2. taken \in Nat /\ taken - left = taken
    BY <1>1, <2>1, LenProperties DEF IInv, TypeOK
  <2>3. Lost
    BY <1>4, <1>5, <2>1, <2>2 DEF Lost
  <2>4. Lost'
    BY <2>1, <2>3 DEF Lost, network, buffer
  <2>5. QED
    BY <1>1, <1>7, <2>3, <2>4
<1>8. QED
  BY <1>3, <1>6, <1>7

-----------------------------------------------------------------------------
(* IInv is inductive: one lemma per step                                   *)

\* What all the steps have in common that read one character.
LEMMA ReadingInv ==
  ASSUME IInv, pc \in Reading \ {"body"}, GetNextChar, UNCHANGED <<network, resp, data>>,
         pc' \in Reading \cup {"close"}, chunked' \in BOOLEAN,
         content_length' \in (-MaxInt - 1)..MaxInt, ret_code' \in (-MaxInt - 1)..MaxInt,
         pc' # "close" => PlacedNow' \/ Stale',
         pc' = "close" =>
           \/ ret_code' < 0 /\ Lost'
           \/ ret_code' = answer.status /\ Complete'
  PROVE  IInv'
<1>1. /\ wire \in Seq(Text) /\ answer \in Answers
      /\ ReadsWire \/ ReadsStale \/ ReadsNothing
  BY AtPlace
<1>2. PICK len, m \in Nat : len = Len(wire) /\ m = Len(resp)
  BY <1>1, LenProperties DEF IInv, TypeOK
<1>3. /\ taken \in 0..len /\ left \in 0..taken /\ m <= taken - left
      /\ first \in Text \ {CONTENT_LENGTH, CHUNKED}
  BY <1>2 DEF IInv, TypeOK, ReadInv, Text
<1>4. /\ taken' \in 0..len /\ left' \in 0..taken' /\ m <= taken' - left' /\ m <= taken'
      /\ first' \in Text \ {CONTENT_LENGTH, CHUNKED}
  <2>1. CASE ReadsWire
    <3>1. /\ taken' - left' = taken - left + 1
          /\ taken' \in 0..len /\ left' \in 0..taken'
          /\ first' \in Text \ {CONTENT_LENGTH, CHUNKED}
      BY <1>2, <2>1 DEF ReadsWire
    <3>2. PICK t \in Nat, l \in Nat : t = taken' /\ l = left' /\ l <= t
      BY <3>1
    <3>3. PICK p \in Nat : p = taken - left /\ m <= p
      BY <1>3
    <3>4. t - l = p + 1
      BY <3>1, <3>2, <3>3
    <3>5. m <= t - l /\ m <= t
      BY <3>3, <3>4
    <3>6. QED
      BY <3>1, <3>2, <3>5
  <2>2. CASE ReadsStale \/ ReadsNothing
    <3>1. UNCHANGED buffer
      BY <2>2 DEF ReadsStale, ReadsNothing
    <3>2. QED
      BY <1>3, <3>1 DEF buffer
  <2>3. QED
    BY <1>1, <2>1, <2>2
<1>5. UNCHANGED <<answer, wire, conn, resp, data>>
  BY DEF network
<1>6. pc \in Reading /\ data # "rows" /\ conn # "none"
  BY DEF IInv, EndInv, PlaceInv, Reading
<1>7. TypeOK'
  BY <1>2, <1>4, <1>5 DEF TypeOK, IInv, Text
<1>8. ReadInv'
  BY <1>2, <1>4, <1>5 DEF ReadInv, IInv
<1>9. Outset'
  BY DEF Outset, Reading
<1>10. PlaceInv'
  BY <1>5, <1>6 DEF PlaceInv, Reading
<1>11. EndInv'
  BY <1>5, <1>6 DEF EndInv, Reading, Failed
<1>12. QED
  BY <1>7, <1>8, <1>9, <1>10, <1>11 DEF IInv

LEMMA StatusInv ==
  ASSUME IInv, Status
  PROVE  IInv'
<1>1. /\ pc = "status" /\ GetNextChar
      /\ UNCHANGED <<answer, wire, conn, chunked, content_length, resp, data>>
      /\ \/ ch = NUL /\ pc' = "close" /\ ret_code' = -7
         \/ ch = SP /\ pc' = "code" /\ ret_code' = ret_code
         \/ ch \notin {SP, NUL} /\ pc' = "status" /\ ret_code' = ret_code
  BY DEF Status, Until, Fail, GoTo, network
<1>2. /\ wire \in Seq(Text) /\ answer \in Answers
      /\ \/ ReadsWire /\ PlacedNow
         \/ ReadsStale /\ Lost /\ Lost'
         \/ ReadsNothing /\ Lost /\ Lost'
  BY <1>1, AtPlace DEF Reading, network
<1>3. /\ pc' \in {"status", "code", "close"} /\ chunked' \in BOOLEAN
      /\ content_length' \in (-MaxInt - 1)..MaxInt /\ ret_code' \in (-MaxInt - 1)..MaxInt
  BY <1>1, HttpAssumption DEF IInv, TypeOK
<1>4. /\ pc' # "close" => PlacedNow' \/ Stale'
      /\ pc' = "close" => ret_code' < 0 /\ Lost'
  <2>1. CASE ReadsWire /\ PlacedNow
    <3>1. /\ ch = wire[taken - left + 1] /\ ch # NUL /\ taken' - left' = taken - left + 1
      BY <2>1 DEF ReadsWire, Text
    <3>2. Placed(wire, answer, "status", taken - left, chunked, content_length, ret_code, Len(resp))
      BY <1>1, <2>1 DEF PlacedNow
    <3>3. Placed(wire, answer, pc', taken - left + 1, chunked, content_length, ret_code, Len(resp))
      BY <1>1, <3>1, <3>2, FromStatus
    <3>4. PlacedNow'
      BY <1>1, <3>1, <3>3 DEF PlacedNow
    <3>5. QED
      BY <1>1, <3>1, <3>4
  <2>2. CASE ReadsStale /\ Lost /\ Lost'
    BY <1>1, <2>2 DEF ReadsStale, Stale
  <2>3. CASE ReadsNothing /\ Lost /\ Lost'
    BY <1>1, <2>3 DEF ReadsNothing, NUL, SP
  <2>4. QED
    BY <1>2, <2>1, <2>2, <2>3
<1>5. QED
  BY <1>1, <1>3, <1>4, ReadingInv DEF Reading, network

LEMMA LineInv ==
  ASSUME IInv, Line
  PROVE  IInv'
<1>1. /\ pc = "line" /\ GetNextChar
      /\ UNCHANGED <<answer, wire, conn, chunked, content_length, resp, data>>
      /\ \/ ch = NUL /\ pc' = "close" /\ ret_code' = -7
         \/ ch = LF /\ pc' = "header" /\ ret_code' = ret_code
         \/ ch \notin {LF, NUL} /\ pc' = "line" /\ ret_code' = ret_code
  BY DEF Line, Until, Fail, GoTo, network
<1>2. /\ wire \in Seq(Text) /\ answer \in Answers
      /\ \/ ReadsWire /\ PlacedNow
         \/ ReadsStale /\ Lost /\ Lost'
         \/ ReadsNothing /\ Lost /\ Lost'
  BY <1>1, AtPlace DEF Reading, network
<1>3. /\ pc' \in {"line", "header", "close"} /\ chunked' \in BOOLEAN
      /\ content_length' \in (-MaxInt - 1)..MaxInt /\ ret_code' \in (-MaxInt - 1)..MaxInt
  BY <1>1, HttpAssumption DEF IInv, TypeOK
<1>4. /\ pc' # "close" => PlacedNow' \/ Stale'
      /\ pc' = "close" => ret_code' < 0 /\ Lost'
  <2>1. CASE ReadsWire /\ PlacedNow
    <3>1. ch = wire[taken - left + 1] /\ ch # NUL /\ taken' - left' = taken - left + 1
      BY <2>1 DEF ReadsWire, Text
    <3>2. Placed(wire, answer, "line", taken - left, chunked, content_length, ret_code, Len(resp))
      BY <1>1, <2>1 DEF PlacedNow
    <3>3. Placed(wire, answer, pc', taken - left + 1, chunked, content_length, ret_code, Len(resp))
      BY <1>1, <3>1, <3>2, FromLine
    <3>4. PlacedNow'
      BY <1>1, <3>1, <3>3 DEF PlacedNow
    <3>5. QED
      BY <1>1, <3>1, <3>4
  <2>2. CASE ReadsStale /\ Lost /\ Lost'
    BY <1>1, <2>2 DEF ReadsStale, Stale, buffer
  <2>3. CASE ReadsNothing /\ Lost /\ Lost'
    BY <1>1, <2>3 DEF ReadsNothing, NUL, LF
  <2>4. QED
    BY <1>2, <2>1, <2>2, <2>3
<1>5. QED
  BY <1>1, <1>3, <1>4, ReadingInv DEF Reading, network

LEMMA CodeInv ==
  ASSUME IInv, Code
  PROVE  IInv'
<1>1. /\ pc = "code" /\ GetNextChar
      /\ UNCHANGED <<answer, wire, conn, chunked, content_length, resp, data>>
      /\ \/ ch = NUL /\ pc' = "close" /\ ret_code' = -7
         \/ ch \in Decimals /\ pc' = "code" /\ ret_code' = Wrap(10 * ret_code + ch)
         \/ ch \notin Decimals \cup {NUL} /\ pc' = "line" /\ ret_code' = ret_code
  BY DEF Code, Fail, GoTo, network
<1>2. /\ wire \in Seq(Text) /\ answer \in Answers
      /\ \/ ReadsWire /\ PlacedNow
         \/ ReadsStale /\ Lost /\ Lost'
         \/ ReadsNothing /\ Lost /\ Lost'
  BY <1>1, AtPlace DEF Reading, network
<1>3. /\ pc' \in {"code", "line", "close"} /\ chunked' \in BOOLEAN
      /\ content_length' \in (-MaxInt - 1)..MaxInt /\ ret_code' \in (-MaxInt - 1)..MaxInt
  <2>1. ret_code \in (-MaxInt - 1)..MaxInt
    BY DEF IInv, TypeOK
  <2>2. ch \in Decimals => 10 * ret_code + ch \in Int
    BY <2>1, HttpAssumption DEF Decimals
  <2>3. ch \in Decimals => Wrap(10 * ret_code + ch) \in (-MaxInt - 1)..MaxInt
    BY <2>2, WrapRange
  <2>4. QED
    BY <1>1, <2>3, HttpAssumption DEF IInv, TypeOK
<1>4. /\ pc' # "close" => PlacedNow' \/ Stale'
      /\ pc' = "close" => ret_code' < 0 /\ Lost'
  <2>1. CASE ReadsWire /\ PlacedNow
    <3>1. ch = wire[taken - left + 1] /\ ch # NUL /\ taken' - left' = taken - left + 1
      BY <2>1 DEF ReadsWire, Text
    <3>2. Placed(wire, answer, "code", taken - left, chunked, content_length, ret_code, Len(resp))
      BY <1>1, <2>1 DEF PlacedNow
    <3>3. CASE ch \in Decimals
      <4>1. /\ 10 * ret_code + ch \in 0..MaxInt
            /\ Placed(wire, answer, "code", taken - left + 1, chunked, content_length,
                      10 * ret_code + ch, Len(resp))
        BY <1>2, <3>1, <3>2, <3>3, FromCode
      <4>2. pc' = "code" /\ ret_code' = 10 * ret_code + ch
        BY <1>1, <3>1, <3>3, <4>1, WrapSmall
      <4>3. PlacedNow'
        BY <1>1, <3>1, <4>1, <4>2 DEF PlacedNow
      <4>4. QED
        BY <4>2, <4>3
    <3>4. CASE ch \notin Decimals
      <4>1. pc' = "line" /\ ret_code' = ret_code
        BY <1>1, <3>1, <3>4
      <4>2. Placed(wire, answer, "line", taken - left + 1, chunked, content_length, ret_code, Len(resp))
        BY <1>2, <3>1, <3>2, <3>4, FromCode
      <4>3. PlacedNow'
        BY <1>1, <3>1, <4>1, <4>2 DEF PlacedNow
      <4>4. QED
        BY <4>1, <4>3
    <3>5. QED
      BY <3>3, <3>4
  <2>2. CASE ReadsStale /\ Lost /\ Lost'
    <3>1. first # NUL /\ ch = first
      BY <2>2 DEF ReadsStale, IInv, TypeOK
    <3>2. QED
      BY <1>1, <2>2, <3>1 DEF Stale, ReadsStale
  <2>3. CASE ReadsNothing /\ Lost /\ Lost'
    BY <1>1, <2>3 DEF ReadsNothing, NUL, Decimals
  <2>4. QED
    BY <1>2, <2>1, <2>2, <2>3
<1>5. QED
  BY <1>1, <1>3, <1>4, ReadingInv DEF Reading, network

LEMMA ContentLengthInv ==
  ASSUME IInv, ContentLength
  PROVE  IInv'
<1>1. /\ pc = "length" /\ GetNextChar
      /\ UNCHANGED <<answer, wire, conn, chunked, resp, data>>
      /\ content_length' =
           IF ch \in Decimals THEN Wrap(10 * content_length + ch) ELSE content_length
      /\ \/ ch = NUL /\ pc' = "close" /\ ret_code' = -7
         \/ ch \in Decimals /\ pc' = "length" /\ ret_code' = ret_code
         \/ ch \notin Decimals \cup {NUL} /\ pc' = "line" /\ ret_code' = ret_code
  BY DEF ContentLength, Fail, GoTo, network
<1>2. /\ wire \in Seq(Text) /\ answer \in Answers
      /\ \/ ReadsWire /\ PlacedNow
         \/ ReadsStale /\ Lost /\ Lost'
         \/ ReadsNothing /\ Lost /\ Lost'
  BY <1>1, AtPlace DEF Reading, network
<1>3. /\ pc' \in {"length", "line", "close"} /\ chunked' \in BOOLEAN
      /\ content_length' \in (-MaxInt - 1)..MaxInt /\ ret_code' \in (-MaxInt - 1)..MaxInt
  <2>1. content_length \in (-MaxInt - 1)..MaxInt
    BY DEF IInv, TypeOK
  <2>2. ch \in Decimals => 10 * content_length + ch \in Int
    BY <2>1, HttpAssumption DEF Decimals
  <2>3. ch \in Decimals => Wrap(10 * content_length + ch) \in (-MaxInt - 1)..MaxInt
    BY <2>2, WrapRange
  <2>4. QED
    BY <1>1, <2>1, <2>3, HttpAssumption DEF IInv, TypeOK
<1>4. /\ pc' # "close" => PlacedNow' \/ Stale'
      /\ pc' = "close" => ret_code' < 0 /\ Lost'
  <2>1. CASE ReadsWire /\ PlacedNow
    <3>1. ch = wire[taken - left + 1] /\ ch # NUL /\ taken' - left' = taken - left + 1
      BY <2>1 DEF ReadsWire, Text
    <3>2. Placed(wire, answer, "length", taken - left, chunked, content_length, ret_code, Len(resp))
      BY <1>1, <2>1 DEF PlacedNow
    <3>3. CASE ch \in Decimals
      <4>1. /\ 10 * content_length + ch \in 0..MaxInt
            /\ Placed(wire, answer, "length", taken - left + 1, chunked,
                      10 * content_length + ch, ret_code, Len(resp))
        BY <1>2, <3>1, <3>2, <3>3, FromLength
      <4>2. pc' = "length" /\ ret_code' = ret_code /\ content_length' = 10 * content_length + ch
        BY <1>1, <3>1, <3>3, <4>1, WrapSmall
      <4>3. PlacedNow'
        BY <1>1, <3>1, <4>1, <4>2 DEF PlacedNow
      <4>4. QED
        BY <4>2, <4>3
    <3>4. CASE ch \notin Decimals
      <4>1. pc' = "line" /\ ret_code' = ret_code /\ content_length' = content_length
        BY <1>1, <3>1, <3>4
      <4>2. Placed(wire, answer, "line", taken - left + 1, chunked, content_length, ret_code, Len(resp))
        BY <1>2, <3>1, <3>2, <3>4, FromLength
      <4>3. PlacedNow'
        BY <1>1, <3>1, <4>1, <4>2 DEF PlacedNow
      <4>4. QED
        BY <4>1, <4>3
    <3>5. QED
      BY <3>3, <3>4
  <2>2. CASE ReadsStale /\ Lost /\ Lost'
    <3>1. first # NUL /\ ch = first
      BY <2>2 DEF ReadsStale, IInv, TypeOK
    <3>2. QED
      BY <1>1, <2>2, <3>1 DEF Stale, ReadsStale
  <2>3. CASE ReadsNothing /\ Lost /\ Lost'
    BY <1>1, <2>3 DEF ReadsNothing, NUL, Decimals
  <2>4. QED
    BY <1>2, <2>1, <2>2, <2>3
<1>5. QED
  BY <1>1, <1>3, <1>4, ReadingInv DEF Reading, network

LEMMA ChunkSizeInv ==
  ASSUME IInv, ChunkSize
  PROVE  IInv'
<1>1. /\ pc = "size" /\ GetNextChar
      /\ UNCHANGED <<answer, wire, conn, chunked, resp, data>>
      /\ content_length' =
           IF ch \in 0..15 THEN Wrap(16 * content_length + ch) ELSE content_length
      /\ \/ ch = NUL /\ pc' = "close" /\ ret_code' = -7
         \/ ch \in 0..15 /\ pc' = "size" /\ ret_code' = ret_code
         \/ ch = CR /\ pc' = "sizeEnd" /\ ret_code' = ret_code
         \/ ch \notin (0..15) \cup {CR, NUL} /\ pc' = "close" /\ ret_code' = -8
  BY DEF ChunkSize, Fail, GoTo, network
<1>2. /\ wire \in Seq(Text) /\ answer \in Answers
      /\ \/ ReadsWire /\ PlacedNow
         \/ ReadsStale /\ Lost /\ Lost'
         \/ ReadsNothing /\ Lost /\ Lost'
  BY <1>1, AtPlace DEF Reading, network
<1>3. /\ pc' \in {"size", "sizeEnd", "close"} /\ chunked' \in BOOLEAN
      /\ content_length' \in (-MaxInt - 1)..MaxInt /\ ret_code' \in (-MaxInt - 1)..MaxInt
  <2>1. content_length \in (-MaxInt - 1)..MaxInt
    BY DEF IInv, TypeOK
  <2>2. ch \in 0..15 => 16 * content_length + ch \in Int
    BY <2>1, HttpAssumption
  <2>3. ch \in 0..15 => Wrap(16 * content_length + ch) \in (-MaxInt - 1)..MaxInt
    BY <2>2, WrapRange, Zenon
  <2>4. content_length' \in (-MaxInt - 1)..MaxInt
    <3>1. content_length' = IF ch \in 0..15 THEN Wrap(16 * content_length + ch) ELSE content_length
      BY <1>1, Zenon
    <3>2. QED
      BY <2>1, <2>3, <3>1, Zenon
  <2>5. ret_code' \in {ret_code, -7, -8} /\ pc' \in {"size", "sizeEnd", "close"}
    BY <1>1
  <2>6. ret_code' \in (-MaxInt - 1)..MaxInt
    <3>1. ret_code \in (-MaxInt - 1)..MaxInt
      BY DEF IInv, TypeOK
    <3>2. MaxInt \in Nat /\ MaxInt >= 599
      BY HttpAssumption
    <3>3. QED
      BY <2>5, <3>1, <3>2
  <2>7. chunked' \in BOOLEAN
    BY <1>1 DEF IInv, TypeOK
  <2>8. QED
    BY <2>4, <2>5, <2>6, <2>7
<1>4. /\ pc' # "close" => PlacedNow' \/ Stale'
      /\ pc' = "close" => ret_code' < 0 /\ Lost'
  <2>1. CASE ReadsWire /\ PlacedNow
    <3>1. ch = wire[taken - left + 1] /\ ch # NUL /\ taken' - left' = taken - left + 1
      BY <2>1 DEF ReadsWire, Text
    <3>2. Placed(wire, answer, "size", taken - left, chunked, content_length, ret_code, Len(resp))
      BY <1>1, <2>1 DEF PlacedNow
    <3>3. CASE ch \in 0..15
      <4>1. /\ 16 * content_length + ch \in 0..MaxInt
            /\ Placed(wire, answer, "size", taken - left + 1, chunked,
                      16 * content_length + ch, ret_code, Len(resp))
        BY <1>2, <3>1, <3>2, <3>3, FromSize
      <4>2. PICK x \in 0..MaxInt : x = 16 * content_length + ch
        BY <4>1
      <4>3. content_length' = 16 * content_length + ch
        BY <1>1, <3>3, <4>2, WrapSmall
      <4>4. ch # CR /\ ch # NUL
        BY <3>3 DEF CR, NUL
      <4>5. pc' = "size" /\ ret_code' = ret_code
        BY <1>1, <3>3, <4>4
      <4>6. PlacedNow'
        BY <1>1, <3>1, <4>1, <4>3, <4>5 DEF PlacedNow
      <4>7. QED
        BY <4>5, <4>6
    <3>4. CASE ch \notin 0..15
      <4>1. /\ ch = CR
            /\ Placed(wire, answer, "sizeEnd", taken - left + 1, chunked, content_length, ret_code, Len(resp))
        BY <1>2, <3>1, <3>2, <3>4, FromSize
      <4>2. pc' = "sizeEnd" /\ ret_code' = ret_code /\ content_length' = content_length
        BY <1>1, <3>1, <3>4, <4>1
      <4>3. PlacedNow'
        BY <1>1, <3>1, <4>1, <4>2 DEF PlacedNow
      <4>4. QED
        BY <4>2, <4>3
    <3>5. QED
      BY <3>3, <3>4
  <2>2. CASE ReadsStale /\ Lost /\ Lost'
    <3>1. ch = first /\ first' = first /\ conn' = "closed" /\ CR \notin 0..15
      BY <1>1, <2>2 DEF ReadsStale, buffer, CR
    <3>2. pc' # "close" => Stale'
      BY <1>1, <2>2, <3>1 DEF Stale
    <3>3. QED
      BY <1>1, <2>2, <3>2
  <2>3. CASE ReadsNothing /\ Lost /\ Lost'
    BY <1>1, <2>3 DEF ReadsNothing, NUL, CR
  <2>4. QED
    BY <1>2, <2>1, <2>2, <2>3
<1>5. QED
  BY <1>1, <1>3, <1>4, ReadingInv DEF Reading, network

LEMMA HeaderInv ==
  ASSUME IInv, Header
  PROVE  IInv'
<1>1. /\ pc = "header" /\ GetNextChar
      /\ UNCHANGED <<answer, wire, conn, content_length, resp, data>>
      /\ chunked' = (chunked \/ ch = CHUNKED)
      /\ \/ ch = NUL /\ pc' = "close" /\ ret_code' = -10
         \/ ch = CONTENT_LENGTH /\ pc' = "length" /\ ret_code' = ret_code
         \/ ch = CR /\ pc' = "headersEnd" /\ ret_code' = ret_code
         \/ ch \notin {NUL, CONTENT_LENGTH, CR} /\ pc' = "line" /\ ret_code' = ret_code
  BY DEF Header, Fail, GoTo, network
<1>2. /\ wire \in Seq(Text) /\ answer \in Answers
      /\ \/ ReadsWire /\ PlacedNow
         \/ ReadsStale /\ Lost /\ Lost'
         \/ ReadsNothing /\ Lost /\ Lost'
  BY <1>1, AtPlace DEF Reading, network
<1>3. /\ pc' \in {"length", "headersEnd", "line", "close"} /\ chunked' \in BOOLEAN
      /\ content_length' \in (-MaxInt - 1)..MaxInt /\ ret_code' \in (-MaxInt - 1)..MaxInt
  BY <1>1, HttpAssumption DEF IInv, TypeOK
<1>4. /\ pc' # "close" => PlacedNow' \/ Stale'
      /\ pc' = "close" => ret_code' < 0 /\ Lost'
  <2>1. CASE ReadsWire /\ PlacedNow
    <3>1. ch = wire[taken - left + 1] /\ ch # NUL /\ taken' - left' = taken - left + 1
      BY <2>1 DEF ReadsWire, Text
    <3>2. Placed(wire, answer, "header", taken - left, chunked, content_length, ret_code, Len(resp))
      BY <1>1, <2>1 DEF PlacedNow
    <3>3. chunked \in BOOLEAN /\ CHUNKED \notin {NUL, CONTENT_LENGTH, CR}
      BY DEF IInv, TypeOK, CHUNKED, NUL, CONTENT_LENGTH, CR
    <3>4. CASE ch = CHUNKED
      <4>1. pc' = "line" /\ ret_code' = ret_code /\ chunked' = TRUE
        BY <1>1, <3>3, <3>4
      <4>2. Placed(wire, answer, "line", taken - left + 1, TRUE, content_length, ret_code, Len(resp))
        BY <1>2, <3>1, <3>2, <3>4, FromHeader
      <4>3. PlacedNow'
        BY <1>1, <3>1, <4>1, <4>2 DEF PlacedNow
      <4>4. QED
        BY <4>1, <4>3
    <3>5. CASE ch # CHUNKED
      <4>1. chunked' = chunked /\ ret_code' = ret_code /\ pc' # "close"
        BY <1>1, <3>1, <3>3, <3>5
      <4>2. Placed(wire, answer, pc', taken - left + 1, chunked, content_length, ret_code, Len(resp))
        BY <1>1, <1>2, <3>1, <3>2, <3>5, FromHeader
      <4>3. PlacedNow'
        BY <1>1, <3>1, <4>1, <4>2 DEF PlacedNow
      <4>4. QED
        BY <4>1, <4>3
    <3>6. QED
      BY <3>4, <3>5
  <2>2. CASE ReadsStale /\ Lost /\ Lost'
    <3>1. ch = first /\ first' = first /\ conn' = "closed" /\ first \notin {NUL, CONTENT_LENGTH, CHUNKED}
      BY <1>1, <2>2 DEF ReadsStale, buffer, IInv, TypeOK, ReadInv
    <3>2. pc' # "close" => Stale'
      BY <1>1, <2>2, <3>1 DEF Stale
    <3>3. QED
      BY <1>1, <2>2, <3>1, <3>2
  <2>3. CASE ReadsNothing /\ Lost /\ Lost'
    BY <1>1, <2>3 DEF ReadsNothing, NUL, CR, CONTENT_LENGTH
  <2>4. QED
    BY <1>2, <2>1, <2>2, <2>3
<1>5. QED
  BY <1>1, <1>3, <1>4, ReadingInv DEF Reading, network

\* A text that lies at the start of another is a prefix of it.
LEMMA LiesPrefix ==
  ASSUME NEW S, NEW b \in Seq(S), NEW s \in Seq(S), Lies(b, 0, s)
  PROVE  /\ Len(s) <= Len(b) /\ IsPrefix(s, b)
         /\ Len(s) = Len(b) => s = b
<1>1. PICK m, n \in Nat : m = Len(s) /\ n = Len(b)
  BY LenProperties
<1>2. m <= n /\ \A i \in 1..m : b[i] = s[i]
  <2>1. 0 + m <= n /\ \A i \in 1..m : b[0 + i] = s[i]
    BY <1>1 DEF Lies
  <2>2. \A i \in 1..m : 0 + i = i
    OBVIOUS
  <2>3. QED
    BY <2>1, <2>2
<1>3. IsPrefix(s, b)
  BY <1>1, <1>2, LenProperties DEF IsPrefix
<1>4. ASSUME Len(s) = Len(b)
      PROVE  s = b
  BY <1>1, <1>2, <1>4, SeqEqual
<1>5. QED
  BY <1>1, <1>2, <1>3, <1>4

LEMMA BodyChars ==
  ASSUME NEW a \in Answers
  PROVE  Body(a) \in Seq(Chars)
<1>1. PICK b : b = Body(a)
  OBVIOUS
<1>2. b \in Seq(Text) /\ Text \subseteq Chars
  BY <1>1, BodyType DEF Text
<1>3. b \in Seq(Chars)
  BY <1>2
<1>4. QED
  BY <1>1, <1>3

\* The body is complete when as much has been read as the database sent.
LEMMA AllRead ==
  ASSUME TypeOK, ReadInv, Len(resp) = Len(Body(answer))
  PROVE  resp = Body(answer)
<1>1. answer \in Answers /\ resp \in Seq(Chars) /\ Lies(Body(answer), 0, resp)
  BY DEF TypeOK, ReadInv
<1>2. QED
  BY <1>1, BodyChars, LiesPrefix

LEMMA HeadersEndInv ==
  ASSUME IInv, HeadersEnd
  PROVE  IInv'
<1>1. /\ pc = "headersEnd" /\ GetNextChar
      /\ UNCHANGED <<answer, wire, conn, chunked, content_length, resp, data>>
      /\ \/ ch = LF /\ pc' = (IF chunked THEN "size" ELSE "body") /\ ret_code' = ret_code
         \/ ch # LF /\ pc' = "close" /\ ret_code' = -9
  BY DEF HeadersEnd, Expect, Fail, GoTo, network
<1>2. /\ wire \in Seq(Text) /\ answer \in Answers
      /\ \/ ReadsWire /\ PlacedNow
         \/ ReadsStale /\ Lost /\ Lost'
         \/ ReadsNothing /\ Lost /\ Lost'
  BY <1>1, AtPlace DEF Reading, network
<1>3. /\ pc' \in {"size", "body", "close"} /\ chunked' \in BOOLEAN
      /\ content_length' \in (-MaxInt - 1)..MaxInt /\ ret_code' \in (-MaxInt - 1)..MaxInt
  BY <1>1, HttpAssumption DEF IInv, TypeOK
<1>4. /\ pc' # "close" => PlacedNow' \/ Stale'
      /\ pc' = "close" => ret_code' < 0 /\ Lost'
  <2>1. CASE ReadsWire /\ PlacedNow
    <3>1. ch = wire[taken - left + 1] /\ ch # NUL /\ taken' - left' = taken - left + 1
      BY <2>1 DEF ReadsWire, Text
    <3>2. Placed(wire, answer, "headersEnd", taken - left, chunked, content_length, ret_code, Len(resp))
      BY <1>1, <2>1 DEF PlacedNow
    <3>3. /\ ch = LF
          /\ chunked => Placed(wire, answer, "size", taken - left + 1, TRUE, content_length, ret_code, Len(resp))
          /\ ~chunked => Placed(wire, answer, "body", taken - left + 1, FALSE, content_length, ret_code, Len(resp))
      BY <1>2, <3>1, <3>2, FromHeadersEnd
    <3>4. chunked \in BOOLEAN
      BY DEF IInv, TypeOK
    <3>5. CASE chunked
      <4>1. chunked' = TRUE /\ pc' = "size"
        BY <1>1, <3>3, <3>4, <3>5
      <4>2. PlacedNow'
        BY <1>1, <3>1, <3>3, <3>5, <4>1 DEF PlacedNow
      <4>3. QED
        BY <4>1, <4>2
    <3>6. CASE ~chunked
      <4>1. chunked' = FALSE /\ pc' = "body"
        BY <1>1, <3>3, <3>4, <3>6
      <4>2. PlacedNow'
        BY <1>1, <3>1, <3>3, <3>6, <4>1 DEF PlacedNow
      <4>3. QED
        BY <4>1, <4>2
    <3>7. QED
      BY <3>5, <3>6
  <2>2. CASE ReadsStale /\ Lost /\ Lost'
    <3>1. ch = first /\ left = 0 /\ left' = left /\ taken' = taken /\ first' = first /\ conn' = "closed"
      BY <1>1, <2>2 DEF ReadsStale, buffer
    <3>2. PlacedNow \/ Stale
      BY <1>1, <2>2 DEF ReadsStale, IInv, PlaceInv, Reading
    <3>3. CASE Stale
      <4>1. ch # LF
        BY <1>1, <3>1, <3>3 DEF Stale, CR, LF
      <4>2. QED
        BY <1>1, <2>2, <4>1
    <3>4. CASE PlacedNow /\ ch = LF
      <4>1. Placed(wire, answer, "headersEnd", taken - left, chunked, content_length, ret_code, Len(resp))
        BY <1>1, <3>4 DEF PlacedNow
      <4>2. /\ ret_code = answer.status /\ Len(resp) = 0
            /\ ~chunked => content_length = Size(answer)
            /\ ~chunked /\ content_length = 0 => taken - left + 1 = Len(wire)
        <5>1. ret_code = answer.status /\ Len(resp) = 0
          BY <1>2, <4>1, FromHeadersEnd
        <5>2. ASSUME ~chunked
              PROVE  /\ content_length = Size(answer)
                     /\ content_length = 0 => taken - left + 1 = Len(wire)
          <6>1. chunked = FALSE
            BY <5>2 DEF IInv, TypeOK
          <6>2. Placed(wire, answer, "headersEnd", taken - left, FALSE, content_length, ret_code, Len(resp))
            BY <4>1, <6>1
          <6>3. QED
            BY <1>2, <6>2, FromPlainEnd
        <5>3. QED
          BY <5>1, <5>2
      <4>3. resp = <<>>
        BY <4>2, EmptySeq DEF IInv, TypeOK
      <4>4. content_length = 0 /\ ~chunked => taken' = Len(wire') - 1
        <5>1. taken \in Nat
          BY <1>2, LenProperties DEF IInv, TypeOK
        <5>2. QED
          BY <1>1, <3>1, <4>2, <5>1
      <4>5. LF # CR
        BY DEF LF, CR
      <4>6. Stale'
        <5>1. pc' \in {"size", "body"} /\ (pc' = "body" => ~chunked) /\ first' = LF
          BY <1>1, <3>1, <3>4
        <5>2. content_length' = content_length /\ chunked' = chunked /\ ret_code' = answer'.status
              /\ resp' = <<>> /\ answer' = answer
          BY <1>1, <3>4, <4>2, <4>3, <4>5
        <5>3. pc' = "body" => content_length' = Size(answer')
          BY <4>2, <5>1, <5>2
        <5>4. pc' = "body" => (content_length' = 0 => taken' = Len(wire') - 1)
          BY <4>4, <5>1, <5>2
        <5>5. QED
          BY <2>2, <3>1, <4>5, <5>1, <5>2, <5>3, <5>4 DEF Stale
      <4>7. QED
        BY <1>1, <3>4, <4>6
    <3>5. CASE ch # LF
      BY <1>1, <2>2, <3>5
    <3>6. QED
      BY <3>2, <3>3, <3>4, <3>5
  <2>3. CASE ReadsNothing /\ Lost /\ Lost'
    BY <1>1, <2>3 DEF ReadsNothing, NUL, LF
  <2>4. QED
    BY <1>2, <2>1, <2>2, <2>3
<1>5. QED
  BY <1>1, <1>3, <1>4, ReadingInv DEF Reading, network

LEMMA ChunkSizeEndInv ==
  ASSUME IInv, ChunkSizeEnd
  PROVE  IInv'
<1>1. /\ pc = "sizeEnd" /\ GetNextChar
      /\ UNCHANGED <<answer, wire, conn, chunked, content_length, resp, data>>
      /\ \/ ch = LF /\ pc' = (IF content_length = 0 THEN "lastCR" ELSE "body") /\ ret_code' = ret_code
         \/ ch # LF /\ pc' = "close" /\ ret_code' = -9
  BY DEF ChunkSizeEnd, Expect, Fail, GoTo, network
<1>2. /\ wire \in Seq(Text) /\ answer \in Answers
      /\ \/ ReadsWire /\ PlacedNow
         \/ ReadsStale /\ Lost /\ Lost'
         \/ ReadsNothing /\ Lost /\ Lost'
  BY <1>1, AtPlace DEF Reading, network
<1>3. /\ pc' \in {"lastCR", "body", "close"} /\ chunked' \in BOOLEAN
      /\ content_length' \in (-MaxInt - 1)..MaxInt /\ ret_code' \in (-MaxInt - 1)..MaxInt
  BY <1>1, HttpAssumption DEF IInv, TypeOK
<1>4. /\ pc' # "close" => PlacedNow' \/ Stale'
      /\ pc' = "close" => ret_code' < 0 /\ Lost'
  <2>1. CASE ReadsWire /\ PlacedNow
    <3>1. ch = wire[taken - left + 1] /\ ch # NUL /\ taken' - left' = taken - left + 1
      BY <2>1 DEF ReadsWire, Text
    <3>2. Placed(wire, answer, "sizeEnd", taken - left, chunked, content_length, ret_code, Len(resp))
      BY <1>1, <2>1 DEF PlacedNow
    <3>3. /\ ch = LF
          /\ Placed(wire, answer, (IF content_length = 0 THEN "lastCR" ELSE "body"), taken - left + 1, chunked, content_length, ret_code, Len(resp))
      BY <1>2, <3>1, <3>2, FromSizeEnd
    <3>4. PlacedNow'
      BY <1>1, <3>1, <3>3 DEF PlacedNow
    <3>5. QED
      BY <1>1, <3>3, <3>4
  <2>2. CASE ReadsStale /\ Lost /\ Lost'
    <3>1. ch = first /\ left = 0 /\ left' = left /\ taken' = taken /\ first' = first /\ conn' = "closed"
      BY <1>1, <2>2 DEF ReadsStale, buffer
    <3>2. PlacedNow \/ Stale
      BY <1>1, <2>2 DEF ReadsStale, IInv, PlaceInv, Reading
    <3>3. CASE Stale
      <4>1. ch # LF
        BY <1>1, <3>1, <3>3 DEF Stale, CR, LF
      <4>2. QED
        BY <1>1, <2>2, <4>1
    <3>4. CASE PlacedNow /\ ch = LF
      <4>1. Placed(wire, answer, "sizeEnd", taken - left, chunked, content_length, ret_code, Len(resp))
        BY <1>1, <3>4 DEF PlacedNow
      <4>2. chunked /\ content_length \in Nat
        BY <1>2, <4>1, FromSizeEnd
      <4>3. pc' = "body" => content_length > 0
        BY <1>1, <3>4, <4>2
      <4>4. Stale'
        BY <1>1, <2>2, <3>1, <3>4, <4>2, <4>3 DEF Stale
      <4>5. QED
        BY <1>1, <3>4, <4>4
    <3>5. CASE ch # LF
      BY <1>1, <2>2, <3>5
    <3>6. QED
      BY <3>2, <3>3, <3>4, <3>5
  <2>3. CASE ReadsNothing /\ Lost /\ Lost'
    BY <1>1, <2>3 DEF ReadsNothing, NUL, LF
  <2>4. QED
    BY <1>2, <2>1, <2>2, <2>3
<1>5. QED
  BY <1>1, <1>3, <1>4, ReadingInv DEF Reading, network

LEMMA LastCRInv ==
  ASSUME IInv, LastCR
  PROVE  IInv'
<1>1. /\ pc = "lastCR" /\ GetNextChar
      /\ UNCHANGED <<answer, wire, conn, chunked, content_length, resp, data>>
      /\ \/ ch = CR /\ pc' = "lastLF" /\ ret_code' = ret_code
         \/ ch # CR /\ pc' = "close" /\ ret_code' = -9
  BY DEF LastCR, Expect, Fail, GoTo, network
<1>2. /\ wire \in Seq(Text) /\ answer \in Answers
      /\ \/ ReadsWire /\ PlacedNow
         \/ ReadsStale /\ Lost /\ Lost'
         \/ ReadsNothing /\ Lost /\ Lost'
  BY <1>1, AtPlace DEF Reading, network
<1>3. /\ pc' \in {"lastLF", "close"} /\ chunked' \in BOOLEAN
      /\ content_length' \in (-MaxInt - 1)..MaxInt /\ ret_code' \in (-MaxInt - 1)..MaxInt
  BY <1>1, HttpAssumption DEF IInv, TypeOK
<1>4. /\ pc' # "close" => PlacedNow' \/ Stale'
      /\ pc' = "close" => ret_code' < 0 /\ Lost'
  <2>1. CASE ReadsWire /\ PlacedNow
    <3>1. ch = wire[taken - left + 1] /\ ch # NUL /\ taken' - left' = taken - left + 1
      BY <2>1 DEF ReadsWire, Text
    <3>2. Placed(wire, answer, "lastCR", taken - left, chunked, content_length, ret_code, Len(resp))
      BY <1>1, <2>1 DEF PlacedNow
    <3>3. /\ ch = CR
          /\ Placed(wire, answer, "lastLF", taken - left + 1, chunked, content_length, ret_code, Len(resp))
      BY <1>2, <3>1, <3>2, FromLastCR
    <3>4. PlacedNow'
      BY <1>1, <3>1, <3>3 DEF PlacedNow
    <3>5. QED
      BY <1>1, <3>3, <3>4
  <2>2. CASE ReadsStale /\ Lost /\ Lost'
    <3>1. ch = first /\ left = 0 /\ left' = left /\ taken' = taken /\ first' = first /\ conn' = "closed"
      BY <1>1, <2>2 DEF ReadsStale, buffer
    <3>2. PlacedNow \/ Stale
      BY <1>1, <2>2 DEF ReadsStale, IInv, PlaceInv, Reading
    <3>3. CASE Stale
      <4>1. ch # CR
        BY <1>1, <3>1, <3>3 DEF Stale, CR, LF
      <4>2. QED
        BY <1>1, <2>2, <4>1
    <3>4. CASE PlacedNow /\ ch = CR
      <4>1. Stale'
        BY <1>1, <2>2, <3>1, <3>4 DEF Stale
      <4>2. QED
        BY <1>1, <3>4, <4>1
    <3>5. CASE ch # CR
      BY <1>1, <2>2, <3>5
    <3>6. QED
      BY <3>2, <3>3, <3>4, <3>5
  <2>3. CASE ReadsNothing /\ Lost /\ Lost'
    BY <1>1, <2>3 DEF ReadsNothing, NUL, CR
  <2>4. QED
    BY <1>2, <2>1, <2>2, <2>3
<1>5. QED
  BY <1>1, <1>3, <1>4, ReadingInv DEF Reading, network

LEMMA LastLFInv ==
  ASSUME IInv, LastLF
  PROVE  IInv'
<1>1. /\ pc = "lastLF" /\ GetNextChar
      /\ UNCHANGED <<answer, wire, conn, chunked, content_length, resp, data>>
      /\ \/ ch = LF /\ pc' = "close" /\ ret_code' = ret_code
         \/ ch # LF /\ pc' = "close" /\ ret_code' = -9
  BY DEF LastLF, Expect, Fail, GoTo, network
<1>2. /\ wire \in Seq(Text) /\ answer \in Answers
      /\ \/ ReadsWire /\ PlacedNow
         \/ ReadsStale /\ Lost /\ Lost'
         \/ ReadsNothing /\ Lost /\ Lost'
  BY <1>1, AtPlace DEF Reading, network
<1>3. /\ pc' = "close" /\ chunked' \in BOOLEAN
      /\ content_length' \in (-MaxInt - 1)..MaxInt /\ ret_code' \in (-MaxInt - 1)..MaxInt
  BY <1>1, HttpAssumption DEF IInv, TypeOK
<1>4. /\ pc' # "close" => PlacedNow' \/ Stale'
      /\ pc' = "close" =>
           \/ ret_code' < 0 /\ Lost'
           \/ ret_code' = answer.status /\ Complete'
  <2>1. CASE ReadsWire /\ PlacedNow
    <3>1. ch = wire[taken - left + 1] /\ ch # NUL /\ taken' - left' = taken - left + 1
      BY <2>1 DEF ReadsWire, Text
    <3>2. Placed(wire, answer, "lastLF", taken - left, chunked, content_length, ret_code, Len(resp))
      BY <1>1, <2>1 DEF PlacedNow
    <3>3. /\ ch = LF /\ taken - left + 1 = Len(wire)
          /\ ret_code = answer.status /\ Len(resp) = Len(Body(answer))
      BY <1>2, <3>1, <3>2, FromLastLF
    <3>4. resp = Body(answer)
      BY <1>2, <3>3, AllRead DEF IInv
    <3>5. Complete'
      BY <1>1, <3>1, <3>3, <3>4 DEF Complete
    <3>6. QED
      BY <1>1, <3>3, <3>5
  <2>2. CASE ReadsStale /\ Lost /\ Lost'
    <3>1. ch = first /\ left = 0 /\ left' = left /\ taken' = taken /\ first' = first /\ conn' = "closed"
      BY <1>1, <2>2 DEF ReadsStale, buffer
    <3>2. PlacedNow \/ Stale
      BY <1>1, <2>2 DEF ReadsStale, IInv, PlaceInv, Reading
    <3>3. CASE Stale
      <4>1. ch # LF
        BY <1>1, <3>1, <3>3 DEF Stale, CR, LF
      <4>2. QED
        BY <1>1, <2>2, <4>1
    <3>4. CASE PlacedNow /\ ch = LF
      <4>1. Placed(wire, answer, "lastLF", taken - left, chunked, content_length, ret_code, Len(resp))
        BY <1>1, <3>4 DEF PlacedNow
      <4>2. taken - left + 1 = Len(wire) /\ ret_code = answer.status /\ Len(resp) = Len(Body(answer))
        BY <1>2, <4>1, FromLastLF
      <4>3. resp = Body(answer)
        BY <1>2, <4>2, AllRead DEF IInv
      <4>4. taken' = Len(wire') - 1
        <5>1. taken \in Nat
          BY <1>2, LenProperties DEF IInv, TypeOK
        <5>2. QED
          BY <1>1, <3>1, <4>2, <5>1
      <4>5. Complete'
        BY <1>1, <2>2, <3>1, <4>3, <4>4 DEF Complete
      <4>6. QED
        BY <1>1, <3>4, <4>2, <4>5
    <3>5. CASE ch # LF
      BY <1>1, <2>2, <3>5
    <3>6. QED
      BY <3>2, <3>3, <3>4, <3>5
  <2>3. CASE ReadsNothing /\ Lost /\ Lost'
    BY <1>1, <2>3 DEF ReadsNothing, NUL, LF
  <2>4. QED
    BY <1>2, <2>1, <2>2, <2>3
<1>5. QED
  BY <1>1, <1>3, <1>4, ReadingInv DEF Reading, network

LEMMA BodyCRInv ==
  ASSUME IInv, BodyCR
  PROVE  IInv'
<1>1. /\ pc = "bodyCR" /\ GetNextChar
      /\ UNCHANGED <<answer, wire, conn, chunked, content_length, resp, data>>
      /\ \/ ch = CR /\ pc' = "bodyLF" /\ ret_code' = ret_code
         \/ ch # CR /\ pc' = "close" /\ ret_code' = -9
  BY DEF BodyCR, Expect, Fail, GoTo, network
<1>2. /\ wire \in Seq(Text) /\ answer \in Answers
      /\ \/ ReadsWire /\ PlacedNow
         \/ ReadsStale /\ Lost /\ Lost'
         \/ ReadsNothing /\ Lost /\ Lost'
  BY <1>1, AtPlace DEF Reading, network
<1>3. /\ pc' \in {"bodyLF", "close"} /\ chunked' \in BOOLEAN
      /\ content_length' \in (-MaxInt - 1)..MaxInt /\ ret_code' \in (-MaxInt - 1)..MaxInt
  BY <1>1, HttpAssumption DEF IInv, TypeOK
<1>4. /\ pc' # "close" => PlacedNow' \/ Stale'
      /\ pc' = "close" => ret_code' < 0 /\ Lost'
  <2>1. CASE ReadsWire /\ PlacedNow
    <3>1. ch = wire[taken - left + 1] /\ ch # NUL /\ taken' - left' = taken - left + 1
      BY <2>1 DEF ReadsWire, Text
    <3>2. Placed(wire, answer, "bodyCR", taken - left, chunked, content_length, ret_code, Len(resp))
      BY <1>1, <2>1 DEF PlacedNow
    <3>3. /\ ch = CR
          /\ Placed(wire, answer, "bodyLF", taken - left + 1, chunked, content_length, ret_code, Len(resp))
      BY <1>2, <3>1, <3>2, FromBodyCR
    <3>4. PlacedNow'
      BY <1>1, <3>1, <3>3 DEF PlacedNow
    <3>5. QED
      BY <1>1, <3>3, <3>4
  <2>2. CASE ReadsStale /\ Lost /\ Lost'
    <3>1. ch = first /\ left = 0 /\ left' = left /\ taken' = taken /\ first' = first /\ conn' = "closed"
      BY <1>1, <2>2 DEF ReadsStale, buffer
    <3>2. PlacedNow \/ Stale
      BY <1>1, <2>2 DEF ReadsStale, IInv, PlaceInv, Reading
    <3>3. CASE Stale
      <4>1. ch # CR
        BY <1>1, <3>1, <3>3 DEF Stale, CR, LF
      <4>2. QED
        BY <1>1, <2>2, <4>1
    <3>4. CASE PlacedNow /\ ch = CR
      <4>1. Stale'
        BY <1>1, <2>2, <3>1, <3>4 DEF Stale
      <4>2. QED
        BY <1>1, <3>4, <4>1
    <3>5. CASE ch # CR
      BY <1>1, <2>2, <3>5
    <3>6. QED
      BY <3>2, <3>3, <3>4, <3>5
  <2>3. CASE ReadsNothing /\ Lost /\ Lost'
    BY <1>1, <2>3 DEF ReadsNothing, NUL, CR
  <2>4. QED
    BY <1>2, <2>1, <2>2, <2>3
<1>5. QED
  BY <1>1, <1>3, <1>4, ReadingInv DEF Reading, network

LEMMA BodyLFInv ==
  ASSUME IInv, BodyLF
  PROVE  IInv'
<1>1. /\ pc = "bodyLF" /\ GetNextChar
      /\ UNCHANGED <<answer, wire, conn, chunked, content_length, resp, data>>
      /\ \/ ch = LF /\ pc' = "size" /\ ret_code' = ret_code
         \/ ch # LF /\ pc' = "close" /\ ret_code' = -9
  BY DEF BodyLF, Expect, Fail, GoTo, network
<1>2. /\ wire \in Seq(Text) /\ answer \in Answers
      /\ \/ ReadsWire /\ PlacedNow
         \/ ReadsStale /\ Lost /\ Lost'
         \/ ReadsNothing /\ Lost /\ Lost'
  BY <1>1, AtPlace DEF Reading, network
<1>3. /\ pc' \in {"size", "close"} /\ chunked' \in BOOLEAN
      /\ content_length' \in (-MaxInt - 1)..MaxInt /\ ret_code' \in (-MaxInt - 1)..MaxInt
  BY <1>1, HttpAssumption DEF IInv, TypeOK
<1>4. /\ pc' # "close" => PlacedNow' \/ Stale'
      /\ pc' = "close" => ret_code' < 0 /\ Lost'
  <2>1. CASE ReadsWire /\ PlacedNow
    <3>1. ch = wire[taken - left + 1] /\ ch # NUL /\ taken' - left' = taken - left + 1
      BY <2>1 DEF ReadsWire, Text
    <3>2. Placed(wire, answer, "bodyLF", taken - left, chunked, content_length, ret_code, Len(resp))
      BY <1>1, <2>1 DEF PlacedNow
    <3>3. /\ ch = LF
          /\ Placed(wire, answer, "size", taken - left + 1, chunked, content_length, ret_code, Len(resp))
      BY <1>2, <3>1, <3>2, FromBodyLF
    <3>4. PlacedNow'
      BY <1>1, <3>1, <3>3 DEF PlacedNow
    <3>5. QED
      BY <1>1, <3>3, <3>4
  <2>2. CASE ReadsStale /\ Lost /\ Lost'
    <3>1. ch = first /\ left = 0 /\ left' = left /\ taken' = taken /\ first' = first /\ conn' = "closed"
      BY <1>1, <2>2 DEF ReadsStale, buffer
    <3>2. PlacedNow \/ Stale
      BY <1>1, <2>2 DEF ReadsStale, IInv, PlaceInv, Reading
    <3>3. CASE Stale
      <4>1. ch # LF
        BY <1>1, <3>1, <3>3 DEF Stale, CR, LF
      <4>2. QED
        BY <1>1, <2>2, <4>1
    <3>4. CASE PlacedNow /\ ch = LF
      <4>1. LF # CR
        BY DEF LF, CR
      <4>2. Stale'
        BY <1>1, <2>2, <3>1, <3>4, <4>1 DEF Stale
      <4>3. QED
        BY <1>1, <3>4, <4>2
    <3>5. CASE ch # LF
      BY <1>1, <2>2, <3>5
    <3>6. QED
      BY <3>2, <3>3, <3>4, <3>5
  <2>3. CASE ReadsNothing /\ Lost /\ Lost'
    BY <1>1, <2>3 DEF ReadsNothing, NUL, LF
  <2>4. QED
    BY <1>2, <2>1, <2>2, <2>3
<1>5. QED
  BY <1>1, <1>3, <1>4, ReadingInv DEF Reading, network

\* What SubSeq copies out of the answer.
LEMMA PartOf ==
  ASSUME NEW w \in Seq(Text), NEW pos \in Nat, NEW n \in Nat, pos + n <= Len(w)
  PROVE  /\ SubSeq(w, pos + 1, pos + n) \in Seq(Chars) /\ Len(SubSeq(w, pos + 1, pos + n)) = n
         /\ \A i \in 1..n : SubSeq(w, pos + 1, pos + n)[i] = w[pos + i]
<1>1. PICK len \in Nat : len = Len(w)
  BY LenProperties
<1>2. Text \subseteq Chars
  BY DEF Text
<1>3. \A i \in (pos + 1)..(pos + n) : i \in 1..len
  BY <1>1
<1>4. \A i \in (pos + 1)..(pos + n) : w[i] \in Chars
  BY <1>1, <1>2, <1>3, ElementOfSeq
<1>5. PICK f, g \in Int : f = pos + 1 /\ g = pos + n
  OBVIOUS
<1>6. \A i \in f..g : w[i] \in Chars
  BY <1>4, <1>5
<1>7. /\ SubSeq(w, f, g) \in Seq(Chars)
      /\ Len(SubSeq(w, f, g)) = IF f <= g THEN g - f + 1 ELSE 0
      /\ \A i \in 1..(g - f + 1) : SubSeq(w, f, g)[i] = w[f + i - 1]
  BY <1>6, SubSeqProperties
<1>8. g - f + 1 = n /\ (n # 0 => f <= g) /\ (n = 0 => ~(f <= g))
  BY <1>5
<1>9. \A i \in 1..n : f + i - 1 = pos + i
  BY <1>5
<1>10. QED
  BY <1>5, <1>7, <1>8, <1>9

\* The body b starts with s, and u comes next.
Continues(b, s, u) ==
  /\ Lies(b, 0, s) /\ Len(s) + Len(u) <= Len(b)
  /\ \A i \in 1..Len(u) : u[i] = b[Len(s) + i]

\* The body that has been read, continued.
LEMMA Grows ==
  ASSUME NEW B \in Seq(Chars), NEW s \in Seq(Chars), NEW u \in Seq(Chars), Continues(B, s, u)
  PROVE  s \o u \in Seq(Chars) /\ Len(s \o u) = Len(s) + Len(u) /\ Lies(B, 0, s \o u)
<1>a. PICK m, n \in Nat : m = Len(s) /\ n = Len(u)
  BY LenProperties
<1>b. Len(s) = m /\ Lies(B, 0, s) /\ m + n <= Len(B)
  BY <1>a, Zenon DEF Continues
<1>c. Len(u) = n
  BY <1>a
<1>d. \A i \in 1..n : u[i] = B[m + i]
  BY <1>a DEF Continues
<1> DEFINE t == s \o u
<1>2. t \in Seq(Chars) /\ Len(t) = m + n
  BY <1>b, <1>c, JoinLength
<1>3. \A i \in 1..(m + n) : t[i] = IF i <= m THEN s[i] ELSE u[i - m]
  <2>1. Len(s) = m /\ Len(u) = n
    BY <1>b, <1>c
  <2>2. \A i \in 1..(Len(s) + Len(u)) : t[i] = IF i <= Len(s) THEN s[i] ELSE u[i - Len(s)]
    BY ConcatProperties, Zenon
  <2>3. QED
    BY <2>1, <2>2, Zenon
<1> HIDE DEF t
<1>4. \A i \in 1..m : B[0 + i] = s[i]
  BY <1>b DEF Lies
<1>5. ASSUME NEW i \in 1..(m + n)
      PROVE  B[0 + i] = t[i]
  <2>1. CASE i <= m
    <3>1. i \in 1..m /\ t[i] = s[i]
      BY <1>3, <2>1
    <3>2. QED
      BY <1>4, <3>1
  <2>2. CASE i > m
    <3>1. PICK j \in 1..n : i = m + j /\ i - m = j
      <4>1. i - m \in 1..n /\ i = m + (i - m)
        BY <2>2
      <4>2. QED
        BY <4>1, Zenon
    <3>2. t[i] = u[j]
      BY <1>3, <2>2, <3>1
    <3>3. u[j] = B[m + j] /\ 0 + i = m + j
      BY <1>d, <3>1
    <3>4. QED
      BY <3>2, <3>3
  <2>3. QED
    BY <2>1, <2>2
<1>6. Lies(B, 0, t)
  <2>1. 0 + (m + n) <= Len(B)
    BY <1>b
  <2>2. QED
    BY <1>2, <1>5, <2>1 DEF Lies
<1>7. QED
  BY <1>a, <1>2, <1>6 DEF t

\* The first m characters s of the body b have been read, and the next n of it
\* are at pos on the wire w.
Follows(w, b, pos, s, m, n) ==
  /\ Lies(b, 0, s) /\ Len(s) = m
  /\ pos + n <= Len(w) /\ m + n <= Len(b)
  /\ \A i \in 1..n : w[pos + i] = b[m + i]

\* The same, with a part of the answer appended.
LEMMA GrowsBy ==
  ASSUME NEW w \in Seq(Text), NEW a \in Answers, NEW s \in Seq(Chars),
         NEW pos \in Nat, NEW m \in Nat, NEW n \in Nat, Follows(w, Body(a), pos, s, m, n)
  PROVE  /\ s \o SubSeq(w, pos + 1, pos + n) \in Seq(Chars)
         /\ Len(s \o SubSeq(w, pos + 1, pos + n)) = m + n
         /\ Lies(Body(a), 0, s \o SubSeq(w, pos + 1, pos + n))
<1>1. PICK B \in Seq(Chars) : B = Body(a)
  BY BodyChars
<1>2. /\ Lies(B, 0, s) /\ Len(s) = m
      /\ pos + n <= Len(w) /\ m + n <= Len(B)
      /\ \A i \in 1..n : w[pos + i] = B[m + i]
  BY <1>1, Zenon DEF Follows
<1>3. pos + n <= Len(w) /\ Lies(B, 0, s) /\ m + n <= Len(B) /\ Len(s) = m
  BY <1>2
<1>4. PICK u \in Seq(Chars) : u = SubSeq(w, pos + 1, pos + n)
  BY <1>3, PartOf
<1>5. Len(u) = n
  BY <1>3, <1>4, PartOf
<1>6. \A i \in 1..n : u[i] = w[pos + i]
  BY <1>3, <1>4, PartOf
<1>7. \A i \in 1..n : u[i] = B[m + i]
  BY <1>2, <1>6
<1>8. Continues(B, s, u)
  BY <1>3, <1>5, <1>7 DEF Continues
<1>9. s \o u \in Seq(Chars) /\ Len(s \o u) = Len(s) + Len(u) /\ Lies(B, 0, s \o u)
  BY <1>8, Grows, Zenon
<1>10. s \o u \in Seq(Chars) /\ Len(s \o u) = m + n /\ Lies(B, 0, s \o u)
  BY <1>3, <1>5, <1>9, Zenon
<1>11. QED
  BY <1>1, <1>4, <1>10, Zenon

\* Nothing happens.
LEMMA StaysInv ==
  ASSUME IInv, UNCHANGED vars
  PROVE  IInv'
<1>1. TypeOK'
  BY DEF IInv, TypeOK, vars, network, buffer, parsed
<1>2. ReadInv' /\ Outset'
  BY DEF IInv, ReadInv, Outset, vars, network, buffer, parsed
<1>3. PlaceInv'
  BY DEF IInv, PlaceInv, PlacedNow, Stale, Lost, vars, network, buffer, parsed
<1>4. EndInv'
  BY DEF IInv, EndInv, Failed, Complete, Cut, Lost, vars, network, buffer, parsed
<1>5. QED
  BY <1>1, <1>2, <1>3, <1>4 DEF IInv

\* What is known in the body when the answer has not been cut off.
LEMMA AtBody ==
  ASSUME IInv, pc = "body", PlacedNow
  PROVE  /\ wire \in Seq(Text) /\ answer \in Answers /\ ret_code = answer.status
         /\ content_length >= 0 /\ taken - left + content_length <= Len(wire)
         /\ Len(resp) + content_length <= Len(Body(answer))
         /\ \A x \in 0..content_length :
              /\ \A i \in 1..x : wire[taken - left + i] = Body(answer)[Len(resp) + i]
              /\ Placed(wire, answer, "body", taken - left + x, chunked, content_length - x, ret_code,
                        Len(resp) + x)
         /\ \/ /\ chunked /\ taken - left + content_length < Len(wire)
               /\ content_length = 0 =>
                    Placed(wire, answer, "bodyCR", taken - left, chunked, content_length, ret_code, Len(resp))
            \/ /\ ~chunked /\ taken - left + content_length = Len(wire)
               /\ Len(resp) + content_length = Len(Body(answer))
               /\ answer.framing # "chunked"
               /\ answer.framing = "none" => content_length = 0
<1>1. wire \in Seq(Text) /\ answer \in Answers /\ content_length \in Int
  BY WireText, HttpAssumption DEF IInv, TypeOK
<1>2. PICK pos, m \in Nat : pos = taken - left /\ m = Len(resp)
  <2>1. PICK len \in Nat : len = Len(wire)
    BY <1>1, LenProperties
  <2>2. taken \in 0..len /\ left \in 0..taken /\ resp \in Seq(Chars)
    BY <2>1 DEF IInv, TypeOK
  <2>3. Len(resp) \in Nat /\ taken - left \in Nat
    BY <2>2, LenProperties
  <2>4. QED
    BY <2>3
<1>3. PICK cl \in Int : cl = content_length
  BY <1>1
<1>4. m <= Len(Body(answer))
  <2>1. Body(answer) \in Seq(Chars)
    BY <1>1, BodyChars
  <2>2. QED
    BY <1>2, <2>1, LiesPrefix DEF IInv, ReadInv, TypeOK
<1>5. \/ InPlain(wire, answer, "body", pos, chunked, cl, ret_code, m)
      \/ InChunks(wire, answer, "body", pos, chunked, cl, ret_code, m)
  BY <1>1, <1>2, <1>3, PlacedBody DEF PlacedNow
<1>6. CASE InPlain(wire, answer, "body", pos, chunked, cl, ret_code, m)
  <2>1. /\ answer.framing # "chunked" /\ ~chunked /\ ret_code = answer.status
        /\ cl >= 0 /\ pos + cl = Len(wire) /\ m + cl = Len(Body(answer))
        /\ answer.framing = "none" => cl = 0
        /\ \A n \in 0..cl :
             /\ \A i \in 1..n : wire[pos + i] = Body(answer)[m + i]
             /\ Placed(wire, answer, "body", pos + n, chunked, cl - n, ret_code, m + n)
    BY <1>1, <1>4, <1>6, FromPlainBody
  <2>2. pos + cl <= pos + cl /\ m + cl <= m + cl
    OBVIOUS
  <2>3. QED
    BY <1>1, <1>2, <1>3, <2>1, <2>2, Zenon
<1>7. CASE InChunks(wire, answer, "body", pos, chunked, cl, ret_code, m)
  <2>1. /\ chunked /\ ret_code = answer.status
        /\ cl >= 0 /\ pos + cl < Len(wire) /\ m + cl <= Len(Body(answer))
        /\ cl = 0 => Placed(wire, answer, "bodyCR", pos, chunked, cl, ret_code, m)
        /\ \A x \in 0..cl :
             /\ \A i \in 1..x : wire[pos + i] = Body(answer)[m + i]
             /\ Placed(wire, answer, "body", pos + x, chunked, cl - x, ret_code, m + x)
    <3>1. wire \in Seq(Text) /\ answer \in Answers /\ pos \in Nat /\ cl \in Int /\ m \in Nat
      BY <1>1
    <3>2. /\ chunked /\ ret_code = answer.status
          /\ cl >= 0 /\ pos + cl < Len(wire) /\ m + cl <= Len(Body(answer))
      BY <1>7, <3>1, FromChunkBody
    <3>3. cl = 0 => Placed(wire, answer, "bodyCR", pos, chunked, cl, ret_code, m)
      BY <1>7, <3>1, FromChunkBody
    <3>4. \A x \in 0..cl :
             /\ \A i \in 1..x : wire[pos + i] = Body(answer)[m + i]
             /\ Placed(wire, answer, "body", pos + x, chunked, cl - x, ret_code, m + x)
      BY <1>7, <3>1, FromChunkBody
    <3>5. QED
      BY <3>2, <3>3, <3>4
  <2>2. pos + cl <= Len(wire)
    BY <1>1, <2>1, LenProperties
  <2>3. QED
    BY <1>1, <1>2, <1>3, <2>1, <2>2, Zenon
<1>8. QED
  BY <1>5, <1>6, <1>7

\* n more characters of the body have been appended.
LEMMA BodyGrows ==
  ASSUME IInv, pc = "body", ~Lost, NEW n \in Nat, n <= content_length,
         UNCHANGED <<pc, network, chunked, ret_code, data>>,
         resp' = resp \o SubSeq(wire, (taken - left) + 1, (taken - left) + n),
         content_length' = content_length - n,
         taken' \in 0..Len(wire), left' \in 0..taken', taken' - left' = (taken - left) + n,
         first' \in Text \ {CONTENT_LENGTH, CHUNKED}
  PROVE  IInv'
<1>1. PlacedNow
  BY DEF IInv, PlaceInv, Reading, Stale
<1>2. /\ wire \in Seq(Text) /\ answer \in Answers
      /\ taken - left + content_length <= Len(wire)
      /\ Len(resp) + content_length <= Len(Body(answer))
      /\ \A x \in 0..content_length :
           /\ \A i \in 1..x : wire[taken - left + i] = Body(answer)[Len(resp) + i]
           /\ Placed(wire, answer, "body", taken - left + x, chunked, content_length - x, ret_code,
                     Len(resp) + x)
  BY <1>1, AtBody
<1>3. PICK pos, m, len, b \in Nat : /\ pos = taken - left /\ m = Len(resp) /\ len = Len(wire)
                                   /\ b = Len(Body(answer)) /\ m <= pos
  <2>1. PICK len, b \in Nat : len = Len(wire) /\ b = Len(Body(answer))
    BY <1>2, BodyType
  <2>2. taken \in 0..len /\ left \in 0..taken /\ resp \in Seq(Chars) /\ Len(resp) <= taken - left
    BY <2>1 DEF IInv, TypeOK, ReadInv
  <2>3. Len(resp) \in Nat /\ taken - left \in Nat
    BY <2>2, LenProperties
  <2>4. QED
    BY <2>1, <2>2, <2>3
<1>4. PICK cl \in Int : cl = content_length /\ cl \in (-MaxInt - 1)..MaxInt
  BY HttpAssumption DEF IInv, TypeOK
<1>5. n \in 0..cl /\ pos + n <= len /\ m + n <= b
  <2>1. n <= cl /\ pos + cl <= len /\ m + cl <= b
    BY <1>2, <1>3, <1>4
  <2>2. QED
    BY <2>1
<1>6. /\ \A i \in 1..n : wire[pos + i] = Body(answer)[m + i]
      /\ Placed(wire, answer, "body", pos + n, chunked, cl - n, ret_code, m + n)
  BY <1>2, <1>3, <1>4, <1>5
<1>7. resp \in Seq(Chars) /\ Lies(Body(answer), 0, resp)
  BY DEF IInv, TypeOK, ReadInv
<1>8. resp' \in Seq(Chars) /\ Len(resp') = m + n /\ Lies(Body(answer), 0, resp')
  <2>1. PICK a \in Answers : a = answer
    BY <1>2
  <2>2. PICK w \in Seq(Text) : w = wire
    BY <1>2
  <2>3. PICK s \in Seq(Chars) : s = resp
    BY <1>7
  <2>4. /\ Lies(Body(a), 0, s) /\ Len(s) = m
        /\ pos + n <= Len(w) /\ m + n <= Len(Body(a))
        /\ \A i \in 1..n : w[pos + i] = Body(a)[m + i]
    <3>1. Lies(Body(a), 0, s) /\ Len(s) = m
      BY <1>3, <1>7, <2>1, <2>3, Zenon
    <3>2. pos + n <= Len(w)
      BY <1>3, <1>5, <2>2, Zenon
    <3>3. m + n <= Len(Body(a))
      BY <1>3, <1>5, <2>1, Zenon
    <3>4. \A i \in 1..n : w[pos + i] = Body(a)[m + i]
      BY <1>6, <2>1, <2>2, Zenon
    <3>5. QED
      BY <3>1, <3>2, <3>3, <3>4, Zenon
  <2>5. Follows(w, Body(a), pos, s, m, n)
    BY <2>4, Zenon DEF Follows
  <2>6. /\ s \o SubSeq(w, pos + 1, pos + n) \in Seq(Chars)
        /\ Len(s \o SubSeq(w, pos + 1, pos + n)) = m + n
        /\ Lies(Body(a), 0, s \o SubSeq(w, pos + 1, pos + n))
    BY <2>5, GrowsBy, Zenon
  <2>7. s \o SubSeq(w, pos + 1, pos + n) = resp'
    BY <1>3, <2>2, <2>3
  <2>8. QED
    BY <2>1, <2>6, <2>7, Zenon
<1>9. UNCHANGED <<pc, answer, wire, conn, chunked, ret_code, data>>
  BY DEF network
<1>10. PICK t, l \in Nat : t = taken' /\ l = left' /\ l <= t /\ t <= len /\ t - l = pos + n
  BY <1>3
<1>11. m + n <= t /\ m + n <= t - l
  BY <1>3, <1>10
<1>12. content_length' = cl - n /\ cl - n \in (-MaxInt - 1)..MaxInt
  BY <1>4, <1>5, HttpAssumption
<1>13. TypeOK'
  BY <1>3, <1>8, <1>9, <1>10, <1>11, <1>12 DEF TypeOK, IInv, Text
<1>14. ReadInv'
  BY <1>8, <1>9, <1>10, <1>11 DEF ReadInv, IInv
<1>15. PlacedNow'
  <2>1. taken' - left' = pos + n /\ Len(resp') = m + n /\ pc' = "body"
    BY <1>3, <1>8, <1>9
  <2>2. QED
    BY <1>6, <1>9, <1>12, <2>1 DEF PlacedNow
<1>16. PlaceInv'
  BY <1>9, <1>15 DEF PlaceInv, IInv, Reading
<1>17. Outset' /\ EndInv'
  BY <1>9 DEF Outset, EndInv, IInv
<1>18. QED
  BY <1>13, <1>14, <1>16, <1>17 DEF IInv

LEMMA ReadBodyInv ==
  ASSUME IInv, ReadBody
  PROVE  IInv'
<1>1. /\ pc = "body" /\ content_length > 0
      /\ \/ left > 0 /\ Appended(taken - left, left) /\ UNCHANGED <<taken, first>>
         \/ \E n \in 1..Len(wire) : Piece(n) /\ Appended(taken, n)
         \/ left = 0 /\ conn = "closed" /\ UNCHANGED <<buffer, content_length, resp>>
      /\ UNCHANGED <<pc, network, chunked, ret_code, data>>
  BY DEF ReadBody
<1>2. /\ wire \in Seq(Text) /\ content_length \in Int /\ first \in Text \ {CONTENT_LENGTH, CHUNKED}
      /\ taken \in 0..Len(wire) /\ left \in 0..taken
  BY WireText, HttpAssumption DEF IInv, TypeOK, ReadInv, Text
<1>3. PICK len, cl, t, l \in Nat : len = Len(wire) /\ cl = content_length /\ t = taken /\ l = left
  BY <1>1, <1>2, LenProperties
<1>4. t \in 0..len /\ l \in 0..t
  BY <1>2, <1>3
<1>5. CASE left > 0 /\ Appended(taken - left, left) /\ UNCHANGED <<taken, first>>
  <2>1. PICK n \in Nat : n = Portion(l) /\ n <= cl /\ n <= l
    BY <1>3 DEF Portion
  <2>2. /\ content_length' = content_length - n
        /\ resp' = resp \o SubSeq(wire, (taken - left) + 1, (taken - left) + n)
        /\ left' = l - n
    BY <1>3, <1>5, <2>1, Zenon DEF Appended
  <2>3. taken' \in 0..Len(wire) /\ left' \in 0..taken' /\ taken' - left' = (taken - left) + n
    <3>1. taken' = t /\ l - n \in 0..t /\ t - (l - n) = (t - l) + n
      BY <1>3, <1>4, <1>5, <2>1
    <3>2. QED
      BY <1>3, <1>4, <2>2, <3>1
  <2>4. ~Lost /\ n <= content_length /\ first' \in Text \ {CONTENT_LENGTH, CHUNKED}
    BY <1>2, <1>3, <1>5, <2>1 DEF Lost
  <2>5. QED
    BY <1>1, <2>2, <2>3, <2>4, BodyGrows
<1>6. CASE \E k \in 1..Len(wire) : Piece(k) /\ Appended(taken, k)
  <2>1. PICK k \in 1..len : Piece(k) /\ Appended(taken, k)
    BY <1>3, <1>6
  <2>2. /\ conn = "open" /\ left = 0 /\ k \in 1..(len - t)
        /\ taken' = t + k /\ first' \in Starts(wire[t + 1])
    BY <1>3, <2>1 DEF Piece
  <2>3. PICK n \in Nat : n = Portion(k) /\ n <= cl /\ n <= k
    BY <1>3 DEF Portion
  <2>4. /\ content_length' = content_length - n
        /\ resp' = resp \o SubSeq(wire, taken + 1, taken + n)
        /\ left' = k - n
    BY <2>1, <2>3, Zenon DEF Appended
  <2>5. taken - left = taken
    BY <1>3, <2>2
  <2>6. resp' = resp \o SubSeq(wire, (taken - left) + 1, (taken - left) + n)
    BY <2>4, <2>5
  <2>7. taken' \in 0..Len(wire) /\ left' \in 0..taken' /\ taken' - left' = (taken - left) + n
    <3>1. t + k \in 0..len /\ k - n \in 0..(t + k) /\ (t + k) - (k - n) = t + n
      BY <1>4, <2>2, <2>3
    <3>2. QED
      BY <1>3, <2>2, <2>4, <2>5, <3>1
  <2>8. first' \in Text \ {CONTENT_LENGTH, CHUNKED}
    <3>1. t + 1 \in 1..len
      BY <1>4, <2>2
    <3>2. wire[t + 1] \in Text
      BY <1>2, <1>3, <3>1, ElementOfSeq
    <3>3. QED
      BY <2>2, <3>2, PieceStarts
  <2>9. ~Lost /\ n <= content_length
    BY <1>3, <2>2, <2>3 DEF Lost
  <2>10. QED
    BY <1>1, <2>4, <2>6, <2>7, <2>8, <2>9, BodyGrows
<1>7. CASE left = 0 /\ conn = "closed" /\ UNCHANGED <<buffer, content_length, resp>>
  BY <1>1, <1>7, StaysInv DEF vars, parsed
<1>8. QED
  BY <1>1, <1>5, <1>6, <1>7

LEMMA CutOffInv ==
  ASSUME IInv, CutOff
  PROVE  IInv'
<1>1. /\ conn = "open" /\ conn' \in {"closed", "broken"}
      /\ UNCHANGED <<pc, answer, wire, taken, left, first>>
      /\ UNCHANGED <<chunked, content_length, ret_code, resp, data>>
  BY DEF CutOff, buffer, parsed
<1>2. TypeOK'
  BY <1>1 DEF IInv, TypeOK
<1>3. ReadInv' /\ Outset'
  BY <1>1 DEF IInv, ReadInv, Outset
<1>4. ~Lost /\ ~Stale /\ ~Cut
  BY <1>1 DEF Lost, Stale, Cut
<1>5. PlaceInv'
  BY <1>1, <1>4 DEF IInv, PlaceInv, PlacedNow
<1>6. (Complete => Complete') /\ (Failed => Failed')
  BY <1>1, <1>4 DEF Complete, Failed, Lost
<1>7. EndInv'
  BY <1>1, <1>4, <1>6 DEF IInv, EndInv
<1>8. QED
  BY <1>2, <1>3, <1>5, <1>7 DEF IInv

LEMMA MisconfiguredInv ==
  ASSUME IInv, Misconfigured
  PROVE  IInv'
<1>1. /\ pc = "connect" /\ pc' = "returned" /\ data' = "exception"
      /\ UNCHANGED <<answer, wire, conn, taken, left, first>>
      /\ UNCHANGED <<chunked, content_length, ret_code, resp>>
  BY DEF Misconfigured, network, buffer, parsed
<1>2. taken = 0 /\ conn = "none"
  BY <1>1 DEF IInv, Outset
<1>3. TypeOK'
  BY <1>1 DEF IInv, TypeOK
<1>4. ReadInv' /\ Outset' /\ PlaceInv'
  BY <1>1 DEF IInv, ReadInv, Outset, PlaceInv, Reading
<1>5. EndInv'
  BY <1>1, <1>2 DEF IInv, EndInv, Failed
<1>6. QED
  BY <1>3, <1>4, <1>5 DEF IInv

LEMMA CannotConnectInv ==
  ASSUME IInv, CannotConnect
  PROVE  IInv'
<1>1. /\ pc = "connect" /\ pc' = "parse" /\ ret_code' \in {-1, -2, -3}
      /\ UNCHANGED <<answer, wire, conn, taken, left, first>>
      /\ UNCHANGED <<chunked, content_length, resp, data>>
  BY DEF CannotConnect, network, buffer
<1>2. taken = 0 /\ conn = "none"
  BY <1>1 DEF IInv, Outset
<1>3. ret_code' < 0 /\ ret_code' \in (-MaxInt - 1)..MaxInt
  BY <1>1, HttpAssumption
<1>4. TypeOK'
  BY <1>1, <1>3 DEF IInv, TypeOK
<1>5. ReadInv' /\ Outset' /\ PlaceInv'
  BY <1>1 DEF IInv, ReadInv, Outset, PlaceInv, Reading
<1>6. data # "rows"
  BY <1>1 DEF IInv, EndInv
<1>7. EndInv'
  BY <1>1, <1>2, <1>3, <1>6 DEF EndInv, Failed
<1>8. QED
  BY <1>4, <1>5, <1>7 DEF IInv

LEMMA ConnectInv ==
  ASSUME IInv, Connect
  PROVE  IInv'
<1>1. /\ pc = "connect" /\ pc' = "write" /\ conn' = "open"
      /\ UNCHANGED <<answer, wire, taken, left, first>>
      /\ UNCHANGED <<chunked, content_length, ret_code, resp, data>>
  BY DEF Connect, buffer, parsed
<1>2. TypeOK'
  BY <1>1 DEF IInv, TypeOK
<1>3. ReadInv' /\ Outset' /\ PlaceInv'
  BY <1>1 DEF IInv, ReadInv, Outset, PlaceInv, Reading
<1>4. data # "rows"
  BY <1>1 DEF IInv, EndInv
<1>5. EndInv'
  BY <1>1, <1>4 DEF EndInv
<1>6. QED
  BY <1>2, <1>3, <1>5 DEF IInv

LEMMA WriteInv ==
  ASSUME IInv, Write
  PROVE  IInv'
<1>1. /\ pc = "write"
      /\ \/ pc' = "status" /\ ret_code' = ret_code
         \/ pc' = "close" /\ ret_code' = -6
      /\ UNCHANGED <<answer, wire, conn, taken, left, first>>
      /\ UNCHANGED <<chunked, content_length, resp, data>>
  BY DEF Write, network, buffer
<1>2. /\ conn # "none" /\ taken = 0 /\ left = 0 /\ ~chunked /\ content_length = 0 /\ ret_code = 0
      /\ resp = <<>>
  BY <1>1 DEF IInv, Outset
<1>3. ret_code' \in (-MaxInt - 1)..MaxInt
  BY <1>1, HttpAssumption DEF IInv, TypeOK
<1>4. TypeOK'
  BY <1>1, <1>3 DEF IInv, TypeOK, Reading
<1>5. ReadInv' /\ Outset'
  BY <1>1 DEF IInv, ReadInv, Outset
<1>6. pc' = "status" => PlacedNow'
  <2>1. ASSUME pc' = "status"
        PROVE  PlacedNow'
    <3>1. answer \in Answers /\ wire = Wire(answer) /\ chunked = FALSE
      BY <1>2 DEF IInv, TypeOK
    <3>2. taken' - left' = 0 /\ Len(resp') = 0 /\ ret_code' = 0 /\ content_length' = 0
      BY <1>1, <1>2, <2>1
    <3>3. Placed(Wire(answer), answer, "status", 0, FALSE, 0, 0, 0)
      BY <3>1, FromNothing
    <3>4. chunked' = FALSE /\ wire' = Wire(answer) /\ answer' = answer
      BY <1>1, <3>1
    <3>5. Placed(wire', answer', pc', taken' - left', chunked', content_length', ret_code', Len(resp'))
      BY <2>1, <3>2, <3>3, <3>4, Zenon
    <3>6. QED
      BY <3>5 DEF PlacedNow
  <2>2. QED
    BY <2>1
<1>7. PlaceInv'
  BY <1>1, <1>2, <1>6 DEF PlaceInv, Reading
<1>8. data # "rows"
  BY <1>1 DEF IInv, EndInv
<1>9. EndInv'
  BY <1>1, <1>2, <1>8 DEF EndInv, Failed
<1>10. QED
  BY <1>4, <1>5, <1>7, <1>9 DEF IInv

\* Changes of the position alone keep the rest of IInv.
LEMMA MovesOn ==
  ASSUME IInv, UNCHANGED <<network, buffer, chunked, content_length, ret_code, resp, data>>,
         pc' \in Reading \cup {"close"}, pc \in Reading, PlaceInv',
         pc' = "close" => ret_code = answer.status /\ (Complete \/ Cut)
  PROVE  IInv'
<1>1. UNCHANGED <<answer, wire, conn, taken, left, first, chunked, content_length, ret_code, resp, data>>
  BY DEF network, buffer
<1>2. TypeOK'
  BY <1>1 DEF IInv, TypeOK
<1>3. ReadInv' /\ Outset'
  BY <1>1 DEF IInv, ReadInv, Outset, Reading
<1>4. (Complete => Complete') /\ (Cut => Cut')
  BY <1>1 DEF Complete, Cut, Lost
<1>5. data # "rows"
  BY DEF IInv, EndInv, Reading
<1>6. EndInv'
  BY <1>1, <1>4, <1>5 DEF EndInv, Reading
<1>7. QED
  BY <1>2, <1>3, <1>6 DEF IInv

LEMMA BodyEndsInv ==
  ASSUME IInv, BodyEnds
  PROVE  IInv'
<1>1. /\ pc = "body"
      /\ content_length <= 0 \/ (left = 0 /\ conn = "broken")
      /\ pc' = IF chunked THEN "bodyCR" ELSE "close"
      /\ UNCHANGED <<network, buffer, chunked, content_length, ret_code, resp, data>>
  BY DEF BodyEnds, GoTo
<1>2. /\ answer \in Answers /\ conn \in {"none", "open", "closed", "broken"} /\ conn # "none"
      /\ PlacedNow \/ Stale
  BY <1>1 DEF IInv, PlaceInv, TypeOK, Reading
<1>3. PICK len, t, l, m, b \in Nat :
        /\ len = Len(wire) /\ t = taken /\ l = left /\ m = Len(resp)
        /\ b = Len(Body(answer)) /\ b = Size(answer)
        /\ t \in 0..len /\ l \in 0..t
  <2>1. wire \in Seq(Text) /\ resp \in Seq(Chars)
    BY WireText DEF IInv, TypeOK
  <2>2. Len(wire) \in Nat /\ Len(resp) \in Nat /\ taken \in 0..Len(wire) /\ left \in 0..taken
    BY <2>1, LenProperties DEF IInv, TypeOK
  <2>3. Len(Body(answer)) = Size(answer) /\ Size(answer) \in Nat
    BY <1>2, BodyType
  <2>4. taken \in Nat /\ left \in Nat
    BY <2>2
  <2>5. QED
    BY <2>2, <2>3, <2>4
<1>4. PICK cl \in Int : cl = content_length
  BY HttpAssumption DEF IInv, TypeOK
<1>5. CASE Stale
  <2>1. conn = "closed" /\ cl <= 0 /\ Lost
    BY <1>1, <1>4, <1>5 DEF Stale
  <2>2. ~chunked
    BY <1>1, <1>4, <1>5, <2>1 DEF Stale
  <2>3. cl = b /\ ret_code = answer.status /\ resp = <<>> /\ (cl = 0 => taken = Len(wire) - 1)
    BY <1>1, <1>3, <1>4, <1>5, <2>2 DEF Stale
  <2>4. cl = 0 /\ b = 0
    BY <2>1, <2>3
  <2>5. Len(resp) = Len(Body(answer))
    BY <1>3, <2>3, <2>4
  <2>6. resp = Body(answer)
    BY <2>5, AllRead DEF IInv
  <2>7. Complete
    BY <2>1, <2>3, <2>4, <2>6 DEF Complete
  <2>8. pc' = "close"
    BY <1>1, <2>2
  <2>9. PlaceInv'
    BY <2>8 DEF PlaceInv, Reading
  <2>10. QED
    BY <1>1, <2>3, <2>7, <2>8, <2>9, MovesOn DEF Reading
<1>6. CASE PlacedNow
  <2>1. /\ ret_code = answer.status /\ cl >= 0 /\ taken - left + cl <= len /\ m + cl <= b
        /\ \/ /\ chunked /\ taken - left + cl < len
              /\ cl = 0 =>
                   Placed(wire, answer, "bodyCR", taken - left, chunked, content_length, ret_code, Len(resp))
           \/ /\ ~chunked /\ taken - left + cl = len /\ m + cl = b
              /\ answer.framing # "chunked"
              /\ answer.framing = "none" => cl = 0
    BY <1>1, <1>3, <1>4, <1>6, AtBody
  <2>2. PICK p \in Nat : p = taken - left /\ (l = 0 => p = t)
    BY <1>3
  <2>3. CASE chunked
    <3>1. pc' = "bodyCR"
      BY <1>1, <2>3
    <3>2. CASE cl = 0
      <4>1. PlacedNow'
        BY <1>1, <2>1, <2>3, <3>1, <3>2 DEF PlacedNow, network, buffer
      <4>2. PlaceInv'
        BY <1>1, <1>2, <4>1 DEF PlaceInv, network
      <4>3. QED
        BY <1>1, <3>1, <4>2, MovesOn DEF Reading
    <3>3. CASE cl > 0
      <4>1. left = 0 /\ conn = "broken"
        BY <1>1, <1>4, <3>3
      <4>2. t < len
        BY <1>3, <2>1, <2>2, <2>3, <3>3, <4>1
      <4>3. Lost
        BY <1>3, <4>1, <4>2 DEF Lost
      <4>4. Lost' /\ conn' = "broken"
        BY <1>1, <4>1, <4>3 DEF Lost, network, buffer
      <4>5. PlaceInv'
        BY <3>1, <4>4 DEF PlaceInv
      <4>6. QED
        BY <1>1, <3>1, <4>5, MovesOn DEF Reading
    <3>4. QED
      BY <2>1, <3>2, <3>3
  <2>4. CASE ~chunked
    <3>1. pc' = "close"
      BY <1>1, <2>4
    <3>2. PlaceInv'
      BY <3>1 DEF PlaceInv, Reading
    <3>3. p + cl = len /\ m + cl = b /\ answer.framing # "chunked" /\ (answer.framing = "none" => cl = 0)
      BY <2>1, <2>2, <2>4
    <3>4. Complete \/ Cut
      <4>1. CASE cl = 0
        <5>1. Len(resp) = Len(Body(answer)) /\ taken - left = Len(wire)
          BY <1>3, <2>2, <3>3, <4>1
        <5>2. resp = Body(answer)
          BY <5>1, AllRead DEF IInv
        <5>3. QED
          BY <5>1, <5>2 DEF Complete
      <4>2. CASE cl > 0
        <5>1. left = 0 /\ conn = "broken"
          BY <1>1, <1>4, <4>2
        <5>2. t < len /\ m # b
          BY <1>3, <2>2, <3>3, <4>2, <5>1
        <5>3. Lost /\ resp # Body(answer)
          BY <1>3, <5>1, <5>2 DEF Lost
        <5>4. answer.framing = "length"
          BY <1>2, <3>3, <4>2, FramingType
        <5>5. QED
          BY <5>1, <5>3, <5>4 DEF Cut
      <4>3. QED
        BY <2>1, <4>1, <4>2
    <3>5. QED
      BY <1>1, <2>1, <3>1, <3>2, <3>4, MovesOn DEF Reading
  <2>5. QED
    BY <2>3, <2>4
<1>7. QED
  BY <1>2, <1>5, <1>6

\* The codes of the failures are no successes, and those of the answers are
\* successes from 200 to 299.
LEMMA ResultNegative ==
  ASSUME NEW c \in Int, c < 0
  PROVE  Result(c) = c /\ c \div 100 # 2
BY DEF Result

LEMMA ResultOfStatus ==
  ASSUME NEW s \in 100..599
  PROVE  Result(s) = 0 <=> s \in 200..299
BY DEF Result

LEMMA CloseSocketInv ==
  ASSUME IInv, CloseSocket
  PROVE  IInv'
<1>1. /\ pc = "close" /\ pc' = "parse"
      /\ conn' = IF conn = "open" THEN "none" ELSE conn
      /\ ret_code' = Result(ret_code)
      /\ UNCHANGED <<answer, wire, taken, left, first>>
      /\ UNCHANGED <<chunked, content_length, resp, data>>
  BY DEF CloseSocket, buffer
<1>2. /\ conn \in {"none", "open", "closed", "broken"}
      /\ ret_code \in (-MaxInt - 1)..MaxInt /\ ret_code \in Int
  BY HttpAssumption DEF IInv, TypeOK
<1>3. ret_code' \in (-MaxInt - 1)..MaxInt
  BY <1>1, <1>2, HttpAssumption DEF Result
<1>4. conn' \in {"none", "closed", "broken"}
  BY <1>1, <1>2
<1>5. TypeOK'
  BY <1>1, <1>3, <1>4 DEF IInv, TypeOK
<1>6. ReadInv' /\ Outset' /\ PlaceInv'
  BY <1>1 DEF IInv, ReadInv, Outset, PlaceInv, Reading
<1>7. (Lost => Lost') /\ (conn # "open" => conn' = conn)
  BY <1>1 DEF Lost
<1>8. (Complete => Complete') /\ (Cut => Cut') /\ (Failed => Failed')
  BY <1>1, <1>7 DEF Complete, Cut, Failed, Lost
<1>9. \/ ret_code' < 0 /\ Failed'
      \/ ret_code' = Result(answer.status) /\ (Complete' \/ Cut')
  <2>1. \/ ret_code < 0 /\ Failed
        \/ ret_code = answer.status /\ (Complete \/ Cut)
    BY <1>1 DEF IInv, EndInv
  <2>2. CASE ret_code < 0 /\ Failed
    BY <1>1, <1>2, <1>8, <2>2, ResultNegative
  <2>3. CASE ret_code = answer.status /\ (Complete \/ Cut)
    BY <1>1, <1>8, <2>3
  <2>4. QED
    BY <2>1, <2>2, <2>3
<1>10. data # "rows"
  BY <1>1 DEF IInv, EndInv
<1>11. EndInv'
  BY <1>1, <1>4, <1>9, <1>10 DEF EndInv
<1>12. QED
  BY <1>5, <1>6, <1>11 DEF IInv

LEMMA ParseInv ==
  ASSUME IInv, Parse
  PROVE  IInv'
<1>1. /\ pc = "parse" /\ pc' = "returned"
      /\ data' = IF ret_code # 0 THEN "nothing"
                 ELSE IF answer.rows /\ resp = Body(answer) THEN "rows" ELSE "exception"
      /\ UNCHANGED <<answer, wire, conn, taken, left, first>>
      /\ UNCHANGED <<chunked, content_length, ret_code, resp>>
  BY DEF Parse, network, buffer, parsed
<1>2. answer \in Answers /\ conn # "open"
  BY <1>1 DEF IInv, TypeOK, EndInv
<1>3. PICK s \in 100..599 : s = answer.status
  BY <1>2, StatusType
<1>4. TypeOK'
  BY <1>1 DEF IInv, TypeOK
<1>5. ReadInv' /\ Outset' /\ PlaceInv'
  BY <1>1 DEF IInv, ReadInv, Outset, PlaceInv, Reading
<1>6. (Complete <=> Complete') /\ (Cut <=> Cut') /\ (Failed <=> Failed')
  BY <1>1 DEF Complete, Cut, Failed, Lost
<1>7. \/ ret_code < 0 /\ Failed
      \/ ret_code = Result(s) /\ (Complete \/ Cut)
  BY <1>1, <1>3 DEF IInv, EndInv
<1>8. data' = "rows" => Complete
  BY <1>1, <1>7 DEF Cut
<1>9. \/ Failed
      \/ Cut
      \/ data' = IF answer.status \notin 200..299 THEN "nothing"
                 ELSE IF answer.rows THEN "rows" ELSE "exception"
  <2>1. CASE ret_code = Result(s) /\ Complete
    <3>1. ret_code = 0 <=> s \in 200..299
      BY <2>1, ResultOfStatus
    <3>2. resp = Body(answer)
      BY <2>1 DEF Complete
    <3>3. QED
      BY <1>1, <1>3, <3>1, <3>2
  <2>2. QED
    BY <1>7, <2>1
<1>10. EndInv'
  BY <1>1, <1>2, <1>6, <1>8, <1>9 DEF EndInv
<1>11. QED
  BY <1>4, <1>5, <1>10 DEF IInv

-----------------------------------------------------------------------------
(* The theorems                                                            *)

\* Before anything has been read.
LEMMA InitInv == Init => IInv
<1> SUFFICES ASSUME Init
             PROVE  IInv
  OBVIOUS
<1>1. /\ pc = "connect" /\ conn = "none" /\ answer \in Answers /\ wire = Wire(answer)
      /\ taken = 0 /\ left = 0 /\ first = TEXT
      /\ chunked = FALSE /\ content_length = 0 /\ ret_code = 0
      /\ resp = <<>> /\ data = "pending"
  BY DEF Init
<1>2. Len(wire) \in Nat /\ Len(resp) = 0 /\ resp \in Seq(Chars)
  BY <1>1, WireText, LenProperties
<1>3. 0 \in (-MaxInt - 1)..MaxInt
  BY HttpAssumption
<1>4. TEXT \in Chars \ {NUL, CONTENT_LENGTH, CHUNKED}
  BY DEF TEXT, Chars, NUL, CONTENT_LENGTH, CHUNKED
<1>5. TypeOK
  <2>1. pc \in Reading \cup {"connect", "write", "close", "parse", "returned"}
    BY <1>1
  <2>2. taken \in 0..Len(wire) /\ left \in 0..taken /\ Len(resp) <= taken
    BY <1>1, <1>2
  <2>3. conn \in {"none", "open", "closed", "broken"}
        /\ chunked \in BOOLEAN /\ data \in {"pending", "rows", "nothing", "exception"}
    BY <1>1
  <2>4. /\ first \in Chars \ {NUL} /\ content_length \in (-MaxInt - 1)..MaxInt
        /\ ret_code \in (-MaxInt - 1)..MaxInt
    BY <1>1, <1>3, <1>4
  <2>5. QED
    BY <1>1, <1>2, <2>1, <2>2, <2>3, <2>4 DEF TypeOK
<1>6. Lies(Body(answer), 0, resp)
  <2>1. Len(Body(answer)) \in Nat
    BY <1>1, BodyType
  <2>2. QED
    BY <1>1, <1>2, <2>1 DEF Lies
<1>7. ReadInv
  BY <1>1, <1>2, <1>4, <1>6 DEF ReadInv
<1>8. Outset /\ PlaceInv /\ EndInv
  BY <1>1 DEF Outset, PlaceInv, EndInv, Reading
<1>9. QED
  BY <1>5, <1>7, <1>8 DEF IInv

\* No step leaves IInv.
LEMMA NextInv == IInv /\ [Next]_vars => IInv'
<1> SUFFICES ASSUME IInv, [Next]_vars
             PROVE  IInv'
  OBVIOUS
<1>1. CASE Misconfigured \/ CannotConnect \/ Connect \/ Write
  BY <1>1, MisconfiguredInv, CannotConnectInv, ConnectInv, WriteInv
<1>2. CASE Status \/ Code \/ Line \/ Header \/ ContentLength \/ HeadersEnd
  BY <1>2, StatusInv, CodeInv, LineInv, HeaderInv, ContentLengthInv, HeadersEndInv
<1>3. CASE ChunkSize \/ ChunkSizeEnd \/ LastCR \/ LastLF
  BY <1>3, ChunkSizeInv, ChunkSizeEndInv, LastCRInv, LastLFInv
<1>4. CASE ReadBody \/ BodyEnds \/ BodyCR \/ BodyLF
  BY <1>4, ReadBodyInv, BodyEndsInv, BodyCRInv, BodyLFInv
<1>5. CASE CloseSocket \/ Parse \/ CutOff
  BY <1>5, CloseSocketInv, ParseInv, CutOffInv
<1>6. CASE UNCHANGED vars
  BY <1>6, StaysInv
<1>7. QED
  BY <1>1, <1>2, <1>3, <1>4, <1>5, <1>6 DEF Next, Request

\* IInv is an invariant.
LEMMA InfluxInv == Spec => []IInv
BY InitInv, NextInv, PTL DEF Spec

(* The variables keep their types; in particular nothing is read beyond    *)
(* what recv() has returned, and what wraps around stays an int.           *)
THEOREM InfluxTypeOK == Spec => []TypeOK
<1>1. IInv => TypeOK
  BY DEF IInv
<1>2. QED
  BY <1>1, InfluxInv, PTL

(* Wherever recv() splits the answer, what has been appended to the body   *)
(* is the beginning of the body the database sent, and a success means all *)
(* of it, unless the connection broke inside a body with a Content-Length. *)
THEOREM InfluxBodyIsSent == Spec => []BodyIsSent
<1>1. ASSUME IInv
      PROVE  BodyIsSent
  <2>1. /\ answer \in Answers /\ resp \in Seq(Chars) /\ Lies(Body(answer), 0, resp)
        /\ ret_code \in Int
    BY <1>1, HttpAssumption DEF IInv, TypeOK, ReadInv
  <2>2. IsPrefix(resp, Body(answer))
    BY <2>1, BodyChars, LiesPrefix
  <2>3. ASSUME pc = "close", ret_code \div 100 = 2
        PROVE  resp = Body(answer) \/ (conn = "broken" /\ answer.framing = "length")
    <3>1. ret_code >= 0
      BY <2>1, <2>3, ResultNegative
    <3>2. Complete \/ Cut
      BY <1>1, <2>1, <2>3, <3>1 DEF IInv, EndInv
    <3>3. QED
      BY <3>2 DEF Complete, Cut
  <2>4. QED
    BY <2>2, <2>3 DEF BodyIsSent
<1>2. QED
  BY <1>1, InfluxInv, PTL

(* However it is split, an answer that arrives is reported for what it     *)
(* says: rows, an exception for a document without rows or none at all,    *)
(* nothing for a status that is no success.                                *)
THEOREM InfluxAnswerIsReported == Spec => []AnswerIsReported
<1>1. ASSUME IInv
      PROVE  AnswerIsReported
  <2>1. ASSUME pc = "returned", Answered
        PROVE  ~Failed /\ ~Cut
    <3>1. taken > 0 /\ (conn = "none" \/ taken = Len(wire))
      BY <2>1 DEF Answered
    <3>2. PICK len \in Nat : len = Len(wire)
      BY <1>1, WireText, LenProperties DEF IInv, TypeOK
    <3>3. taken \in 0..len
      BY <1>1, <3>2 DEF IInv, TypeOK
    <3>4. ~Lost
      BY <3>1, <3>2, <3>3 DEF Lost
    <3>5. QED
      BY <3>1, <3>3, <3>4 DEF Failed, Cut
  <2>2. QED
    BY <1>1, <2>1 DEF IInv, EndInv, AnswerIsReported
<1>2. QED
  BY <1>1, InfluxInv, PTL

(* An answer that breaks off is never taken for rows of the table, except  *)
(* that its very last character may be missing.                            *)
THEOREM InfluxNeverPartialRows == Spec => []NeverPartialRows
<1>1. ASSUME IInv
      PROVE  NeverPartialRows
  <2>1. ASSUME data = "rows"
        PROVE  taken >= Len(wire) - 1
    <3>1. taken - left = Len(wire) \/ taken = Len(wire) - 1
      BY <1>1, <2>1 DEF IInv, EndInv, Complete
    <3>2. PICK len, t, l \in Nat : len = Len(wire) /\ t = taken /\ l = left
      <4>1. Len(wire) \in Nat
        BY <1>1, WireText, LenProperties DEF IInv, TypeOK
      <4>2. taken \in Nat /\ left \in Nat
        BY <1>1, <4>1 DEF IInv, TypeOK
      <4>3. QED
        BY <4>1, <4>2
    <3>3. t - l = len \/ t = len - 1
      BY <3>1, <3>2
    <3>4. QED
      BY <3>2, <3>3
  <2>2. QED
    BY <2>1 DEF NeverPartialRows
<1>2. QED
  BY <1>1, InfluxInv, PTL

=============================================================================
