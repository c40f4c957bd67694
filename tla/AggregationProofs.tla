------------------------- MODULE AggregationProofs -------------------------
(***************************************************************************)
(* Proofs about the users of the aggregation functions, for every set of   *)
(* queries, rules and requests, every range of timestamps and every width  *)
(* of the numbers: the assertions of fillEmptyBuckets and the average.     *)
(*                                                                         *)
(* A first bucket may begin before 0, and then its start wraps around to   *)
(* the far end of the unsigned numbers.  The argument about the assertions *)
(* is therefore about the starts before wrapping (Floor), which lie on a   *)
(* grid, and about the two halves of the unsigned numbers: a start that    *)
(* did not wrap is in the lower one, one that did is in the upper one.     *)
(* The argument about the average is about the fraction before it is       *)
(* reduced: reducing it does not change what it is at most.                *)
(***************************************************************************)
EXTENDS Aggregation, FiniteSetTheorems, SequenceTheorems, WellFoundedInduction, TLAPS

----------------------------------------------------------------------------
(***************************************************************************)
(* Numbers.                                                                *)
(***************************************************************************)

\* A non-empty set of natural numbers has a smallest element.
LEMMA SmallestExists ==
  ASSUME NEW M \in SUBSET Nat, M # {}
  PROVE  \E m \in M : \A n \in M : m <= n
<1>1. PICK m \in M : \A n \in M : ~(<<n, m>> \in OpToRel(<, Nat))
  BY NatLessThanWellFounded, WFMin
<1>2. ASSUME NEW n \in M PROVE m <= n
  <2>1. m \in Nat /\ n \in Nat
    OBVIOUS
  <2>2. n < m => <<n, m>> \in OpToRel(<, Nat)
    BY <2>1 DEF OpToRel
  <2>3. ~(n < m)
    BY <1>1, <2>2, Zenon
  <2> QED BY <2>1, <2>3
<1> QED BY <1>2

\* A factor greater than 0 cancels out of an inequality.
LEMMA Cancel ==
  ASSUME NEW x \in Int, NEW y \in Int, NEW g \in Nat \ {0}, x * g <= y * g
  PROVE  x <= y
<1> SUFFICES ASSUME y < x PROVE FALSE
  OBVIOUS
<1>1. PICK k \in Nat : x = y + 1 + k
  <2>1. x - y - 1 \in Nat /\ x = y + 1 + (x - y - 1)
    OBVIOUS
  <2> QED BY <2>1
<1>2. x * g = (y * g) + g + (k * g)
  BY <1>1
<1>3. k * g >= 0 /\ k * g \in Int /\ y * g \in Int
  OBVIOUS
<1> QED BY <1>2, <1>3

\* An inequality may be multiplied by a natural number.
LEMMA Multiplied ==
  ASSUME NEW x \in Int, NEW y \in Int, NEW g \in Nat, x <= y
  PROVE  x * g <= y * g
<1>1. PICK k \in Nat : y = x + k
  <2>1. y - x \in Nat /\ y = x + (y - x)
    OBVIOUS
  <2> QED BY <2>1
<1>2. y * g = (x * g) + (k * g)
  BY <1>1
<1>3. k * g >= 0 /\ k * g \in Int /\ x * g \in Int
  OBVIOUS
<1> QED BY <1>2, <1>3

\* Division with remainder.
LEMMA DivMod ==
  ASSUME NEW x \in Int, NEW d \in Nat \ {0}
  PROVE  /\ x % d \in 0 .. d - 1 /\ x \div d \in Int
         /\ x = (d * (x \div d)) + (x % d)
OBVIOUS

\* A quotient without remainder.
LEMMA Quotient ==
  ASSUME NEW x \in Int, NEW d \in Nat \ {0}, x % d = 0
  PROVE  x = (x \div d) * d /\ x \div d \in Int
<1>1. x = (d * (x \div d)) + (x % d) /\ x \div d \in Int
  BY DivMod
<1> QED BY <1>1

----------------------------------------------------------------------------
(***************************************************************************)
(* Fractions.                                                              *)
(***************************************************************************)
Fraction == Int \X (Nat \ {0})

\* The absolute value of x is at most a / b.
AtMost(x, a, b) ==
  /\ x \in Fraction
  /\ x[1] * b <= a * x[2]
  /\ (0 - x[1]) * b <= a * x[2]

\* The greatest common divisor is a divisor of both.
LEMMA GCDDivides ==
  ASSUME NEW n \in Int, NEW d \in Nat \ {0}
  PROVE  GCD(n, d) \in 1 .. d /\ n % GCD(n, d) = 0 /\ d % GCD(n, d) = 0
<1> DEFINE S == {k \in 1 .. d : n % k = 0 /\ d % k = 0}
           M == {d - k : k \in S}
<1>1. 1 \in S
  OBVIOUS
<1>2. M \in SUBSET Nat /\ M # {}
  <2>1. d - 1 \in M
    BY <1>1
  <2>2. ASSUME NEW m \in M PROVE m \in Nat
    <3>1. PICK k \in 1 .. d : m = d - k
      OBVIOUS
    <3> QED BY <3>1
  <2> QED BY <2>1, <2>2
<1>3. PICK m \in M : \A j \in M : m <= j
  BY <1>2, SmallestExists
<1>4. PICK k \in S : m = d - k
  OBVIOUS
<1>5. ASSUME NEW j \in S PROVE k >= j
  <2>1. d - j \in M
    OBVIOUS
  <2>2. d - k <= d - j
    BY <1>3, <1>4, <2>1
  <2>3. k \in Int /\ j \in Int /\ d \in Int
    OBVIOUS
  <2> QED BY <2>2, <2>3
<1>6. GCD(n, d) \in S
  <2>1. GCD(n, d) = CHOOSE x \in S : \A y \in S : x >= y
    BY DEF GCD, Max
  <2> HIDE DEF S
  <2> QED BY <1>5, <2>1
<1> QED BY <1>6

\* A reduced fraction: a common factor is gone.
LEMMA Reduced ==
  ASSUME NEW n \in Int, NEW d \in Nat \ {0}
  PROVE  \E p \in Int, r, g \in Nat \ {0} : Frac(n, d) = <<p, r>> /\ n = p * g /\ d = r * g
<1>1. PICK g \in Nat \ {0} : g = GCD(n, d) /\ n % g = 0 /\ d % g = 0
  BY GCDDivides
<1>2. n = (n \div g) * g /\ n \div g \in Int /\ d = (d \div g) * g /\ d \div g \in Int
  <2>1. n = (n \div g) * g /\ n \div g \in Int
    BY <1>1, Quotient
  <2>2. d \in Int
    OBVIOUS
  <2>3. d = (d \div g) * g /\ d \div g \in Int
    BY <1>1, <2>2, Quotient
  <2> QED BY <2>1, <2>3
<1>3. PICK p \in Int, r \in Int : p = n \div g /\ r = d \div g
  BY <1>2
<1>4. r > 0
  <2> SUFFICES ASSUME r <= 0 PROVE FALSE
    OBVIOUS
  <2>1. r * g <= 0 * g
    BY Multiplied
  <2> QED BY <1>2, <1>3, <2>1
<1>5. Frac(n, d) = <<p, r>>
  BY <1>1, <1>3 DEF Frac
<1>6. r \in Nat \ {0} /\ n = p * g /\ d = r * g
  BY <1>2, <1>3, <1>4
<1> QED BY <1>5, <1>6

\* Reducing a fraction does not change what it is at most.
LEMMA FracAtMost ==
  ASSUME NEW n \in Int, NEW d \in Nat \ {0}, NEW a \in Nat, NEW b \in Nat \ {0},
         n * b <= a * d, (0 - n) * b <= a * d
  PROVE  AtMost(Frac(n, d), a, b)
<1>1. PICK p \in Int, r \in Nat \ {0}, g \in Nat \ {0} : Frac(n, d) = <<p, r>> /\ n = p * g /\ d = r * g
  BY Reduced
<1>2. n = p * g /\ d = r * g
  BY <1>1
<1>3. (p * b) * g <= (a * r) * g
  <2>1. (p * b) * g = n * b /\ (a * r) * g = a * d
    BY <1>2
  <2> QED BY <2>1
<1>4. ((0 - p) * b) * g <= (a * r) * g
  <2>1. ((0 - p) * b) * g = (0 - n) * b /\ (a * r) * g = a * d
    BY <1>2
  <2> QED BY <2>1
<1>5. p * b \in Int /\ (0 - p) * b \in Int /\ a * r \in Int
  OBVIOUS
<1>6. p * b <= a * r /\ (0 - p) * b <= a * r
  BY <1>3, <1>4, <1>5, Cancel
<1>7. AtMost(<<p, r>>, a, b)
  BY <1>6 DEF AtMost, Fraction
<1> QED BY <1>1, <1>7

\* The parts of a bounded fraction.
LEMMA AtMostParts ==
  ASSUME NEW x, NEW a \in Nat, NEW b \in Nat \ {0}, AtMost(x, a, b)
  PROVE  \E p \in Int, r \in Nat \ {0} : x = <<p, r>> /\ p * b <= a * r /\ (0 - p) * b <= a * r
<1>1. PICK p \in Int, r \in Nat \ {0} : x = <<p, r>>
  BY DEF AtMost, Fraction
<1>2. p * b <= a * r /\ (0 - p) * b <= a * r
  BY <1>1 DEF AtMost
<1> QED BY <1>1, <1>2

\* Division by a number of samples.
LEMMA OverAtMost ==
  ASSUME NEW x, NEW a \in Nat, AtMost(x, a, 1), NEW n \in Nat \ {0}
  PROVE  AtMost(Over(x, n), a, n)
<1>1. PICK p \in Int, r \in Nat \ {0} : x = <<p, r>> /\ p * 1 <= a * r /\ (0 - p) * 1 <= a * r
  BY AtMostParts
<1>2. a * r \in Nat /\ p <= a * r /\ 0 - p <= a * r
  BY <1>1
<1>3. p * n <= (a * r) * n /\ (0 - p) * n <= (a * r) * n
  BY <1>2, Multiplied
<1>4. (a * r) * n = a * (r * n) /\ r * n \in Nat \ {0}
  OBVIOUS
<1>5. Over(x, n) = Frac(p, r * n)
  BY <1>1 DEF Over
<1> QED BY <1>3, <1>4, <1>5, FracAtMost

\* The sum of two fractions over the same number.
LEMMA PlusAtMost ==
  ASSUME NEW x, NEW y, NEW a \in Nat, NEW b \in Nat, NEW n \in Nat \ {0},
         AtMost(x, a, n), AtMost(y, b, n)
  PROVE  AtMost(Plus(x, y), a + b, n)
<1>1. PICK p \in Int, r \in Nat \ {0} : x = <<p, r>> /\ p * n <= a * r /\ (0 - p) * n <= a * r
  BY AtMostParts
<1>2. PICK s \in Int, t \in Nat \ {0} : y = <<s, t>> /\ s * n <= b * t /\ (0 - s) * n <= b * t
  BY AtMostParts
<1>3. /\ p * n \in Int /\ (0 - p) * n \in Int /\ a * r \in Int
      /\ s * n \in Int /\ (0 - s) * n \in Int /\ b * t \in Int
  OBVIOUS
<1>4. (p * n) * t <= (a * r) * t /\ ((0 - p) * n) * t <= (a * r) * t
  BY <1>1, <1>3, Multiplied
<1>5. (s * n) * r <= (b * t) * r /\ ((0 - s) * n) * r <= (b * t) * r
  BY <1>2, <1>3, Multiplied
<1>6. PICK u \in Int, d \in Nat \ {0} : u = (p * t) + (s * r) /\ d = r * t
  <2>1. r * t \in Nat \ {0} /\ (p * t) + (s * r) \in Int
    OBVIOUS
  <2> QED BY <2>1
<1>7. u * n = ((p * n) * t) + ((s * n) * r)
  BY <1>6
<1>8. (0 - u) * n = (((0 - p) * n) * t) + (((0 - s) * n) * r)
  BY <1>6
<1>9. (a + b) * d = ((a * r) * t) + ((b * t) * r)
  BY <1>6
<1>10. /\ (p * n) * t \in Int /\ (s * n) * r \in Int
       /\ ((0 - p) * n) * t \in Int /\ ((0 - s) * n) * r \in Int
       /\ (a * r) * t \in Int /\ (b * t) * r \in Int
  OBVIOUS
<1>11. u * n <= (a + b) * d
  BY <1>4, <1>5, <1>7, <1>9, <1>10
<1>12. (0 - u) * n <= (a + b) * d
  BY <1>4, <1>5, <1>8, <1>9, <1>10
<1>13. a + b \in Nat
  OBVIOUS
<1>14. AtMost(Frac(u, d), a + b, n)
  BY <1>11, <1>12, <1>13, FracAtMost
<1>15. Plus(x, y) = Frac(u, d)
  BY <1>1, <1>2, <1>6 DEF Plus
<1> QED BY <1>14, <1>15

\* A whole number of times a fraction.
LEMMA TimesAtMost ==
  ASSUME NEW x, NEW a \in Nat, AtMost(x, a, 1), NEW n \in Nat
  PROVE  AtMost(Times(x, Dbl(n)), a * n, 1)
<1>1. PICK p \in Int, r \in Nat \ {0} : x = <<p, r>> /\ p * 1 <= a * r /\ (0 - p) * 1 <= a * r
  BY AtMostParts
<1>2. a * r \in Int /\ p <= a * r /\ 0 - p <= a * r /\ 0 - p \in Int
  BY <1>1
<1>3. p * n <= (a * r) * n /\ (0 - p) * n <= (a * r) * n
  BY <1>2, Multiplied
<1>4. (a * r) * n = (a * n) * r /\ p * n \in Int /\ (0 - p) * n = 0 - (p * n)
  OBVIOUS
<1>5. PICK u \in Int : u = p * n
  OBVIOUS
<1>6. u * 1 <= (a * n) * r /\ (0 - u) * 1 <= (a * n) * r /\ a * n \in Nat
  BY <1>3, <1>4, <1>5
<1>7. AtMost(Frac(u, r), a * n, 1)
  BY <1>6, FracAtMost
<1>8. Times(x, Dbl(n)) = Frac(u, r)
  BY <1>1, <1>5 DEF Times, Dbl
<1> QED BY <1>7, <1>8

\* A bound a / n that is not more than b.
LEMMA AtMostWhole ==
  ASSUME NEW x, NEW a \in Nat, NEW b \in Nat, NEW n \in Nat \ {0}, AtMost(x, a, n), a <= b * n
  PROVE  AtMost(x, b, 1)
<1>1. PICK p \in Int, r \in Nat \ {0} : x = <<p, r>> /\ p * n <= a * r /\ (0 - p) * n <= a * r
  BY AtMostParts
<1>2. a * r <= (b * n) * r
  BY Multiplied
<1>3. (b * n) * r = (b * r) * n /\ b * r \in Int /\ a * r \in Int /\ p * n \in Int /\ (0 - p) * n \in Int
  OBVIOUS
<1>4. p * n <= (b * r) * n /\ (0 - p) * n <= (b * r) * n
  BY <1>1, <1>2, <1>3
<1>5. p <= b * r /\ 0 - p <= b * r
  BY <1>3, <1>4, Cancel
<1> QED BY <1>1, <1>5 DEF AtMost, Fraction

\* A whole number.
LEMMA DblAtMost ==
  ASSUME NEW m \in Int, NEW b \in Nat, m <= b, 0 - m <= b
  PROVE  AtMost(Dbl(m), b, 1)
BY DEF AtMost, Fraction, Dbl

----------------------------------------------------------------------------
(***************************************************************************)
(* The average.                                                            *)
(***************************************************************************)
AverageOK(c) ==
  /\ c.cnt \in Nat /\ c.isOverflow \in BOOLEAN
  /\ AtMost(c.val, DBL_MAX, 1)
  /\ c.cnt = 0 => c.val[1] = 0 /\ ~c.isOverflow

Written == -DBL_MAX .. DBL_MAX

\* The largest double is a natural number.
LEMMA LargestOK == DBL_MAX \in Nat \ {0} /\ \A m \in Written : m \in Int /\ m <= DBL_MAX /\ 0 - m <= DBL_MAX
BY LimitAssumption DEF Written

\* 1 divides everything, and a fraction over 1 is reduced.
LEMMA FracWhole ==
  ASSUME NEW n \in Int
  PROVE  Frac(n, 1) = <<n, 1>>
<1>1. GCD(n, 1) = 1
  BY GCDDivides
<1> QED BY <1>1 DEF Frac

\* The sum leaves the doubles only if AvgAddValue sees it coming.
LEMMA SumFits ==
  ASSUME NEW x, AtMost(x, DBL_MAX, 1), NEW m \in Written,
         ~(/\ Less(x, Dbl(0)) = Less(Dbl(m), Dbl(0))
           /\ Less(Minus(Largest, Fabs(Dbl(m))), Fabs(x)))
  PROVE  AtMost(Plus(x, Dbl(m)), DBL_MAX, 1)
<1>0. PICK D \in Nat \ {0} : D = DBL_MAX
  BY LargestOK
<1>1. PICK p \in Int, r \in Nat \ {0} : x = <<p, r>> /\ p * 1 <= D * r /\ (0 - p) * 1 <= D * r
  BY <1>0, AtMostParts
<1>2. m \in Int /\ m <= D /\ 0 - m <= D
  BY <1>0, LargestOK
<1>3. PICK k \in Nat : k = AbsInt(m)
  BY <1>2 DEF AbsInt
<1>4. PICK h \in Nat : h = AbsInt(p)
  BY DEF AbsInt
<1>5. Less(x, Dbl(0)) <=> p < 0
  BY <1>1 DEF Less, Dbl
<1>6. Less(Dbl(m), Dbl(0)) <=> m < 0
  BY <1>2 DEF Less, Dbl
<1>7. Minus(Largest, Fabs(Dbl(m))) = <<D - k, 1>>
  <2>1. Minus(Largest, Fabs(Dbl(m))) = Frac((D * 1) - (k * 1), 1 * 1)
    BY <1>0, <1>3 DEF Minus, Largest, Fabs, Dbl
  <2>2. (D * 1) - (k * 1) = D - k /\ 1 * 1 = 1 /\ D - k \in Int
    OBVIOUS
  <2> QED BY <2>1, <2>2, FracWhole
<1>8. Less(Minus(Largest, Fabs(Dbl(m))), Fabs(x)) <=> (D - k) * r < h
  <2>1. Fabs(x) = <<h, r>>
    BY <1>1, <1>4 DEF Fabs
  <2>2. Less(<<D - k, 1>>, <<h, r>>) <=> (D - k) * r < h * 1
    BY DEF Less
  <2> QED BY <1>7, <2>1, <2>2
<1>9. PICK u \in Int : u = p + (m * r)
  BY <1>2
<1>10. u <= D * r /\ 0 - u <= D * r
  <2>0. m * r \in Int /\ D * r \in Int /\ k * r \in Int /\ (D - k) * r = (D * r) - (k * r)
    BY <1>2
  <2>1. m * r <= D * r /\ (0 - m) * r <= D * r /\ (0 - m) * r = 0 - (m * r)
    BY <1>2, Multiplied
  <2>2. ~(p < 0 <=> m < 0) => u <= D * r /\ 0 - u <= D * r
    <3>1. ASSUME p < 0, ~(m < 0) PROVE u <= D * r /\ 0 - u <= D * r
      <4>1. 0 <= m * r
        BY <1>2, <3>1
      <4> QED BY <1>1, <1>9, <2>0, <2>1, <3>1, <4>1
    <3>2. ASSUME ~(p < 0), m < 0 PROVE u <= D * r /\ 0 - u <= D * r
      <4>1. m * r <= 0 * r
        BY <1>2, <3>2, Multiplied
      <4> QED BY <1>1, <1>9, <2>0, <2>1, <3>2, <4>1
    <3> QED BY <3>1, <3>2
  <2>3. ~((D - k) * r < h) => u <= D * r /\ 0 - u <= D * r
    <3> SUFFICES ASSUME ~((D - k) * r < h) PROVE u <= D * r /\ 0 - u <= D * r
      OBVIOUS
    <3>1. h + (k * r) <= D * r
      BY <2>0
    <3>2. m * r <= k * r /\ (0 - m) * r <= k * r
      <4>1. m <= k /\ 0 - m <= k /\ 0 - m \in Int
        BY <1>2, <1>3 DEF AbsInt
      <4> QED BY <1>2, <4>1, Multiplied
    <3>3. p <= h /\ 0 - p <= h
      BY <1>4 DEF AbsInt
    <3> QED BY <1>9, <2>0, <2>1, <3>1, <3>2, <3>3
  <2>4. (p < 0 <=> m < 0) => Less(x, Dbl(0)) = Less(Dbl(m), Dbl(0))
    <3> SUFFICES ASSUME p < 0 <=> m < 0 PROVE Less(x, Dbl(0)) = Less(Dbl(m), Dbl(0))
      OBVIOUS
    <3>1. Less(x, Dbl(0)) <=> Less(Dbl(m), Dbl(0))
      BY <1>5, <1>6
    <3> QED BY <3>1 DEF Less
  <2>5. ~(p < 0 <=> m < 0) \/ ~((D - k) * r < h)
    BY <1>8, <2>4, Zenon
  <2> QED BY <2>2, <2>3, <2>5
<1>11. Plus(x, Dbl(m)) = Frac(u, r)
  <2>1. Plus(x, Dbl(m)) = Frac((p * 1) + (m * r), r * 1)
    BY <1>1 DEF Plus, Dbl
  <2>2. (p * 1) + (m * r) = u /\ r * 1 = r
    BY <1>2, <1>9
  <2> QED BY <2>1, <2>2
<1>12. AtMost(Frac(u, r), D, 1)
  <2>1. u * 1 <= D * r /\ (0 - u) * 1 <= D * r /\ D \in Nat
    BY <1>10
  <2> QED BY <2>1, FracAtMost
<1> QED BY <1>0, <1>11, <1>12

\* AvgAddValue keeps the average, or the sum, among the doubles.
LEMMA AverageStays ==
  ASSUME NEW c, AverageOK(c), NEW m \in Written
  PROVE  AverageOK(AvgAddValue(c, Dbl(m)))
<1>0. PICK D \in Nat \ {0} : D = DBL_MAX
  BY LargestOK
<1> DEFINE v == Dbl(m)
           x == c.val
           n == c.cnt + 1
           new == AvgAddValue(c, v)
           test == /\ Less(x, Dbl(0)) = Less(v, Dbl(0))
                   /\ Less(Minus(Largest, Fabs(v)), Fabs(x))
           sum == IF c.isOverflow THEN Times(x, Dbl(n - 1)) ELSE x
           mean == Plus(Over(sum, n), Over(v, n))
<1>1. c.cnt \in Nat /\ n \in Nat \ {0} /\ n - 1 = c.cnt /\ AtMost(x, D, 1)
  BY <1>0 DEF AverageOK
<1>2. /\ new.cnt = n
      /\ new.isOverflow = (test \/ c.isOverflow)
      /\ new.val = IF test \/ c.isOverflow THEN mean ELSE Plus(x, v)
  BY DEF AvgAddValue
<1>3. m \in Int /\ m <= D /\ 0 - m <= D
  BY <1>0, LargestOK
<1>4. AtMost(v, D, 1)
  BY <1>3, DblAtMost
<1>5. AtMost(Over(v, n), D, n)
  BY <1>1, <1>4, OverAtMost
<1>6. ASSUME ~(test \/ c.isOverflow) PROVE AtMost(new.val, D, 1)
  <2>1. AtMost(Plus(x, v), D, 1)
    BY <1>0, <1>1, <1>6, SumFits
  <2> QED BY <1>2, <1>6, <2>1
<1>7. ASSUME c.isOverflow PROVE AtMost(mean, D, 1)
  <2>1. PICK k \in Nat : k = c.cnt /\ n = k + 1
    BY <1>1
  <2> HIDE DEF n
  <2>2. AtMost(Times(x, Dbl(k)), D * k, 1) /\ D * k \in Nat
    BY <1>1, TimesAtMost
  <2>3. sum = Times(x, Dbl(k))
    BY <1>1, <1>7, <2>1
  <2> HIDE DEF sum, x, v
  <2>4. AtMost(Over(sum, n), D * k, n)
    BY <1>1, <2>2, <2>3, OverAtMost
  <2>5. AtMost(mean, (D * k) + D, n)
    BY <1>1, <1>5, <2>2, <2>4, PlusAtMost
  <2>6. (D * k) + D = D * n /\ (D * k) + D \in Nat
    BY <2>1, <2>2
  <2> HIDE DEF mean
  <2> QED BY <1>1, <2>5, <2>6, AtMostWhole
<1>8. ASSUME test, ~c.isOverflow PROVE AtMost(mean, D, 1)
  <2>1. c.cnt # 0
    <3> SUFFICES ASSUME c.cnt = 0 PROVE FALSE
      OBVIOUS
    <3>1. PICK p \in Int, r \in Nat \ {0} : x = <<p, r>>
      BY <1>1 DEF AtMost, Fraction
    <3>2. p = 0
      BY <3>1 DEF AverageOK
    <3>3. PICK k \in Nat : k = AbsInt(m) /\ k <= D
      BY <1>3 DEF AbsInt
    <3>4. Fabs(x) = <<0, r>>
      BY <3>1, <3>2 DEF Fabs, AbsInt
    <3>5. Minus(Largest, Fabs(v)) = <<D - k, 1>>
      <4>1. Minus(Largest, Fabs(v)) = Frac((D * 1) - (k * 1), 1 * 1)
        BY <1>0, <3>3 DEF Minus, Largest, Fabs, Dbl
      <4>2. (D * 1) - (k * 1) = D - k /\ 1 * 1 = 1 /\ D - k \in Int
        OBVIOUS
      <4> QED BY <4>1, <4>2, FracWhole
    <3>6. Less(<<D - k, 1>>, <<0, r>>) <=> (D - k) * r < 0 * 1
      BY DEF Less
    <3>7. 0 * r <= (D - k) * r
      BY <3>3, Multiplied
    <3> QED BY <1>8, <3>4, <3>5, <3>6, <3>7
  <2>2. n >= 2
    BY <1>1, <2>1
  <2> HIDE DEF n
  <2>3. sum = x
    BY <1>8
  <2>4. AtMost(Over(sum, n), D, n)
    BY <1>1, <2>3, OverAtMost
  <2> HIDE DEF sum, x, v
  <2>5. AtMost(mean, D + D, n)
    BY <1>1, <1>5, <2>4, PlusAtMost
  <2>6. D + D \in Nat /\ D + D <= D * n
    <3>1. PICK k \in Nat : n = 2 + k
      <4>1. n - 2 \in Nat /\ n = 2 + (n - 2)
        BY <1>1, <2>2
      <4> QED BY <4>1
    <3>2. D * n = D + D + (D * k) /\ D * k \in Nat
      BY <3>1
    <3> QED BY <3>2
  <2> HIDE DEF mean
  <2> QED BY <1>1, <2>5, <2>6, AtMostWhole
<1>9. AtMost(new.val, D, 1)
  BY <1>2, <1>6, <1>7, <1>8
<1>10. new.isOverflow \in BOOLEAN
  BY <1>2, Zenon
<1> HIDE DEF new
<1>11. new.cnt \in Nat /\ new.cnt # 0
  BY <1>1, <1>2
<1>12. AverageOK(new)
  BY <1>0, <1>9, <1>10, <1>11 DEF AverageOK
<1> QED BY <1>12 DEF new

\* AverageOK is what AverageFits asks for.
LEMMA AverageFitsIf ==
  ASSUME NEW c, AverageOK(c)
  PROVE  ~Less(Largest, Fabs(c.val))
<1>0. PICK D \in Nat \ {0} : D = DBL_MAX
  BY LargestOK
<1>1. PICK p \in Int, r \in Nat \ {0} : c.val = <<p, r>> /\ p * 1 <= D * r /\ (0 - p) * 1 <= D * r
  BY <1>0, AtMostParts DEF AverageOK
<1>2. PICK h \in Nat : h = AbsInt(p) /\ h <= D * r
  BY <1>1 DEF AbsInt
<1>3. Fabs(c.val) = <<h, r>> /\ Largest = <<D, 1>>
  BY <1>0, <1>1, <1>2 DEF Fabs, Largest, Dbl
<1>4. Less(<<D, 1>>, <<h, r>>) <=> D * r < h * 1
  BY DEF Less
<1> QED BY <1>2, <1>3, <1>4

----------------------------------------------------------------------------
(***************************************************************************)
(* The grid of buckets, before the starts wrap around.                     *)
(***************************************************************************)
Floor(t, d, a) == t - ((t - a) % d)
OnGrid(b, d, a) == \E k \in Int : b = a + (d * k)

\* Multiples of d are at least d apart.
LEMMA Multiples ==
  ASSUME NEW d \in Nat \ {0}, NEW m \in Int, NEW k \in Int, m < k
  PROVE  (d * m) + d <= d * k
<1>1. PICK j \in Nat : k = m + 1 + j
  <2>1. k - m - 1 \in Nat /\ k = m + 1 + (k - m - 1)
    OBVIOUS
  <2> QED BY <2>1
<1>2. d * j >= 0 /\ d * j \in Int /\ d * m \in Int
  OBVIOUS
<1>3. d * k = (d * m) + d + (d * j)
  BY <1>1
<1> QED BY <1>2, <1>3

\* Quotient and remainder are unique.
LEMMA ModIs ==
  ASSUME NEW d \in Nat \ {0}, NEW x \in Int, NEW k \in Int, NEW r \in 0 .. d - 1, x = (d * k) + r
  PROVE  x % d = r
<1>1. PICK y \in Int, s \in 0 .. d - 1 : s = x % d /\ x = (d * y) + s
  BY DivMod
<1>2. d * y \in Int /\ d * k \in Int /\ (d * y) + s = (d * k) + r
  BY <1>1
<1>3. ~(y < k)
  <2> SUFFICES ASSUME y < k PROVE FALSE
    OBVIOUS
  <2>1. (d * y) + d <= d * k
    BY Multiples
  <2> QED BY <1>2, <2>1
<1>4. ~(k < y)
  <2> SUFFICES ASSUME k < y PROVE FALSE
    OBVIOUS
  <2>1. (d * k) + d <= d * y
    BY Multiples
  <2> QED BY <1>2, <2>1
<1>5. y = k
  BY <1>3, <1>4
<1> QED BY <1>1, <1>2, <1>5

\* Numbers of the grid are at least a bucket apart.
LEMMA Apart ==
  ASSUME NEW d \in Nat \ {0}, NEW a \in Int, NEW b \in Int, NEW c \in Int,
         OnGrid(b, d, a), OnGrid(c, d, a), b < c
  PROVE  b + d <= c
<1>1. PICK m \in Int : b = a + (d * m)
  BY DEF OnGrid
<1>2. PICK k \in Int : c = a + (d * k)
  BY DEF OnGrid
<1>3. d * m \in Int /\ d * k \in Int /\ d * m < d * k
  BY <1>1, <1>2
<1>4. m < k
  <2> SUFFICES ASSUME ~(m < k) PROVE FALSE
    OBVIOUS
  <2>1. k < m \/ k = m
    OBVIOUS
  <2>2. k < m => (d * k) + d <= d * m
    BY Multiples
  <2> QED BY <1>3, <2>1, <2>2
<1>5. (d * m) + d <= d * k
  BY <1>4, Multiples
<1> QED BY <1>1, <1>2, <1>3, <1>5

\* The start of a bucket is the last number of the grid that is not later.
LEMMA FloorFacts ==
  ASSUME NEW d \in Nat \ {0}, NEW a \in Int, NEW t \in Int
  PROVE  /\ Floor(t, d, a) \in Int /\ Floor(t, d, a) <= t /\ t < Floor(t, d, a) + d
         /\ OnGrid(Floor(t, d, a), d, a)
<1>1. PICK x \in Int : x = t - a
  OBVIOUS
<1>2. PICK y \in Int, s \in 0 .. d - 1 : s = x % d /\ x = (d * y) + s
  BY DivMod
<1>3. Floor(t, d, a) = t - s /\ d * y \in Int
  BY <1>1, <1>2 DEF Floor
<1>4. Floor(t, d, a) = a + (d * y)
  <2>1. PICK z \in Int : z = d * y
    BY <1>3
  <2>2. t - a = z + s
    BY <1>1, <1>2, <2>1
  <2> QED BY <1>3, <2>1, <2>2
<1>5. OnGrid(Floor(t, d, a), d, a)
  BY <1>4 DEF OnGrid
<1> QED BY <1>2, <1>3, <1>5

\* A number of the grid is the start of the bucket that it begins.
LEMMA FloorIs ==
  ASSUME NEW d \in Nat \ {0}, NEW a \in Int, NEW t \in Int, NEW b \in Int,
         OnGrid(b, d, a), b <= t, t < b + d
  PROVE  Floor(t, d, a) = b
<1>1. PICK f \in Int : f = Floor(t, d, a) /\ f <= t /\ t < f + d /\ OnGrid(f, d, a)
  BY FloorFacts
<1>2. ~(f < b)
  <2> SUFFICES ASSUME f < b PROVE FALSE
    OBVIOUS
  <2>1. f + d <= b
    BY <1>1, Apart
  <2> QED BY <1>1, <2>1
<1>3. ~(b < f)
  <2> SUFFICES ASSUME b < f PROVE FALSE
    OBVIOUS
  <2>1. b + d <= f
    BY <1>1, Apart
  <2> QED BY <1>1, <2>1
<1> QED BY <1>1, <1>2, <1>3

\* Later timestamps are in later buckets.
LEMMA FloorOrder ==
  ASSUME NEW d \in Nat \ {0}, NEW a \in Int, NEW t \in Int, NEW u \in Int, t <= u
  PROVE  Floor(t, d, a) <= Floor(u, d, a)
<1>1. PICK f \in Int : f = Floor(t, d, a) /\ f <= t /\ t < f + d /\ OnGrid(f, d, a)
  BY FloorFacts
<1>2. PICK g \in Int : g = Floor(u, d, a) /\ g <= u /\ u < g + d /\ OnGrid(g, d, a)
  BY FloorFacts
<1>3. ~(g < f)
  <2> SUFFICES ASSUME g < f PROVE FALSE
    OBVIOUS
  <2>1. g + d <= f
    BY <1>1, <1>2, Apart
  <2> QED BY <1>1, <1>2, <2>1
<1> QED BY <1>1, <1>2, <1>3

\* All timestamps whose bucket begins before 0 are in the same bucket.
LEMMA FirstBucket ==
  ASSUME NEW d \in Nat \ {0}, NEW a \in Int, NEW t \in Nat, NEW u \in Nat,
         Floor(t, d, a) < 0, Floor(u, d, a) < 0
  PROVE  Floor(t, d, a) = Floor(u, d, a)
<1>0. t \in Int /\ u \in Int
  OBVIOUS
<1>1. PICK f \in Int : f = Floor(t, d, a) /\ f <= t /\ t < f + d /\ OnGrid(f, d, a)
  BY <1>0, FloorFacts
<1>2. PICK g \in Int : g = Floor(u, d, a) /\ g <= u /\ u < g + d /\ OnGrid(g, d, a)
  BY <1>0, FloorFacts
<1>3. ~(g < f)
  <2> SUFFICES ASSUME g < f PROVE FALSE
    OBVIOUS
  <2>1. g + d <= f
    BY <1>1, <1>2, Apart
  <2> QED BY <1>1, <1>2, <2>1
<1>4. ~(f < g)
  <2> SUFFICES ASSUME f < g PROVE FALSE
    OBVIOUS
  <2>1. f + d <= g
    BY <1>1, <1>2, Apart
  <2> QED BY <1>1, <1>2, <2>1
<1> QED BY <1>1, <1>2, <1>3, <1>4

----------------------------------------------------------------------------
(***************************************************************************)
(* Unsigned numbers.                                                       *)
(***************************************************************************)

\* There are unsigned numbers.
LEMMA WordOK == Word \in Nat \ {0}
BY LimitAssumption

\* An unsigned number is one.
LEMMA UnsignedType ==
  ASSUME NEW x \in Int
  PROVE  Unsigned(x) \in 0 .. Word - 1
BY WordOK, DivMod DEF Unsigned

\* What is in range does not wrap around,
LEMMA UnsignedIs ==
  ASSUME NEW x \in 0 .. Word - 1
  PROVE  Unsigned(x) = x
<1>1. x = (Word * 0) + x /\ x \in Int /\ 0 \in Int
  BY WordOK
<1> QED BY <1>1, WordOK, ModIs DEF Unsigned

\* and what is negative does once.
LEMMA UnsignedWraps ==
  ASSUME NEW x \in Int, x < 0, 0 <= Word + x
  PROVE  Unsigned(x) = Word + x
<1>0. PICK W \in Nat \ {0} : W = Word
  BY WordOK
<1>1. x = (W * (-1)) + (W + x) /\ W + x \in 0 .. W - 1 /\ -1 \in Int
  BY <1>0
<1>2. PICK r \in 0 .. W - 1 : r = W + x
  BY <1>1
<1>3. x = (W * (-1)) + r
  BY <1>1, <1>2
<1>4. x % W = r
  BY <1>1, <1>3, ModIs
<1> QED BY <1>0, <1>2, <1>4 DEF Unsigned

\* The signed number that the bits of an unsigned one stand for.
LEMMA SignedType ==
  ASSUME NEW x \in 0 .. Word - 1
  PROVE  Signed(x) \in Int /\ BucketStartNormalize(x) \in 0 .. Word - 1
<1>0. PICK W \in Nat \ {0} : W = Word
  BY WordOK
<1>1. x \in 0 .. W - 1 /\ Signed(x) = IF 2 * x >= W THEN x - W ELSE x
  BY <1>0 DEF Signed
<1> QED BY <1>0, <1>1 DEF BucketStartNormalize, MaxOf

\* A signed number survives the way through the unsigned ones.
LEMMA SignedIs ==
  ASSUME NEW x \in Int, 0 - Word <= 2 * x, 2 * x < Word
  PROVE  Signed(Unsigned(x)) = x
<1>0. PICK W \in Nat \ {0} : W = Word
  BY WordOK
<1>1. CASE x < 0
  <2>1. Unsigned(x) = W + x
    BY <1>0, <1>1, UnsignedWraps
  <2> QED BY <1>0, <1>1, <2>1 DEF Signed
<1>2. CASE x >= 0
  <2>1. Unsigned(x) = x
    BY <1>0, <1>2, UnsignedIs
  <2> QED BY <1>0, <1>2, <2>1 DEF Signed
<1> QED BY <1>1, <1>2

\* A step back, clipped at 0.
LEMMA StepBackType ==
  ASSUME NEW b \in Int, NEW d \in Int
  PROVE  StepBack(b, d) \in 0 .. Word - 1
<1>1. b - d \in Int
  OBVIOUS
<1>2. Unsigned(b - d) \in 0 .. Word - 1
  BY <1>1, UnsignedType
<1> QED BY <1>2, SignedType DEF StepBack

\* A step back that is a signed number.
LEMMA StepBackIs ==
  ASSUME NEW b \in Int, NEW d \in Int, NEW x \in Nat, x = b - d, 2 * x < Word
  PROVE  StepBack(b, d) = x
<1>0. PICK W \in Nat \ {0} : W = Word
  BY WordOK
<1>1. x \in Int /\ 0 - Word <= 2 * x
  BY <1>0
<1>2. Signed(Unsigned(x)) = x
  BY <1>1, SignedIs
<1> QED BY <1>2 DEF StepBack, BucketStartNormalize, MaxOf

\* The remainder of C.
LEMMA RemainderType ==
  ASSUME NEW x \in Int, NEW n \in Nat \ {0}
  PROVE  Remainder(x, n) \in Int /\ Remainder(x, n) < n /\ 0 - n < Remainder(x, n)
<1>1. x % n \in 0 .. n - 1 /\ (-x) % n \in 0 .. n - 1
  BY DivMod
<1> QED BY <1>1 DEF Remainder

\* modulo, the macro, makes a number.
LEMMA ModuloType ==
  ASSUME NEW x \in Int, NEW n \in Nat \ {0}
  PROVE  Modulo(x, n) \in Int
<1>1. Remainder(x, n) + n \in Int
  BY RemainderType
<1>2. Unsigned(Remainder(x, n) + n) \in 0 .. Word - 1
  BY <1>1, UnsignedType
<1>3. Signed(Unsigned(Remainder(x, n) + n)) \in Int
  BY <1>2, SignedType
<1> QED BY <1>3, RemainderType DEF Modulo

\* Where the sum is a signed number, modulo is the remainder that is not negative.
LEMMA ModuloIs ==
  ASSUME NEW x \in Int, NEW n \in Nat \ {0}, 4 * n <= Word
  PROVE  Modulo(x, n) = x % n
<1>0. PICK W \in Nat \ {0} : W = Word
  BY WordOK
<1>1. PICK r \in Int : r = Remainder(x, n) /\ r < n /\ 0 - n < r
  BY RemainderType
<1>2. PICK y \in Int : y = r + n /\ y > 0 /\ y < n + n
  BY <1>1
<1>3. Signed(Unsigned(y)) = y
  <2>1. 0 - Word <= 2 * y /\ 2 * y < Word
    BY <1>0, <1>2
  <2> QED BY <2>1, SignedIs
<1>4. Modulo(x, n) = y % n
  BY <1>1, <1>2, <1>3 DEF Modulo, Remainder
<1>5. PICK k \in Int : x = (n * k) + r
  <2>1. CASE x < 0
    <3>0. PICK w \in Int : w = -x
      OBVIOUS
    <3>1. PICK m \in Int : w = (n * m) + (w % n) /\ w % n \in Int
      <4>1. w % n \in 0 .. n - 1 /\ w \div n \in Int /\ w = (n * (w \div n)) + (w % n)
        BY DivMod
      <4>2. w % n \in Int
        BY <4>1
      <4> QED BY <4>1, <4>2, Zenon
    <3>2. r = -(w % n)
      BY <1>1, <2>1, <3>0 DEF Remainder
    <3>3. n * (-m) = -(n * m) /\ -m \in Int /\ n * m \in Int
      OBVIOUS
    <3>4. x = (n * (-m)) + r
      BY <3>0, <3>1, <3>2, <3>3
    <3> QED BY <3>3, <3>4
  <2>2. CASE x >= 0
    <3>1. r = x % n
      BY <1>1, <2>2 DEF Remainder
    <3> QED BY <3>1, DivMod
  <2> QED BY <2>1, <2>2
<1>6. PICK j \in Int, z \in 0 .. n - 1 : z = y % n /\ y = (n * j) + z
  BY DivMod
<1>7. x = (n * (k + j - 1)) + z /\ k + j - 1 \in Int
  <2>1. n * (k + j - 1) = (n * k) + (n * j) - n /\ n * k \in Int /\ n * j \in Int
    OBVIOUS
  <2> QED BY <1>2, <1>5, <1>6, <2>1
<1>8. x % n = z
  BY <1>7, ModIs
<1> QED BY <1>4, <1>6, <1>8

\* The start of a bucket is an unsigned number, whatever the duration.
LEMMA BucketStartType ==
  ASSUME NEW t \in Int, NEW d \in Nat \ {0}, NEW a \in Int
  PROVE  CalcBucketStart(t, d, a) \in 0 .. Word - 1
<1>1. t - a \in Int
  OBVIOUS
<1>2. Signed(Unsigned(t - a)) \in Int
  BY <1>1, UnsignedType, SignedType
<1>3. Modulo(Signed(Unsigned(t - a)), d) \in Int
  BY <1>2, ModuloType
<1>4. t - Modulo(Signed(Unsigned(t - a)), d) \in Int
  BY <1>3
<1> QED BY <1>4, UnsignedType DEF CalcBucketStart

\* The distance of t from a is a signed number.
Near(t, a) == 0 - Word <= 2 * (t - a) /\ 2 * (t - a) < Word

\* Timestamps are near each other.
LEMMA TimesNear ==
  ASSUME NEW t \in Nat, NEW a \in Nat, 2 * t < Word, 2 * a < Word
  PROVE  Near(t, a)
BY WordOK DEF Near

\* The start of a bucket, wrapped around and normalized.
LEMMA BucketStarts ==
  ASSUME NEW t \in Nat, NEW d \in Nat \ {0}, NEW a \in Nat, t < Word, 4 * d <= Word, Near(t, a)
  PROVE  /\ Floor(t, d, a) \in Int /\ Floor(t, d, a) <= t /\ t < Floor(t, d, a) + d
         /\ CalcBucketStart(t, d, a) \in 0 .. Word - 1
         /\ Floor(t, d, a) >= 0 => CalcBucketStart(t, d, a) = Floor(t, d, a)
         /\ Floor(t, d, a) < 0 => CalcBucketStart(t, d, a) = Word + Floor(t, d, a)
         /\ 2 * t < Word => BucketStartNormalize(CalcBucketStart(t, d, a))
                              = IF Floor(t, d, a) < 0 THEN 0 ELSE Floor(t, d, a)
<1>0. PICK W \in Nat \ {0} : W = Word
  BY WordOK
<1>1. PICK f \in Int : f = Floor(t, d, a) /\ f <= t /\ t < f + d
  <2>1. t \in Int /\ a \in Int
    OBVIOUS
  <2> QED BY <2>1, FloorFacts
<1>2. PICK b : b = CalcBucketStart(t, d, a)
  OBVIOUS
<1>3. b = Unsigned(f)
  <2>1. PICK x \in Int : x = t - a
    OBVIOUS
  <2>2. Signed(Unsigned(x)) = x
    BY <2>1, SignedIs DEF Near
  <2>3. Modulo(x, d) = x % d
    BY ModuloIs
  <2>4. b = Unsigned(t - (x % d))
    BY <1>2, <2>1, <2>2, <2>3 DEF CalcBucketStart
  <2> QED BY <1>1, <2>1, <2>4 DEF Floor
<1>4. b \in 0 .. W - 1
  BY <1>0, <1>3, UnsignedType
<1>5. f >= 0 => b = f
  BY <1>0, <1>1, <1>3, UnsignedIs
<1>6. f < 0 => b = W + f
  BY <1>0, <1>1, <1>3, UnsignedWraps
<1>7. 2 * t < W => BucketStartNormalize(b) = IF f < 0 THEN 0 ELSE f
  <2> SUFFICES ASSUME 2 * t < W PROVE BucketStartNormalize(b) = IF f < 0 THEN 0 ELSE f
    OBVIOUS
  <2>1. CASE f < 0
    <3>1. b = W + f /\ 2 * b >= W
      BY <1>0, <1>1, <1>6, <2>1
    <3>2. Signed(b) = f
      BY <1>0, <3>1 DEF Signed
    <3> QED BY <2>1, <3>2 DEF BucketStartNormalize, MaxOf
  <2>2. CASE f >= 0
    <3>1. b = f /\ ~(2 * b >= W)
      BY <1>0, <1>1, <1>5, <2>2
    <3>2. Signed(b) = f
      BY <1>0, <3>1 DEF Signed
    <3> QED BY <2>2, <3>2 DEF BucketStartNormalize, MaxOf
  <2> QED BY <2>1, <2>2
<1> QED BY <1>0, <1>1, <1>2, <1>4, <1>5, <1>6, <1>7

----------------------------------------------------------------------------
(***************************************************************************)
(* Sets in order.                                                          *)
(***************************************************************************)
\* The rank of an element: how many are smaller.
Rank(S, t) == Cardinality({u \in S : u < t})

\* Ranks are different and respect the order.
LEMMA RankOrder ==
  ASSUME NEW S \in SUBSET Int, IsFiniteSet(S), NEW t \in S
  PROVE  /\ Rank(S, t) \in 0 .. Cardinality(S) - 1
         /\ \A v \in S : t < v => Rank(S, t) < Rank(S, v)
<1> DEFINE below(x) == {u \in S : u < x}
<1>1. ASSUME NEW x \in S PROVE IsFiniteSet(below(x)) /\ Rank(S, x) \in Nat
  BY FS_Subset, FS_CardinalityType DEF Rank
<1>2. Rank(S, t) <= Cardinality(S) /\ Rank(S, t) # Cardinality(S) /\ Cardinality(S) \in Nat
  <2>1. below(t) \in SUBSET S /\ t \notin below(t)
    OBVIOUS
  <2> QED BY <2>1, FS_Subset, FS_CardinalityType DEF Rank
<1>3. ASSUME NEW v \in S, t < v PROVE Rank(S, t) < Rank(S, v)
  <2>0. t \in Int /\ v \in Int /\ \A u \in S : u \in Int
    OBVIOUS
  <2>1. below(t) \in SUBSET below(v) /\ t \in below(v) /\ t \notin below(t)
    <3>1. ASSUME NEW u \in below(t) PROVE u \in below(v)
      BY <2>0, <1>3
    <3>2. t \in below(v) /\ t \notin below(t)
      BY <2>0, <1>3
    <3> QED BY <3>1, <3>2
  <2>2. IsFiniteSet(below(v)) /\ Rank(S, t) \in Nat /\ Rank(S, v) \in Nat
    BY <1>1, <1>3
  <2> HIDE DEF below
  <2>3. Cardinality(below(t)) <= Cardinality(below(v)) /\ Cardinality(below(t)) # Cardinality(below(v))
    BY <2>1, <2>2, FS_Subset
  <2> QED BY <2>2, <2>3 DEF Rank, below
<1>4. Rank(S, t) \in Nat
  BY <1>1
<1>5. Rank(S, t) \in 0 .. Cardinality(S) - 1
  BY <1>2, <1>4
<1> QED BY <1>3, <1>5

\* Every number below the cardinality is the rank of some element.
LEMMA RankExists ==
  ASSUME NEW S \in SUBSET Int, IsFiniteSet(S), NEW k \in 0 .. Cardinality(S) - 1
  PROVE  \E t \in S : Rank(S, t) = k
<1> DEFINE N == Cardinality(S)
           T == 0 .. N - 1
           f == [t \in S |-> Rank(S, t)]
<1>1. N \in Nat
  BY FS_CardinalityType
<1>2. IsFiniteSet(T) /\ Cardinality(T) = N
  BY <1>1, FS_Interval
<1>3. f \in [S -> T]
  BY RankOrder
<1>4. ASSUME NEW t \in S, NEW v \in S, f[t] = f[v] PROVE t = v
  <2>1. /\ t < v => Rank(S, t) < Rank(S, v)
        /\ v < t => Rank(S, v) < Rank(S, t)
        /\ Rank(S, t) \in Nat /\ Rank(S, v) \in Nat
    BY RankOrder
  <2> QED BY <2>1, <1>4
<1>5. f \in Injection(S, T)
  BY <1>3, <1>4 DEF Injection, IsInjective
<1>6. f \in Surjection(S, T)
  BY <1>2, <1>5, FS_Injection
<1> QED BY <1>6 DEF Surjection

\* Ascending enumerates a finite set.
LEMMA AscendingSorts ==
  ASSUME NEW S \in SUBSET Int, IsFiniteSet(S)
  PROVE  /\ Ascending(S) \in [1 .. Cardinality(S) -> S]
         /\ Cardinality(S) \in Nat
         /\ \A i, j \in 1 .. Cardinality(S) : i < j => Ascending(S)[i] < Ascending(S)[j]
<1> DEFINE N == Cardinality(S)
           o == Ascending(S)
<1>1. N \in Nat
  BY FS_CardinalityType
<1>2. o = [i \in 1 .. N |-> CHOOSE t \in S : Rank(S, t) = i - 1]
  BY DEF Ascending, Rank
<1> HIDE DEF N, o
<1>3. ASSUME NEW i \in 1 .. N PROVE o[i] \in S /\ Rank(S, o[i]) = i - 1
  <2>1. i - 1 \in 0 .. Cardinality(S) - 1
    BY <1>1 DEF N
  <2>2. \E t \in S : Rank(S, t) = i - 1
    BY <2>1, RankExists
  <2> QED BY <1>2, <2>2
<1>4. ASSUME NEW i \in 1 .. N, NEW j \in 1 .. N, i < j PROVE o[i] < o[j]
  <2>1. PICK t \in S, u \in S : t = o[i] /\ u = o[j] /\ Rank(S, t) = i - 1 /\ Rank(S, u) = j - 1
    BY <1>3
  <2>2. t # u /\ (u < t => Rank(S, u) < Rank(S, t)) /\ t \in Int /\ u \in Int
    BY <2>1, <1>4, <1>1, RankOrder
  <2> QED BY <2>1, <2>2, <1>1, <1>4
<1> QED BY <1>1, <1>2, <1>3, <1>4 DEF N, o

\* SamplesAt lists the samples with timestamps in T.
LEMMA SamplesAtLists ==
  ASSUME NEW s, NEW T \in SUBSET Int, IsFiniteSet(T)
  PROVE  /\ Cardinality(T) \in Nat
         /\ \E o \in [1 .. Cardinality(T) -> T] :
              SamplesAt(s, T) = [i \in 1 .. Cardinality(T) |-> [ts |-> o[i], value |-> s[o[i]]]]
<1>1. PICK o : o = Ascending(T)
  OBVIOUS
<1>2. o \in [1 .. Cardinality(T) -> T] /\ Cardinality(T) \in Nat
  BY <1>1, AscendingSorts
<1>3. SamplesAt(s, T) = [i \in DOMAIN o |-> Sample(s, o[i])]
  BY <1>1 DEF SamplesAt
<1>4. SamplesAt(s, T) = [i \in 1 .. Cardinality(T) |-> [ts |-> o[i], value |-> s[o[i]]]]
  BY <1>2, <1>3 DEF Sample
<1> QED BY <1>2, <1>4

----------------------------------------------------------------------------
(***************************************************************************)
(* The context of an average.                                              *)
(***************************************************************************)

\* A new or reset context.
LEMMA AverageCreated ==
  ASSUME NEW reverse
  PROVE  AverageOK(CreateContext("avg", reverse))
<1>1. CreateContext("avg", reverse) = [val |-> Dbl(0), cnt |-> 0, isOverflow |-> FALSE]
  BY DEF CreateContext, MaxMin, SingleValue, Var
<1>2. AtMost(Dbl(0), DBL_MAX, 1)
  BY DblAtMost, LargestOK
<1>3. Dbl(0)[1] = 0
  BY DEF Dbl
<1>4. PICK c : c = CreateContext("avg", reverse)
  OBVIOUS
<1>5. c.cnt = 0 /\ c.isOverflow = FALSE /\ c.val = Dbl(0)
  BY <1>1, <1>4
<1>6. AverageOK(c)
  <2>0. c.cnt \in Nat
    BY <1>5
  <2>1. c.isOverflow \in BOOLEAN /\ ~c.isOverflow
    BY <1>5, Zenon
  <2>2. AtMost(c.val, DBL_MAX, 1) /\ c.val[1] = 0
    BY <1>2, <1>3, <1>5, Zenon
  <2> QED BY <2>0, <2>1, <2>2 DEF AverageOK
<1> QED BY <1>4, <1>6

\* A sample is appended.
LEMMA AverageAppended ==
  ASSUME NEW c, AverageOK(c), NEW s, NEW m \in Written, s.value = Dbl(m)
  PROVE  AverageOK(AppendValue("avg", c, s))
<1>1. AppendValue("avg", c, s) = AvgAddValue(c, s.value)
  BY DEF AppendValue, Var
<1> QED BY <1>1, AverageStays

\* Samples are appended one after the other.
LEMMA AverageFed ==
  ASSUME rule = "avg", NEW c, AverageOK(c), NEW samples, NEW n \in Nat, Len(samples) = n,
         \A i \in 1 .. n : \E m \in Written : samples[i].value = Dbl(m)
  PROVE  AverageOK(Appended(c, samples))
<1> DEFINE Step(f, i) == IF i = 0 THEN c ELSE AppendValue(rule, f[i - 1], samples[i])
           F == CHOOSE f : f = [i \in 0 .. n |-> Step(f, i)]
           Bad == {k \in Nat : ~(\E f : f = [i \in 0 .. k |-> Step(f, i)])}
<1>1. Appended(c, samples) = F[n]
  BY DEF Appended
<1>2. Bad = {}
  <2> SUFFICES ASSUME Bad # {} PROVE FALSE
    OBVIOUS
  <2>1. PICK k \in Bad : \A j \in Bad : k <= j
    BY SmallestExists
  <2>2. CASE k = 0
    <3>1. PICK f : f = [i \in 0 .. 0 |-> c]
      OBVIOUS
    <3>2. f = [i \in 0 .. k |-> Step(f, i)]
      BY <2>2, <3>1
    <3> QED BY <3>2
  <2>3. CASE k # 0
    <3>1. k \in Nat /\ k - 1 \in Nat /\ k - 1 < k
      BY <2>3
    <3>2. k - 1 \notin Bad
      BY <2>1, <3>1
    <3>3. PICK f : f = [i \in 0 .. k - 1 |-> Step(f, i)]
      BY <3>1, <3>2
    <3> DEFINE g == [i \in 0 .. k |-> IF i = k THEN AppendValue(rule, f[k - 1], samples[k]) ELSE f[i]]
    <3>4. ASSUME NEW i \in 0 .. k PROVE g[i] = Step(g, i)
      <4>1. CASE i = k
        <5>1. k - 1 \in 0 .. k /\ k - 1 # k
          BY <3>1
        <5>2. g[k - 1] = f[k - 1]
          BY <5>1
        <5>3. g[i] = AppendValue(rule, f[k - 1], samples[k])
          BY <4>1
        <5> HIDE DEF g
        <5> QED BY <2>3, <4>1, <5>2, <5>3
      <4>2. CASE i # k
        <5>1. i \in 0 .. k - 1
          BY <3>1, <4>2
        <5>2. f[i] = Step(f, i)
          BY <3>3, <5>1
        <5>3. i # 0 => g[i - 1] = f[i - 1]
          BY <3>1, <5>1
        <5>4. g[i] = f[i]
          BY <4>2
        <5> HIDE DEF g
        <5> QED BY <5>2, <5>3, <5>4
      <4> QED BY <4>1, <4>2
    <3>5. g = [i \in 0 .. k |-> Step(g, i)]
      <4>1. g = [i \in 0 .. k |-> g[i]]
        OBVIOUS
      <4> HIDE DEF g
      <4> QED BY <3>4, <4>1
    <3> QED BY <3>5
  <2> QED BY <2>2, <2>3
<1>3. \E f : f = [i \in 0 .. n |-> Step(f, i)]
  <2>1. n \notin Bad
    BY <1>2
  <2> QED BY <2>1, Zenon
<1>4. F = [i \in 0 .. n |-> Step(F, i)]
  BY <1>3, Zenon
<1> HIDE DEF F, Bad
<1> DEFINE Wrong == {k \in 0 .. n : ~AverageOK(F[k])}
<1>5. Wrong = {}
  <2> SUFFICES ASSUME Wrong # {} PROVE FALSE
    OBVIOUS
  <2>0. Wrong \in SUBSET Nat
    OBVIOUS
  <2>1. PICK k \in Wrong : \A j \in Wrong : k <= j
    BY <2>0, SmallestExists
  <2>2. k \in 0 .. n /\ ~AverageOK(F[k]) /\ F[k] = Step(F, k)
    BY <1>4
  <2>3. k # 0
    BY <2>2
  <2>4. k - 1 \in 0 .. n /\ k \in 1 .. n /\ k - 1 < k
    BY <2>2, <2>3
  <2>5. k - 1 \notin Wrong
    BY <2>1, <2>4
  <2>6. AverageOK(F[k - 1])
    BY <2>4, <2>5
  <2>7. PICK m \in Written : samples[k].value = Dbl(m)
    BY <2>4
  <2>8. AverageOK(AppendValue("avg", F[k - 1], samples[k]))
    BY <2>6, <2>7, AverageAppended
  <2> QED BY <2>2, <2>3, <2>8
<1>6. n \in 0 .. n
  OBVIOUS
<1> QED BY <1>1, <1>5, <1>6

----------------------------------------------------------------------------
(***************************************************************************)
(* Rules.                                                                  *)
(***************************************************************************)

\* The samples of the source are the ones written, and the context of an average
\* is one.
RuleOK ==
  /\ RuleTypeOK
  /\ \A t \in DOMAIN src : \E n \in Values : src[t] = Dbl(n)
  /\ DOMAIN src # {} => start # NotStarted
  /\ rule = "avg" => AverageOK(ctx)

\* Written values are doubles.
LEMMA ValuesWritten == \A n \in Values : n \in Written
BY RollupAssumption DEF Written

\* The buckets of a rule start at unsigned numbers.
LEMMA RuleBucketOK ==
  ASSUME NEW t \in 0 .. RuleTime
  PROVE  RuleBucketStart(t) \in 0 .. Word - 1
<1>1. t \in Int /\ Alignment \in Int /\ Duration \in Nat \ {0}
  BY RollupAssumption
<1>2. RuleBucket(t) \in 0 .. Word - 1
  BY <1>1, BucketStartType DEF RuleBucket
<1> QED BY <1>2, SignedType DEF RuleBucketStart

\* SeriesCalcRange makes the context of an average.
LEMMA AverageRecalculated ==
  ASSUME rule = "avg", NEW s, DOMAIN s \subseteq 0 .. RuleTime,
         \A t \in DOMAIN s : \E n \in Values : s[t] = Dbl(n), NEW a, NEW b
  PROVE  AverageOK(CalcRange(s, a, b))
<1> DEFINE T == {t \in DOMAIN s : a <= t /\ t < b}
<1>1. T \in SUBSET Int /\ IsFiniteSet(T)
  <2>1. RuleTime \in Nat
    BY RollupAssumption
  <2>2. IsFiniteSet(0 .. RuleTime)
    BY <2>1, FS_Interval
  <2>3. T \in SUBSET (0 .. RuleTime) /\ T \in SUBSET Int
    OBVIOUS
  <2> QED BY <2>2, <2>3, FS_Subset
<1>2. PICK c : c = CreateContext("avg", FALSE)
  OBVIOUS
<1>3. AverageOK(c)
  BY <1>2, AverageCreated
<1>4. CalcRange(s, a, b) = Appended(c, SamplesAt(s, T))
  BY <1>2 DEF CalcRange
<1>5. \A t \in T : \E n \in Values : s[t] = Dbl(n)
  OBVIOUS
<1> HIDE DEF T
<1>6. PICK n \in Nat : n = Cardinality(T)
  BY <1>1, SamplesAtLists
<1>7. PICK o \in [1 .. n -> T] : SamplesAt(s, T) = [i \in 1 .. n |-> [ts |-> o[i], value |-> s[o[i]]]]
  <2>1. \E o \in [1 .. Cardinality(T) -> T] :
          SamplesAt(s, T) = [i \in 1 .. Cardinality(T) |-> [ts |-> o[i], value |-> s[o[i]]]]
    BY <1>1, SamplesAtLists, Zenon
  <2> QED BY <1>6, <2>1, Zenon
<1>8. PICK z : z = SamplesAt(s, T)
  OBVIOUS
<1>9. Len(z) = n
  BY <1>7, <1>8
<1>10. ASSUME NEW i \in 1 .. n PROVE \E m \in Written : z[i].value = Dbl(m)
  <2>1. o[i] \in T /\ z[i].value = s[o[i]]
    BY <1>7, <1>8
  <2>2. PICK m \in Values : s[o[i]] = Dbl(m)
    BY <1>5, <2>1
  <2> QED BY <2>1, <2>2, ValuesWritten
<1>11. AverageOK(Appended(c, z))
  BY <1>3, <1>9, <1>10, AverageFed
<1> QED BY <1>4, <1>8, <1>11

\* TS.CREATERULE.
LEMMA CreateRuleStep ==
  ASSUME RuleOK, NEW agg \in RuleAggs, CreateRule(agg)
  PROVE  RuleOK'
<1>1. UNCHANGED <<src, start, dest, stale>> /\ rule' = agg /\ ctx' = CreateContext(agg, FALSE)
  BY DEF CreateRule
<1>2. rule' = "avg" => AverageOK(ctx')
  BY <1>1, AverageCreated
<1>3. RuleTypeOK'
  BY <1>1 DEF RuleOK, RuleTypeOK
<1> QED BY <1>1, <1>2, <1>3 DEF RuleOK, AverageOK, AtMost, Fraction

\* TS.ADD of a sample newer than all others.
LEMMA AddSampleStep ==
  ASSUME RuleOK, NEW t \in 0 .. RuleTime, NEW n \in Values, AddSample(t, Dbl(n))
  PROVE  RuleOK'
<1> DEFINE s == [ts |-> t, value |-> Dbl(n)]
           closed == Closed(ctx, s)
           first == IF start = NotStarted /\ rule = "twa"
                    THEN TwaAddBucketParams(ctx, RuleBucketStart(s.ts), RuleBucketEnd(s.ts)) ELSE ctx
<1>0. UNCHANGED <<rule, stale>> /\ src' = Put(src, t, Dbl(n)) /\ HandleCompaction(s)
  BY DEF AddSample
<1>1. s.ts = t /\ s.value = Dbl(n) /\ RuleBucketStart(t) \in 0 .. Word - 1
  BY RuleBucketOK
<1>2. \/ /\ start # NotStarted
         /\ dest' = Put(dest, start, Finalize(rule, closed))
         /\ start' = RuleBucketStart(t)
         /\ ctx' = AppendValue(rule, Opened(closed, t), s)
      \/ /\ start' = IF start = NotStarted THEN RuleBucketStart(t) ELSE start
         /\ ctx' = AppendValue(rule, first, s)
         /\ UNCHANGED dest
  BY <1>0, <1>1 DEF HandleCompaction
<1>3. RuleTypeOK'
  <2>1. DOMAIN src' = DOMAIN src \cup {t}
    BY <1>0 DEF Put
  <2>2. DOMAIN dest' \subseteq 0 .. Word - 1 /\ start' \in 0 .. Word - 1
    <3>1. start \in {NotStarted} \cup 0 .. Word - 1 /\ DOMAIN dest \subseteq 0 .. Word - 1
      BY DEF RuleOK, RuleTypeOK
    <3>2. ASSUME start # NotStarted, dest' = Put(dest, start, Finalize(rule, closed))
          PROVE  DOMAIN dest' \subseteq 0 .. Word - 1
      <4>1. DOMAIN dest' = DOMAIN dest \cup {start}
        BY <3>2 DEF Put
      <4> QED BY <3>1, <3>2, <4>1
    <3> HIDE DEF s, closed, first
    <3> QED BY <1>1, <1>2, <3>1, <3>2
  <2> QED BY <1>0, <2>1, <2>2 DEF RuleOK, RuleTypeOK
<1>4. \A u \in DOMAIN src' : \E m \in Values : src'[u] = Dbl(m)
  <2>1. DOMAIN src' = DOMAIN src \cup {t} /\ \A u \in DOMAIN src' : src'[u] = IF u = t THEN Dbl(n) ELSE src[u]
    BY <1>0 DEF Put
  <2>2. \A u \in DOMAIN src : \E m \in Values : src[u] = Dbl(m)
    BY DEF RuleOK
  <2> QED BY <2>1, <2>2
<1>5. start' # NotStarted
  <2>1. \A b \in 0 .. Word - 1 : b # NotStarted
    BY WordOK DEF NotStarted
  <2> HIDE DEF s, closed, first
  <2> QED BY <1>1, <1>2, <2>1
<1>6. ASSUME rule = "avg" PROVE AverageOK(ctx')
  <2>1. AverageOK(ctx) /\ n \in Written
    BY <1>6, ValuesWritten DEF RuleOK
  <2>2. Opened(closed, t) = CreateContext("avg", FALSE) /\ first = ctx
    BY <1>6 DEF Opened, ResetContext
  <2>3. AverageOK(Opened(closed, t)) /\ AverageOK(first)
    BY <2>1, <2>2, AverageCreated
  <2> HIDE DEF s, closed, first
  <2>4. ctx' = AppendValue("avg", Opened(closed, t), s) \/ ctx' = AppendValue("avg", first, s)
    BY <1>2, <1>6
  <2> QED BY <1>1, <2>1, <2>3, <2>4, AverageAppended
<1> QED BY <1>0, <1>3, <1>4, <1>5, <1>6 DEF RuleOK, AverageOK, AtMost, Fraction

\* TS.ADD of a sample that is not newer.
LEMMA UpsertSampleStep ==
  ASSUME RuleOK, NEW t \in 0 .. RuleTime, NEW n \in Values, UpsertSample(t, Dbl(n))
  PROVE  RuleOK'
<1>0. UNCHANGED <<rule, start>> /\ src' = Put(src, t, Dbl(n)) /\ DOMAIN src # {}
  BY DEF UpsertSample
<1>1. RuleBucketStart(t) \in 0 .. Word - 1
  BY RuleBucketOK
<1>2. PICK c : /\ c = CalcRange(src', RuleBucketStart(t), RuleBucketEnd(t))
               /\ \/ ctx' = c /\ UNCHANGED dest
                  \/ dest' = Put(dest, RuleBucketStart(t), Finalize(rule, c)) /\ UNCHANGED ctx
  BY DEF UpsertSample
<1>3. DOMAIN src' = DOMAIN src \cup {t} /\ \A u \in DOMAIN src' : src'[u] = IF u = t THEN Dbl(n) ELSE src[u]
  BY <1>0 DEF Put
<1>4. DOMAIN src' \subseteq 0 .. RuleTime /\ \A u \in DOMAIN src' : \E m \in Values : src'[u] = Dbl(m)
  BY <1>3 DEF RuleOK, RuleTypeOK
<1>5. DOMAIN dest' \subseteq 0 .. Word - 1
  <2>1. DOMAIN Put(dest, RuleBucketStart(t), Finalize(rule, c)) = DOMAIN dest \cup {RuleBucketStart(t)}
    BY DEF Put
  <2> QED BY <1>1, <1>2, <2>1 DEF RuleOK, RuleTypeOK
<1>6. stale' \subseteq 0 .. Word - 1
  <2>1. stale' \subseteq stale \cup Neighbours(src', t)
    BY DEF UpsertSample
  <2>2. Neighbours(src', t) \subseteq DOMAIN dest \cup {start}
    BY DEF Neighbours
  <2>3. start \in 0 .. Word - 1
    BY <1>0 DEF RuleOK, RuleTypeOK
  <2> QED BY <2>1, <2>2, <2>3 DEF RuleOK, RuleTypeOK
<1>7. RuleTypeOK'
  BY <1>0, <1>4, <1>5, <1>6 DEF RuleOK, RuleTypeOK
<1>8. ASSUME rule = "avg" PROVE AverageOK(ctx')
  <2>1. AverageOK(c)
    BY <1>2, <1>4, <1>8, AverageRecalculated
  <2>2. AverageOK(ctx)
    BY <1>8 DEF RuleOK
  <2>3. ctx' = c \/ ctx' = ctx
    BY <1>2
  <2> QED BY <2>1, <2>2, <2>3
<1>9. start' # NotStarted
  BY <1>0 DEF RuleOK
<1> QED BY <1>0, <1>4, <1>7, <1>8, <1>9 DEF RuleOK, AverageOK, AtMost, Fraction

\* The rule is saved and loaded.
LEMMA ReloadRuleStep ==
  ASSUME RuleOK, ReloadRule
  PROVE  RuleOK'
<1>1. UNCHANGED <<rule, src, start, dest, stale>> /\ ctx' = ReadContext(rule, WriteContext(rule, ctx))
  BY DEF ReloadRule
<1>2. ASSUME rule = "avg" PROVE AverageOK(ctx')
  <2>1. WriteContext("avg", ctx) = <<ctx.val, ctx.cnt, ctx.isOverflow>>
    BY DEF WriteContext, MaxMin, SingleValue, Var
  <2>2. PICK r : r = WriteContext("avg", ctx)
    OBVIOUS
  <2>3. ReadContext("avg", r) = [val |-> r[1], cnt |-> r[2], isOverflow |-> r[3]]
    BY DEF ReadContext, MaxMin, SingleValue, Var
  <2>4. ctx'.val = ctx.val /\ ctx'.cnt = ctx.cnt /\ ctx'.isOverflow = ctx.isOverflow
    BY <1>1, <1>2, <2>1, <2>2, <2>3
  <2>5. AverageOK(ctx)
    BY <1>2 DEF RuleOK
  <2> QED BY <2>4, <2>5, Zenon DEF AverageOK
<1>3. RuleTypeOK'
  BY <1>1 DEF RuleOK, RuleTypeOK
<1> QED BY <1>1, <1>2, <1>3 DEF RuleOK, AverageOK, AtMost, Fraction

\* No step of a rule leaves RuleOK.
LEMMA RuleStepOK ==
  ASSUME RuleOK, RuleStep
  PROVE  RuleOK'
<1>1. ASSUME NEW agg \in RuleAggs, CreateRule(agg) PROVE RuleOK'
  BY <1>1, CreateRuleStep
<1>2. ASSUME NEW t \in 0 .. RuleTime, NEW n \in Values, AddSample(t, Dbl(n)) PROVE RuleOK'
  BY <1>2, AddSampleStep
<1>3. ASSUME NEW t \in 0 .. RuleTime, NEW n \in Values, UpsertSample(t, Dbl(n)) PROVE RuleOK'
  BY <1>3, UpsertSampleStep
<1>4. ASSUME ReloadRule PROVE RuleOK'
  BY <1>4, ReloadRuleStep
<1> QED BY <1>1, <1>2, <1>3, <1>4 DEF RuleStep

----------------------------------------------------------------------------
(***************************************************************************)
(* The gaps that fillEmptyBuckets is called for.                           *)
(***************************************************************************)

\* Where a bucket starts, before and after wrapping around.
LEMMA WrappedStart ==
  ASSUME NEW t \in Nat, NEW d \in Nat \ {0}, NEW a \in Nat, t < Word, 4 * d <= Word, Near(t, a)
  PROVE  \E f \in Int :
           /\ f = Floor(t, d, a) /\ f <= t /\ t < f + d /\ OnGrid(f, d, a)
           /\ CalcBucketStart(t, d, a) = IF f < 0 THEN Word + f ELSE f
<1>1. PICK f \in Int : f = Floor(t, d, a) /\ f <= t /\ t < f + d /\ OnGrid(f, d, a)
  <2>1. t \in Int /\ a \in Int
    OBVIOUS
  <2> QED BY <2>1, FloorFacts
<1>2. CalcBucketStart(t, d, a) = IF f < 0 THEN Word + f ELSE f
  BY <1>1, BucketStarts
<1> QED BY <1>1, <1>2

\* The same of a timestamp, which is near every alignment, and where its bucket ends.
LEMMA TimeStart ==
  ASSUME NEW t \in Nat, NEW d \in Nat \ {0}, NEW a \in Nat, 2 * t < Word, 2 * a < Word, 4 * d <= Word
  PROVE  \E f \in Int :
           /\ f = Floor(t, d, a) /\ f <= t /\ t < f + d /\ OnGrid(f, d, a)
           /\ CalcBucketStart(t, d, a) = IF f < 0 THEN Word + f ELSE f
           /\ BucketStartNormalize(CalcBucketStart(t, d, a)) = IF f < 0 THEN 0 ELSE f
           /\ Unsigned(CalcBucketStart(t, d, a) + d) = f + d
<1>0. PICK W \in Nat \ {0} : W = Word
  BY WordOK
<1>1. t < Word /\ Near(t, a)
  BY <1>0, TimesNear
<1>2. PICK f \in Int : /\ f = Floor(t, d, a) /\ f <= t /\ t < f + d /\ OnGrid(f, d, a)
                       /\ CalcBucketStart(t, d, a) = IF f < 0 THEN Word + f ELSE f
  BY <1>1, WrappedStart
<1>3. BucketStartNormalize(CalcBucketStart(t, d, a)) = IF f < 0 THEN 0 ELSE f
  <2>1. BucketStartNormalize(CalcBucketStart(t, d, a)) = IF Floor(t, d, a) < 0 THEN 0 ELSE Floor(t, d, a)
    BY <1>1, BucketStarts
  <2> QED BY <1>2, <2>1, Zenon
<1>4. Unsigned(CalcBucketStart(t, d, a) + d) = f + d
  <2>1. PICK b \in Int : b = CalcBucketStart(t, d, a)
    BY <1>0, <1>2
  <2>2. CASE f >= 0
    <3>1. b + d = f + d /\ b + d \in 0 .. Word - 1
      BY <1>0, <1>2, <2>1, <2>2
    <3> QED BY <2>1, <3>1, UnsignedIs
  <2>3. CASE f < 0
    <3>1. PICK r \in 0 .. W - 1 : r = f + d
      BY <1>0, <1>2, <2>3
    <3>2. b + d = (W * 1) + r /\ b + d \in Int
      BY <1>0, <1>2, <2>1, <2>3, <3>1
    <3>3. (b + d) % W = r
      BY <3>2, ModIs
    <3> QED BY <1>0, <2>1, <3>1, <3>3 DEF Unsigned
  <2> QED BY <2>2, <2>3
<1> QED BY <1>2, <1>3, <1>4

\* The grid goes on, both ways.
LEMMA NextOnGrid ==
  ASSUME NEW d \in Nat \ {0}, NEW a \in Int, NEW b \in Int, OnGrid(b, d, a)
  PROVE  OnGrid(b + d, d, a) /\ OnGrid(b - d, d, a)
<1>1. PICK k \in Int : b = a + (d * k)
  BY DEF OnGrid
<1>2. b + d = a + (d * (k + 1)) /\ k + 1 \in Int
  BY <1>1
<1>3. b - d = a + (d * (k - 1)) /\ k - 1 \in Int
  BY <1>1
<1> QED BY <1>2, <1>3 DEF OnGrid

\* What the assertions ask of the first and the last empty bucket.
Whole(from, to, d) == to >= from /\ (to - from) % d = 0

\* Numbers of the grid satisfy it when they are in order.
LEMMA WholeOnGrid ==
  ASSUME NEW d \in Nat \ {0}, NEW a \in Int, NEW b \in Int, NEW c \in Int,
         OnGrid(b, d, a), OnGrid(c, d, a), b <= c
  PROVE  Whole(b, c, d)
<1>1. PICK m \in Int : b = a + (d * m)
  BY DEF OnGrid
<1>2. PICK k \in Int : c = a + (d * k)
  BY DEF OnGrid
<1>3. PICK x \in Int : x = c - b
  OBVIOUS
<1>4. x = (d * (k - m)) + 0 /\ k - m \in Int /\ 0 \in 0 .. d - 1
  <2>1. d * (k - m) = (d * k) - (d * m) /\ d * k \in Int /\ d * m \in Int
    OBVIOUS
  <2> QED BY <1>1, <1>2, <1>3, <2>1
<1>5. x % d = 0
  BY <1>4, ModIs
<1> QED BY <1>3, <1>5 DEF Whole

\* In front of the first sample, forwards: the start of the range is at s and the
\* sample at t.
LEMMA PrefixInOrder ==
  ASSUME NEW d \in Nat \ {0}, NEW a \in Nat, NEW s \in Nat, NEW t \in Nat, s <= t, 2 * t < Word,
         2 * a < Word, 4 * d <= Word, CalcBucketStart(s, d, a) < CalcBucketStart(t, d, a)
  PROVE  Whole(CalcBucketStart(s, d, a), StepBack(CalcBucketStart(t, d, a), d), d)
<1>0. PICK W \in Nat \ {0} : W = Word
  BY WordOK
<1>1. 2 * s < Word /\ a \in Int
  BY <1>0
<1>2. PICK f \in Int : /\ f = Floor(s, d, a) /\ f <= s /\ s < f + d /\ OnGrid(f, d, a)
                       /\ CalcBucketStart(s, d, a) = IF f < 0 THEN Word + f ELSE f
  BY <1>1, TimeStart
<1>3. PICK g \in Int : /\ g = Floor(t, d, a) /\ g <= t /\ t < g + d /\ OnGrid(g, d, a)
                       /\ CalcBucketStart(t, d, a) = IF g < 0 THEN Word + g ELSE g
  BY TimeStart
<1>4. g >= 0 /\ f >= 0 /\ f < g
  <2>1. f < 0 /\ g < 0 => f = g
    BY <1>1, <1>2, <1>3, FirstBucket
  <2>2. f <= g
    <3>1. s \in Int /\ t \in Int
      OBVIOUS
    <3> QED BY <1>1, <1>2, <1>3, <3>1, FloorOrder
  <2> QED BY <1>0, <1>2, <1>3, <2>1, <2>2
<1>5. f + d <= g
  BY <1>1, <1>2, <1>3, <1>4, Apart
<1>6. PICK x \in Nat : x = g - d /\ 2 * x < Word /\ f <= x
  BY <1>0, <1>3, <1>4, <1>5
<1>7. StepBack(g, d) = x
  BY <1>6, StepBackIs
<1>8. OnGrid(x, d, a)
  BY <1>1, <1>3, <1>6, NextOnGrid
<1>9. Whole(f, x, d)
  BY <1>1, <1>2, <1>6, <1>8, WholeOnGrid
<1> QED BY <1>2, <1>3, <1>4, <1>7, <1>9

\* In front of the first sample, in reverse: the range ends, at e, in a bucket that
\* does not begin before 0.
LEMMA PrefixInReverse ==
  ASSUME NEW d \in Nat \ {0}, NEW a \in Nat, NEW e \in Nat, NEW t \in Nat, 2 * e < Word, 2 * t < Word,
         2 * a < Word, 4 * d <= Word, Floor(e, d, a) >= 0,
         CalcBucketStart(e, d, a) >= Unsigned(CalcBucketStart(t, d, a) + d)
  PROVE  Whole(Unsigned(CalcBucketStart(t, d, a) + d), CalcBucketStart(e, d, a), d)
<1>1. a \in Int
  OBVIOUS
<1>2. PICK f \in Int : /\ f = Floor(e, d, a) /\ OnGrid(f, d, a)
                       /\ CalcBucketStart(e, d, a) = IF f < 0 THEN Word + f ELSE f
  BY TimeStart
<1>3. PICK g \in Int : OnGrid(g, d, a) /\ Unsigned(CalcBucketStart(t, d, a) + d) = g + d
  BY TimeStart
<1>4. OnGrid(g + d, d, a) /\ g + d \in Int
  <2>1. OnGrid(g + d, d, a)
    BY <1>1, <1>3, NextOnGrid, Zenon
  <2> QED BY <2>1
<1>5. CalcBucketStart(e, d, a) = f /\ g + d <= f
  BY <1>2, <1>3
<1>6. Whole(g + d, f, d)
  BY <1>1, <1>2, <1>4, <1>5, WholeOnGrid
<1> QED BY <1>3, <1>5, <1>6

\* Between two samples, forwards: the bucket of the sample at u ends, and the next
\* sample is at t.
LEMMA BetweenInOrder ==
  ASSUME NEW d \in Nat \ {0}, NEW a \in Nat, NEW u \in Nat, NEW t \in Nat,
         2 * t < Word, 2 * a < Word, 4 * d <= Word,
         Floor(u, d, a) + d <= t, Floor(u, d, a) + d < CalcBucketStart(t, d, a)
  PROVE  Whole(Floor(u, d, a) + d, StepBack(CalcBucketStart(t, d, a), d), d)
<1>0. PICK W \in Nat \ {0} : W = Word
  BY WordOK
<1>1. a \in Int
  OBVIOUS
<1>2. PICK f \in Int : f = Floor(u, d, a) /\ f <= u /\ u < f + d /\ OnGrid(f, d, a)
  <2>1. u \in Int
    OBVIOUS
  <2> QED BY <1>1, <2>1, FloorFacts
<1>3. PICK g \in Int : /\ g = Floor(t, d, a) /\ g <= t /\ t < g + d /\ OnGrid(g, d, a)
                       /\ CalcBucketStart(t, d, a) = IF g < 0 THEN Word + g ELSE g
  BY TimeStart
<1>4. PICK e \in Int : e = f + d /\ OnGrid(e, d, a)
  BY <1>1, <1>2, NextOnGrid
<1>5. ~(g < e)
  <2> SUFFICES ASSUME g < e PROVE FALSE
    OBVIOUS
  <2>1. g + d <= e
    BY <1>1, <1>3, <1>4, Apart
  <2> QED BY <1>2, <1>3, <1>4, <2>1
<1>6. g >= 0 /\ e < g
  BY <1>2, <1>3, <1>4, <1>5
<1>7. e + d <= g
  BY <1>1, <1>3, <1>4, <1>6, Apart
<1>8. PICK x \in Nat : x = g - d /\ 2 * x < Word /\ e <= x
  BY <1>0, <1>2, <1>3, <1>4, <1>7
<1>9. StepBack(g, d) = x
  BY <1>8, StepBackIs
<1>10. OnGrid(x, d, a)
  BY <1>1, <1>3, <1>8, NextOnGrid
<1>11. Whole(e, x, d)
  BY <1>1, <1>4, <1>8, <1>10, WholeOnGrid
<1> QED BY <1>2, <1>3, <1>4, <1>6, <1>9, <1>11

\* Between two samples, in reverse: the sum of last_bucket and two durations does not
\* wrap around, since the bucket of t ends where the one of u begins or before.
LEMMA BetweenInReverse ==
  ASSUME NEW d \in Nat \ {0}, NEW a \in Nat, NEW u \in Nat, NEW t \in Nat,
         2 * u < Word, 2 * t < Word, 2 * a < Word, 4 * d <= Word, t < Floor(u, d, a),
         Floor(u, d, a) + d >= Unsigned(Unsigned(CalcBucketStart(t, d, a) + d) + 2 * d)
  PROVE  Whole(Unsigned(CalcBucketStart(t, d, a) + d), StepBack(Floor(u, d, a) + d, 2 * d), d)
<1>0. PICK W \in Nat \ {0} : W = Word
  BY WordOK
<1>1. a \in Int
  OBVIOUS
<1>2. PICK f \in Int : f = Floor(u, d, a) /\ f <= u /\ u < f + d /\ OnGrid(f, d, a)
  BY TimeStart
<1>3. PICK g \in Int : /\ g <= t /\ t < g + d /\ OnGrid(g, d, a)
                       /\ Unsigned(CalcBucketStart(t, d, a) + d) = g + d
  BY TimeStart
<1>4. PICK l \in Int : l = g + d /\ OnGrid(l, d, a)
  <2>1. OnGrid(g + d, d, a)
    BY <1>1, <1>3, NextOnGrid, Zenon
  <2> QED BY <2>1
<1>5. g + d <= f
  BY <1>1, <1>2, <1>3, Apart
<1>6. l + 2 * d \in 0 .. Word - 1
  BY <1>0, <1>2, <1>3, <1>4, <1>5
<1>7. Unsigned(l + 2 * d) = l + 2 * d
  BY <1>6, UnsignedIs
<1>8. PICK x \in Nat : x = f - d /\ l <= x /\ 2 * x < Word /\ x = (f + d) - 2 * d
  BY <1>0, <1>2, <1>3, <1>4, <1>7
<1>9. StepBack(f + d, 2 * d) = x
  <2>1. f + d \in Int /\ 2 * d \in Int
    OBVIOUS
  <2> QED BY <1>8, <2>1, StepBackIs
<1>10. OnGrid(x, d, a)
  BY <1>1, <1>2, <1>8, NextOnGrid
<1>11. Whole(l, x, d)
  BY <1>1, <1>4, <1>8, <1>10, WholeOnGrid
<1> QED BY <1>2, <1>3, <1>4, <1>9, <1>11

\* Behind the last sample, forwards: its bucket is reported at z, and the range ends
\* at e, in a bucket that does not begin before 0.
LEMMA SuffixInOrder ==
  ASSUME NEW d \in Nat \ {0}, NEW a \in Nat, NEW e \in Nat, NEW z \in Nat,
         2 * e < Word, 2 * a < Word, 4 * d <= Word, z < Word, Near(z, a), Floor(e, d, a) >= 0,
         CalcBucketStart(z, d, a) < CalcBucketStart(e, d, a)
  PROVE  Whole(Unsigned(CalcBucketStart(z, d, a) + d), CalcBucketStart(e, d, a), d)
<1>0. PICK W \in Nat \ {0} : W = Word
  BY WordOK
<1>1. a \in Int
  OBVIOUS
<1>2. PICK g \in Int : /\ g = Floor(z, d, a) /\ g <= z /\ z < g + d /\ OnGrid(g, d, a)
                       /\ CalcBucketStart(z, d, a) = IF g < 0 THEN Word + g ELSE g
  BY WrappedStart
<1>3. PICK h \in Int : /\ h = Floor(e, d, a) /\ h <= e /\ e < h + d /\ OnGrid(h, d, a)
                       /\ CalcBucketStart(e, d, a) = IF h < 0 THEN Word + h ELSE h
  BY TimeStart
<1>4. g >= 0 /\ g < h /\ h >= 0
  BY <1>0, <1>2, <1>3
<1>5. g + d <= h /\ g + d \in Int /\ OnGrid(g + d, d, a)
  <2>1. OnGrid(g + d, d, a)
    BY <1>1, <1>2, NextOnGrid, Zenon
  <2>2. g + d <= h
    BY <1>1, <1>2, <1>3, <1>4, Apart
  <2> QED BY <2>1, <2>2
<1>6. g + d \in 0 .. Word - 1
  BY <1>0, <1>3, <1>4, <1>5
<1>7. Unsigned(g + d) = g + d
  BY <1>6, UnsignedIs
<1>8. Whole(g + d, h, d)
  BY <1>1, <1>3, <1>5, WholeOnGrid
<1> QED BY <1>2, <1>3, <1>4, <1>7, <1>8

\* The same in reverse: the range ends, in this direction, at s.
LEMMA SuffixInReverse ==
  ASSUME NEW d \in Nat \ {0}, NEW a \in Nat, NEW s \in Nat, NEW z \in Nat,
         2 * s < Word, 2 * a < Word, 4 * d <= Word, 4 * z < 3 * Word, Near(z, a), Floor(s, d, a) <= z,
         CalcBucketStart(z, d, a) > CalcBucketStart(s, d, a)
  PROVE  Whole(CalcBucketStart(s, d, a), Unsigned(CalcBucketStart(z, d, a) - d), d)
<1>0. PICK W \in Nat \ {0} : W = Word
  BY WordOK
<1>1. z < Word /\ a \in Int
  BY <1>0
<1>2. PICK f \in Int : /\ f = Floor(s, d, a) /\ f <= s /\ s < f + d /\ OnGrid(f, d, a)
                       /\ CalcBucketStart(s, d, a) = IF f < 0 THEN Word + f ELSE f
  <2>1. \E f \in Int :
          /\ f = Floor(s, d, a) /\ f <= s /\ s < f + d /\ OnGrid(f, d, a)
          /\ CalcBucketStart(s, d, a) = IF f < 0 THEN Word + f ELSE f
          /\ BucketStartNormalize(CalcBucketStart(s, d, a)) = IF f < 0 THEN 0 ELSE f
          /\ Unsigned(CalcBucketStart(s, d, a) + d) = f + d
    BY TimeStart, Zenon
  <2> QED BY <2>1
<1>3. PICK g \in Int : /\ g = Floor(z, d, a) /\ g <= z /\ z < g + d /\ OnGrid(g, d, a)
                       /\ CalcBucketStart(z, d, a) = IF g < 0 THEN Word + g ELSE g
  BY <1>1, WrappedStart
<1>4. f >= 0
  <2> SUFFICES ASSUME f < 0 PROVE FALSE
    BY <1>2
  <2>1. g < 0 => f = g
    BY <1>1, <1>2, <1>3, FirstBucket
  <2> QED BY <1>0, <1>2, <1>3, <2>1
<1>5. ~(g < f)
  <2> SUFFICES ASSUME g < f PROVE FALSE
    OBVIOUS
  <2>1. g + d <= f
    BY <1>1, <1>2, <1>3, Apart
  <2> QED BY <1>2, <1>3, <2>1
<1>6. f < g
  BY <1>2, <1>3, <1>4, <1>5
<1>7. f + d <= g
  BY <1>1, <1>2, <1>3, <1>6, Apart
<1>8. PICK x \in Int : x = g - d /\ x \in 0 .. Word - 1 /\ f <= x /\ OnGrid(x, d, a)
  BY <1>0, <1>1, <1>3, <1>4, <1>7, NextOnGrid
<1>9. Unsigned(x) = x
  BY <1>8, UnsignedIs
<1>10. Whole(f, x, d)
  BY <1>1, <1>2, <1>8, WholeOnGrid
<1>11. CalcBucketStart(s, d, a) = f /\ CalcBucketStart(z, d, a) = g
  BY <1>2, <1>3, <1>4, <1>5
<1> QED BY <1>8, <1>9, <1>10, <1>11

----------------------------------------------------------------------------
(***************************************************************************)
(* What is reported.                                                       *)
(***************************************************************************)

\* A sequence of samples whose timestamps are unsigned numbers.
Reported(z) ==
  /\ z \in Seq({z[i] : i \in DOMAIN z})
  /\ \A i \in DOMAIN z : z[i].ts \in 0 .. Word - 1

\* A query that has reported nothing yet satisfies Reported.
LEMMA NothingReported == Reported(<<>>)
<1>1. <<>> \in Seq({<<>>[i] : i \in DOMAIN <<>>}) /\ DOMAIN <<>> = {}
  OBVIOUS
<1> QED BY <1>1 DEF Reported

\* One sample after the other.
LEMMA ReportedList ==
  ASSUME NEW m \in Nat, NEW z, z = [i \in 1 .. m |-> z[i]], \A i \in 1 .. m : z[i].ts \in 0 .. Word - 1
  PROVE  Reported(z)
<1> DEFINE A == {z[i] : i \in DOMAIN z}
<1>1. DOMAIN z = 1 .. m
  OBVIOUS
<1>2. \A i \in 1 .. m : z[i] \in A
  BY <1>1
<1> HIDE DEF A
<1>3. z \in Seq(A)
  BY <1>2, IsASeq
<1> QED BY <1>1, <1>3 DEF Reported, A

\* Buckets appended to the buckets already reported: both lists Reported, so is their concatenation.
LEMMA ReportedJoined ==
  ASSUME NEW y, NEW z, Reported(y), Reported(z)
  PROVE  Reported(y \o z)
<1> DEFINE A == {y[i] : i \in DOMAIN y} \cup {z[i] : i \in DOMAIN z}
<1>1. y \in Seq(A) /\ z \in Seq(A)
  <2>1. {y[i] : i \in DOMAIN y} \subseteq A /\ {z[i] : i \in DOMAIN z} \subseteq A
    OBVIOUS
  <2>2. y \in Seq({y[i] : i \in DOMAIN y}) /\ z \in Seq({z[i] : i \in DOMAIN z})
    BY DEF Reported
  <2> HIDE DEF A
  <2>3. \A B : B \subseteq A => Seq(B) \subseteq Seq(A)
    OBVIOUS
  <2> QED BY <2>1, <2>2, <2>3
<1>2. \A x \in A : x.ts \in 0 .. Word - 1
  BY DEF Reported
<1> HIDE DEF A
<1>3. PICK m \in Nat : m = Len(y) + Len(z) /\ Len(y) \in Nat /\ Len(z) \in Nat
  BY <1>1, LenProperties
<1>4. y \o z \in Seq(A) /\ Len(y \o z) = m
  BY <1>1, <1>3, ConcatProperties
<1>5. PICK w : w = y \o z
  OBVIOUS
<1>6. w \in [1 .. m -> A]
  BY <1>4, <1>5, LenProperties
<1>7. w = [i \in 1 .. m |-> w[i]] /\ \A i \in 1 .. m : w[i].ts \in 0 .. Word - 1
  BY <1>2, <1>6
<1>8. Reported(w)
  BY <1>7, ReportedList
<1> QED BY <1>5, <1>8

----------------------------------------------------------------------------
(***************************************************************************)
(* Queries.                                                                *)
(***************************************************************************)

\* The numbers of a query.
Measures(d, a, s, e) ==
  /\ d = q.delta /\ a = q.align /\ s = q.start /\ e = q.end
  /\ d \in Nat \ {0} /\ a \in Nat /\ s \in Nat /\ e \in Nat
  /\ 2 * d < Word /\ 2 * a < Word /\ 2 * s < Word /\ 2 * e < Word
  /\ DOMAIN q.series \subseteq 0 .. MaxTime /\ q.reverse \in BOOLEAN /\ q.empty \in BOOLEAN
  /\ q.bucketTS \in {"start", "mid", "end"}

\* The numbers of every query are signed numbers that are not negative.
LEMMA QueryMeasures ==
  ASSUME q \in Queries
  PROVE  \E d, a, s, e : Measures(d, a, s, e)
<1>1. IsQuery(q) /\ 2 * q.delta < Word /\ MaxTime \in Nat /\ 2 * MaxTime < Word /\ Word \in Nat
  BY QueryAssumption, WordOK
<1>2. /\ q.delta \in Nat \ {0} /\ q.align \in 0 .. MaxTime /\ q.start \in 0 .. MaxTime
      /\ q.end \in 0 .. MaxTime /\ DOMAIN q.series \subseteq 0 .. MaxTime
      /\ q.reverse \in BOOLEAN /\ q.empty \in BOOLEAN /\ q.bucketTS \in {"start", "mid", "end"}
  BY <1>1 DEF IsQuery
<1>3. \A x \in 0 .. MaxTime : x \in Nat /\ 2 * x < Word
  BY <1>1
<1>4. Measures(q.delta, q.align, q.start, q.end)
  BY <1>1, <1>2, <1>3 DEF Measures
<1> QED BY <1>4

\* Buckets are named after a time between their start and their end.
LEMMA OffsetOK ==
  ASSUME NEW d, NEW a, NEW s, NEW e, Measures(d, a, s, e)
  PROVE  BucketOffset \in 0 .. d
<1>1. d = q.delta /\ d \in Nat \ {0} /\ q.bucketTS \in {"start", "mid", "end"}
  BY DEF Measures
<1>2. d \div 2 \in 0 .. d /\ d \in 0 .. d /\ 0 \in 0 .. d
  BY <1>1
<1> QED BY <1>1, <1>2 DEF BucketOffset

\* calcBucketTs of a bucket at b.
LEMMA BucketReported ==
  ASSUME NEW d, NEW a, NEW s, NEW e, Measures(d, a, s, e), NEW b \in 0 .. Word - 1, NEW v
  PROVE  Bucket(b, v).ts \in 0 .. Word - 1
<1>1. d \in Nat /\ BucketOffset \in 0 .. d
  BY OffsetOK DEF Measures
<1>2. b + BucketOffset \in Int
  BY <1>1, WordOK
<1>3. CalcBucketTs(b) \in 0 .. Word - 1
  BY <1>2, UnsignedType DEF CalcBucketTs
<1> QED BY <1>3 DEF Bucket

\* A bucket that does not end beyond the unsigned numbers is reported at its start,
\* in its middle or at its end.
LEMMA BucketReportedAt ==
  ASSUME NEW d, NEW a, NEW s, NEW e, Measures(d, a, s, e), NEW b \in Nat, b + d < Word
  PROVE  CalcBucketTs(b) = b + BucketOffset /\ CalcBucketTs(b) \in b .. b + d
<1>1. d \in Nat /\ BucketOffset \in 0 .. d
  BY OffsetOK DEF Measures
<1>2. b + BucketOffset \in 0 .. Word - 1
  BY <1>1, WordOK
<1>3. CalcBucketTs(b) = b + BucketOffset
  BY <1>2, UnsignedIs DEF CalcBucketTs
<1> QED BY <1>1, <1>3

\* The starts of empty buckets lie between the first and the last.
LEMMA EmptyStarts ==
  ASSUME NEW d, NEW a, NEW s, NEW e, Measures(d, a, s, e), NEW first \in Int, NEW last \in Int,
         ~q.reverse => 0 <= first /\ last < Word, q.reverse => 0 <= last /\ first < Word
  PROVE  \E m \in Nat : /\ DOMAIN EmptyBucketStarts(first, last) = 1 .. m
                        /\ \A i \in 1 .. m : EmptyBucketStarts(first, last)[i] \in 0 .. Word - 1
<1>0. PICK W \in Nat \ {0} : W = Word
  BY WordOK
<1>1. d = q.delta /\ d \in Nat \ {0} /\ q.reverse \in BOOLEAN
  BY DEF Measures
<1>2. PICK x \in Int : x = IF q.reverse THEN first - last ELSE last - first
  <2>1. first - last \in Int /\ last - first \in Int
    OBVIOUS
  <2> QED BY <2>1
<1>3. PICK k \in Int, r \in 0 .. d - 1 : k = x \div d /\ x = (d * k) + r
  <2>1. x % d \in 0 .. d - 1 /\ x \div d \in Int /\ x = (d * (x \div d)) + (x % d)
    BY <1>1, DivMod
  <2> QED BY <2>1, Zenon
<1>4. PICK m \in Nat : 1 .. m = 1 .. k + 1
  <2>1. CASE k + 1 >= 0
    <3>1. k + 1 \in Nat
      BY <2>1
    <3> QED BY <3>1
  <2>2. CASE k + 1 < 0
    <3>1. 1 .. k + 1 = {} /\ 1 .. 0 = {}
      BY <2>2
    <3> QED BY <3>1
  <2> QED BY <2>1, <2>2
<1>5. EmptyBucketStarts(first, last)
        = [i \in 1 .. m |-> IF q.reverse THEN first - (i - 1) * d ELSE first + (i - 1) * d]
  BY <1>1, <1>2, <1>3, <1>4 DEF EmptyBucketStarts
<1>6. ASSUME NEW i \in 1 .. m
      PROVE  (IF q.reverse THEN first - (i - 1) * d ELSE first + (i - 1) * d) \in 0 .. Word - 1
  <2>1. i \in 1 .. k + 1
    BY <1>4
  <2>2. PICK j \in Nat : j = i - 1 /\ j <= k
    BY <2>1
  <2>3. PICK l \in Nat : k = j + l
    <3>1. k - j \in Nat /\ k = j + (k - j)
      BY <2>2
    <3> QED BY <3>1
  <2>4. PICK p \in Nat : p = d * j
    BY <1>1
  <2>5. PICK o \in Nat : o = d * l
    BY <1>1
  <2>6. x = p + o + r
    BY <1>1, <1>3, <2>3, <2>4, <2>5
  <2>7. (i - 1) * d = p
    BY <1>1, <2>2, <2>4
  <2> QED BY <1>0, <1>2, <2>6, <2>7
<1>7. /\ DOMAIN EmptyBucketStarts(first, last) = 1 .. m
      /\ \A i \in 1 .. m : EmptyBucketStarts(first, last)[i]
                             = IF q.reverse THEN first - (i - 1) * d ELSE first + (i - 1) * d
  BY <1>5
<1> QED BY <1>6, <1>7

\* fillEmptyBuckets reports unsigned numbers.
LEMMA FilledReported ==
  ASSUME NEW d, NEW a, NEW s, NEW e, Measures(d, a, s, e), NEW p, NEW first \in Int, NEW last \in Int,
         ~q.reverse => 0 <= first /\ last < Word, q.reverse => 0 <= last /\ first < Word, NEW c
  PROVE  Reported(Filled(Gap(p, first, last), c))
<1>1. PICK z : z = EmptyBucketStarts(first, last)
  OBVIOUS
<1>2. PICK m \in Nat : DOMAIN z = 1 .. m /\ \A i \in 1 .. m : z[i] \in 0 .. Word - 1
  BY <1>1, EmptyStarts
<1>3. ASSUME NEW v PROVE Reported([i \in 1 .. m |-> Bucket(z[i], v[i])])
  <2>1. PICK y : y = [i \in 1 .. m |-> Bucket(z[i], v[i])]
    OBVIOUS
  <2>2. \A i \in 1 .. m : y[i].ts \in 0 .. Word - 1
    <3> SUFFICES ASSUME NEW i \in 1 .. m PROVE y[i].ts \in 0 .. Word - 1
      OBVIOUS
    <3>1. y[i] = Bucket(z[i], v[i]) /\ z[i] \in 0 .. Word - 1
      BY <1>2, <2>1
    <3> QED BY <3>1, BucketReported
  <2>3. y = [i \in 1 .. m |-> y[i]]
    BY <2>1
  <2> QED BY <2>1, <2>2, <2>3, ReportedList
<1>4. Reported([i \in 1 .. m |-> Bucket(z[i], FinalizeEmpty(q.agg, c))])
  <2>1. PICK v : v = [i \in 1 .. m |-> FinalizeEmpty(q.agg, c)]
    OBVIOUS
  <2>2. [i \in 1 .. m |-> Bucket(z[i], FinalizeEmpty(q.agg, c))] = [i \in 1 .. m |-> Bucket(z[i], v[i])]
    BY <2>1, Zenon
  <2> QED BY <1>3, <2>2, Zenon
<1>5. Reported([i \in 1 .. m |-> Bucket(z[i], TwaEmptyValue(first, z[i]))])
  <2>1. PICK v : v = [i \in 1 .. m |-> TwaEmptyValue(first, z[i])]
    OBVIOUS
  <2>2. [i \in 1 .. m |-> Bucket(z[i], TwaEmptyValue(first, z[i]))] = [i \in 1 .. m |-> Bucket(z[i], v[i])]
    BY <2>1, Zenon
  <2> QED BY <1>3, <2>2, Zenon
<1>6. \/ FillEmptyBuckets(first, last, c) = [i \in 1 .. m |-> Bucket(z[i], FinalizeEmpty(q.agg, c))]
      \/ FillEmptyBuckets(first, last, c) = [i \in 1 .. m |-> Bucket(z[i], TwaEmptyValue(first, z[i]))]
      \/ FillEmptyBuckets(first, last, c) = <<>>
  BY <1>1, <1>2, Zenon DEF FillEmptyBuckets
<1>7. Reported(FillEmptyBuckets(first, last, c))
  BY <1>4, <1>5, <1>6, NothingReported, Zenon
<1>8. Gap(p, first, last).first = first /\ Gap(p, first, last).last = last
  BY DEF Gap
<1>9. Filled(Gap(p, first, last), c) = FillEmptyBuckets(first, last, c) \/ Filled(Gap(p, first, last), c) = <<>>
  BY <1>8, Zenon DEF Filled
<1> QED BY <1>7, <1>9, NothingReported, Zenon

----------------------------------------------------------------------------
\* The samples of the range, the bucket that is open, and the queries for which the
\* assertion fails.
Found == {Sample(q.series, t) : t \in InRange}

OpenBucket(b, end) ==
  \E t \in InRange :
    /\ b = IF Floor(t, q.delta, q.align) < 0 THEN 0 ELSE Floor(t, q.delta, q.align)
    /\ end = Floor(t, q.delta, q.align) + q.delta

Refutable ==
  \/ q.empty /\ TooWide
  \/ /\ TwaEmptyRange /\ InRange = {}
     /\ \/ TrueStart(q.start) < 0 /\ TrueStart(q.end) >= 0
        \/ TrueStart(q.end) < TrueStart(q.start)
  \/ /\ TwaEmptyRange /\ InRange # {}
     /\ TrueStart(q.end) < 0 \/ ReportedTooFar

\* What holds of a query: only samples of the range are read, there are none only
\* if the range has none, and unless the duration is too wide bucket and scope are
\* those of one of the samples.
QueryOK ==
  /\ QueryTypeOK
  /\ phase # "idle" => q \in Queries /\ todo \in Seq(Found)
  /\ phase = "begin" /\ todo = <<>> => InRange = {}
  /\ phase = "loop" /\ ~TooWide => OpenBucket(bucket, scope)
  /\ Reported(answer)
  /\ phase = "failed" => Refutable

\* The samples of the range have timestamps in the range.
LEMMA FoundInRange ==
  ASSUME q \in Queries, NEW x \in Found
  PROVE  x.ts \in q.start .. q.end /\ x.ts \in 0 .. MaxTime /\ x.ts \in InRange
<1>1. PICK t \in InRange : x = Sample(q.series, t)
  BY DEF Found
<1>2. x.ts = t
  BY <1>1 DEF Sample
<1>3. IsQuery(q) /\ MaxTime \in Nat
  BY QueryAssumption
<1>4. DOMAIN q.series \subseteq 0 .. MaxTime /\ q.start \in 0 .. MaxTime /\ q.end \in 0 .. MaxTime
  BY <1>3 DEF IsQuery
<1>5. t \in DOMAIN q.series /\ q.start <= t /\ t <= q.end
  BY <1>1 DEF InRange
<1> QED BY <1>1, <1>2, <1>3, <1>4, <1>5

\* The first sample, and what is left behind some.
LEMMA FirstFound ==
  ASSUME q \in Queries, todo \in Seq(Found), todo # <<>>
  PROVE  todo[1] \in Found /\ Tail(todo) \in Seq(Found)
<1>1. PICK S : S = Found
  OBVIOUS
<1>2. todo \in Seq(S) /\ todo # <<>>
  BY <1>1
<1>3. todo[1] \in S /\ Tail(todo) \in Seq(S)
  BY <1>2
<1> QED BY <1>1, <1>3

\* The obligations of a step that goes on with the query.
LEMMA QueryGoesOn ==
  ASSUME phase # "idle", QueryOK, q' = q, phase' \in {"loop", "done", "failed"},
         todo' \in Seq(Found), bucket' \in 0 .. Word - 1, scope' \in 0 .. Word - 1,
         phase' = "loop" /\ ~TooWide => OpenBucket(bucket', scope'), Reported(answer'), phase' = "failed" => Refutable
  PROVE  QueryOK'
<1>1. q \in Queries /\ q # NoQuery
  BY QueryAssumption DEF QueryOK
<1>2. Found' = Found
  BY DEF Found, InRange
<1>3. OpenBucket(bucket, scope)' <=> OpenBucket(bucket', scope')
  BY Zenon DEF OpenBucket, InRange
<1>4. (Refutable' <=> Refutable) /\ (TooWide' <=> TooWide)
  BY Zenon DEF Refutable, TwaEmptyRange, InRange, TrueStart, TooWide, ReportedTooFar, BucketOffset
<1>5. Reported(answer)' <=> Reported(answer')
  BY Zenon DEF Reported
<1>6. \A i \in DOMAIN todo' : todo'[i].ts \in 0 .. MaxTime
  <2>1. PICK S : S = Found
    OBVIOUS
  <2>2. \A i \in DOMAIN todo' : todo'[i] \in S
    BY <2>1
  <2> QED BY <1>1, <2>1, <2>2, FoundInRange
<1>7. \A i \in DOMAIN answer' : answer'[i].ts \in 0 .. Word - 1
  BY DEF Reported
<1>8. QueryTypeOK'
  <2>1. phase' \in {"idle", "begin", "loop", "done", "failed"} /\ (q' = NoQuery <=> phase' = "idle")
    BY <1>1
  <2> QED BY <1>6, <1>7, <2>1, Zenon DEF QueryTypeOK
<1>9. phase' # "begin"
  OBVIOUS
<1> QED BY <1>1, <1>2, <1>3, <1>4, <1>5, <1>8, <1>9, Zenon DEF QueryOK

\* A query begins.
LEMMA SeriesQueryStep ==
  ASSUME QueryOK, phase = "idle", NEW query \in Queries, SeriesQuery(query)
  PROVE  QueryOK'
<1> DEFINE T == {t \in DOMAIN query.series : query.start <= t /\ t <= query.end}
<1>1. IsQuery(query) /\ MaxTime \in Nat /\ query # NoQuery
  BY QueryAssumption
<1>2. DOMAIN query.series \subseteq 0 .. MaxTime
  BY <1>1 DEF IsQuery
<1>3. T \in SUBSET Int /\ T \subseteq 0 .. MaxTime /\ IsFiniteSet(T)
  <2>1. IsFiniteSet(0 .. MaxTime)
    BY <1>1, FS_Interval
  <2>2. T \in SUBSET (0 .. MaxTime) /\ T \in SUBSET Int
    BY <1>1, <1>2
  <2> QED BY <2>1, <2>2, FS_Subset
<1>4. /\ phase' = "begin" /\ q' = query /\ UNCHANGED <<bucket, scope, answer>>
      /\ todo' = IF query.reverse THEN Reverse(SamplesAt(query.series, T)) ELSE SamplesAt(query.series, T)
  BY DEF SeriesQuery
<1>5. InRange' = T
  BY <1>4 DEF InRange
<1> HIDE DEF T
<1>6. PICK n \in Nat : n = Cardinality(T)
  BY <1>3, SamplesAtLists
<1>7. PICK o \in [1 .. n -> T] :
        SamplesAt(query.series, T) = [i \in 1 .. n |-> [ts |-> o[i], value |-> query.series[o[i]]]]
  <2>1. \E o \in [1 .. Cardinality(T) -> T] : SamplesAt(query.series, T)
          = [i \in 1 .. Cardinality(T) |-> [ts |-> o[i], value |-> query.series[o[i]]]]
    BY <1>3, SamplesAtLists, Zenon
  <2> QED BY <1>6, <2>1, Zenon
<1>8. PICK S : S = {Sample(query.series, t) : t \in T}
  OBVIOUS
<1>9. PICK z : z = SamplesAt(query.series, T)
  OBVIOUS
<1>10. z = [i \in 1 .. n |-> Sample(query.series, o[i])] /\ \A i \in 1 .. n : o[i] \in T
  BY <1>7, <1>9, Zenon DEF Sample
<1>11. z = [i \in 1 .. n |-> z[i]] /\ \A i \in 1 .. n : z[i] \in S
  BY <1>8, <1>10
<1>12. z \in Seq(S) /\ Len(z) = n
  BY <1>11, IsASeq
<1>13. Reverse(z) \in Seq(S) /\ Len(Reverse(z)) = n
  BY <1>12 DEF Reverse
<1>14. todo' \in Seq(S) /\ Len(todo') = n
  BY <1>4, <1>9, <1>12, <1>13
<1>15. S = Found'
  BY <1>4, <1>5, <1>8 DEF Found
<1>16. todo' = <<>> => InRange' = {}
  <2> SUFFICES ASSUME todo' = <<>> PROVE T = {}
    BY <1>5
  <2>1. Cardinality(T) = 0
    BY <1>6, <1>14
  <2> QED BY <1>3, <2>1, FS_EmptySet
<1>17. \A i \in DOMAIN todo' : todo'[i].ts \in 0 .. MaxTime
  <2>1. \A x \in S : x.ts \in 0 .. MaxTime
    BY <1>3, <1>8 DEF Sample
  <2>2. \A i \in DOMAIN todo' : todo'[i] \in S
    BY <1>14
  <2> QED BY <2>1, <2>2
<1>18. QueryTypeOK'
  BY <1>1, <1>4, <1>17 DEF QueryOK, QueryTypeOK
<1>19. Reported(answer)'
  BY <1>4, Zenon DEF QueryOK, Reported
<1>20. phase' # "loop" /\ phase' # "failed"
  BY <1>4
<1> QED BY <1>4, <1>14, <1>15, <1>16, <1>18, <1>19, <1>20, Zenon DEF QueryOK

\* Where Start puts a timestamp, and the bucket that Initialize and CloseBucket open
\* there.
LEMMA BucketTyped ==
  ASSUME NEW d, NEW a, NEW s, NEW e, Measures(d, a, s, e), NEW t \in Nat
  PROVE  /\ Start(t) = CalcBucketStart(t, d, a) /\ Start(t) \in 0 .. Word - 1
         /\ BucketStartNormalize(Start(t)) \in 0 .. Word - 1 /\ Unsigned(Start(t) + q.delta) \in 0 .. Word - 1
<1>1. d = q.delta /\ a = q.align /\ d \in Nat \ {0} /\ a \in Int /\ t \in Int
  BY DEF Measures
<1>2. Start(t) = CalcBucketStart(t, d, a)
  BY <1>1 DEF Start
<1>3. CalcBucketStart(t, d, a) \in 0 .. Word - 1
  BY <1>1, BucketStartType
<1>4. Start(t) + q.delta \in Int
  BY <1>1, <1>2, <1>3, WordOK
<1> QED BY <1>2, <1>3, <1>4, SignedType, UnsignedType

\* That bucket, for a sample t of the range.
LEMMA BucketOpened ==
  ASSUME NEW d, NEW a, NEW s, NEW e, Measures(d, a, s, e), ~TooWide, NEW t \in InRange
  PROVE  OpenBucket(BucketStartNormalize(Start(t)), Unsigned(Start(t) + q.delta))
<1>0. PICK W \in Nat \ {0} : W = Word
  BY WordOK
<1>1. /\ d = q.delta /\ a = q.align /\ s = q.start /\ e = q.end
      /\ d \in Nat \ {0} /\ a \in Nat /\ s \in Nat /\ e \in Nat /\ 2 * a < Word /\ 2 * e < Word
      /\ DOMAIN q.series \subseteq 0 .. MaxTime
  BY DEF Measures
<1>2. t \in Nat /\ 2 * t < Word
  <2>1. t \in 0 .. MaxTime /\ t <= e
    BY <1>1 DEF InRange
  <2> QED BY <1>0, <1>1, <2>1
<1>3. 4 * d <= Word
  BY <1>0, <1>1 DEF TooWide
<1>4. PICK f \in Int : /\ f = Floor(t, d, a)
                       /\ BucketStartNormalize(CalcBucketStart(t, d, a)) = IF f < 0 THEN 0 ELSE f
                       /\ Unsigned(CalcBucketStart(t, d, a) + d) = f + d
  <2>1. \E f \in Int :
          /\ f = Floor(t, d, a) /\ f <= t /\ t < f + d /\ OnGrid(f, d, a)
          /\ CalcBucketStart(t, d, a) = IF f < 0 THEN Word + f ELSE f
          /\ BucketStartNormalize(CalcBucketStart(t, d, a)) = IF f < 0 THEN 0 ELSE f
          /\ Unsigned(CalcBucketStart(t, d, a) + d) = f + d
    <3>1. d \in Nat \ {0} /\ a \in Nat /\ t \in Nat /\ 2 * t < Word /\ 2 * a < Word /\ 4 * d <= Word
      BY <1>1, <1>2, <1>3
    <3> QED BY <3>1, TimeStart, Zenon
  <2> QED BY <2>1, Zenon
<1>5. Start(t) = CalcBucketStart(t, d, a)
  BY <1>1 DEF Start
<1>6. OpenBucket(IF f < 0 THEN 0 ELSE f, f + d)
  BY <1>1, <1>4, Zenon DEF OpenBucket
<1> QED BY <1>1, <1>4, <1>5, <1>6

\* fillEmptyBuckets is called with EMPTY only, and its assertions are those of Whole.
LEMMA AssertionFailsIf ==
  ASSUME NEW d, NEW a, NEW s, NEW e, Measures(d, a, s, e), NEW p \in BOOLEAN, NEW first, NEW last,
         AssertionFails(Gap(p, first, last))
  PROVE  p /\ (q.reverse => ~Whole(last, first, d)) /\ (~q.reverse => ~Whole(first, last, d))
<1>1. p /\ ~BucketsInOrder(first, last)
  BY DEF AssertionFails, Gap
<1>2. d = q.delta /\ q.reverse \in BOOLEAN
  BY DEF Measures
<1> QED BY <1>1, <1>2 DEF BucketsInOrder, WholeBuckets, Whole

\* No sample in the range.
LEMMA NoSamplesStep ==
  ASSUME QueryOK, NoSamples
  PROVE  QueryOK'
<1>0. PICK W \in Nat \ {0} : W = Word
  BY WordOK
<1>1. phase = "begin" /\ todo = <<>> /\ q' = q /\ UNCHANGED <<todo, bucket, scope>>
  BY DEF NoSamples
<1>2. q \in Queries /\ InRange = {} /\ todo' \in Seq(Found)
  BY <1>1 DEF QueryOK
<1>3. PICK d, a, s, e : Measures(d, a, s, e)
  BY <1>2, QueryMeasures
<1>4. /\ d = q.delta /\ a = q.align /\ s = q.start /\ e = q.end
      /\ d \in Nat \ {0} /\ a \in Nat /\ s \in Nat /\ e \in Nat
      /\ 2 * s < Word /\ 2 * e < Word /\ 2 * a < Word /\ q.reverse \in BOOLEAN /\ q.empty \in BOOLEAN
  BY <1>3 DEF Measures
<1>5. PICK x \in 0 .. Word - 1 : x = Start(q.start) /\ x = CalcBucketStart(s, d, a)
  BY <1>3, <1>4, BucketTyped
<1>6. PICK y \in 0 .. Word - 1 : y = Start(q.end) /\ y = CalcBucketStart(e, d, a)
  BY <1>3, <1>4, BucketTyped
<1>7. PICK first \in 0 .. Word - 1, last \in 0 .. Word - 1 :
        /\ first = (IF q.reverse THEN y ELSE x) /\ last = (IF q.reverse THEN x ELSE y)
  BY <1>4
<1>8. Start(IF q.reverse THEN q.end ELSE q.start) = first /\ Start(IF q.reverse THEN q.start ELSE q.end) = last
  BY <1>4, <1>5, <1>6, <1>7
<1>9. TwaEmptyRange \in BOOLEAN
  BY DEF TwaEmptyRange
<1>10. PICK gap : gap = Gap(TwaEmptyRange, first, last)
  OBVIOUS
<1>11. phase' = (IF AssertionFails(gap) THEN "failed" ELSE "done") /\ answer' = Filled(gap, qctx)
  BY <1>8, <1>10 DEF NoSamples
<1>12. ASSUME AssertionFails(gap) PROVE Refutable
  <2>1. TwaEmptyRange /\ ~Whole(x, y, d)
    <3>1. TwaEmptyRange /\ (q.reverse => ~Whole(last, first, d)) /\ (~q.reverse => ~Whole(first, last, d))
      BY <1>3, <1>9, <1>10, <1>12, AssertionFailsIf
    <3> QED BY <1>4, <1>7, <3>1
  <2>2. CASE TooWide
    BY <2>1, <2>2 DEF Refutable, TwaEmptyRange
  <2>3. CASE ~TooWide
    <3>1. 4 * d <= Word /\ a \in Int
      BY <1>0, <1>4, <2>3 DEF TooWide
    <3>0. /\ d \in Nat \ {0} /\ a \in Nat /\ a \in Int /\ s \in Nat /\ e \in Nat
          /\ 2 * s < Word /\ 2 * e < Word /\ 2 * a < Word /\ 4 * d <= Word
      BY <1>4, <3>1
    <3>2. PICK f \in Int : f = Floor(s, d, a) /\ OnGrid(f, d, a) /\ x = IF f < 0 THEN Word + f ELSE f
      <4>1. \E f \in Int :
              /\ f = Floor(s, d, a) /\ f <= s /\ s < f + d /\ OnGrid(f, d, a)
              /\ CalcBucketStart(s, d, a) = IF f < 0 THEN Word + f ELSE f
              /\ BucketStartNormalize(CalcBucketStart(s, d, a)) = IF f < 0 THEN 0 ELSE f
              /\ Unsigned(CalcBucketStart(s, d, a) + d) = f + d
        BY <3>0, TimeStart, Zenon
      <4> QED BY <1>5, <4>1, Zenon
    <3>3. PICK g \in Int : g = Floor(e, d, a) /\ OnGrid(g, d, a) /\ y = IF g < 0 THEN Word + g ELSE g
      <4>1. \E h \in Int :
              /\ h = Floor(e, d, a) /\ h <= e /\ e < h + d /\ OnGrid(h, d, a)
              /\ CalcBucketStart(e, d, a) = IF h < 0 THEN Word + h ELSE h
              /\ BucketStartNormalize(CalcBucketStart(e, d, a)) = IF h < 0 THEN 0 ELSE h
              /\ Unsigned(CalcBucketStart(e, d, a) + d) = h + d
        BY <3>0, TimeStart, Zenon
      <4> QED BY <1>6, <4>1, Zenon
    <3>4. TrueStart(q.start) = f /\ TrueStart(q.end) = g
      BY <1>4, <3>2, <3>3 DEF TrueStart, Floor
    <3>5. (f < 0 /\ g >= 0) \/ g < f
      <4> SUFFICES ASSUME ~(f < 0 /\ g >= 0), ~(g < f) PROVE FALSE
        OBVIOUS
      <4>1. f < 0 /\ g < 0 => f = g
        <5>1. Floor(s, d, a) < 0 /\ Floor(e, d, a) < 0 => Floor(s, d, a) = Floor(e, d, a)
          BY <3>0, FirstBucket, Zenon
        <5> QED BY <3>2, <3>3, <5>1, Zenon
      <4>2. Whole(f, g, d)
        BY <1>4, <3>1, <3>2, <3>3, WholeOnGrid
      <4>3. CASE f >= 0
        <5>1. x = f /\ y = g
          BY <3>2, <3>3, <4>3
        <5> QED BY <2>1, <4>2, <5>1
      <4>4. CASE f < 0
        <5>1. x = y /\ y - x = f - f
          BY <1>0, <3>2, <3>3, <4>1, <4>4
        <5>2. f - f = g - f
          BY <4>1, <4>4
        <5> QED BY <1>0, <1>5, <2>1, <4>2, <5>1, <5>2 DEF Whole
      <4> QED BY <4>3, <4>4
    <3> QED BY <1>2, <2>1, <3>4, <3>5 DEF Refutable
  <2> QED BY <2>2, <2>3
<1>13. Reported(answer')
  <2>1. first \in Int /\ last \in Int /\ 0 <= first /\ last < Word /\ 0 <= last /\ first < Word
    BY <1>0, <1>7
  <2>2. Reported(Filled(Gap(TwaEmptyRange, first, last), qctx))
    BY <1>3, <2>1, FilledReported
  <2> QED BY <1>10, <1>11, <2>2
<1>14. bucket' \in 0 .. Word - 1 /\ scope' \in 0 .. Word - 1
  BY <1>1 DEF QueryOK, QueryTypeOK
<1>15. phase # "idle" /\ phase' \in {"loop", "done", "failed"} /\ phase' # "loop" /\ (phase' = "failed" => Refutable)
  BY <1>1, <1>11, <1>12
<1> QED BY <1>1, <1>2, <1>13, <1>14, <1>15, QueryGoesOn

\* The first sample.
LEMMA InitializeStep ==
  ASSUME QueryOK, Initialize
  PROVE  QueryOK'
<1>0. PICK W \in Nat \ {0} : W = Word
  BY WordOK
<1>1. phase = "begin" /\ todo # <<>> /\ q' = q /\ todo' = todo
  BY DEF Initialize
<1>2. q \in Queries /\ todo' \in Seq(Found)
  BY <1>1 DEF QueryOK
<1>3. PICK d, a, s, e : Measures(d, a, s, e)
  BY <1>2, QueryMeasures
<1>4. /\ d = q.delta /\ a = q.align /\ s = q.start /\ e = q.end
      /\ d \in Nat \ {0} /\ a \in Nat /\ s \in Nat /\ e \in Nat
      /\ 2 * s < Word /\ 2 * e < Word /\ 2 * a < Word /\ q.reverse \in BOOLEAN
  BY <1>3 DEF Measures
<1>5. PICK t \in s .. e : t = todo[1].ts /\ t \in InRange
  <2>1. todo[1] \in Found
    BY <1>1, <1>2, FirstFound
  <2> QED BY <1>2, <1>4, <2>1, FoundInRange
<1>6. t \in Nat /\ s <= t /\ 2 * t < Word
  BY <1>0, <1>4
<1>7. PICK b \in 0 .. Word - 1 : b = Start(t) /\ b = CalcBucketStart(t, d, a)
  BY <1>3, <1>6, BucketTyped
<1>8. PICK first \in 0 .. Word - 1, last \in 0 .. Word - 1, p \in BOOLEAN :
        /\ first = Start(IF q.reverse THEN q.end ELSE q.start)
        /\ first = CalcBucketStart(IF q.reverse THEN e ELSE s, d, a)
        /\ last = (IF q.reverse THEN Unsigned(b + q.delta) ELSE StepBack(b, q.delta))
        /\ p = (TwaEmptyRange /\ IF q.reverse THEN first >= last ELSE first < b)
  <2>1. PICK u \in Nat : u = IF q.reverse THEN e ELSE s
    BY <1>4
  <2>2. PICK first \in 0 .. Word - 1 : first = Start(u) /\ first = CalcBucketStart(u, d, a)
    BY <1>3, <2>1, BucketTyped
  <2>3. b \in Int /\ b + q.delta \in Int /\ q.delta \in Int
    BY <1>0, <1>4
  <2>4. Unsigned(b + q.delta) \in 0 .. Word - 1 /\ StepBack(b, q.delta) \in 0 .. Word - 1
    BY <2>3, UnsignedType, StepBackType
  <2>5. PICK last \in 0 .. Word - 1 : last = IF q.reverse THEN Unsigned(b + q.delta) ELSE StepBack(b, q.delta)
    BY <2>4
  <2>6. u = IF q.reverse THEN q.end ELSE q.start
    BY <1>4, <2>1
  <2> QED BY <2>1, <2>2, <2>5, <2>6
<1>9. PICK gap : gap = Gap(p, first, last)
  OBVIOUS
<1>10. Prefix(b) = gap
  BY <1>8, <1>9, Zenon DEF Prefix
<1>11. /\ phase' = IF AssertionFails(gap) THEN "failed" ELSE "loop"
       /\ answer' = Filled(gap, qctx)
       /\ bucket' = BucketStartNormalize(b) /\ scope' = Unsigned(b + q.delta)
  BY <1>5, <1>7, <1>10, Zenon DEF Initialize
<1>12. ASSUME AssertionFails(gap) PROVE Refutable
  <2>1. p /\ (q.reverse => ~Whole(last, first, d)) /\ (~q.reverse => ~Whole(first, last, d))
    BY <1>3, <1>9, <1>12, AssertionFailsIf
  <2>2. CASE TooWide
    BY <1>8, <2>1, <2>2 DEF Refutable, TwaEmptyRange
  <2>3. CASE ~TooWide
    <3>1. 4 * d <= Word
      BY <1>0, <1>4, <2>3 DEF TooWide
    <3>2. CASE ~q.reverse
      <4>1. first = CalcBucketStart(s, d, a) /\ last = StepBack(b, d) /\ first < b
        BY <1>4, <1>8, <2>1, <3>2
      <4>2. Whole(first, last, d)
        BY <1>4, <1>6, <1>7, <3>1, <4>1, PrefixInOrder
      <4> QED BY <2>1, <3>2, <4>2
    <3>3. CASE q.reverse
      <4>1. first = CalcBucketStart(e, d, a) /\ last = Unsigned(b + d) /\ first >= last /\ TwaEmptyRange
        BY <1>4, <1>8, <2>1, <3>3
      <4>2. ~(Floor(e, d, a) >= 0)
        BY <1>4, <1>6, <1>7, <2>1, <3>1, <3>3, <4>1, PrefixInReverse
      <4>3. TrueStart(q.end) = Floor(e, d, a)
        BY <1>4, Zenon DEF TrueStart, Floor
      <4>4. Floor(e, d, a) \in Int
        <5>1. e \in Int /\ a \in Int
          BY <1>4
        <5> QED BY <1>4, <5>1, FloorFacts
      <4>5. TrueStart(q.end) < 0
        BY <4>2, <4>3, <4>4
      <4> QED BY <1>5, <4>1, <4>5 DEF Refutable
    <3> QED BY <1>4, <3>2, <3>3
  <2> QED BY <2>2, <2>3
<1>13. Reported(answer')
  <2>1. first \in Int /\ last \in Int /\ 0 <= first /\ last < Word /\ 0 <= last /\ first < Word
    BY <1>0, <1>8
  <2>2. Reported(Filled(Gap(p, first, last), qctx))
    BY <1>3, <2>1, FilledReported
  <2> QED BY <1>9, <1>11, <2>2
<1>14. bucket' \in 0 .. Word - 1 /\ scope' \in 0 .. Word - 1
  BY <1>3, <1>6, <1>7, <1>11, BucketTyped
<1>15. ~TooWide => OpenBucket(bucket', scope')
  BY <1>3, <1>5, <1>7, <1>11, BucketOpened
<1>16. phase # "idle" /\ phase' \in {"loop", "done", "failed"} /\ (phase' = "failed" => Refutable)
  BY <1>1, <1>11, <1>12
<1> QED BY <1>1, <1>2, <1>13, <1>14, <1>15, <1>16, QueryGoesOn

\* A sample, or a run of samples, of the open bucket.
LEMMA AppendStep ==
  ASSUME QueryOK, AppendOne \/ AppendRun
  PROVE  QueryOK'
<1>1. phase = "loop" /\ todo # <<>> /\ UNCHANGED <<phase, q, bucket, scope, answer>>
  BY DEF AppendOne, AppendRun, InBucket
<1>2. q \in Queries /\ todo \in Seq(Found) /\ (~TooWide => OpenBucket(bucket, scope)) /\ Reported(answer)
      /\ bucket \in 0 .. Word - 1 /\ scope \in 0 .. Word - 1
  BY <1>1 DEF QueryOK, QueryTypeOK
<1>3. todo' \in Seq(Found)
  <2>1. CASE AppendOne
    BY <1>1, <1>2, <2>1, FirstFound DEF AppendOne
  <2>2. CASE AppendRun
    <3>1. PICK S : S = Found
      OBVIOUS
    <3>2. PICK n : n = Cardinality({i \in DOMAIN todo : todo[i].ts < scope}) /\ todo' = SubSeq(todo, n + 1, Len(todo))
      BY <2>2 DEF AppendRun
    <3>3. PICK m \in Nat : m = Len(todo) /\ DOMAIN todo = 1 .. m /\ \A i \in 1 .. m : todo[i] \in S
      BY <1>2, <3>1, LenProperties
    <3>4. n \in Nat
      <4>1. IsFiniteSet(1 .. m)
        BY FS_Interval
      <4>2. {i \in DOMAIN todo : todo[i].ts < scope} \in SUBSET (1 .. m)
        BY <3>3
      <4>3. IsFiniteSet({i \in DOMAIN todo : todo[i].ts < scope})
        BY <4>1, <4>2, FS_Subset
      <4> QED BY <3>2, <4>3, FS_CardinalityType
    <3>5. n + 1 \in Int /\ m \in Int /\ \A i \in n + 1 .. m : todo[i] \in S
      BY <3>3, <3>4
    <3>6. SubSeq(todo, n + 1, m) \in Seq(S)
      BY <3>5, SubSeqProperties
    <3> QED BY <3>1, <3>2, <3>3, <3>6
  <2> QED BY <2>1, <2>2
<1>4. phase # "idle" /\ phase' \in {"loop", "done", "failed"} /\ phase' # "failed"
  BY <1>1
<1>5. q' = q /\ bucket' = bucket /\ scope' = scope /\ answer' = answer
  BY <1>1
<1>6. (~TooWide => OpenBucket(bucket', scope')) /\ Reported(answer') /\ bucket' \in 0 .. Word - 1 /\ scope' \in 0 .. Word - 1
  BY <1>2, <1>5
<1> QED BY <1>3, <1>4, <1>5, <1>6, QueryGoesOn

\* One bucket, reported.
LEMMA OneReported ==
  ASSUME NEW d, NEW a, NEW s, NEW e, Measures(d, a, s, e), NEW b \in 0 .. Word - 1, NEW v
  PROVE  Reported(<<Bucket(b, v)>>)
<1>1. PICK z : z = <<Bucket(b, v)>>
  OBVIOUS
<1>2. z = [i \in 1 .. 1 |-> z[i]] /\ z[1] = Bucket(b, v)
  BY <1>1
<1>3. \A i \in 1 .. 1 : z[i].ts \in 0 .. Word - 1
  BY <1>2, BucketReported
<1> QED BY <1>1, <1>2, <1>3, ReportedList

\* A sample behind the bucket.
LEMMA CloseBucketStep ==
  ASSUME QueryOK, CloseBucket
  PROVE  QueryOK'
<1>0. PICK W \in Nat \ {0} : W = Word
  BY WordOK
<1>1. phase = "loop" /\ todo # <<>> /\ q' = q /\ todo' = Tail(todo) /\ EndsBucket(todo[1].ts)
  BY DEF CloseBucket
<1>2. q \in Queries /\ todo \in Seq(Found) /\ (~TooWide => OpenBucket(bucket, scope)) /\ Reported(answer)
      /\ bucket \in 0 .. Word - 1 /\ scope \in 0 .. Word - 1
  BY <1>1 DEF QueryOK, QueryTypeOK
<1>3. PICK d, a, s, e : Measures(d, a, s, e)
  BY <1>2, QueryMeasures
<1>4. /\ d \in Nat \ {0} /\ a \in Nat /\ s \in Nat /\ e \in Nat
      /\ 2 * s < Word /\ 2 * e < Word /\ 2 * a < Word /\ q.reverse \in BOOLEAN
  BY <1>3 DEF Measures
<1>5. d = q.delta /\ a = q.align /\ s = q.start /\ e = q.end
  BY <1>3 DEF Measures
<1>6. todo[1] \in Found /\ todo' \in Seq(Found)
  BY <1>1, <1>2, FirstFound
<1>7. PICK t \in s .. e : t = todo[1].ts /\ t \in InRange
  <2>1. todo[1].ts \in q.start .. q.end /\ todo[1].ts \in InRange
    BY <1>2, <1>6, FoundInRange
  <2> QED BY <1>5, <2>1
<1>8. t \in Nat /\ 2 * t < Word
  BY <1>0, <1>4, <1>7
<1>9. PICK b \in 0 .. Word - 1 : b = Start(t) /\ b = CalcBucketStart(t, d, a)
  BY <1>3, <1>8, BucketTyped
<1>10. PICK first \in 0 .. Word - 1, last \in 0 .. Word - 1, p \in BOOLEAN :
        /\ first = (IF q.reverse THEN StepBack(scope, 2 * q.delta) ELSE scope)
        /\ last = (IF q.reverse THEN Unsigned(b + q.delta) ELSE StepBack(b, q.delta))
        /\ p = (q.empty /\ IF q.reverse THEN scope >= Unsigned(last + 2 * q.delta) ELSE first < b)
  <2>1. b \in Int /\ b + q.delta \in Int /\ q.delta \in Int /\ scope \in Int /\ 2 * q.delta \in Int
    BY <1>0, <1>2, <1>4, <1>5
  <2>2. /\ Unsigned(b + q.delta) \in 0 .. Word - 1 /\ StepBack(b, q.delta) \in 0 .. Word - 1
        /\ StepBack(scope, 2 * q.delta) \in 0 .. Word - 1
    BY <2>1, UnsignedType, StepBackType
  <2>3. PICK last \in 0 .. Word - 1 : last = IF q.reverse THEN Unsigned(b + q.delta) ELSE StepBack(b, q.delta)
    BY <2>2
  <2>4. PICK first \in 0 .. Word - 1 : first = IF q.reverse THEN StepBack(scope, 2 * q.delta) ELSE scope
    BY <1>2, <2>2
  <2> QED BY <2>3, <2>4
<1>11. PICK gap : gap = Gap(p, first, last)
  OBVIOUS
<1>12. Between(b) = gap
  BY <1>10, <1>11, Zenon DEF Between
<1>13. PICK c : /\ phase' = IF AssertionFails(gap) THEN "failed" ELSE "loop"
                /\ answer' = answer \o <<Bucket(bucket, Finalize(q.agg, c))>> \o Filled(gap, ResetContext(q.agg, c))
                /\ bucket' = BucketStartNormalize(b) /\ scope' = Unsigned(b + q.delta)
  BY <1>7, <1>9, <1>12, Zenon DEF CloseBucket
<1>14. ASSUME AssertionFails(gap) PROVE Refutable
  <2>1. p /\ (q.reverse => ~Whole(last, first, d)) /\ (~q.reverse => ~Whole(first, last, d))
    BY <1>3, <1>11, <1>14, AssertionFailsIf
  <2>2. CASE TooWide
    BY <1>10, <2>1, <2>2 DEF Refutable
  <2>3. CASE ~TooWide
    <3>1. 4 * d <= Word
      BY <1>0, <1>4, <1>5, <2>3 DEF TooWide
    <3>2. PICK u \in InRange : /\ bucket = IF Floor(u, d, a) < 0 THEN 0 ELSE Floor(u, d, a)
                               /\ scope = Floor(u, d, a) + d
      BY <1>2, <1>5, <2>3, Zenon DEF OpenBucket
    <3>3. u \in Nat /\ 2 * u < Word
      <4>1. u \in 0 .. MaxTime /\ u <= e
        BY <1>3, <1>5 DEF InRange, Measures
      <4> QED BY <1>0, <1>4, <4>1
    <3>4. Floor(u, d, a) \in Int
      <4>1. u \in Int /\ a \in Int
        BY <1>4, <3>3
      <4> QED BY <1>4, <4>1, FloorFacts
    <3>5. CASE q.reverse
      <4>1. /\ first = StepBack(scope, 2 * d) /\ last = Unsigned(b + d) /\ t < bucket
            /\ scope >= Unsigned(last + 2 * d)
        BY <1>1, <1>5, <1>7, <1>10, <2>1, <3>5 DEF EndsBucket
      <4>2. t < Floor(u, d, a)
        BY <1>8, <3>2, <3>4, <4>1
      <4>3. Whole(last, first, d)
        BY <1>4, <1>8, <1>9, <3>1, <3>2, <3>3, <4>1, <4>2, BetweenInReverse
      <4> QED BY <2>1, <3>5, <4>3
    <3>6. CASE ~q.reverse
      <4>1. first = scope /\ last = StepBack(b, d) /\ first < b /\ t >= scope
        BY <1>1, <1>5, <1>7, <1>10, <2>1, <3>6 DEF EndsBucket
      <4>2. Floor(u, d, a) + d <= t
        BY <1>0, <1>2, <1>4, <1>8, <3>2, <3>4, <4>1
      <4>3. Whole(first, last, d)
        <5>1. /\ d \in Nat \ {0} /\ a \in Nat /\ u \in Nat /\ t \in Nat /\ 2 * t < Word /\ 2 * a < Word /\ 4 * d <= Word
              /\ Floor(u, d, a) + d < CalcBucketStart(t, d, a)
          BY <1>4, <1>8, <1>9, <3>1, <3>2, <3>3, <4>1
        <5>2. Whole(Floor(u, d, a) + d, StepBack(CalcBucketStart(t, d, a), d), d)
          BY <4>2, <5>1, BetweenInOrder, Zenon
        <5> QED BY <1>9, <3>2, <4>1, <5>2, Zenon
      <4> QED BY <2>1, <3>6, <4>3
    <3> QED BY <1>4, <3>5, <3>6
  <2> QED BY <2>2, <2>3
<1>15. Reported(answer')
  <2>1. first \in Int /\ last \in Int /\ 0 <= first /\ last < Word /\ 0 <= last /\ first < Word
    BY <1>0, <1>10
  <2>2. Reported(Filled(Gap(p, first, last), ResetContext(q.agg, c)))
    BY <1>3, <2>1, FilledReported
  <2>3. Reported(<<Bucket(bucket, Finalize(q.agg, c))>>)
    BY <1>2, <1>3, OneReported
  <2>4. Reported(answer \o <<Bucket(bucket, Finalize(q.agg, c))>>)
    BY <1>2, <2>3, ReportedJoined
  <2>5. PICK y : y = answer \o <<Bucket(bucket, Finalize(q.agg, c))>>
    OBVIOUS
  <2> QED BY <1>11, <1>13, <2>2, <2>4, <2>5, ReportedJoined
<1>16. bucket' \in 0 .. Word - 1 /\ scope' \in 0 .. Word - 1
  BY <1>3, <1>8, <1>9, <1>13, BucketTyped
<1>17. ~TooWide => OpenBucket(bucket', scope')
  BY <1>3, <1>7, <1>9, <1>13, BucketOpened
<1>18. phase # "idle" /\ phase' \in {"loop", "done", "failed"} /\ (phase' = "failed" => Refutable)
  BY <1>1, <1>13, <1>14
<1> QED BY <1>1, <1>6, <1>15, <1>16, <1>17, <1>18, QueryGoesOn

\* The last bucket.
LEMMA FinalizeLastStep ==
  ASSUME QueryOK, FinalizeLast
  PROVE  QueryOK'
<1>0. PICK W \in Nat \ {0} : W = Word
  BY WordOK
<1>1. phase = "loop" /\ UNCHANGED <<q, todo, bucket, scope>>
  BY DEF FinalizeLast
<1>2. q \in Queries /\ todo' \in Seq(Found) /\ (~TooWide => OpenBucket(bucket, scope)) /\ Reported(answer)
      /\ bucket \in 0 .. Word - 1 /\ bucket' \in 0 .. Word - 1 /\ scope' \in 0 .. Word - 1
  BY <1>1 DEF QueryOK, QueryTypeOK
<1>3. PICK d, a, s, e : Measures(d, a, s, e)
  BY <1>2, QueryMeasures
<1>4. /\ d \in Nat \ {0} /\ a \in Nat /\ s \in Nat /\ e \in Nat
      /\ 2 * s < Word /\ 2 * e < Word /\ 2 * a < Word /\ q.reverse \in BOOLEAN
  BY <1>3 DEF Measures
<1>5. d = q.delta /\ a = q.align /\ s = q.start /\ e = q.end
  BY <1>3 DEF Measures
<1>6. PICK z \in 0 .. Word - 1 : z = CalcBucketTs(bucket) /\ z \in Nat
  <2>1. \A v : Bucket(bucket, v).ts = CalcBucketTs(bucket)
    BY DEF Bucket
  <2>2. CalcBucketTs(bucket) \in 0 .. Word - 1
    BY <1>2, <1>3, <2>1, BucketReported
  <2> QED BY <1>0, <2>2
<1>7. PICK b \in 0 .. Word - 1 : b = Start(z) /\ b = CalcBucketStart(z, d, a)
  BY <1>3, <1>6, BucketTyped
<1>8. PICK first \in 0 .. Word - 1, last \in 0 .. Word - 1, p \in BOOLEAN :
        /\ first = Unsigned(IF q.reverse THEN b - q.delta ELSE b + q.delta)
        /\ last = Start(IF q.reverse THEN q.start ELSE q.end)
        /\ last = CalcBucketStart(IF q.reverse THEN s ELSE e, d, a)
        /\ p = (TwaEmptyRange /\ IF q.reverse THEN b > last ELSE b < last)
  <2>1. PICK u \in Nat : u = IF q.reverse THEN s ELSE e
    BY <1>4
  <2>2. PICK last \in 0 .. Word - 1 : last = Start(u) /\ last = CalcBucketStart(u, d, a)
    BY <1>3, <2>1, BucketTyped
  <2>3. (IF q.reverse THEN b - q.delta ELSE b + q.delta) \in Int
    BY <1>0, <1>4, <1>5
  <2>4. PICK first \in 0 .. Word - 1 : first = Unsigned(IF q.reverse THEN b - q.delta ELSE b + q.delta)
    BY <2>3, UnsignedType
  <2>5. u = IF q.reverse THEN q.start ELSE q.end
    BY <1>5, <2>1
  <2> QED BY <2>1, <2>2, <2>4, <2>5
<1>9. PICK gap : gap = Gap(p, first, last)
  OBVIOUS
<1>10. Suffix(CalcBucketTs(bucket)) = gap
  BY <1>6, <1>7, <1>8, <1>9, Zenon DEF Suffix
<1>11. PICK c : /\ phase' = IF AssertionFails(gap) THEN "failed" ELSE "done"
                /\ answer' = answer \o <<Bucket(bucket, Finalize(q.agg, c))>> \o Filled(gap, qctx)
  BY <1>10, Zenon DEF FinalizeLast
<1>12. ASSUME AssertionFails(gap) PROVE Refutable
  <2>1. p /\ (q.reverse => ~Whole(last, first, d)) /\ (~q.reverse => ~Whole(first, last, d))
    BY <1>3, <1>9, <1>12, AssertionFailsIf
  <2>2. TwaEmptyRange
    BY <1>8, <2>1
  <2>3. CASE TooWide
    BY <2>2, <2>3 DEF Refutable, TwaEmptyRange
  <2>4. CASE ~TooWide
    <3>1. 4 * d <= Word
      BY <1>0, <1>4, <1>5, <2>4 DEF TooWide
    <3>2. PICK u \in InRange : bucket = IF Floor(u, d, a) < 0 THEN 0 ELSE Floor(u, d, a)
      BY <1>2, <1>5, <2>4, Zenon DEF OpenBucket
    <3>3. u \in Nat /\ s <= u /\ u <= e /\ 2 * u < Word
      <4>1. u \in 0 .. MaxTime /\ u <= e /\ s <= u
        BY <1>3, <1>5 DEF InRange, Measures
      <4> QED BY <1>0, <1>4, <4>1
    <3>4. PICK f \in Int : f = Floor(u, d, a) /\ f <= u /\ u < f + d /\ TrueStart(u) = f
      <4>1. u \in Int /\ a \in Int
        BY <1>4, <3>3
      <4>2. Floor(u, d, a) \in Int /\ Floor(u, d, a) <= u /\ u < Floor(u, d, a) + d
        BY <1>4, <4>1, FloorFacts
      <4>3. TrueStart(u) = Floor(u, d, a)
        BY <1>5, Zenon DEF TrueStart, Floor
      <4> QED BY <4>2, <4>3
    <3>5. z = bucket + BucketOffset /\ BucketOffset \in 0 .. d
      <4>1. bucket \in Nat /\ bucket + d < Word
        BY <1>0, <1>2, <1>4, <3>1, <3>2, <3>3, <3>4
      <4> QED BY <1>3, <1>6, <4>1, BucketReportedAt, OffsetOK
    <3>6. CASE ReportedTooFar
      BY <2>2, <3>2, <3>6 DEF Refutable
    <3>7. CASE ~ReportedTooFar
      <4>1. ~(2 * (f + BucketOffset - a) >= Word)
        BY <1>5, <3>2, <3>4, <3>7 DEF ReportedTooFar
      <4>2. Near(z, a) /\ 4 * z < 3 * Word /\ z < Word
        BY <1>0, <1>4, <3>1, <3>2, <3>3, <3>4, <3>5, <4>1 DEF Near
      <4>3. CASE q.reverse
        <5>1. first = Unsigned(b - d) /\ last = CalcBucketStart(s, d, a) /\ b > last
          BY <1>5, <1>8, <2>1, <4>3
        <5>2. Floor(s, d, a) <= z
          <6>1. s \in Int /\ a \in Int /\ u \in Int
            BY <1>4, <3>3
          <6>2. Floor(s, d, a) <= f /\ Floor(s, d, a) \in Int
            <7>1. Floor(s, d, a) <= Floor(u, d, a)
              BY <1>4, <3>3, <6>1, FloorOrder
            <7>2. Floor(s, d, a) \in Int
              BY <1>4, <6>1, FloorFacts
            <7> QED BY <3>4, <7>1, <7>2
          <6> QED BY <1>4, <3>2, <3>4, <3>5, <6>2
        <5>3. Whole(last, first, d)
          BY <1>4, <1>6, <1>7, <3>1, <4>2, <5>1, <5>2, SuffixInReverse
        <5> QED BY <2>1, <4>3, <5>3
      <4>4. CASE ~q.reverse
        <5>1. first = Unsigned(b + d) /\ last = CalcBucketStart(e, d, a) /\ b < last
          BY <1>5, <1>8, <2>1, <4>4
        <5>2. ~(Floor(e, d, a) >= 0)
          BY <1>4, <1>6, <1>7, <2>1, <3>1, <4>2, <4>4, <5>1, SuffixInOrder
        <5>3. TrueStart(q.end) = Floor(e, d, a)
          BY <1>5, Zenon DEF TrueStart, Floor
        <5>4. Floor(e, d, a) \in Int
          <6>1. e \in Int /\ a \in Int
            BY <1>4
          <6> QED BY <1>4, <6>1, FloorFacts
        <5>5. TrueStart(q.end) < 0
          BY <5>2, <5>3, <5>4
        <5> QED BY <2>2, <3>2, <5>5 DEF Refutable
      <4> QED BY <1>4, <4>3, <4>4
    <3> QED BY <3>6, <3>7
  <2> QED BY <2>3, <2>4
<1>13. Reported(answer')
  <2>1. first \in Int /\ last \in Int /\ 0 <= first /\ last < Word /\ 0 <= last /\ first < Word
    BY <1>0, <1>8
  <2>2. Reported(Filled(Gap(p, first, last), qctx))
    BY <1>3, <2>1, FilledReported
  <2>3. Reported(<<Bucket(bucket, Finalize(q.agg, c))>>)
    BY <1>2, <1>3, OneReported
  <2>4. Reported(answer \o <<Bucket(bucket, Finalize(q.agg, c))>>)
    BY <1>2, <2>3, ReportedJoined
  <2>5. PICK y : y = answer \o <<Bucket(bucket, Finalize(q.agg, c))>>
    OBVIOUS
  <2> QED BY <1>9, <1>11, <2>2, <2>4, <2>5, ReportedJoined
<1>14. phase # "idle" /\ phase' \in {"loop", "done", "failed"} /\ phase' # "loop" /\ q' = q
       /\ (phase' = "failed" => Refutable)
  BY <1>1, <1>11, <1>12
<1> QED BY <1>2, <1>13, <1>14, QueryGoesOn

\* No step of a query leaves QueryOK.
LEMMA QueryStepOK ==
  ASSUME QueryOK, QueryStep
  PROVE  QueryOK'
<1>1. ASSUME phase = "idle", NEW query \in Queries, SeriesQuery(query) PROVE QueryOK'
  BY <1>1, SeriesQueryStep
<1> QED BY <1>1, NoSamplesStep, InitializeStep, AppendStep, CloseBucketStep, FinalizeLastStep DEF QueryStep

----------------------------------------------------------------------------
(***************************************************************************)
(* The heap: pushing an item up or down only exchanges items.              *)
(***************************************************************************)

\* A loop of n rounds over the states X that begins with c; round i is G[i].
Loop(f, n, X, c, G) == f \in [0 .. n -> X] /\ f[0] = c /\ \A i \in 1 .. n : f[i] = G[i][f[i - 1]]

\* A loop of n rounds over a set X exists as a function: each round is the round function applied to the one before.
LEMMA Rounds ==
  ASSUME NEW n \in Nat, NEW X, NEW c \in X, NEW G \in [1 .. n -> [X -> X]]
  PROVE  \E f : Loop(f, n, X, c, G)
<1> DEFINE Step(f, i) == IF i = 0 THEN c ELSE G[i][f[i - 1]]
           Ok(k) == \E f : f = [i \in 0 .. k |-> Step(f, i)] /\ \A i \in 0 .. k : f[i] \in X
           Bad == {k \in 0 .. n : ~Ok(k)}
<1>1. Bad = {}
  <2> SUFFICES ASSUME Bad # {} PROVE FALSE
    OBVIOUS
  <2>0. Bad \in SUBSET Nat
    OBVIOUS
  <2>1. PICK k \in Bad : \A j \in Bad : k <= j
    BY <2>0, SmallestExists
  <2>2. CASE k = 0
    <3>1. PICK f : f = [i \in 0 .. 0 |-> c]
      OBVIOUS
    <3>2. f = [i \in 0 .. k |-> Step(f, i)] /\ \A i \in 0 .. k : f[i] \in X
      BY <2>2, <3>1
    <3> QED BY <3>2
  <2>3. CASE k # 0
    <3>1. k \in 1 .. n /\ k - 1 \in 0 .. n /\ k - 1 < k
      BY <2>3
    <3>2. Ok(k - 1)
      <4>1. k - 1 \notin Bad
        <5> HIDE DEF Bad
        <5>1. ASSUME k - 1 \in Bad PROVE FALSE
          <6>1. k <= k - 1
            BY <2>1, <5>1
          <6> QED BY <3>1, <6>1
        <5> QED BY <5>1
      <4> HIDE DEF Ok
      <4> QED BY <3>1, <4>1
    <3>3. PICK f : f = [i \in 0 .. k - 1 |-> Step(f, i)] /\ \A i \in 0 .. k - 1 : f[i] \in X
      BY <3>2
    <3> DEFINE v == G[k][f[k - 1]]
               g == [i \in 0 .. k |-> IF i = k THEN v ELSE f[i]]
    <3>4. v \in X
      <4>1. f[k - 1] \in X
        BY <3>1, <3>3
      <4> QED BY <3>1, <4>1
    <3>5. ASSUME NEW i \in 0 .. k PROVE g[i] = Step(g, i) /\ g[i] \in X
      <4>1. CASE i = k
        <5>1. k - 1 \in 0 .. k /\ k - 1 # k
          BY <3>1
        <5>2. g[k - 1] = f[k - 1]
          BY <5>1
        <5>3. g[i] = G[k][f[k - 1]] /\ g[i] = v
          BY <4>1
        <5> HIDE DEF g, v
        <5> QED BY <2>3, <3>4, <4>1, <5>2, <5>3
      <4>2. CASE i # k
        <5>1. i \in 0 .. k - 1
          BY <3>1, <4>2
        <5>2. f[i] = Step(f, i) /\ f[i] \in X
          BY <3>3, <5>1
        <5>3. i # 0 => g[i - 1] = f[i - 1]
          BY <3>1, <5>1
        <5>4. g[i] = f[i]
          BY <4>2
        <5> HIDE DEF g
        <5> QED BY <5>2, <5>3, <5>4
      <4> QED BY <4>1, <4>2
    <3>6. g = [i \in 0 .. k |-> Step(g, i)]
      <4>1. g = [i \in 0 .. k |-> g[i]]
        OBVIOUS
      <4> HIDE DEF g
      <4> QED BY <3>5, <4>1
    <3>7. \A i \in 0 .. k : g[i] \in X
      BY <3>5
    <3> HIDE DEF g
    <3>8. Ok(k)
      BY <3>6, <3>7
    <3> QED BY <3>8
  <2> QED BY <2>2, <2>3
<1>2. n \in 0 .. n
  OBVIOUS
<1>3. Ok(n)
  BY <1>1, <1>2
<1>4. PICK f : f = [i \in 0 .. n |-> Step(f, i)] /\ \A i \in 0 .. n : f[i] \in X
  BY <1>3
<1>5. \A i \in 0 .. n : f[i] = Step(f, i)
  BY <1>4
<1>6. f \in [0 .. n -> X]
  BY <1>4
<1>7. f[0] = c /\ \A i \in 1 .. n : f[i] = G[i][f[i - 1]]
  BY <1>5
<1> QED BY <1>6, <1>7 DEF Loop

\* What the first round finds and every round keeps.
LEMMA EveryRound ==
  ASSUME NEW n \in Nat, NEW X, NEW F, F[0] \in X, \A i \in 1 .. n : F[i - 1] \in X => F[i] \in X
  PROVE  F[n] \in X
<1> DEFINE Bad == {k \in 0 .. n : F[k] \notin X}
<1>1. Bad = {}
  <2> SUFFICES ASSUME Bad # {} PROVE FALSE
    OBVIOUS
  <2>0. Bad \in SUBSET Nat
    OBVIOUS
  <2>1. PICK k \in Bad : \A j \in Bad : k <= j
    BY <2>0, SmallestExists
  <2>2. k \in 0 .. n /\ F[k] \notin X /\ k # 0
    OBVIOUS
  <2>3. k \in 1 .. n /\ k - 1 \in 0 .. n /\ k - 1 < k
    BY <2>2
  <2>4. k - 1 \notin Bad
    BY <2>1, <2>3
  <2> QED BY <2>2, <2>3, <2>4
<1>2. n \in 0 .. n
  OBVIOUS
<1> QED BY <1>1, <1>2

\* A heap with m items of A and a position in it.
Places(A, m) == [heap : [1 .. m -> A], at : 1 .. m]

\* __swap (heap.c) keeps the heap's length and draws no item from elsewhere.
LEMMA SwappedKeeps ==
  ASSUME NEW A, NEW m \in Nat, NEW h \in [1 .. m -> A], NEW i \in 1 .. m, NEW j \in 1 .. m
  PROVE  Swapped(h, i, j) \in [1 .. m -> A]
BY DEF Swapped

\* One round of __pushup keeps the heap's shape and its index within the heap.
LEMMA RaisedOnceKeeps ==
  ASSUME NEW A, NEW m \in Nat, NEW p \in Places(A, m)
  PROVE  RaisedOnce(p) \in Places(A, m)
<1>1. p.heap \in [1 .. m -> A] /\ p.at \in 1 .. m
  BY DEF Places
<1>2. CASE RaisedOnce(p) = p
  BY <1>2
<1>3. CASE p.at # 1 /\ RaisedOnce(p) = [heap |-> Swapped(p.heap, p.at, p.at \div 2), at |-> p.at \div 2]
  <2>1. p.at \div 2 \in 1 .. m
    BY <1>1, <1>3
  <2>2. Swapped(p.heap, p.at, p.at \div 2) \in [1 .. m -> A]
    BY <1>1, <2>1, SwappedKeeps
  <2> QED BY <1>3, <2>1, <2>2 DEF Places
<1> QED BY <1>2, <1>3 DEF RaisedOnce

\* One round of __pushdown keeps the heap's shape and its index within the heap.
LEMMA LoweredOnceKeeps ==
  ASSUME NEW A, NEW m \in Nat, NEW p \in Places(A, m)
  PROVE  LoweredOnce(p) \in Places(A, m)
<1>1. p.heap \in [1 .. m -> A] /\ p.at \in 1 .. m
  BY DEF Places
<1>2. Len(p.heap) = m
  BY <1>1
<1>3. CASE LoweredOnce(p) = p
  BY <1>3
<1>4. CASE /\ ~(2 * p.at > m)
           /\ LoweredOnce(p) = [heap |-> Swapped(p.heap, p.at, BiggestChild(p.heap, p.at)),
                                at |-> BiggestChild(p.heap, p.at)]
  <2>1. BiggestChild(p.heap, p.at) \in 1 .. m
    BY <1>1, <1>2, <1>4 DEF BiggestChild
  <2>2. Swapped(p.heap, p.at, BiggestChild(p.heap, p.at)) \in [1 .. m -> A]
    BY <1>1, <2>1, SwappedKeeps
  <2> QED BY <1>4, <2>1, <2>2 DEF Places
<1> QED BY <1>2, <1>3, <1>4 DEF LoweredOnce

\* __pushup as a whole returns a heap of the same length over the same items.
LEMMA PushUpKeeps ==
  ASSUME NEW A, NEW m \in Nat, NEW h \in [1 .. m -> A], NEW j \in 1 .. m
  PROVE  PushUp(h, j) \in [1 .. m -> A]
<1> DEFINE X == Places(A, m)
           c == [heap |-> h, at |-> j]
           G == [n \in 1 .. m |-> [x \in X |-> RaisedOnce(x)]]
           F == CHOOSE f : f = [n \in 0 .. m |-> IF n = 0 THEN c ELSE RaisedOnce(f[n - 1])]
<1>1. Len(h) = m
  OBVIOUS
<1>2. PushUp(h, j) = F[m].heap
  BY <1>1 DEF PushUp
<1>3. c \in X
  BY DEF Places
<1>4. G \in [1 .. m -> [X -> X]]
  BY RaisedOnceKeeps
<1> HIDE DEF c, X
<1>5. PICK f \in [0 .. m -> X] : f[0] = c /\ \A i \in 1 .. m : f[i] = G[i][f[i - 1]]
  <2> HIDE DEF G
  <2>1. PICK f : Loop(f, m, X, c, G)
    BY <1>3, <1>4, Rounds
  <2> QED BY <2>1, Zenon DEF Loop
<1>6. f = [n \in 0 .. m |-> IF n = 0 THEN c ELSE RaisedOnce(f[n - 1])]
  <2>1. ASSUME NEW n \in 0 .. m PROVE f[n] = IF n = 0 THEN c ELSE RaisedOnce(f[n - 1])
    <3>1. n # 0 => f[n - 1] \in X /\ n \in 1 .. m
      <4>1. n # 0 => n - 1 \in 0 .. m /\ n \in 1 .. m
        OBVIOUS
      <4> QED BY <1>5, <4>1
    <3>2. n # 0 => G[n][f[n - 1]] = RaisedOnce(f[n - 1])
      BY <3>1
    <3>3. f[n] = IF n = 0 THEN c ELSE G[n][f[n - 1]]
      BY <1>5
    <3> QED BY <3>2, <3>3, Zenon
  <2>2. f = [n \in 0 .. m |-> f[n]]
    BY <1>5
  <2> QED BY <2>1, <2>2, Zenon
<1>7. F = [n \in 0 .. m |-> IF n = 0 THEN c ELSE RaisedOnce(F[n - 1])]
  BY <1>6, Zenon
<1> HIDE DEF F, G
<1>8. F[0] \in X
  BY <1>3, <1>7
<1>9. ASSUME NEW i \in 1 .. m, F[i - 1] \in X PROVE F[i] \in X
  <2>1. F[i] = RaisedOnce(F[i - 1])
    BY <1>7
  <2> QED BY <1>9, <2>1, RaisedOnceKeeps DEF X
<1>10. F[m] \in X
  BY <1>8, <1>9, EveryRound
<1> QED BY <1>2, <1>10 DEF X, Places

\* __pushdown as a whole returns a heap of the same length over the same items.
LEMMA PushDownKeeps ==
  ASSUME NEW A, NEW m \in Nat, NEW h \in [1 .. m -> A], NEW j \in 1 .. m
  PROVE  PushDown(h, j) \in [1 .. m -> A]
<1> DEFINE X == Places(A, m)
           c == [heap |-> h, at |-> j]
           G == [n \in 1 .. m |-> [x \in X |-> LoweredOnce(x)]]
           F == CHOOSE f : f = [n \in 0 .. m |-> IF n = 0 THEN c ELSE LoweredOnce(f[n - 1])]
<1>1. Len(h) = m
  OBVIOUS
<1>2. PushDown(h, j) = F[m].heap
  BY <1>1 DEF PushDown
<1>3. c \in X
  BY DEF Places
<1>4. G \in [1 .. m -> [X -> X]]
  BY LoweredOnceKeeps
<1> HIDE DEF c, X
<1>5. PICK f \in [0 .. m -> X] : f[0] = c /\ \A i \in 1 .. m : f[i] = G[i][f[i - 1]]
  <2> HIDE DEF G
  <2>1. PICK f : Loop(f, m, X, c, G)
    BY <1>3, <1>4, Rounds
  <2> QED BY <2>1, Zenon DEF Loop
<1>6. f = [n \in 0 .. m |-> IF n = 0 THEN c ELSE LoweredOnce(f[n - 1])]
  <2>1. ASSUME NEW n \in 0 .. m PROVE f[n] = IF n = 0 THEN c ELSE LoweredOnce(f[n - 1])
    <3>1. n # 0 => f[n - 1] \in X /\ n \in 1 .. m
      <4>1. n # 0 => n - 1 \in 0 .. m /\ n \in 1 .. m
        OBVIOUS
      <4> QED BY <1>5, <4>1
    <3>2. n # 0 => G[n][f[n - 1]] = LoweredOnce(f[n - 1])
      BY <3>1
    <3>3. f[n] = IF n = 0 THEN c ELSE G[n][f[n - 1]]
      BY <1>5
    <3> QED BY <3>2, <3>3, Zenon
  <2>2. f = [n \in 0 .. m |-> f[n]]
    BY <1>5
  <2> QED BY <2>1, <2>2, Zenon
<1>7. F = [n \in 0 .. m |-> IF n = 0 THEN c ELSE LoweredOnce(F[n - 1])]
  BY <1>6, Zenon
<1> HIDE DEF F, G
<1>8. F[0] \in X
  BY <1>3, <1>7
<1>9. ASSUME NEW i \in 1 .. m, F[i - 1] \in X PROVE F[i] \in X
  <2>1. F[i] = LoweredOnce(F[i - 1])
    BY <1>7
  <2> QED BY <1>9, <2>1, LoweredOnceKeeps DEF X
<1>10. F[m] \in X
  BY <1>8, <1>9, EveryRound
<1> QED BY <1>2, <1>10 DEF X, Places

\* heap_offer of an item of A to a heap over A leaves a heap over A.
LEMMA OfferKeeps ==
  ASSUME NEW A, NEW h \in Seq(A), NEW item \in A
  PROVE  Offer(h, item) \in Seq(A)
<1>1. PICK m \in Nat : m = Len(h)
  BY LenProperties
<1>2. PICK g : g = Append(h, item)
  OBVIOUS
<1>3. g \in Seq(A) /\ Len(g) = m + 1
  BY <1>1, <1>2
<1>4. g \in [1 .. m + 1 -> A] /\ m + 1 \in Nat /\ m + 1 \in 1 .. m + 1
  BY <1>3, LenProperties
<1>5. PushUp(g, m + 1) \in [1 .. m + 1 -> A]
  BY <1>4, PushUpKeeps
<1>6. PushUp(g, m + 1) \in Seq(A)
  BY <1>4, <1>5
<1> QED BY <1>1, <1>2, <1>6 DEF Offer

\* heap_poll of a heap over A that is not empty leaves a heap over A.
LEMMA PolledKeeps ==
  ASSUME NEW A, NEW h \in Seq(A), h # <<>>
  PROVE  Polled(h) \in Seq(A)
<1>1. PICK n \in Nat : Len(h) = n + 1 /\ n = Len(h) - 1
  <2>1. Len(h) \in Nat /\ Len(h) # 0
    BY LenProperties
  <2> QED BY <2>1
<1>2. h \in [1 .. n + 1 -> A]
  BY <1>1, LenProperties
<1>3. PICK g : g = [h EXCEPT ![1] = h[n + 1]]
  OBVIOUS
<1>4. \A i \in 1 .. n : g[i] \in A
  BY <1>2, <1>3
<1>5. PICK rest : rest = SubSeq(g, 1, n)
  OBVIOUS
<1>6. rest \in Seq(A) /\ Len(rest) = n
  BY <1>4, <1>5, SubSeqProperties
<1>7. rest \in [1 .. n -> A]
  BY <1>6, LenProperties
<1>8. Polled(h) = IF n > 1 THEN PushDown(rest, 1) ELSE rest
  BY <1>1, <1>3, <1>5, Zenon DEF Polled
<1>9. n > 1 => PushDown(rest, 1) \in [1 .. n -> A]
  <2> SUFFICES ASSUME n > 1 PROVE PushDown(rest, 1) \in [1 .. n -> A]
    OBVIOUS
  <2>1. 1 \in 1 .. n
    OBVIOUS
  <2> QED BY <1>7, <2>1, PushDownKeeps
<1>10. n > 1 => PushDown(rest, 1) \in Seq(A)
  BY <1>9
<1> QED BY <1>6, <1>8, <1>10

\* The first heap holds an item for each of some of the lists.
LEMMA FirstHeapKeeps ==
  ASSUME NEW m \in Nat, NEW lists, Len(lists) = m
  PROVE  FirstHeap(lists)
           \in Seq({[ts |-> lists[i][1].ts, value |-> lists[i][1].value, iter |-> i] : i \in 1 .. m})
<1> DEFINE first(i) == [ts |-> lists[i][1].ts, value |-> lists[i][1].value, iter |-> i]
           A == {first(i) : i \in 1 .. m}
           X == Seq(A)
           Step(i, h) == IF lists[i] = <<>> THEN h ELSE Offer(h, first(i))
           c == <<>>
           G == [n \in 1 .. m |-> [x \in X |-> Step(n, x)]]
           F == CHOOSE f : f = [n \in 0 .. m |-> IF n = 0 THEN c ELSE Step(n, f[n - 1])]
<1>1. FirstHeap(lists) = F[m]
  BY DEF FirstHeap
<1>2. ASSUME NEW i \in 1 .. m, NEW h \in X PROVE Step(i, h) \in X
  <2>1. first(i) \in A
    OBVIOUS
  <2> HIDE DEF first, A
  <2>2. Offer(h, first(i)) \in Seq(A)
    BY <2>1, OfferKeeps
  <2> QED BY <2>2
<1>3. c \in X
  OBVIOUS
<1> HIDE DEF c, X, Step
<1>4. G \in [1 .. m -> [X -> X]]
  BY <1>2
<1>5. PICK f \in [0 .. m -> X] : f[0] = c /\ \A i \in 1 .. m : f[i] = G[i][f[i - 1]]
  <2> HIDE DEF G
  <2>1. PICK f : Loop(f, m, X, c, G)
    BY <1>3, <1>4, Rounds
  <2> QED BY <2>1, Zenon DEF Loop
<1>6. f = [n \in 0 .. m |-> IF n = 0 THEN c ELSE Step(n, f[n - 1])]
  <2>1. ASSUME NEW n \in 0 .. m PROVE f[n] = IF n = 0 THEN c ELSE Step(n, f[n - 1])
    <3>1. n # 0 => f[n - 1] \in X /\ n \in 1 .. m
      <4>1. n # 0 => n - 1 \in 0 .. m /\ n \in 1 .. m
        OBVIOUS
      <4> QED BY <1>5, <4>1
    <3>2. n # 0 => G[n][f[n - 1]] = Step(n, f[n - 1])
      BY <3>1
    <3>3. f[n] = IF n = 0 THEN c ELSE G[n][f[n - 1]]
      BY <1>5
    <3> QED BY <3>2, <3>3, Zenon
  <2>2. f = [n \in 0 .. m |-> f[n]]
    BY <1>5
  <2> QED BY <2>1, <2>2, Zenon
<1>7. F = [n \in 0 .. m |-> IF n = 0 THEN c ELSE Step(n, F[n - 1])]
  BY <1>6, Zenon
<1> HIDE DEF F, G
<1>8. F[0] \in X
  BY <1>3, <1>7
<1>9. ASSUME NEW i \in 1 .. m, F[i - 1] \in X PROVE F[i] \in X
  <2>1. F[i] = Step(i, F[i - 1])
    BY <1>7
  <2> QED BY <1>2, <1>9, <2>1
<1>10. F[m] \in X
  BY <1>8, <1>9, EveryRound
<1> QED BY <1>1, <1>10 DEF X

----------------------------------------------------------------------------
(***************************************************************************)
(* Groups.                                                                 *)
(***************************************************************************)

\* z is a sequence.
Listed(z) == z \in Seq({z[i] : i \in DOMAIN z})

\* The items of a heap belong to the iterators K.
HeapOK(h, K) == Listed(h) /\ \A i \in DOMAIN h : h[i].iter \in K

GroupOK ==
  /\ stage \in {"idle", "group", "ahead", "next", "same", "done"}
  /\ stage # "idle" => req \in Requests
  /\ HeapOK(heap, DOMAIN inputs)
  /\ groups \in Seq(Range(Labels))
  /\ stage \in {"ahead", "next", "same"} => groups # <<>>
  /\ Listed(reply) /\ \A i \in DOMAIN reply : reply[i].label \in Range(Labels)

\* A sequence of items of the iterators K.
LEMMA HeapOf ==
  ASSUME NEW A, NEW K, NEW h \in Seq(A), \A x \in A : x.iter \in K
  PROVE  HeapOK(h, K)
<1>1. h \in [1 .. Len(h) -> A] /\ Len(h) \in Nat
  BY LenProperties
<1> DEFINE B == {h[i] : i \in DOMAIN h}
<1>2. \A i \in 1 .. Len(h) : h[i] \in B
  BY <1>1
<1> HIDE DEF B
<1>3. h = [i \in 1 .. Len(h) |-> h[i]]
  BY <1>1
<1>4. h \in Seq(B)
  <2>1. PICK n \in Nat : n = Len(h)
    BY <1>1
  <2>2. h = [i \in 1 .. n |-> h[i]] /\ \A i \in 1 .. n : h[i] \in B
    BY <1>2, <1>3, <2>1
  <2> QED BY <2>2, IsASeq
<1>5. \A i \in DOMAIN h : h[i].iter \in K
  BY <1>1
<1> QED BY <1>4, <1>5 DEF HeapOK, Listed, B

\* The iterators and the heap after a sample has been read.
LEMMA GetNextKeeps ==
  ASSUME HeapOK(heap, DOMAIN inputs), GetNext
  PROVE  HeapOK(heap', DOMAIN inputs')
<1>1. CASE heap = <<>>
  BY <1>1 DEF GetNext
<1>2. CASE heap # <<>>
  <2> DEFINE A == {heap[i] : i \in DOMAIN heap}
             K == DOMAIN inputs
             k == heap[1].iter
             item == FromInput(k)
             B == A \cup {item}
  <2>1. heap \in Seq(A) /\ \A x \in A : x.iter \in K
    BY DEF HeapOK, Listed
  <2>2. k \in K
    <3>1. 1 \in DOMAIN heap
      <4> HIDE DEF A
      <4> QED BY <1>2, <2>1
    <3> QED BY <3>1 DEF HeapOK
  <2>3. item.iter = k
    BY DEF FromInput
  <2>4. \A x \in B : x.iter \in K
    BY <2>1, <2>2, <2>3
  <2>5. A \subseteq B /\ item \in B
    OBVIOUS
  <2>6. \/ heap' = Polled(heap) /\ inputs' = inputs
        \/ heap' = Offer(Polled(heap), item) /\ inputs' = [inputs EXCEPT ![k] = Tail(@)]
    BY <1>2 DEF GetNext
  <2> HIDE DEF A, B, item, k
  <2>7. Polled(heap) \in Seq(A)
    BY <1>2, <2>1, PolledKeeps
  <2>8. Polled(heap) \in Seq(B)
    <3>1. PICK z : z = Polled(heap)
      OBVIOUS
    <3>2. z \in Seq(A)
      BY <2>7, <3>1
    <3>3. z \in Seq(B)
      BY <2>5, <3>2
    <3> QED BY <3>1, <3>3
  <2>9. Offer(Polled(heap), item) \in Seq(B)
    BY <2>5, <2>8, OfferKeeps
  <2>10. DOMAIN inputs' = K
    BY <2>6
  <2>11. heap' \in Seq(B)
    BY <2>6, <2>8, <2>9
  <2> HIDE DEF K
  <2>12. HeapOK(heap', K)
    BY <2>4, <2>11, HeapOf
  <2> QED BY <2>10, <2>12
<1> QED BY <1>1, <1>2

\* Ascending(S), for positions S in a sequence.
LEMMA PositionsOK ==
  ASSUME NEW A, NEW z \in Seq(A), NEW S \in SUBSET DOMAIN z
  PROVE  \E n \in Nat : Ascending(S) \in [1 .. n -> S]
<1>1. Len(z) \in Nat /\ DOMAIN z = 1 .. Len(z)
  BY LenProperties
<1>2. IsFiniteSet(1 .. Len(z)) /\ S \in SUBSET (1 .. Len(z)) /\ S \in SUBSET Int
  BY <1>1, FS_Interval
<1>3. IsFiniteSet(S)
  BY <1>2, FS_Subset
<1> QED BY <1>2, <1>3, AscendingSorts

\* One reply more.
LEMMA ReplyGrows ==
  ASSUME NEW L, NEW z, NEW x, Listed(z), \A i \in DOMAIN z : z[i].label \in L, x.label \in L
  PROVE  Listed(Append(z, x)) /\ \A i \in DOMAIN Append(z, x) : Append(z, x)[i].label \in L
<1> DEFINE A == {z[i] : i \in DOMAIN z} \cup {x}
<1>1. z \in Seq(A) /\ x \in A
  <2>1. {z[i] : i \in DOMAIN z} \subseteq A /\ x \in A
    OBVIOUS
  <2>2. z \in Seq({z[i] : i \in DOMAIN z})
    BY DEF Listed
  <2> HIDE DEF A
  <2>3. \A B : B \subseteq A => Seq(B) \subseteq Seq(A)
    OBVIOUS
  <2> QED BY <2>1, <2>2, <2>3
<1>2. \A y \in A : y.label \in L
  OBVIOUS
<1> HIDE DEF A
<1>3. PICK w : w = Append(z, x)
  OBVIOUS
<1>4. w \in Seq(A)
  BY <1>1, <1>3
<1>5. PICK n \in Nat : n = Len(w) /\ w \in [1 .. n -> A]
  BY <1>4, LenProperties
<1> DEFINE B == {w[i] : i \in DOMAIN w}
<1>6. w = [i \in 1 .. n |-> w[i]] /\ \A i \in 1 .. n : w[i] \in B
  BY <1>5
<1> HIDE DEF B
<1>7. w \in Seq(B)
  BY <1>6, IsASeq
<1>8. Listed(w) /\ \A i \in DOMAIN w : w[i].label \in L
  BY <1>2, <1>5, <1>7 DEF Listed, B
<1> QED BY <1>3, <1>8

\* TS.MRANGE.
LEMMA MRangeStep ==
  ASSUME GroupOK, NEW request \in Requests, MRange(request)
  PROVE  GroupOK'
<1>1. /\ stage' = "group" /\ req' = request
      /\ heap' = heap /\ inputs' = inputs /\ reply' = reply
  BY DEF MRange
<1> DEFINE S == {k \in DOMAIN Labels : \E i \in DOMAIN request.series : request.series[i].label = Labels[k]}
<1>2. PICK used : used = Ascending(S) /\ groups' = [g \in DOMAIN used |-> Labels[used[g]]]
  BY DEF MRange
<1>3. S \in SUBSET DOMAIN Labels
  OBVIOUS
<1> HIDE DEF S
<1>4. Labels \in Seq(Range(Labels))
  BY RequestAssumption
<1>5. PICK n \in Nat : used \in [1 .. n -> S]
  BY <1>2, <1>3, <1>4, PositionsOK
<1>6. \A k \in DOMAIN Labels : Labels[k] \in Range(Labels)
  BY DEF Range
<1>7. groups' \in Seq(Range(Labels))
  <2>1. PICK L : L = Range(Labels)
    OBVIOUS
  <2>2. groups' = [g \in 1 .. n |-> Labels[used[g]]] /\ \A g \in 1 .. n : Labels[used[g]] \in L
    BY <1>2, <1>3, <1>5, <1>6, <2>1
  <2>3. groups' = [g \in 1 .. n |-> groups'[g]] /\ \A g \in 1 .. n : groups'[g] \in L
    BY <2>2
  <2>4. groups' \in Seq(L)
    BY <2>3, IsASeq
  <2> QED BY <2>1, <2>4
<1> QED BY <1>1, <1>7, Zenon DEF GroupOK, HeapOK, Listed

\* The iterators of a group.
LEMMA ApplyReducerStep ==
  ASSUME GroupOK, ApplyReducer
  PROVE  GroupOK'
<1>1. /\ stage = "group" /\ groups # <<>> /\ stage' = "ahead"
      /\ req' = req /\ groups' = groups /\ reply' = reply
  BY DEF ApplyReducer
<1>2. req \in Requests
  BY <1>1 DEF GroupOK
<1>3. req.series \in Seq(Range(req.series))
  BY <1>2, RequestAssumption
<1> DEFINE S == {i \in DOMAIN req.series : req.series[i].label = groups[1]}
<1>4. S \in SUBSET DOMAIN req.series /\ MembersOf(groups[1]) = Ascending(S)
  BY DEF MembersOf
<1> HIDE DEF S
<1>5. PICK n \in Nat : MembersOf(groups[1]) \in [1 .. n -> S]
  <2>1. \E n \in Nat : Ascending(S) \in [1 .. n -> S]
    BY <1>3, <1>4, PositionsOK
  <2> QED BY <1>4, <2>1
<1>6. PICK lists : /\ lists = [i \in DOMAIN MembersOf(groups[1]) |-> req.series[MembersOf(groups[1])[i]].samples]
                   /\ heap' = FirstHeap(lists)
                   /\ inputs' = [i \in DOMAIN lists |-> IF lists[i] = <<>> THEN <<>> ELSE Tail(lists[i])]
  BY DEF ApplyReducer
<1>7. DOMAIN lists = 1 .. n /\ Len(lists) = n
  BY <1>5, <1>6
<1>8. DOMAIN inputs' = 1 .. n
  BY <1>6, <1>7
<1> DEFINE A == {[ts |-> lists[i][1].ts, value |-> lists[i][1].value, iter |-> i] : i \in 1 .. n}
<1>9. \A x \in A : x.iter \in 1 .. n
  OBVIOUS
<1>10. FirstHeap(lists) \in Seq(A)
  BY <1>7, FirstHeapKeeps
<1> HIDE DEF A
<1>11. HeapOK(heap', 1 .. n)
  BY <1>6, <1>9, <1>10, HeapOf
<1>12. HeapOK(heap', DOMAIN inputs')
  BY <1>8, <1>11
<1> QED BY <1>1, <1>12, Zenon DEF GroupOK, HeapOK, Listed

\* A sample is read.
LEMMA GetNextStep ==
  ASSUME GroupOK, ReadAhead \/ TakeSame \/ Reduce
  PROVE  GroupOK'
<1>1. /\ stage \in {"ahead", "next", "same"} /\ stage' \in {"ahead", "next", "same"} /\ GetNext
      /\ req' = req /\ groups' = groups /\ reply' = reply
  BY DEF ReadAhead, TakeSame, Reduce
<1>2. HeapOK(heap', DOMAIN inputs')
  BY <1>1, GetNextKeeps DEF GroupOK
<1>3. /\ stage' \in {"idle", "group", "ahead", "next", "same", "done"} /\ req' \in Requests
      /\ groups' \in Seq(Range(Labels)) /\ groups' # <<>>
      /\ Listed(reply') /\ \A i \in DOMAIN reply' : reply'[i].label \in Range(Labels)
  BY <1>1 DEF GroupOK
<1> QED BY <1>2, <1>3, Zenon DEF GroupOK, HeapOK, Listed

\* A group is answered.
LEMMA GroupReducedStep ==
  ASSUME GroupOK, GroupReduced
  PROVE  GroupOK'
<1>1. /\ stage = "next" /\ stage' = "group" /\ req' = req /\ heap' = heap /\ inputs' = inputs
      /\ groups' = Tail(groups)
  BY DEF GroupReduced
<1>2. PICK x : /\ x = [label |-> groups[1], samples |-> merged, source |-> MembersOf(groups[1])]
               /\ reply' = Append(reply, x)
  BY DEF GroupReduced
<1>3. groups \in Seq(Range(Labels)) /\ groups # <<>>
  BY <1>1 DEF GroupOK
<1>4. PICK L : L = Range(Labels)
  OBVIOUS
<1>5. groups[1] \in L /\ groups' \in Seq(L)
  BY <1>1, <1>3, <1>4
<1>6. x.label \in L
  BY <1>2, <1>5
<1>7. Listed(reply) /\ \A i \in DOMAIN reply : reply[i].label \in L
  BY <1>4 DEF GroupOK
<1>8. Listed(reply') /\ \A i \in DOMAIN reply' : reply'[i].label \in L
  BY <1>2, <1>6, <1>7, ReplyGrows
<1>9. /\ stage' \in {"idle", "group", "ahead", "next", "same", "done"} /\ req' \in Requests
      /\ ~(stage' \in {"ahead", "next", "same"}) /\ HeapOK(heap', DOMAIN inputs')
  BY <1>1 DEF GroupOK
<1> QED BY <1>4, <1>5, <1>8, <1>9, Zenon DEF GroupOK, HeapOK, Listed

\* No step of a request leaves GroupOK.
LEMMA GroupStepOK ==
  ASSUME GroupOK, GroupStep
  PROVE  GroupOK'
<1>1. ASSUME NEW request \in Requests, MRange(request) PROVE GroupOK'
  BY <1>1, MRangeStep
<1>2. ASSUME Take PROVE GroupOK'
  <2>1. /\ stage = "next" /\ stage' = "same" /\ req' = req /\ groups' = groups /\ inputs' = inputs
        /\ heap' = heap /\ reply' = reply
    BY <1>2 DEF Take
  <2> QED BY <2>1 DEF GroupOK, HeapOK, Listed
<1>3. ASSUME ReplyResultSet PROVE GroupOK'
  <2>1. /\ stage = "group" /\ stage' = "done" /\ req' = req /\ groups' = groups /\ inputs' = inputs
        /\ heap' = heap /\ reply' = reply
    BY <1>3 DEF ReplyResultSet
  <2> QED BY <2>1 DEF GroupOK, HeapOK, Listed
<1> QED BY <1>1, <1>2, <1>3, ApplyReducerStep, GetNextStep, GroupReducedStep DEF GroupStep

----------------------------------------------------------------------------
(***************************************************************************)
(* The theorems.                                                           *)
(***************************************************************************)
Inv == QueryOK /\ RuleOK /\ GroupOK

\* The invariant holds initially: no query, no rule and no grouping has begun.
LEMMA InitOK == Init => Inv
<1> SUFFICES ASSUME Init PROVE Inv
  OBVIOUS
<1>1. /\ phase = "idle" /\ q = NoQuery /\ todo = <<>> /\ bucket = 0 /\ scope = 0 /\ answer = <<>>
      /\ rule = NoRule /\ src = Nothing /\ start = NotStarted /\ dest = Nothing /\ stale = {}
  BY DEF Init, QueryInit, RuleInit
<1>2. DOMAIN Nothing = {} /\ NoRule # "avg"
  BY RollupAssumption DEF Nothing, AggType
<1>3. QueryTypeOK
  BY <1>1, WordOK DEF QueryTypeOK
<1>4. QueryOK
  BY <1>1, <1>3, NothingReported DEF QueryOK
<1>5. RuleTypeOK
  BY <1>1, <1>2 DEF RuleTypeOK
<1>6. RuleOK
  BY <1>1, <1>2, <1>5 DEF RuleOK
<1>7. /\ stage = "idle" /\ groups = <<>> /\ heap = <<>> /\ reply = <<>>
  BY DEF Init, GroupInit
<1>8. Listed(<<>>) /\ DOMAIN <<>> = {} /\ <<>> \in Seq(Range(Labels))
  BY DEF Listed
<1>9. GroupOK
  BY <1>7, <1>8 DEF GroupOK, HeapOK
<1> QED BY <1>4, <1>6, <1>9 DEF Inv

\* What does not change stays true.
LEMMA QueryStays == QueryOK /\ UNCHANGED queryVars => QueryOK'
BY DEF queryVars, QueryOK, QueryTypeOK, Found, InRange, OpenBucket, Refutable, TwaEmptyRange, TrueStart, Reported,
   TooWide, ReportedTooFar, BucketOffset

\* What a query or a grouping does leaves the rule's part of the invariant alone.
LEMMA RuleStays == RuleOK /\ UNCHANGED ruleVars => RuleOK'
BY DEF ruleVars, RuleOK, RuleTypeOK, AverageOK, AtMost, Fraction

\* What a query or a rule does leaves the grouping's part of the invariant alone.
LEMMA GroupStays == GroupOK /\ UNCHANGED groupVars => GroupOK'
BY DEF groupVars, GroupOK, HeapOK, Listed

\* Every step of Next preserves the invariant: each of the three parts by its own step, the others unchanged.
LEMMA StepsOK == Inv /\ [Next]_vars => Inv'
<1> SUFFICES ASSUME Inv, [Next]_vars PROVE Inv'
  OBVIOUS
<1>1. \/ QueryStep /\ UNCHANGED <<ruleVars, groupVars>>
      \/ RuleStep /\ UNCHANGED <<queryVars, groupVars>>
      \/ GroupStep /\ UNCHANGED <<queryVars, ruleVars>>
      \/ UNCHANGED <<queryVars, ruleVars, groupVars>>
  BY DEF Next, vars
<1>2. CASE QueryStep /\ UNCHANGED <<ruleVars, groupVars>>
  BY <1>2, QueryStepOK, RuleStays, GroupStays DEF Inv
<1>3. CASE RuleStep /\ UNCHANGED <<queryVars, groupVars>>
  BY <1>3, RuleStepOK, QueryStays, GroupStays DEF Inv
<1>4. CASE GroupStep /\ UNCHANGED <<queryVars, ruleVars>>
  BY <1>4, GroupStepOK, QueryStays, RuleStays DEF Inv
<1>5. CASE UNCHANGED <<queryVars, ruleVars, groupVars>>
  BY <1>5, QueryStays, RuleStays, GroupStays DEF Inv
<1> QED BY <1>1, <1>2, <1>3, <1>4, <1>5

\* The inductive invariant: QueryOK, RuleOK and GroupOK hold in every state, with
\* the starts of buckets before wrapping around, the fraction an average keeps, and
\* the iterators that the items of a heap stand for.
THEOREM InvTheorem == Spec => []Inv
<1> QED BY InitOK, StepsOK, PTL DEF Spec

\* Whatever the series, the range, the direction, the alignment, the duration and
\* the width of the numbers: the assertions of fillEmptyBuckets (filter_iterator.c)
\* never fail without EMPTY.  With it they fail only for durations of more than a
\* quarter of the unsigned numbers, where sums of durations wrap around, and for time-
\* weighted averages of four kinds: over a range without samples that begins in a
\* bucket that begins before 0 and ends in a later one, or ends in an earlier bucket
\* than it begins, or with samples, over a range that ends in a bucket that begins
\* before 0, or when a bucket is reported too far from ALIGN.
THEOREM EmptyBucketsTheorem == Spec => []EmptyBucketsExist
<1>1. Inv => EmptyBucketsExist
  BY DEF Inv, QueryOK, Refutable, EmptyBucketsExist
<1> QED BY <1>1, InvTheorem, PTL

\* The sum or average that AvgAddValue keeps is never greater than the largest
\* double, however many samples of whatever values come, also when it is calculated
\* again after an upsert or goes through a save and a load.
THEOREM AverageTheorem == Spec => []AverageFits
<1>1. Inv => AverageFits
  BY AverageFitsIf DEF Inv, RuleOK, AverageFits
<1> QED BY <1>1, InvTheorem, PTL

\* The types: timestamps of answers and the numbers that aggregationLastTimestamp and
\* contextScope hold are unsigned numbers, and so are the buckets of a rule, whatever
\* the duration; and heap.c, which only exchanges items, never makes one that belongs
\* to no iterator of the group.
THEOREM TypeTheorem == Spec => []TypeOK
<1>1. Inv => TypeOK
  BY DEF Inv, QueryOK, RuleOK, GroupOK, HeapOK, TypeOK, GroupTypeOK
<1> QED BY <1>1, InvTheorem, PTL
=============================================================================
