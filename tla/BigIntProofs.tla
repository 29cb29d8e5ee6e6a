---------------------------- MODULE BigIntProofs ----------------------------
(***************************************************************************)
(* What TLC checks for an Int128 of four bits holds for every width: all   *)
(* operations of Big_Int (sums, products, division in its roundings,       *)
(* shifts, powers, bits, text) are exact with both hosts, and what fits    *)
(* into an Int128 comes out as an Int128.  And what it checks for two      *)
(* registers holds for any number of them: a node counts its owners, the   *)
(* host keeps the integers of nodes and no others, and these remain the    *)
(* integers that were put there.                                           *)
(***************************************************************************)
EXTENDS BigInts, FiniteSetTheorems, WellFoundedInduction, TLAPS

(* An object that holds its integer the one way it may be held.            *)
Canonical(x) ==
    /\ x \in Object
    /\ x.small => Fits(x.v)
    /\ ~x.small => ~Fits(x.v)

(* yield_result: the integer, in the one way it may be held.               *)
LEMMA YieldIsCanonical ==
    ASSUME NEW v \in Int
    PROVE  Yield(v).v = v /\ Canonical(Yield(v))
<1>1. CASE Fits(v)
  BY <1>1, SMT DEF Yield, Small, Object, Canonical
<1>2. CASE ~Fits(v)
  BY <1>2, SMT DEF Yield, Big, Object, Canonical
<1> QED
  BY <1>1, <1>2

(* The sum of two Int128 wraps around at most once, and the three words    *)
(* given to the host stand for the exact sum: the third one has the sign   *)
(* that the exact sum has.                                                 *)
LEMMA ThirdWord ==
    ASSUME NEW h \in Hosts, NEW v \in Int, -2 * Limit <= v, v < 2 * Limit, ~Fits(v)
    PROVE  LET cut == WrapOnce(v)
               z == I192(h, cut, IF cut < 0 THEN 0 ELSE -1)
           IN  z.v = v /\ Canonical(z)
<1> DEFINE cut == WrapOnce(v)
           top == IF cut < 0 THEN 0 ELSE -1
<1>1. cut \in Int /\ (cut < 0 => v >= Limit /\ cut = v - 2 * Limit)
                  /\ (cut >= 0 => v < -Limit /\ cut = v + 2 * Limit)
  BY LimitAssumption, SMT DEF WrapOnce, Fits
<1>2. top * (2 * Limit) + Unsigned(cut) = v
  <2> HIDE DEF cut
  <2>1. CASE cut < 0
    <3>1. top = 0
      BY <2>1
    <3>2. 0 * (2 * Limit) + Unsigned(cut) = v
      BY <1>1, <2>1, LimitAssumption, SMT DEF Unsigned
    <3> QED
      BY <3>1, <3>2
  <2>2. CASE cut >= 0
    <3>1. top = -1
      BY <1>1, <2>2, SMT
    <3>2. (-1) * (2 * Limit) + Unsigned(cut) = v
      BY <1>1, <2>2, LimitAssumption, SMT DEF Unsigned
    <3> QED
      BY <3>1, <3>2
  <2> QED
    BY <1>1, <2>1, <2>2, SMT
<1>3. I192(h, cut, top) = IF h = "native" THEN Yield(v) ELSE Big(v)
  BY <1>2 DEF I192
<1>4. Big(v).v = v /\ Canonical(Big(v))
  BY SMT DEF Big, Object, Canonical
<1> QED
  BY <1>3, <1>4, YieldIsCanonical

LEMMA WrapIsNeutral ==
    ASSUME NEW v \in Int
    PROVE  WrapOnce(v) = v <=> Fits(v)
  BY LimitAssumption, SMT DEF WrapOnce, Fits

(* operator+ : exact, and in the one representation, with either host.     *)
THEOREM SumIsExact ==
    ASSUME NEW h \in Hosts, NEW x, NEW y, Canonical(x), Canonical(y)
    PROVE  Plus(h, x, y).v = x.v + y.v /\ Canonical(Plus(h, x, y))
<1> x.v \in Int /\ y.v \in Int /\ x.small \in BOOLEAN /\ y.small \in BOOLEAN
  BY SMT DEF Canonical, Object
<1> DEFINE sum == x.v + y.v
<1> sum \in Int
  OBVIOUS
<1>1. CASE x.small /\ y.small
  <2>1. -2 * Limit <= sum /\ sum < 2 * Limit
    BY <1>1, LimitAssumption, SMT DEF Canonical, Fits
  <2>2. CASE Fits(sum)
    <3>1. Plus(h, x, y) = Small(sum)
      BY <1>1, <2>2, WrapIsNeutral DEF Plus
    <3> QED
      BY <2>2, <3>1, SMT DEF Small, Canonical, Object
  <2>3. CASE ~Fits(sum)
    <3>1. Plus(h, x, y) = I192(h, WrapOnce(sum), IF WrapOnce(sum) < 0 THEN 0 ELSE -1)
      BY <1>1, <2>3, WrapIsNeutral DEF Plus
    <3> QED
      BY <2>1, <2>3, <3>1, ThirdWord DEF Canonical
  <2> QED
    BY <2>2, <2>3
<1>2. CASE ~(x.small /\ y.small)
  BY <1>2, YieldIsCanonical DEF Plus, HostSum, Canonical
<1> QED
  BY <1>1, <1>2

(* operator- with one operand.                                             *)
THEOREM NegationIsExact ==
    ASSUME NEW x, Canonical(x)
    PROVE  Negated(x).v = -x.v /\ Canonical(Negated(x))
<1> x.v \in Int /\ -x.v \in Int /\ x.small \in BOOLEAN
  BY SMT DEF Canonical, Object
<1>1. Pow2Limit.v = Limit /\ Canonical(Pow2Limit)
  BY YieldIsCanonical, LimitAssumption, SMT DEF Pow2Limit, Canonical
<1>2. CASE x.small
  BY <1>1, <1>2, LimitAssumption, SMT
     DEF Negated, Small, Canonical, Object, Fits
<1>3. CASE ~x.small
  BY <1>3, YieldIsCanonical DEF Negated, Canonical
<1> QED
  BY <1>2, <1>3

(* operator- with two operands; a small one minus a big one is the host's  *)
(* difference the other way around, negated, which may fit where that did  *)
(* not.                                                                    *)
THEOREM DifferenceIsExact ==
    ASSUME NEW h \in Hosts, NEW x, NEW y, Canonical(x), Canonical(y)
    PROVE  Minus(h, x, y).v = x.v - y.v /\ Canonical(Minus(h, x, y))
<1> x.v \in Int /\ y.v \in Int /\ x.small \in BOOLEAN /\ y.small \in BOOLEAN
  BY SMT DEF Canonical, Object
<1> DEFINE diff == x.v - y.v
<1> diff \in Int /\ y.v - x.v \in Int
  OBVIOUS
<1>1. CASE x.small /\ y.small
  <2>1. -2 * Limit <= diff /\ diff < 2 * Limit
    BY <1>1, LimitAssumption, SMT DEF Canonical, Fits
  <2>2. CASE Fits(diff)
    <3>1. Minus(h, x, y) = Small(diff)
      BY <1>1, <2>2, WrapIsNeutral DEF Minus
    <3> QED
      BY <2>2, <3>1, SMT DEF Small, Canonical, Object
  <2>3. CASE ~Fits(diff)
    <3>1. Minus(h, x, y) = I192(h, WrapOnce(diff), IF WrapOnce(diff) < 0 THEN 0 ELSE -1)
      BY <1>1, <2>3, WrapIsNeutral DEF Minus
    <3> QED
      BY <2>1, <2>3, <3>1, ThirdWord DEF Canonical
  <2> QED
    BY <2>2, <2>3
<1>2. CASE x.small /\ ~y.small
  <2>1. Minus(h, x, y) = Negated(Yield(y.v - x.v))
    BY <1>2 DEF Minus, HostDifference
  <2>2. Canonical(Yield(y.v - x.v)) /\ Yield(y.v - x.v).v = y.v - x.v
    BY YieldIsCanonical DEF Canonical
  <2>3. Negated(Yield(y.v - x.v)).v = -(y.v - x.v) /\ Canonical(Negated(Yield(y.v - x.v)))
    BY <2>2, NegationIsExact
  <2> QED
    BY <2>1, <2>3, SMT
<1>3. CASE ~x.small
  BY <1>3, YieldIsCanonical DEF Minus, HostDifference, Canonical
<1> QED
  BY <1>1, <1>2, <1>3

(* operator++ and operator--.                                              *)
THEOREM StepIsExact ==
    ASSUME NEW h \in Hosts, NEW x, Canonical(x)
    PROVE  /\ Incremented(x).v = x.v + 1 /\ Canonical(Incremented(x))
           /\ Decremented(h, x).v = x.v - 1 /\ Canonical(Decremented(h, x))
<1> x.v \in Int /\ x.v + 1 \in Int /\ x.v - 1 \in Int /\ x.small \in BOOLEAN
  BY SMT DEF Canonical, Object
<1>1. Pow2Limit.v = Limit /\ Canonical(Pow2Limit)
  BY YieldIsCanonical, LimitAssumption, SMT DEF Pow2Limit, Canonical
<1>2. I192(h, Limit - 1, -1).v = -Limit - 1 /\ Canonical(I192(h, Limit - 1, -1))
  <2>1. (-1) * (2 * Limit) + Unsigned(Limit - 1) = -Limit - 1
    BY LimitAssumption, SMT DEF Unsigned
  <2>2. -Limit - 1 \in Int /\ ~Fits(-Limit - 1)
    BY LimitAssumption, SMT DEF Fits
  <2>3. I192(h, Limit - 1, -1) =
            IF h = "native" THEN Yield(-Limit - 1) ELSE Big(-Limit - 1)
    BY <2>1 DEF I192
  <2>4. Big(-Limit - 1).v = -Limit - 1 /\ Canonical(Big(-Limit - 1))
    BY <2>2, SMT DEF Big, Canonical, Object
  <2>5. Yield(-Limit - 1).v = -Limit - 1 /\ Canonical(Yield(-Limit - 1))
    BY <2>2, YieldIsCanonical DEF Canonical
  <2> QED
    BY <2>3, <2>4, <2>5
<1>3. CASE x.small
  <2>1. Incremented(x).v = x.v + 1 /\ Canonical(Incremented(x))
    BY <1>1, <1>3, LimitAssumption, SMT DEF Incremented, Small, Canonical, Object, Fits
  <2>2. CASE x.v = -Limit
    BY <1>2, <1>3, <2>1, <2>2 DEF Decremented
  <2>3. CASE x.v # -Limit
    BY <1>3, <2>1, <2>3, LimitAssumption, SMT DEF Decremented, Small, Canonical, Object, Fits
  <2> QED
    BY <2>2, <2>3
<1>4. CASE ~x.small
  BY <1>4, YieldIsCanonical DEF Incremented, Decremented, Canonical
<1> QED
  BY <1>3, <1>4

(* operator~ never leaves the range of Int128 from within.                 *)
THEOREM ComplementIsExact ==
    ASSUME NEW x, Canonical(x)
    PROVE  Complement(x).v = -x.v - 1 /\ Canonical(Complement(x))
<1> x.v \in Int /\ -x.v - 1 \in Int /\ x.small \in BOOLEAN
  BY SMT DEF Canonical, Object
<1>1. CASE x.small
  BY <1>1, LimitAssumption, SMT DEF Complement, Small, Canonical, Object, Fits
<1>2. CASE ~x.small
  BY <1>2, YieldIsCanonical DEF Complement, Canonical
<1> QED
  BY <1>1, <1>2

(* operator*: what overflows an Int128 goes to the host, and only that     *)
(* stays there.                                                            *)
THEOREM ProductIsExact ==
    ASSUME NEW x, NEW y, Canonical(x), Canonical(y)
    PROVE  Times(x, y).v = x.v * y.v /\ Canonical(Times(x, y))
<1> DEFINE product == x.v * y.v
<1> product \in Int
  BY SMT DEF Canonical, Object
<1>1. Yield(product).v = product /\ Canonical(Yield(product))
  BY YieldIsCanonical DEF Canonical
<1>2. Fits(product) => Small(product).v = product /\ Canonical(Small(product))
  BY SMT DEF Small, Canonical, Object
<1> HIDE DEF product
<1>3. Times(x, y) = Yield(product) \/ (Fits(product) /\ Times(x, y) = Small(product))
  BY DEF Times, HostProduct, product
<1> QED
  BY <1>1, <1>2, <1>3 DEF product

(* Division of natural numbers.                                            *)
LEMMA NaturalDivision ==
    \A n \in Nat, k \in Nat \ {0} :
        /\ n \div k \in Nat /\ n % k \in Nat
        /\ n = k * (n \div k) + (n % k)
        /\ n % k < k
  BY SMT

(* `/` and `%` round toward zero: the rest has the sign of the dividend.   *)
LEMMA Truncated ==
    ASSUME NEW a \in Int, NEW b \in Int, b # 0
    PROVE  LET q == Quotient(a, b)
               r == Remainder(a, b)
           IN  /\ q \in Int /\ r \in Int
               /\ q * b + r = a
               /\ Magnitude(r) < Magnitude(b)
               /\ r # 0 => Sign(r) = Sign(a)
               /\ Magnitude(a) = Magnitude(b) * Magnitude(q) + Magnitude(r)
<1> DEFINE k == Magnitude(a) \div Magnitude(b)
           m == Magnitude(a) % Magnitude(b)
<1>1. Magnitude(a) \in Nat /\ Magnitude(b) \in Nat \ {0}
  BY SMT DEF Magnitude
<1>2. /\ k \in Nat /\ m \in Nat
      /\ Magnitude(a) = Magnitude(b) * k + m
      /\ m < Magnitude(b)
  BY <1>1, NaturalDivision
<1>3. Quotient(a, b) = Sign(a) * Sign(b) * k /\ Remainder(a, b) = Sign(a) * m
  BY DEF Quotient, Remainder
<1> HIDE DEF k, m
<1>4. CASE a > 0 /\ b > 0
  <2>1. Quotient(a, b) = k /\ Remainder(a, b) = m /\ Magnitude(a) = a /\ Magnitude(b) = b
    BY <1>2, <1>3, <1>4, SMT DEF Sign, Magnitude
  <2> QED
    BY <1>2, <1>4, <2>1, SMT DEF Sign, Magnitude
<1>5. CASE a > 0 /\ b < 0
  <2>1. /\ Quotient(a, b) = -k /\ Remainder(a, b) = m
        /\ Magnitude(a) = a /\ Magnitude(b) = -b
    BY <1>2, <1>3, <1>5, SMT DEF Sign, Magnitude
  <2> QED
    BY <1>2, <1>5, <2>1, SMT DEF Sign, Magnitude
<1>6. CASE a < 0 /\ b > 0
  <2>1. /\ Quotient(a, b) = -k /\ Remainder(a, b) = -m
        /\ Magnitude(a) = -a /\ Magnitude(b) = b
    BY <1>2, <1>3, <1>6, SMT DEF Sign, Magnitude
  <2> QED
    BY <1>2, <1>6, <2>1, SMT DEF Sign, Magnitude
<1>7. CASE a < 0 /\ b < 0
  <2>1. /\ Quotient(a, b) = k /\ Remainder(a, b) = -m
        /\ Magnitude(a) = -a /\ Magnitude(b) = -b
    BY <1>2, <1>3, <1>7, SMT DEF Sign, Magnitude
  <2> QED
    BY <1>2, <1>7, <2>1, SMT DEF Sign, Magnitude
<1>8. CASE a = 0
  <2>1. Quotient(a, b) = 0 /\ Remainder(a, b) = 0
    BY <1>2, <1>3, <1>8, SMT DEF Sign
  <2> QED
    BY <1>1, <1>8, <2>1, SMT DEF Sign, Magnitude
<1> QED
  BY <1>4, <1>5, <1>6, <1>7, <1>8, SMT

(* What is added to a quotient rounded toward zero.                        *)
Adjustment(rounding, a, b) ==
    IF Remainder(a, b) = 0 \/ rounding = "to_zero" THEN 0
    ELSE IF rounding = "to_pos_inf" THEN IF SameSign(a, b) THEN 1 ELSE 0
    ELSE IF SameSign(a, b) THEN 0 ELSE -1

(* Int128, cpp_int and BigInt find the same adjustment by comparisons of   *)
(* their own.                                                              *)
LEMMA SameAdjustment ==
    ASSUME NEW h \in Hosts, NEW rounding \in Roundings, NEW a \in Int, NEW b \in Int, b # 0
    PROVE  LET d == Adjustment(rounding, a, b)
               q == Quotient(a, b) + d
               r == Remainder(a, b) - d * b
           IN  /\ d \in {-1, 0, 1}
               /\ DivRounded(rounding, a, b) = q
               /\ RemRounded(rounding, a, b) = r
               /\ HostDivRem(h, rounding, a, b) = [quotient |-> Yield(q), remainder |-> Yield(r)]
<1> DEFINE d == Adjustment(rounding, a, b)
<1>1. Quotient(a, b) \in Int /\ Remainder(a, b) \in Int
  BY Truncated
<1>2. d \in {-1, 0, 1}
  BY DEF Adjustment
<1>3. DivRounded(rounding, a, b) = Quotient(a, b) + d
  BY <1>1, SMT DEF DivRounded, Adjustment, Roundings
<1>4. RemRounded(rounding, a, b) = Remainder(a, b) - d * b
  BY <1>1, SMT DEF RemRounded, Adjustment, Roundings
<1>5. NativeAdjustment(rounding, a, b) = d
  <2>1. ((Sign(a) < 0) # (Sign(b) < 0)) <=> ~SameSign(a, b)
    BY SMT DEF Sign, SameSign
  <2>2. CASE Remainder(a, b) = 0
    BY <2>2, SMT DEF NativeAdjustment, Adjustment
  <2>3. CASE Remainder(a, b) # 0 /\ rounding = "to_zero"
    BY <2>3, SMT DEF NativeAdjustment, Adjustment
  <2>4. CASE Remainder(a, b) # 0 /\ rounding = "to_pos_inf"
    BY <2>1, <2>4, SMT DEF NativeAdjustment, Adjustment
  <2>5. CASE Remainder(a, b) # 0 /\ rounding = "to_neg_inf"
    BY <2>1, <2>5, SMT DEF NativeAdjustment, Adjustment
  <2> QED
    BY <2>2, <2>3, <2>4, <2>5, Zenon DEF Roundings
<1>6. (a >= 0) = (b >= 0) <=> SameSign(a, b)
  BY SMT DEF SameSign
<1> HIDE DEF d
<1>7. HostDivRem(h, rounding, a, b) =
          [quotient |-> Yield(Quotient(a, b) + d), remainder |-> Yield(Remainder(a, b) - d * b)]
  <2>1. CASE h = "native"
    BY <1>5, <2>1, Zenon DEF HostDivRem, NativeDivRem
  <2>2. CASE h # "native"
    <3>1. (IF Remainder(a, b) # 0 /\ (a >= 0) = (b >= 0) /\ rounding = "to_pos_inf" THEN 1
           ELSE IF Remainder(a, b) # 0 /\ ~((a >= 0) = (b >= 0)) /\ rounding = "to_neg_inf" THEN -1
           ELSE 0) = d
      BY <1>6, SMT DEF d, Adjustment, Roundings
    <3> QED
      BY <2>2, <3>1, Zenon DEF HostDivRem, WasmDivRem
  <2> QED
    BY <2>1, <2>2
<1> QED
  BY <1>2, <1>3, <1>4, <1>7 DEF d

(* The quotient and the remainder, in whichever way they are rounded.      *)
LEMMA Rounded ==
    ASSUME NEW rounding \in Roundings, NEW a \in Int, NEW b \in Int, b # 0
    PROVE  LET d == Adjustment(rounding, a, b)
               q == Quotient(a, b) + d
               r == Remainder(a, b) - d * b
           IN  /\ q \in Int /\ r \in Int
               /\ q * b + r = a
               /\ Magnitude(r) < Magnitude(b)
               /\ \/ r = 0
                  \/ Sign(r) = RestSign(rounding, a, b)
<1> DEFINE d == Adjustment(rounding, a, b)
           q0 == Quotient(a, b)
           r0 == Remainder(a, b)
<1>1. /\ q0 \in Int /\ r0 \in Int
      /\ q0 * b + r0 = a
      /\ Magnitude(r0) < Magnitude(b)
      /\ r0 # 0 => Sign(r0) = Sign(a)
  BY Truncated
<1>2. d \in {-1, 0, 1}
  BY DEF Adjustment
<1>3. d = 0 \/ r0 # 0
  BY DEF Adjustment
<1>4. ASSUME r0 # 0
      PROVE  /\ rounding = "to_zero" => d = 0
             /\ rounding = "to_pos_inf" => d = IF SameSign(a, b) THEN 1 ELSE 0
             /\ rounding = "to_neg_inf" => d = IF SameSign(a, b) THEN 0 ELSE -1
  BY <1>4 DEF Adjustment
<1> HIDE DEF d, q0, r0
<1>5. q0 + d \in Int /\ r0 - d * b \in Int /\ (q0 + d) * b + (r0 - d * b) = a
  <2>1. \A m \in Int, n \in Int : (m + 1) * n = m * n + n /\ (m - 1) * n = m * n - n
    BY SMT
  <2>2. (q0 + 1) * b = q0 * b + b /\ (q0 - 1) * b = q0 * b - b /\ q0 * b \in Int
    BY <1>1, <2>1
  <2>3. CASE d = 0
    BY <1>1, <2>3
  <2>4. CASE d = 1
    BY <1>1, <2>2, <2>4
  <2>5. CASE d = -1
    BY <1>1, <2>2, <2>5
  <2> QED
    BY <1>2, <2>3, <2>4, <2>5
<1>6. r0 # 0 => /\ SameSign(a, b) <=> (r0 > 0 /\ b > 0) \/ (r0 < 0 /\ b < 0)
                /\ r0 # 0 /\ a # 0
  BY <1>1, SMT DEF SameSign, Sign
<1>7. Magnitude(r0 - d * b) < Magnitude(b)
  <2>1. CASE d = 0
    BY <1>1, <2>1
  <2>2. CASE d = 1
    <3>1. r0 # 0 /\ SameSign(a, b)
      BY <1>3, <1>4, <2>2 DEF Roundings
    <3> QED
      BY <1>1, <1>6, <2>2, <3>1, SMT DEF Magnitude
  <2>3. CASE d = -1
    <3>1. r0 # 0 /\ ~SameSign(a, b)
      BY <1>3, <1>4, <2>3 DEF Roundings
    <3> QED
      BY <1>1, <1>6, <2>3, <3>1, SMT DEF Magnitude
  <2> QED
    BY <1>2, <2>1, <2>2, <2>3
<1>8. \/ r0 - d * b = 0
      \/ Sign(r0 - d * b) = RestSign(rounding, a, b)
  <2>1. CASE r0 = 0
    BY <1>1, <1>3, <2>1
  <2>2. CASE r0 # 0 /\ rounding = "to_zero"
    BY <1>1, <1>4, <2>2 DEF RestSign
  <2>3. CASE r0 # 0 /\ rounding = "to_pos_inf"
    <3>1. Sign(r0 - d * b) = -Sign(b)
      BY <1>1, <1>4, <1>6, <2>3, SMT DEF Magnitude, Sign
    <3> QED
      BY <2>3, <3>1 DEF RestSign
  <2>4. CASE r0 # 0 /\ rounding = "to_neg_inf"
    <3>1. Sign(r0 - d * b) = Sign(b)
      BY <1>1, <1>4, <1>6, <2>4, SMT DEF Magnitude, Sign
    <3> QED
      BY <2>4, <3>1 DEF RestSign
  <2> QED
    BY <2>1, <2>2, <2>3, <2>4 DEF Roundings
<1> QED
  BY <1>5, <1>7, <1>8 DEF d, q0, r0

(* Two Int128 have a quotient that is one, but for the lowest integer      *)
(* divided by -1, and a remainder that is one.                             *)
LEMMA RoundedFits ==
    ASSUME NEW rounding \in Roundings, NEW a \in Int, NEW b \in Int, b # 0,
           Fits(a), Fits(b), ~(a = -Limit /\ b = -1)
    PROVE  /\ Fits(Quotient(a, b) + Adjustment(rounding, a, b))
           /\ Fits(Remainder(a, b) - Adjustment(rounding, a, b) * b)
<1> DEFINE d == Adjustment(rounding, a, b)
           q0 == Quotient(a, b)
           r0 == Remainder(a, b)
<1>1. /\ q0 \in Int /\ r0 \in Int
      /\ q0 * b + r0 = a
      /\ Magnitude(r0) < Magnitude(b)
      /\ Magnitude(a) = Magnitude(b) * Magnitude(q0) + Magnitude(r0)
  BY Truncated
<1>2. d \in {-1, 0, 1} /\ (r0 = 0 => d = 0)
  BY DEF Adjustment
<1>3. r0 - d * b \in Int /\ Magnitude(r0 - d * b) < Magnitude(b)
  BY Rounded
<1> HIDE DEF d, q0, r0
<1>4. Fits(r0 - d * b)
  <2>1. Magnitude(b) <= Limit
    BY LimitAssumption, SMT DEF Fits, Magnitude
  <2> DEFINE r == r0 - d * b
  <2>2. r \in Int /\ Magnitude(r) < Magnitude(b)
    BY <1>3
  <2> HIDE DEF r
  <2>3. Fits(r)
    BY <2>1, <2>2, LimitAssumption, SMT DEF Fits, Magnitude
  <2> QED
    BY <2>3 DEF r
<1>5. CASE b = 1 \/ b = -1
  <2>1. r0 = 0 /\ d = 0
    BY <1>1, <1>2, <1>5, SMT DEF Magnitude
  <2>2. q0 = a \/ (b = -1 /\ q0 = -a)
    BY <1>1, <1>5, <2>1, SMT
  <2>3. Fits(q0 + d)
    BY <1>1, <2>1, <2>2, LimitAssumption, SMT DEF Fits
  <2> QED
    BY <1>4, <2>3 DEF d, q0, r0
<1>6. CASE ~(b = 1 \/ b = -1)
  <2> DEFINE A == Magnitude(a)
             B == Magnitude(b)
             Q == Magnitude(q0)
             R == Magnitude(r0)
  <2>1. B \in Nat /\ B >= 2 /\ Q \in Nat /\ R \in Nat /\ A \in Nat /\ A = B * Q + R
    BY <1>1, <1>6, SMT DEF Magnitude
  <2>2. A <= Limit /\ B <= Limit
    BY LimitAssumption, SMT DEF Fits, Magnitude
  <2>3. r0 # 0 => R >= 1
    BY <1>1, SMT DEF Magnitude
  <2>4. -Q <= q0 /\ q0 <= Q
    BY <1>1, SMT DEF Magnitude
  <2> HIDE DEF A, B, Q, R
  <2>5. 2 * Q <= B * Q
    <3>1. \A m \in Nat, n \in Nat : m >= 2 => 2 * n <= m * n
      BY SMT
    <3> QED
      BY <2>1, <3>1
  <2>6. 2 * Q + R <= Limit
    <3>1. B * Q \in Nat
      BY <2>1
    <3> QED
      BY <2>1, <2>2, <2>5, <3>1, LimitAssumption, SMT
  <2>7. Fits(q0 + d)
    BY <1>1, <1>2, <2>1, <2>2, <2>3, <2>4, <2>6, LimitAssumption, SMT DEF Fits
  <2> QED
    BY <1>4, <2>7 DEF d, q0, r0
<1> QED
  BY <1>5, <1>6

(* An Int128 does not change when it wraps around.                         *)
LEMMA WrapFits ==
    ASSUME NEW v \in Int, Fits(v)
    PROVE  Wrap(v) = v
<1>1. \A n \in Nat, k \in Nat \ {0} : n < k => n % k = n
  BY SMT
<1>2. v + Limit \in Nat /\ 2 * Limit \in Nat \ {0} /\ v + Limit < 2 * Limit
  BY LimitAssumption DEF Fits
<1>3. (v + Limit) % (2 * Limit) = v + Limit
  BY <1>1, <1>2
<1> QED
  BY <1>3, LimitAssumption DEF Wrap

(* div, rem and div_rem of a number other than 0: with either host, for    *)
(* any sizes of the operands, rounded in each of the three ways, they give *)
(* one quotient and one remainder, each in its one representation, that    *)
(* make up the dividend; the remainder is less than the divisor, and has   *)
(* the sign that the rounding says.                                        *)
THEOREM DivisionIsExact ==
    ASSUME NEW h \in Hosts, NEW rounding \in Roundings, NEW x, NEW y,
           Canonical(x), Canonical(y), y.v # 0
    PROVE  LET result == DivRem(h, rounding, x, y)
               q == result.quotient.v
               rest == result.remainder.v
           IN  /\ Canonical(result.quotient) /\ Canonical(result.remainder)
               /\ Div(h, rounding, x, y) = result.quotient
               /\ Rem(h, rounding, x, y) = result.remainder
               /\ q * y.v + rest = x.v
               /\ Magnitude(rest) < Magnitude(y.v)
               /\ \/ rest = 0
                  \/ Sign(rest) = RestSign(rounding, x.v, y.v)
<1> DEFINE a == x.v
           b == y.v
           d == Adjustment(rounding, a, b)
           q == Quotient(a, b) + d
           r == Remainder(a, b) - d * b
           result == DivRem(h, rounding, x, y)
<1>1. /\ a \in Int /\ b \in Int /\ b # 0
      /\ x.small \in BOOLEAN /\ y.small \in BOOLEAN
      /\ x.small => Fits(a)
      /\ y.small => Fits(b)
  BY SMT DEF Canonical, Object
<1>2. /\ q \in Int /\ r \in Int
      /\ q * b + r = a
      /\ Magnitude(r) < Magnitude(b)
      /\ \/ r = 0
         \/ Sign(r) = RestSign(rounding, a, b)
  BY <1>1, Rounded, Zenon
<1>3. /\ DivRounded(rounding, a, b) = q
      /\ RemRounded(rounding, a, b) = r
      /\ HostDivRem(h, rounding, a, b) = [quotient |-> Yield(q), remainder |-> Yield(r)]
  BY <1>1, SameAdjustment
<1>4. Fits(a) /\ Fits(b) /\ ~(a = -Limit /\ b = -1) => Fits(q) /\ Fits(r)
  BY <1>1, RoundedFits
<1>5. b = -1 => q = -a /\ r = 0
  <2> HIDE DEF q, r, a, b
  <2> QED
    BY <1>1, <1>2, SMT DEF Magnitude
<1>6. /\ Yield(q).v = q /\ Canonical(Yield(q))
      /\ Yield(r).v = r /\ Canonical(Yield(r))
  <2> HIDE DEF q, r
  <2> QED
    BY <1>2, YieldIsCanonical
<1> HIDE DEF a, b, q, r
<1>7. \A v \in Int : Fits(v) => Small(v) = Yield(v)
  BY DEF Yield
<1>8. \A m, n : /\ [quotient |-> m, remainder |-> n].quotient = m
                /\ [quotient |-> m, remainder |-> n].remainder = n
  OBVIOUS
<1>9. /\ result.quotient = Yield(q) /\ result.remainder = Yield(r)
      /\ Div(h, rounding, x, y) = Yield(q) /\ Rem(h, rounding, x, y) = Yield(r)
  <2>1. CASE ~(x.small /\ y.small)
    <3>1. result = HostDivRem(h, rounding, a, b)
      BY <2>1 DEF DivRem, a, b
    <3>2. /\ Div(h, rounding, x, y) = HostDivRem(h, rounding, a, b).quotient
          /\ Rem(h, rounding, x, y) = HostDivRem(h, rounding, a, b).remainder
      BY <2>1 DEF Div, Rem, a, b
    <3> HIDE DEF result
    <3> QED
      BY <1>3, <1>8, <3>1, <3>2
  <2>2. CASE x.small /\ y.small /\ a = -Limit /\ b = -1
    <3>1. result = [quotient |-> Pow2Limit, remainder |-> Small(0)]
      BY <2>2 DEF DivRem, a, b
    <3>2. Pow2Limit = Yield(q)
      <4>1. q = Limit
        BY <1>5, <2>2, LimitAssumption
      <4> QED
        BY <4>1 DEF Pow2Limit
    <3>3. Small(0) = Yield(r)
      BY <1>1, <1>5, <1>7, <2>2, LimitAssumption DEF Fits
    <3>4. Div(h, rounding, x, y) = Pow2Limit /\ Rem(h, rounding, x, y) = Small(0)
      BY <2>2 DEF Div, Rem, a, b
    <3> HIDE DEF result
    <3> QED
      BY <1>8, <3>1, <3>2, <3>3, <3>4
  <2>3. CASE x.small /\ y.small /\ ~(a = -Limit /\ b = -1)
    <3>1. Fits(q) /\ Fits(r)
      BY <1>1, <1>4, <2>3
    <3>2. Small(Wrap(q)) = Yield(q) /\ Small(Wrap(r)) = Yield(r)
      BY <1>2, <1>7, <3>1, WrapFits
    <3>3. result = [quotient |-> Small(Wrap(q)), remainder |-> Small(Wrap(r))]
      BY <1>3, <2>3, Zenon DEF DivRem, a, b
    <3>4. Div(h, rounding, x, y) = Small(Wrap(q))
      BY <1>3, <2>3, Zenon DEF Div, a, b
    <3>5. Rem(h, rounding, x, y) = Yield(r)
      <4>1. CASE b = -1
        <5>1. Rem(h, rounding, x, y) = Small(0)
          BY <2>3, <4>1 DEF Rem, b
        <5> QED
          BY <1>5, <1>7, <3>1, <4>1, <5>1
      <4>2. CASE b # -1
        <5>1. Rem(h, rounding, x, y) = Small(Wrap(r))
          BY <1>3, <2>3, <4>2, Zenon DEF Rem, a, b
        <5> QED
          BY <3>2, <5>1
      <4> QED
        BY <4>1, <4>2
    <3> HIDE DEF result
    <3> QED
      BY <1>8, <3>2, <3>3, <3>4, <3>5
  <2> QED
    BY <1>1, <2>1, <2>2, <2>3
<1> HIDE DEF result
<1>10. /\ Canonical(result.quotient) /\ Canonical(result.remainder)
       /\ Div(h, rounding, x, y) = result.quotient
       /\ Rem(h, rounding, x, y) = result.remainder
       /\ result.quotient.v = q /\ result.remainder.v = r
  BY <1>6, <1>9
<1> QED
  BY <1>2, <1>10, Zenon DEF result, a, b

(* What ExactAndCanonical says of quotients and remainders, for integers   *)
(* of any size.                                                            *)
THEOREM QuotientsStayExact ==
    ASSUME host \in Hosts, NEW x, NEW y, Canonical(x), Canonical(y)
    PROVE  QuotientsAreExact(x, y)
<1> SUFFICES ASSUME y.v # 0, NEW rounding \in Roundings
             PROVE  LET result == DivRem(host, rounding, x, y)
                        q == result.quotient.v
                        rest == result.remainder.v
                    IN  /\ q * y.v + rest = x.v
                        /\ Magnitude(rest) < Magnitude(y.v)
                        /\ \/ rest = 0
                           \/ Sign(rest) = RestSign(rounding, x.v, y.v)
                        /\ Div(host, rounding, x, y).v = q
                        /\ Rem(host, rounding, x, y).v = rest
  BY Zenon DEF QuotientsAreExact
<1>1. LET result == DivRem(host, rounding, x, y)
          q == result.quotient.v
          rest == result.remainder.v
      IN  /\ Div(host, rounding, x, y) = result.quotient
          /\ Rem(host, rounding, x, y) = result.remainder
          /\ q * y.v + rest = x.v
          /\ Magnitude(rest) < Magnitude(y.v)
          /\ \/ rest = 0
             \/ Sign(rest) = RestSign(rounding, x.v, y.v)
  BY DivisionIsExact
<1> QED
  BY <1>1, Zenon

(* abs: the magnitude of the lowest Int128 is made by the host.            *)
THEOREM MagnitudeIsExact ==
    ASSUME NEW x, Canonical(x)
    PROVE  AbsoluteValue(x).v = Magnitude(x.v) /\ Canonical(AbsoluteValue(x))
<1>1. x.v \in Int /\ (x.small => Fits(x.v))
  BY DEF Canonical, Object
<1>2. Magnitude(x.v) \in Int
  BY <1>1 DEF Magnitude
<1>3. AbsoluteValue(x) = Yield(Magnitude(x.v))
  <2>1. CASE x.small /\ x.v = -Limit
    BY <1>1, <2>1, LimitAssumption DEF AbsoluteValue, Pow2Limit, Magnitude
  <2>2. CASE x.small /\ x.v # -Limit
    <3>1. Fits(Magnitude(x.v))
      BY <1>1, <2>2, LimitAssumption DEF Fits, Magnitude
    <3> QED
      BY <2>2, <3>1, Zenon DEF AbsoluteValue, Yield
  <2>3. CASE ~x.small
    BY <2>3, Zenon DEF AbsoluteValue
  <2> QED
    BY <2>1, <2>2, <2>3
<1> QED
  BY <1>2, <1>3, YieldIsCanonical

(* operator<=> : of integers of any sizes, the host's compared from its    *)
(* own side.                                                               *)
THEOREM ComparisonIsExact ==
    ASSUME NEW x, NEW y, Canonical(x), Canonical(y)
    PROVE  /\ Compare(x, y) < 0 <=> x.v < y.v
           /\ Compare(x, y) = 0 <=> x.v = y.v
<1>1. x.v \in Int /\ y.v \in Int
  BY DEF Canonical, Object
<1>2. \A a, b \in Int : /\ Sign(a - b) < 0 <=> a < b
                        /\ Sign(a - b) = 0 <=> a = b
                        /\ -Sign(b - a) < 0 <=> a < b
                        /\ -Sign(b - a) = 0 <=> a = b
  <2> SUFFICES ASSUME NEW a \in Int, NEW b \in Int
               PROVE  /\ Sign(a - b) < 0 <=> a < b
                      /\ Sign(a - b) = 0 <=> a = b
                      /\ -Sign(b - a) < 0 <=> a < b
                      /\ -Sign(b - a) = 0 <=> a = b
    OBVIOUS
  <2>1. CASE a < b
    <3>1. Sign(a - b) = -1 /\ Sign(b - a) = 1
      BY <2>1 DEF Sign
    <3> QED
      BY <2>1, <3>1
  <2>2. CASE a = b
    <3>1. Sign(a - b) = 0 /\ Sign(b - a) = 0
      BY <2>2 DEF Sign
    <3> QED
      BY <2>2, <3>1
  <2>3. CASE a > b
    <3>1. Sign(a - b) = 1 /\ Sign(b - a) = -1
      BY <2>3 DEF Sign
    <3> QED
      BY <2>3, <3>1
  <2> QED
    BY <2>1, <2>2, <2>3
<1>3. Compare(x, y) = Sign(x.v - y.v) \/ Compare(x, y) = -Sign(y.v - x.v)
  BY DEF Compare, HostComparison
<1> QED
  BY <1>1, <1>2, <1>3

(* What ExactAndCanonical says of sums, differences, products and          *)
(* comparisons, for integers of any size.                                  *)
THEOREM SumsStayExact ==
    ASSUME host \in Hosts, NEW x, NEW y, Canonical(x), Canonical(y)
    PROVE  SumsAreExact(x, y)
<1>1. Plus(host, x, y).v = x.v + y.v
  BY SumIsExact
<1>2. Minus(host, x, y).v = x.v - y.v
  BY DifferenceIsExact
<1>3. Times(x, y).v = x.v * y.v
  BY ProductIsExact
<1>4. Negated(x).v = -x.v
  BY NegationIsExact
<1>5. AbsoluteValue(x).v = Magnitude(x.v)
  BY MagnitudeIsExact
<1>6. Incremented(x).v = x.v + 1 /\ Decremented(host, x).v = x.v - 1
  BY StepIsExact
<1>7. /\ (Compare(x, y) < 0) = (x.v < y.v)
      /\ (Compare(x, y) = 0) = (x.v = y.v)
  BY ComparisonIsExact
<1> QED
  BY <1>1, <1>2, <1>3, <1>4, <1>5, <1>6, <1>7, Zenon DEF SumsAreExact

-----------------------------------------------------------------------------
(* Memory.                                                                 *)
Shape(m) ==
    m = [nodes |-> m.nodes, repo |-> m.repo, id |-> m.id, thrown |-> m.thrown]

(* What an update of one field of the memory leaves alone.                 *)
LEMMA SetNodes ==
    ASSUME NEW m, Shape(m), NEW x, NEW e, e = [m EXCEPT !.nodes = x]
    PROVE  /\ Shape(e)
           /\ e.nodes = x /\ e.repo = m.repo /\ e.id = m.id /\ e.thrown = m.thrown
  BY DEF Shape

LEMMA SetRepo ==
    ASSUME NEW m, Shape(m), NEW x, NEW e, e = [m EXCEPT !.repo = x]
    PROVE  /\ Shape(e)
           /\ e.nodes = m.nodes /\ e.repo = x /\ e.id = m.id /\ e.thrown = m.thrown
  BY DEF Shape

LEMMA SetThrown ==
    ASSUME NEW m, Shape(m), NEW e, e = [m EXCEPT !.thrown = TRUE]
    PROVE  /\ Shape(e)
           /\ e.nodes = m.nodes /\ e.repo = m.repo /\ e.id = m.id /\ e.thrown = TRUE
  BY DEF Shape

LEMMA SetRepoId ==
    ASSUME NEW m, Shape(m), NEW v, NEW e,
           e = [m EXCEPT !.id = @ + 1, !.repo = Put(@, m.id + 1, v)]
    PROVE  /\ Shape(e)
           /\ e.nodes = m.nodes /\ e.repo = Put(m.repo, m.id + 1, v)
           /\ e.id = m.id + 1 /\ e.thrown = m.thrown
  BY DEF Shape

(* JavaScript has thrown an exception: what the memory holds is of no      *)
(* interest, but many integers have been made.                             *)
Broken(m, low) ==
    /\ Shape(m)
    /\ m.thrown = TRUE
    /\ m.id \in low .. MaxId
    /\ m.id > MaxId \div 2

(* An exception remains one, whatever is done to nodes and integers.       *)
LEMMA BrokenLike ==
    ASSUME NEW low, NEW m, Broken(m, low),
           NEW e, Shape(e), e.thrown = m.thrown \/ e.thrown = TRUE, e.id = m.id
    PROVE  Broken(e, low)
  BY DEF Broken

LEMMA BrokenStays ==
    ASSUME NEW low \in Nat, NEW m, Broken(m, low), NEW n
    PROVE  /\ Broken(DeleteInteger(m, n), low)
           /\ Broken(DropReference(m, n), low)
           /\ Broken([m EXCEPT !.thrown = TRUE], low)
           /\ Broken([m EXCEPT !.nodes = n], low)
<1>1. ASSUME NEW x, Broken(x, low), NEW k PROVE Broken(DeleteInteger(x, k), low)
  <2>1. Shape(x)
    BY <1>1 DEF Broken
  <2>2. Broken([x EXCEPT !.repo = Without(@, k)], low)
    <3> DEFINE e == [x EXCEPT !.repo = Without(@, k)]
    <3>1. Shape(e) /\ e.id = x.id /\ e.thrown = x.thrown
      BY <2>1, SetRepo
    <3> HIDE DEF e
    <3>2. Broken(e, low)
      BY <1>1, <3>1, BrokenLike
    <3> QED
      BY <3>2 DEF e
  <2>3. Broken([x EXCEPT !.thrown = TRUE], low)
    BY <1>1, <2>1, SetThrown, BrokenLike
  <2> QED
    BY <2>2, <2>3 DEF DeleteInteger
<1>2. ASSUME NEW N PROVE Broken([m EXCEPT !.nodes = N], low)
  <2>1. Shape(m)
    BY DEF Broken
  <2> DEFINE e == [m EXCEPT !.nodes = N]
  <2>2. Shape(e) /\ e.id = m.id /\ e.thrown = m.thrown
    BY <2>1, SetNodes
  <2> HIDE DEF e
  <2>3. Broken(e, low)
    BY <2>2, BrokenLike
  <2> QED
    BY <2>3 DEF e
<1>3. Broken([m EXCEPT !.thrown = TRUE], low)
  BY SetThrown, BrokenLike DEF Broken
<1>4. Broken([m EXCEPT !.nodes[n].owners = @ - 1], low)
  <2> DEFINE N == [m.nodes EXCEPT ![n].owners = @ - 1]
  <2>1. [m EXCEPT !.nodes[n].owners = @ - 1] = [m EXCEPT !.nodes = N]
    BY Zenon
  <2> HIDE DEF N
  <2> QED
    BY <1>2, <2>1
<1>5. Broken([m EXCEPT !.nodes = Without(@, n)], low)
  BY <1>2
<1> QED
  BY <1>1, <1>2, <1>3, <1>4, <1>5 DEF DropReference

LEMMA BrokenNew ==
    ASSUME NEW low \in Nat, NEW m, Broken(m, low), NEW v
    PROVE  /\ Broken(NewNode(m, v), low)
           /\ Broken(NewInteger(m, v).memory, low)
<1>1. Shape(m) /\ MaxId \in Nat /\ m.id \in Nat
  BY MemoryAssumption DEF Broken
<1>2. Broken(NewNode(m, v), low)
  BY BrokenStays DEF NewNode
<1>3. Broken([m EXCEPT !.thrown = TRUE], low)
  BY BrokenStays
<1>4. CASE m.id < MaxId
  <2> DEFINE e == [m EXCEPT !.id = @ + 1, !.repo = Put(@, m.id + 1, v)]
  <2>1. Shape(e) /\ e.thrown = m.thrown /\ e.id = m.id + 1
    BY <1>1, SetRepoId
  <2>2. m.id + 1 \in low .. MaxId /\ m.id + 1 > MaxId \div 2
    BY <1>1, <1>4 DEF Broken
  <2>3. NewInteger(m, v).memory = NewNode(m, v) \/ NewInteger(m, v).memory = e
    BY <1>1, <1>4 DEF NewInteger
  <2> HIDE DEF e
  <2>4. Broken(e, low)
    BY <2>1, <2>2 DEF Broken
  <2> QED
    BY <1>2, <2>3, <2>4
<1>5. CASE ~(m.id < MaxId)
  <2>1. NewInteger(m, v).memory = NewNode(m, v)
            \/ NewInteger(m, v).memory = [m EXCEPT !.thrown = TRUE]
    BY <1>1, <1>5 DEF NewInteger
  <2> QED
    BY <1>2, <1>3, <2>1
<1> QED
  BY <1>4, <1>5

LEMMA BrokenRest ==
    ASSUME NEW low \in Nat, NEW m, Broken(m, low), NEW x, NEW h
    PROVE  /\ Broken(SetZero(m, x), low)
           /\ Broken(Result(m, x).memory, low)
           /\ Broken(Upload(m, x).memory, low)
           /\ Broken(Found(m, h), low)
           /\ Broken(Release(m, x, h), low)
<1>1. Broken(NewInteger(m, x.v).memory, low)
  BY BrokenNew
<1>2. Broken(NewNode(NewInteger(m, x.v).memory, NewInteger(m, x.v).handle), low)
  BY <1>1, BrokenNew
<1> QED
  BY <1>1, <1>2, BrokenStays DEF SetZero, Result, Upload, Found, Release

NodeType == [owners : Nat \ {0}, is : Int]

(* Updates of nodes, and new ones, are nodes.                              *)
LEMMA NodeTyped ==
    ASSUME NEW x \in NodeType, NEW k \in Nat \ {0}
    PROVE  /\ [x EXCEPT !.owners = k] \in NodeType
           /\ [x EXCEPT !.owners = k].owners = k
           /\ [x EXCEPT !.owners = k].is = x.is
           /\ x.owners \in Nat \ {0} /\ x.is \in Int
  BY DEF NodeType

LEMMA NewNodeTyped ==
    ASSUME NEW i \in Int
    PROVE  /\ [owners |-> 1, is |-> i] \in NodeType
           /\ [owners |-> 1, is |-> i].owners = 1
           /\ [owners |-> 1, is |-> i].is = i
  BY DEF NodeType

(* Objects that refer to a node, and how many owners a node has, the       *)
(* temporaries T included.                                                 *)
Refers(x, n) == ~x.small /\ x.v = n
Referring(objs, n) == {r \in Registers : Refers(objs[r], n)}
Count(objs, n) == Cardinality(Referring(objs, n))
One(b) == IF b THEN 1 ELSE 0
Owners(objs, T, n) == Count(objs, n) + One(n \in T)

(* A node is owned by nobody when no register refers to it.                *)
LEMMA CountIs ==
    ASSUME NEW objs, NEW n
    PROVE  /\ Count(objs, n) \in Nat
           /\ Count(objs, n) = 0 <=> \A r \in Registers : ~Refers(objs[r], n)
<1>1. IsFiniteSet(Referring(objs, n))
  BY MemoryAssumption, FS_Subset DEF Referring
<1>2. Cardinality(Referring(objs, n)) \in Nat
  BY <1>1, FS_CardinalityType
<1>3. Cardinality(Referring(objs, n)) = 0 <=> Referring(objs, n) = {}
  BY <1>1, FS_EmptySet
<1> QED
  BY <1>2, <1>3 DEF Count, Referring

(* A register that is assigned to leaves one node and joins another.       *)
LEMMA CountUpdate ==
    ASSUME NEW objs \in [Registers -> Object], NEW r \in Registers, NEW z \in Object, NEW n
    PROVE  Count([objs EXCEPT ![r] = z], n) =
               Count(objs, n) - One(Refers(objs[r], n)) + One(Refers(z, n))
<1> DEFINE S == Referring(objs, n)
           S2 == Referring([objs EXCEPT ![r] = z], n)
<1>1. IsFiniteSet(S) /\ Cardinality(S) \in Nat
  BY MemoryAssumption, FS_Subset, FS_CardinalityType DEF Referring
<1>2. r \in S <=> Refers(objs[r], n)
  BY DEF Referring
<1>3. S2 = IF Refers(z, n) THEN S \cup {r} ELSE S \ {r}
  BY DEF Referring
<1> HIDE DEF S, S2
<1>4. Cardinality(S \cup {r}) = IF r \in S THEN Cardinality(S) ELSE Cardinality(S) + 1
  BY <1>1, FS_AddElement
<1>5. Cardinality(S \ {r}) = IF r \in S THEN Cardinality(S) - 1 ELSE Cardinality(S)
  BY <1>1, FS_RemoveElement
<1>6. Cardinality(S2) = Cardinality(S) - One(Refers(objs[r], n)) + One(Refers(z, n))
  <2>1. CASE Refers(z, n)
    BY <1>1, <1>2, <1>3, <1>4, <2>1 DEF One
  <2>2. CASE ~Refers(z, n)
    BY <1>1, <1>2, <1>3, <1>5, <2>2 DEF One
  <2> QED
    BY <2>1, <2>2
<1> QED
  BY <1>6 DEF Count, S, S2

(* The nodes are owned by registers and by the temporaries T, the integers *)
(* in the host by nodes, and by uploads U.                                 *)
NodesOK(m) ==
    /\ DOMAIN m.nodes \subseteq Nodes
    /\ \A n \in DOMAIN m.nodes : m.nodes[n] \in NodeType

Present(m, objs) ==
    \A r \in Registers : objs[r].small \/ objs[r].v \in DOMAIN m.nodes

Owned(m, objs, T) ==
    /\ T \subseteq DOMAIN m.nodes
    /\ Present(m, objs)
    /\ \A n \in DOMAIN m.nodes : m.nodes[n].owners = Owners(objs, T, n)

Hosted(m, U) ==
    IF host = "native" THEN DOMAIN m.repo = {} /\ U = {}
    ELSE /\ DOMAIN m.repo = U \cup {m.nodes[n].is : n \in DOMAIN m.nodes}
         /\ \A n, k \in DOMAIN m.nodes : m.nodes[n].is = m.nodes[k].is => n = k
         /\ \A n \in DOMAIN m.nodes : m.nodes[n].is \notin U
         /\ \A k \in DOMAIN m.repo : k \in 1 .. m.id

Good(m, objs, T, U, low) ==
    /\ Shape(m)
    /\ m.thrown = FALSE
    /\ m.id \in low .. MaxId
    /\ objs \in [Registers -> Object]
    /\ NodesOK(m)
    /\ Owned(m, objs, T)
    /\ Hosted(m, U)

Either(m, objs, T, U, low) == Broken(m, low) \/ Good(m, objs, T, U, low)

(* The registers may change as long as the owners remain the same.         *)
LEMMA Accounted ==
    ASSUME NEW m, NEW objs, NEW T, NEW U, NEW low, Good(m, objs, T, U, low),
           NEW objs2 \in [Registers -> Object], NEW T2,
           T2 \subseteq DOMAIN m.nodes, Present(m, objs2),
           \A n \in DOMAIN m.nodes : Owners(objs2, T2, n) = Owners(objs, T, n)
    PROVE  Good(m, objs2, T2, U, low)
  BY DEF Good, Owned

(* The node of an object.                                                  *)
Node(z) == IF z.small THEN {} ELSE {z.v}

LEMMA OwnersAt ==
    ASSUME NEW objs, NEW T, NEW n
    PROVE  Owners(objs, T, n) \in Nat
  BY CountIs DEF Owners, One

(* A register takes over a temporary.                                      *)
LEMMA Take ==
    ASSUME NEW m, NEW objs, NEW T, NEW U, NEW low, Good(m, objs, T, U, low),
           NEW r \in Registers, objs[r].small, NEW z \in Object, Node(z) \subseteq T
    PROVE  Good(m, [objs EXCEPT ![r] = z], T \ Node(z), U, low)
<1> DEFINE objs2 == [objs EXCEPT ![r] = z]
<1>1. objs \in [Registers -> Object] /\ T \subseteq DOMAIN m.nodes /\ Present(m, objs)
  BY DEF Good, Owned
<1>2. objs2 \in [Registers -> Object]
  BY <1>1
<1>3. Present(m, objs2)
  BY <1>1 DEF Present, Node
<1>4. ASSUME NEW n \in DOMAIN m.nodes
      PROVE  Owners(objs2, T \ Node(z), n) = Owners(objs, T, n)
  <2>1. Count(objs2, n) = Count(objs, n) - One(Refers(objs[r], n)) + One(Refers(z, n))
    BY <1>1, CountUpdate
  <2>2. ~Refers(objs[r], n)
    BY DEF Refers
  <2>3. Refers(z, n) <=> n \in Node(z)
    BY DEF Refers, Node
  <2>4. Count(objs, n) \in Nat
    BY CountIs
  <2>5. One(n \in T) = One(n \in Node(z)) + One(n \in T \ Node(z))
    BY DEF One
  <2>6. One(n \in T) \in Nat /\ One(n \in Node(z)) \in Nat /\ One(n \in T \ Node(z)) \in Nat
    BY DEF One
  <2>7. One(Refers(objs[r], n)) = 0 /\ One(Refers(z, n)) = One(n \in Node(z))
    BY <2>2, <2>3 DEF One
  <2> QED
    BY <2>1, <2>4, <2>5, <2>6, <2>7 DEF Owners
<1> HIDE DEF objs2
<1>5. T \ Node(z) \subseteq DOMAIN m.nodes
  BY <1>1
<1>6. Good(m, objs2, T \ Node(z), U, low)
  BY <1>2, <1>3, <1>4, <1>5, Accounted
<1> QED
  BY <1>6 DEF objs2

(* What a register refers to becomes a temporary.                          *)
LEMMA Give ==
    ASSUME NEW m, NEW objs, NEW T, NEW U, NEW low, Good(m, objs, T, U, low),
           NEW r \in Registers, Node(objs[r]) \cap T = {}
    PROVE  Good(m, [objs EXCEPT ![r] = Small(0)], T \cup Node(objs[r]), U, low)
<1> DEFINE objs2 == [objs EXCEPT ![r] = Small(0)]
           x == objs[r]
<1>1. objs \in [Registers -> Object] /\ T \subseteq DOMAIN m.nodes /\ Present(m, objs)
  BY DEF Good, Owned
<1>0. Small(0) \in Object /\ Small(0).small = TRUE
  BY DEF Small, Object
<1>2. objs2 \in [Registers -> Object]
  BY <1>0, <1>1
<1>3. Present(m, objs2)
  BY <1>0, <1>1 DEF Present
<1>4. ASSUME NEW n \in DOMAIN m.nodes
      PROVE  Owners(objs2, T \cup Node(x), n) = Owners(objs, T, n)
  <2>1. Count(objs2, n) = Count(objs, n) - One(Refers(x, n)) + One(Refers(Small(0), n))
    BY <1>0, <1>1, CountUpdate
  <2>2. ~Refers(Small(0), n)
    BY <1>0 DEF Refers
  <2>3. Refers(x, n) <=> n \in Node(x)
    BY DEF Refers, Node
  <2>4. Count(objs, n) \in Nat
    BY CountIs
  <2> HIDE DEF x
  <2>5. One(n \in T \cup Node(x)) = One(n \in Node(x)) + One(n \in T)
    BY DEF One, x
  <2>6. One(n \in T) \in Nat /\ One(n \in Node(x)) \in Nat /\ One(n \in T \cup Node(x)) \in Nat
    BY DEF One
  <2>7. One(Refers(Small(0), n)) = 0 /\ One(Refers(x, n)) = One(n \in Node(x))
    BY <2>2, <2>3 DEF One
  <2> QED
    BY <2>1, <2>4, <2>5, <2>6, <2>7 DEF Owners
<1>5. T \cup Node(x) \subseteq DOMAIN m.nodes
  BY <1>1 DEF Present, Node
<1> HIDE DEF objs2, x
<1>6. Good(m, objs2, T \cup Node(x), U, low)
  BY <1>2, <1>3, <1>4, <1>5, Accounted
<1> QED
  BY <1>6 DEF objs2, x

(* An integer that only an upload has is deleted.                          *)
LEMMA KeyIs ==
    ASSUME NEW k \in 1 .. MaxId
    PROVE  /\ k > MaxId \div 2 => Key(k) < 0
           /\ ~(k > MaxId \div 2) => Key(k) = k
<1>1. MaxId \in Nat
  BY MemoryAssumption
<1> QED
  BY <1>1 DEF Key

(* big_int_delete of an upload leaves the integers of nodes.               *)
LEMMA DeleteUpload ==
    ASSUME NEW low \in Nat, NEW m, NEW objs, NEW T, NEW U, Good(m, objs, T, U, low),
           host # "native", NEW k \in U
    PROVE  Either(DeleteInteger(m, Key(k)), objs, T, U \ {k}, low)
<1>0. Shape(m) /\ m.thrown = FALSE /\ m.id \in low .. MaxId /\ MaxId \in Nat
  BY MemoryAssumption DEF Good
<1>1. k \in DOMAIN m.repo /\ k \in 1 .. m.id /\ \A j \in DOMAIN m.repo : j \in 1 .. m.id
  BY DEF Good, Hosted
<1>2. k \in 1 .. MaxId
  BY <1>0, <1>1
<1>3. CASE k > MaxId \div 2
  <2> DEFINE e == [m EXCEPT !.thrown = TRUE]
  <2>1. Key(k) \notin DOMAIN m.repo
    BY <1>1, <1>2, <1>3, KeyIs
  <2>2. Shape(e) /\ e.id = m.id /\ e.thrown = TRUE
    BY <1>0, SetThrown
  <2>3. DeleteInteger(m, Key(k)) = e
    BY <2>1 DEF DeleteInteger
  <2> HIDE DEF e
  <2>4. m.id > MaxId \div 2
    BY <1>0, <1>1, <1>3
  <2> QED
    BY <1>0, <2>2, <2>3, <2>4 DEF Either, Broken
<1>4. CASE ~(k > MaxId \div 2)
  <2> DEFINE R == Without(m.repo, k)
             e == [m EXCEPT !.repo = R]
  <2>1. Key(k) = k
    BY <1>2, <1>4, KeyIs
  <2>2. DeleteInteger(m, Key(k)) = e
    BY <1>1, <2>1 DEF DeleteInteger
  <2>3. DOMAIN R = (DOMAIN m.repo) \ {k}
    BY DEF Without
  <2> HIDE DEF R
  <2>4. /\ Shape(e) /\ e.nodes = m.nodes /\ e.repo = R
        /\ e.id = m.id /\ e.thrown = m.thrown
    BY <1>0, SetRepo
  <2> HIDE DEF e
  <2>5. NodesOK(e) /\ Owned(e, objs, T)
    BY <2>4 DEF Good, NodesOK, Owned, Present
  <2>6. Hosted(e, U \ {k})
    <3>1. /\ DOMAIN m.repo = U \cup {m.nodes[n].is : n \in DOMAIN m.nodes}
          /\ \A n, j \in DOMAIN m.nodes : m.nodes[n].is = m.nodes[j].is => n = j
          /\ \A n \in DOMAIN m.nodes : m.nodes[n].is \notin U
      BY DEF Good, Hosted
    <3>2. DOMAIN R = (U \ {k}) \cup {m.nodes[n].is : n \in DOMAIN m.nodes}
      BY <2>3, <3>1
    <3> QED
      BY <1>1, <2>3, <2>4, <3>1, <3>2 DEF Hosted
  <2> QED
    BY <1>0, <2>2, <2>4, <2>5, <2>6 DEF Either, Good
<1> QED
  BY <1>3, <1>4

(* A node loses an owner, and with the last one goes.                      *)
LEMMA Drop ==
    ASSUME NEW low \in Nat, NEW m, NEW objs, NEW T, NEW U, Good(m, objs, T, U, low),
           NEW n \in DOMAIN m.nodes,
           NEW objs2 \in [Registers -> Object], NEW T2 \in SUBSET T, Present(m, objs2),
           \A k \in DOMAIN m.nodes :
               Owners(objs2, T2, k) = Owners(objs, T, k) - One(k = n)
    PROVE  Either(DropReference(m, n), objs2, T2, U, low)
<1>0. Shape(m) /\ m.thrown = FALSE /\ m.id \in low .. MaxId
  BY DEF Good
<1>1. /\ T \subseteq DOMAIN m.nodes
      /\ \A k \in DOMAIN m.nodes : m.nodes[k].owners = Owners(objs, T, k)
      /\ \A k \in DOMAIN m.nodes : m.nodes[k] \in NodeType
      /\ DOMAIN m.nodes \subseteq Nodes
  BY DEF Good, Owned, NodesOK
<1>2. /\ \A k \in DOMAIN m.nodes : k # n => Owners(objs2, T2, k) = m.nodes[k].owners
      /\ Owners(objs2, T2, n) = m.nodes[n].owners - 1
      /\ m.nodes[n].owners \in Nat \ {0}
  <2>1. \A k \in DOMAIN m.nodes : Owners(objs, T, k) \in Nat
    BY OwnersAt
  <2>2. One(TRUE) = 1 /\ One(FALSE) = 0
    BY DEF One
  <2>3. m.nodes[n].owners \in Nat \ {0}
    <3>1. m.nodes[n] \in NodeType
      BY <1>1
    <3> QED
      BY <3>1 DEF NodeType
  <2>4. \A k \in DOMAIN m.nodes : One(k = n) = IF k = n THEN 1 ELSE 0
    BY DEF One
  <2> QED
    BY <1>1, <2>1, <2>3, <2>4
<1>3. CASE m.nodes[n].owners > 1
  <2> DEFINE N == [m.nodes EXCEPT ![n].owners = @ - 1]
             e == [m EXCEPT !.nodes = N]
  <2>1. DropReference(m, n) = e
    BY <1>3 DEF DropReference
  <2>2. DOMAIN N = DOMAIN m.nodes
    OBVIOUS
  <2>3. /\ N[n] = [m.nodes[n] EXCEPT !.owners = m.nodes[n].owners - 1]
        /\ \A k \in DOMAIN m.nodes : k # n => N[k] = m.nodes[k]
    OBVIOUS
  <2> HIDE DEF N
  <2>4. m.nodes[n].owners - 1 \in Nat \ {0}
    BY <1>2, <1>3
  <2>5. N[n] \in NodeType /\ N[n].owners = m.nodes[n].owners - 1 /\ N[n].is = m.nodes[n].is
    <3> DEFINE x == m.nodes[n]
               k == x.owners - 1
    <3>1. x \in NodeType
      BY <1>1
    <3>2. k \in Nat \ {0}
      BY <2>4
    <3>3. N[n] = [x EXCEPT !.owners = k]
      BY <2>3
    <3> HIDE DEF k, x
    <3>4. N[n] \in NodeType /\ N[n].owners = k /\ N[n].is = x.is
      BY <3>1, <3>2, <3>3, NodeTyped
    <3> QED
      BY <3>4 DEF k, x
  <2>6. \A k \in DOMAIN N : /\ N[k] \in NodeType
                            /\ N[k].owners = Owners(objs2, T2, k)
                            /\ N[k].is = m.nodes[k].is
    BY <1>1, <1>2, <2>2, <2>3, <2>5
  <2>7. /\ Shape(e) /\ e.nodes = N /\ e.repo = m.repo
        /\ e.id = m.id /\ e.thrown = m.thrown
    BY <1>0, SetNodes
  <2> HIDE DEF e
  <2>8. NodesOK(e) /\ Owned(e, objs2, T2)
    BY <1>1, <2>2, <2>6, <2>7 DEF NodesOK, Owned, Present
  <2>9. Hosted(e, U)
    <3>1. \A k \in DOMAIN m.nodes : N[k].is = m.nodes[k].is
      BY <2>2, <2>6
    <3>2. {N[k].is : k \in DOMAIN N} = {m.nodes[k].is : k \in DOMAIN m.nodes}
      BY <2>2, <3>1
    <3>3. Hosted(m, U)
      BY DEF Good
    <3> QED
      BY <2>2, <2>7, <3>1, <3>2, <3>3 DEF Hosted
  <2> QED
    BY <1>0, <2>1, <2>7, <2>8, <2>9 DEF Either, Good
<1>4. CASE ~(m.nodes[n].owners > 1)
  <2> DEFINE N == Without(m.nodes, n)
             e == [m EXCEPT !.nodes = N]
             i == m.nodes[n].is
  <2>1. DropReference(m, n) = IF host = "native" THEN e ELSE DeleteInteger(e, Key(i))
    BY <1>4 DEF DropReference
  <2>2. /\ DOMAIN N = (DOMAIN m.nodes) \ {n}
        /\ \A k \in DOMAIN N : N[k] = m.nodes[k]
    BY DEF Without
  <2> HIDE DEF N
  <2>3. /\ Shape(e) /\ e.nodes = N /\ e.repo = m.repo
        /\ e.id = m.id /\ e.thrown = m.thrown
    BY <1>0, SetNodes
  <2> HIDE DEF e
  <2>4. Owners(objs2, T2, n) = 0
    BY <1>2, <1>4
  <2>5. n \notin T2 /\ \A r \in Registers : ~Refers(objs2[r], n)
    <3>1. Count(objs2, n) \in Nat /\ One(n \in T2) \in Nat
      BY CountIs DEF One
    <3>2. Count(objs2, n) = 0 /\ One(n \in T2) = 0
      BY <2>4, <3>1 DEF Owners
    <3> QED
      BY <3>2, CountIs DEF One
  <2>6. NodesOK(e) /\ Owned(e, objs2, T2)
    <3>1. NodesOK(e)
      BY <1>1, <2>2, <2>3 DEF NodesOK
    <3>2. Present(e, objs2)
      BY <2>2, <2>3, <2>5 DEF Present, Refers
    <3>3. T2 \subseteq DOMAIN e.nodes
      BY <1>1, <2>2, <2>3, <2>5
    <3>4. \A k \in DOMAIN e.nodes : e.nodes[k].owners = Owners(objs2, T2, k)
      BY <1>2, <2>2, <2>3
    <3> QED
      BY <3>1, <3>2, <3>3, <3>4 DEF Owned
  <2>7. CASE host = "native"
    <3>1. Hosted(e, U)
      BY <2>3, <2>7 DEF Good, Hosted
    <3> QED
      BY <1>0, <2>1, <2>3, <2>6, <2>7, <3>1 DEF Either, Good
  <2>8. CASE host # "native"
    <3>1. /\ DOMAIN m.repo = U \cup {m.nodes[k].is : k \in DOMAIN m.nodes}
          /\ \A k, j \in DOMAIN m.nodes : m.nodes[k].is = m.nodes[j].is => k = j
          /\ \A k \in DOMAIN m.nodes : m.nodes[k].is \notin U
          /\ \A k \in DOMAIN m.repo : k \in 1 .. m.id
      BY <2>8 DEF Good, Hosted
    <3>2. i \notin U
      BY <3>1
    <3>3. {m.nodes[k].is : k \in DOMAIN m.nodes} = {i} \cup {N[k].is : k \in DOMAIN N}
      BY <2>2
    <3>4. \A k \in DOMAIN N : N[k].is # i /\ N[k].is = m.nodes[k].is /\ N[k].is \notin U
      BY <2>2, <3>1
    <3> HIDE DEF i
    <3>5. DOMAIN m.repo = (U \cup {i}) \cup {N[k].is : k \in DOMAIN N}
      BY <3>1, <3>3
    <3>6. \A k, j \in DOMAIN N : N[k].is = N[j].is => k = j
      BY <2>2, <3>1, <3>4
    <3>7. Hosted(e, U \cup {i})
      BY <2>3, <2>8, <3>1, <3>4, <3>5, <3>6 DEF Hosted
    <3>8. Good(e, objs2, T2, U \cup {i}, low)
      BY <1>0, <2>3, <2>6, <3>7 DEF Good
    <3>9. Either(DeleteInteger(e, Key(i)), objs2, T2, (U \cup {i}) \ {i}, low)
      BY <2>8, <3>8, DeleteUpload
    <3>10. (U \cup {i}) \ {i} = U
      BY <3>2
    <3> QED
      BY <2>1, <2>8, <3>9, <3>10
  <2> QED
    BY <2>7, <2>8
<1> QED
  BY <1>3, <1>4

(* A register is set to zero.                                              *)
LEMMA ZeroRegister ==
    ASSUME NEW low \in Nat, NEW m, NEW objs, NEW T, NEW U, Either(m, objs, T, U, low),
           NEW r \in Registers
    PROVE  Either(SetZero(m, objs[r]), [objs EXCEPT ![r] = Small(0)], T, U, low)
<1> DEFINE objs2 == [objs EXCEPT ![r] = Small(0)]
           x == objs[r]
<1>0. Small(0) \in Object /\ Small(0).small = TRUE
  BY DEF Small, Object
<1>1. CASE Broken(m, low)
  BY <1>1, BrokenRest DEF Either
<1>2. CASE Good(m, objs, T, U, low)
  <2>1. objs \in [Registers -> Object] /\ T \subseteq DOMAIN m.nodes /\ Present(m, objs)
    BY <1>2 DEF Good, Owned
  <2>2. objs2 \in [Registers -> Object]
    BY <1>0, <2>1
  <2>3. Present(m, objs2)
    BY <1>0, <2>1 DEF Present
  <2>4. \A k : Count(objs2, k) = Count(objs, k) - One(Refers(x, k)) + One(Refers(Small(0), k))
    BY <1>0, <2>1, CountUpdate
  <2>5. \A k : Count(objs2, k) = Count(objs, k) - One(Refers(x, k))
    <3> SUFFICES ASSUME NEW k PROVE Count(objs2, k) = Count(objs, k) - One(Refers(x, k))
      OBVIOUS
    <3> HIDE DEF x, objs2
    <3>1. One(Refers(Small(0), k)) = 0
      BY <1>0 DEF One, Refers
    <3>2. Count(objs, k) \in Nat /\ One(Refers(x, k)) \in Nat
      BY CountIs DEF One
    <3> QED
      BY <2>4, <3>1, <3>2
  <2>6. CASE x.small
    <3>1. \A k \in DOMAIN m.nodes : Owners(objs2, T, k) = Owners(objs, T, k)
      <4> SUFFICES ASSUME NEW k \in DOMAIN m.nodes PROVE Count(objs2, k) = Count(objs, k)
        BY DEF Owners
      <4>1. One(Refers(x, k)) = 0
        BY <2>6 DEF One, Refers
      <4>2. Count(objs, k) \in Nat
        BY CountIs
      <4> HIDE DEF x, objs2
      <4> QED
        BY <2>5, <4>1, <4>2
    <3> HIDE DEF objs2
    <3>2. Good(m, objs2, T, U, low)
      BY <1>2, <2>1, <2>2, <2>3, <3>1, Accounted
    <3> QED
      BY <2>6, <3>2 DEF Either, SetZero, objs2
  <2>7. CASE ~x.small
    <3>1. x.v \in DOMAIN m.nodes
      BY <2>1, <2>7 DEF Present
    <3>2. \A k \in DOMAIN m.nodes : Owners(objs2, T, k) = Owners(objs, T, k) - One(k = x.v)
      <4> SUFFICES ASSUME NEW k \in DOMAIN m.nodes
                   PROVE  Owners(objs2, T, k) = Owners(objs, T, k) - One(k = x.v)
        OBVIOUS
      <4>1. One(Refers(x, k)) = One(k = x.v) /\ One(k = x.v) \in Nat /\ One(k \in T) \in Nat
        BY <2>7 DEF One, Refers
      <4>2. Count(objs, k) \in Nat
        BY CountIs
      <4> HIDE DEF x, objs2
      <4> QED
        BY <2>5, <4>1, <4>2 DEF Owners
    <3>3. SetZero(m, x) = DropReference(m, x.v)
      BY <2>7 DEF SetZero
    <3> HIDE DEF objs2, x
    <3>4. Either(DropReference(m, x.v), objs2, T, U, low)
      BY <1>2, <2>2, <2>3, <3>1, <3>2, Drop
    <3> QED
      BY <3>3, <3>4 DEF objs2, x
  <2> QED
    BY <2>6, <2>7
<1> QED
  BY <1>1, <1>2 DEF Either

(* The destructor of a temporary.                                          *)
LEMMA ZeroTemporary ==
    ASSUME NEW low \in Nat, NEW m, NEW objs, NEW T, NEW U, Either(m, objs, T, U, low),
           NEW z, Node(z) \subseteq T
    PROVE  Either(SetZero(m, z), objs, T \ Node(z), U, low)
<1>1. CASE Broken(m, low)
  BY <1>1, BrokenRest DEF Either
<1>2. CASE Good(m, objs, T, U, low) /\ z.small
  BY <1>2 DEF SetZero, Node, Either
<1>3. CASE Good(m, objs, T, U, low) /\ ~z.small
  <2> DEFINE T2 == T \ Node(z)
  <2>1. z.v \in DOMAIN m.nodes /\ objs \in [Registers -> Object] /\ Present(m, objs)
    BY <1>3 DEF Good, Owned, Node
  <2>2. \A k \in DOMAIN m.nodes : Owners(objs, T2, k) = Owners(objs, T, k) - One(k = z.v)
    <3> SUFFICES ASSUME NEW k \in DOMAIN m.nodes
                 PROVE  Owners(objs, T2, k) = Owners(objs, T, k) - One(k = z.v)
      OBVIOUS
    <3>1. One(k \in T) = One(k \in T2) + One(k = z.v)
      BY <1>3 DEF One, Node
    <3>2. One(k \in T2) \in Nat /\ One(k = z.v) \in Nat /\ Count(objs, k) \in Nat
      BY CountIs DEF One
    <3> HIDE DEF T2
    <3> QED
      BY <3>1, <3>2 DEF Owners
  <2>3. T2 \in SUBSET T
    OBVIOUS
  <2>4. SetZero(m, z) = DropReference(m, z.v)
    BY <1>3 DEF SetZero
  <2> HIDE DEF T2
  <2>5. Either(DropReference(m, z.v), objs, T2, U, low)
    BY <1>3, <2>1, <2>2, <2>3, Drop
  <2> QED
    BY <2>4, <2>5 DEF T2
<1> QED
  BY <1>1, <1>2, <1>3 DEF Either

(* Another owner.                                                          *)
LEMMA Share ==
    ASSUME NEW low \in Nat, NEW m, NEW objs, NEW T, NEW U, Good(m, objs, T, U, low),
           NEW n \in DOMAIN m.nodes, n \notin T
    PROVE  Good(AddReference(m, n), objs, T \cup {n}, U, low)
<1> DEFINE N == [m.nodes EXCEPT ![n].owners = @ + 1]
           e == [m EXCEPT !.nodes = N]
           T2 == T \cup {n}
<1>0. Shape(m) /\ m.thrown = FALSE /\ m.id \in low .. MaxId
  BY DEF Good
<1>1. /\ T \subseteq DOMAIN m.nodes
      /\ \A k \in DOMAIN m.nodes : m.nodes[k].owners = Owners(objs, T, k)
      /\ \A k \in DOMAIN m.nodes : m.nodes[k] \in NodeType
      /\ DOMAIN m.nodes \subseteq Nodes
      /\ Present(m, objs) /\ objs \in [Registers -> Object]
  BY DEF Good, Owned, NodesOK
<1>2. m.nodes[n].owners \in Nat \ {0}
  <2>1. m.nodes[n] \in NodeType
    BY <1>1
  <2> QED
    BY <2>1 DEF NodeType
<1>3. AddReference(m, n) = e
  BY <1>2 DEF AddReference
<1>4. DOMAIN N = DOMAIN m.nodes
  OBVIOUS
<1>5. /\ N[n] = [m.nodes[n] EXCEPT !.owners = m.nodes[n].owners + 1]
      /\ \A k \in DOMAIN m.nodes : k # n => N[k] = m.nodes[k]
  OBVIOUS
<1> HIDE DEF N
<1>6. N[n] \in NodeType /\ N[n].owners = m.nodes[n].owners + 1 /\ N[n].is = m.nodes[n].is
  <2> DEFINE x == m.nodes[n]
             k == x.owners + 1
  <2>1. x \in NodeType
    BY <1>1
  <2>2. k \in Nat \ {0}
    BY <1>2
  <2>3. N[n] = [x EXCEPT !.owners = k]
    BY <1>5
  <2> HIDE DEF k, x
  <2>4. N[n] \in NodeType /\ N[n].owners = k /\ N[n].is = x.is
    BY <2>1, <2>2, <2>3, NodeTyped
  <2> QED
    BY <2>4 DEF k, x
<1>7. \A k \in DOMAIN m.nodes : Owners(objs, T2, k) = Owners(objs, T, k) + One(k = n)
  <2> SUFFICES ASSUME NEW k \in DOMAIN m.nodes
               PROVE  Owners(objs, T2, k) = Owners(objs, T, k) + One(k = n)
    OBVIOUS
  <2>1. One(k \in T2) = One(k \in T) + One(k = n)
    BY DEF One
  <2>2. One(k \in T) \in Nat /\ One(k = n) \in Nat /\ Count(objs, k) \in Nat
    BY CountIs DEF One
  <2> HIDE DEF T2
  <2> QED
    BY <2>1, <2>2 DEF Owners
<1>8. \A k \in DOMAIN N : /\ N[k] \in NodeType
                          /\ N[k].owners = Owners(objs, T2, k)
                          /\ N[k].is = m.nodes[k].is
  <2> HIDE DEF T2
  <2>1. \A k \in DOMAIN m.nodes : One(k = n) = IF k = n THEN 1 ELSE 0
    BY DEF One
  <2>2. \A k \in DOMAIN m.nodes : Owners(objs, T, k) \in Nat
    BY OwnersAt
  <2>3. \A k \in DOMAIN m.nodes : k # n => Owners(objs, T2, k) = m.nodes[k].owners
    BY <1>1, <1>7, <2>1, <2>2
  <2>4. Owners(objs, T2, n) = m.nodes[n].owners + 1
    BY <1>1, <1>7, <2>1, <2>2
  <2> QED
    BY <1>1, <1>4, <1>5, <1>6, <2>3, <2>4
<1>9. T2 \subseteq DOMAIN m.nodes
  BY <1>1
<1>10. /\ Shape(e) /\ e.nodes = N /\ e.repo = m.repo
       /\ e.id = m.id /\ e.thrown = m.thrown
  BY <1>0, SetNodes
<1> HIDE DEF e, T2
<1>11. NodesOK(e) /\ Owned(e, objs, T2)
  BY <1>1, <1>4, <1>8, <1>9, <1>10 DEF NodesOK, Owned, Present
<1>12. Hosted(e, U)
  <2>1. \A k \in DOMAIN m.nodes : N[k].is = m.nodes[k].is
    BY <1>4, <1>8
  <2>2. {N[k].is : k \in DOMAIN N} = {m.nodes[k].is : k \in DOMAIN m.nodes}
    BY <1>4, <2>1
  <2>3. Hosted(m, U)
    BY DEF Good
  <2> QED
    BY <1>4, <1>10, <2>1, <2>2, <2>3 DEF Hosted
<1>13. Good(e, objs, T2, U, low)
  BY <1>0, <1>1, <1>10, <1>11, <1>12 DEF Good
<1> QED
  BY <1>3, <1>13 DEF T2

-----------------------------------------------------------------------------
(* There is always room for three temporaries.                             *)
LEMMA Room ==
    ASSUME NEW m, NEW objs, NEW T, NEW U, NEW low, Good(m, objs, T, U, low),
           IsFiniteSet(T), Cardinality(T) <= 2
    PROVE  Nodes \ DOMAIN m.nodes # {}
<1> DEFINE R == {r \in Registers : ~objs[r].small}
           f == [r \in R |-> objs[r].v]
           S == {objs[r].v : r \in R}
<1>1. IsFiniteSet(R) /\ Cardinality(R) <= Cardinality(Registers)
      /\ Cardinality(R) \in Nat /\ Cardinality(Registers) \in Nat
  BY MemoryAssumption, FS_Subset, FS_CardinalityType
<1>2. f \in [R -> S] /\ \A n \in S : \E r \in R : f[r] = n
  OBVIOUS
<1>3. IsFiniteSet(S) /\ Cardinality(S) <= Cardinality(R) /\ Cardinality(S) \in Nat
  <2> HIDE DEF R, f, S
  <2>1. f \in Surjection(R, S)
    BY <1>2 DEF Surjection
  <2> QED
    BY <1>1, <2>1, FS_Surjection, FS_CardinalityType
<1>4. DOMAIN m.nodes \subseteq S \cup T
  <2> SUFFICES ASSUME NEW n \in DOMAIN m.nodes, n \notin T PROVE n \in S
    OBVIOUS
  <2>1. Owners(objs, T, n) # 0
    BY DEF Good, Owned, NodesOK, NodeType
  <2>2. One(n \in T) = 0 /\ Count(objs, n) \in Nat
    BY CountIs DEF One
  <2>3. Count(objs, n) # 0
    BY <2>1, <2>2 DEF Owners
  <2>4. PICK r \in Registers : Refers(objs[r], n)
    BY <2>3, CountIs
  <2> QED
    BY <2>4 DEF Refers
<1> HIDE DEF R, f, S
<1>5. IsFiniteSet(S \cup T) /\ Cardinality(S \cup T) <= Cardinality(S) + Cardinality(T)
  <2>1. Cardinality(S \cap T) \in Nat
    BY <1>3, FS_Intersection, FS_CardinalityType
  <2>2. Cardinality(T) \in Nat
    BY FS_CardinalityType
  <2>3. /\ IsFiniteSet(S \cup T)
        /\ Cardinality(S \cup T) = Cardinality(S) + Cardinality(T) - Cardinality(S \cap T)
    BY <1>3, FS_Union
  <2> QED
    BY <1>3, <2>1, <2>2, <2>3
<1>6. Nodes \subseteq DOMAIN m.nodes => Cardinality(Nodes) <= Cardinality(S \cup T)
  BY <1>4, <1>5, FS_Subset
<1>7. /\ Cardinality(Nodes) \in Nat /\ Cardinality(T) \in Nat
      /\ Cardinality(S \cup T) \in Nat /\ Cardinality(Nodes) >= Cardinality(Registers) + 3
  BY <1>5, MemoryAssumption, FS_CardinalityType
<1>8. ~(Nodes \subseteq DOMAIN m.nodes)
  BY <1>1, <1>3, <1>5, <1>6, <1>7
<1> QED
  BY <1>8

(* The node that is chosen is free, while there are any.                   *)
LEMMA FreeNodeIsFree ==
    ASSUME NEW m, Nodes \ DOMAIN m.nodes # {}
    PROVE  FreeNode(m) \in Nodes \ DOMAIN m.nodes
<1> DEFINE S == Nodes \ DOMAIN m.nodes
<1>1. S \subseteq Nat /\ S # {}
  BY MemoryAssumption
<1>2. PICK n \in S : \A k \in S : ~(<<k, n>> \in OpToRel(<, Nat))
  <2> HIDE DEF S
  <2> QED
    BY <1>1, NatLessThanWellFounded, WFMin
<1>3. \A k \in S : n <= k
  <2> SUFFICES ASSUME NEW k \in S PROVE n <= k
    OBVIOUS
  <2> HIDE DEF S
  <2>1. n \in Nat /\ k \in Nat
    BY <1>1
  <2>2. ~(k < n)
    BY <1>2, <2>1 DEF OpToRel
  <2> QED
    BY <2>1, <2>2
<1> QED
  BY <1>2, <1>3 DEF FreeNode

(* A node for an integer that nothing else has.                            *)
LEMMA Allocate ==
    ASSUME NEW low \in Nat, NEW m, NEW objs, NEW T, NEW U, Good(m, objs, T, U, low),
           IsFiniteSet(T), Cardinality(T) <= 2,
           NEW i \in Int, host = "native" \/ i \in U
    PROVE  /\ Good(NewNode(m, i), objs, T \cup {FreeNode(m)}, U \ {i}, low)
           /\ FreeNode(m) \in Nodes \ DOMAIN m.nodes
           /\ FreeNode(m) \notin T
<1> DEFINE n == FreeNode(m)
           N == Put(m.nodes, n, [owners |-> 1, is |-> i])
           e == [m EXCEPT !.nodes = N]
           T2 == T \cup {n}
<1>0. Shape(m) /\ m.thrown = FALSE /\ m.id \in low .. MaxId
  BY DEF Good
<1>1. /\ T \subseteq DOMAIN m.nodes
      /\ \A k \in DOMAIN m.nodes : m.nodes[k].owners = Owners(objs, T, k)
      /\ \A k \in DOMAIN m.nodes : m.nodes[k] \in NodeType
      /\ DOMAIN m.nodes \subseteq Nodes
      /\ Present(m, objs) /\ objs \in [Registers -> Object]
  BY DEF Good, Owned, NodesOK
<1>2. n \in Nodes \ DOMAIN m.nodes
  BY Room, FreeNodeIsFree
<1>3. NewNode(m, i) = e
  BY DEF NewNode
<1> HIDE DEF n
<1>4. /\ DOMAIN N = DOMAIN m.nodes \cup {n}
      /\ N[n] = [owners |-> 1, is |-> i]
      /\ \A k \in DOMAIN m.nodes : N[k] = m.nodes[k]
  BY <1>2 DEF Put
<1> HIDE DEF N
<1>5. N[n] \in NodeType /\ N[n].owners = 1 /\ N[n].is = i
  BY <1>4, NewNodeTyped
<1>6. /\ \A k \in DOMAIN m.nodes : Owners(objs, T2, k) = Owners(objs, T, k)
      /\ Owners(objs, T2, n) = 1
  <2>1. \A k \in DOMAIN m.nodes : k \in T2 <=> k \in T
    BY <1>2
  <2>2. \A r \in Registers : ~Refers(objs[r], n)
    BY <1>1, <1>2 DEF Present, Refers
  <2>3. Count(objs, n) = 0
    BY <2>2, CountIs
  <2>4. n \in T2
    OBVIOUS
  <2> QED
    BY <2>1, <2>3, <2>4 DEF Owners, One
<1> HIDE DEF T2
<1>7. \A k \in DOMAIN N : N[k] \in NodeType /\ N[k].owners = Owners(objs, T2, k)
  BY <1>1, <1>4, <1>5, <1>6
<1>8. T2 \subseteq DOMAIN N
  BY <1>1, <1>4 DEF T2
<1>9. /\ Shape(e) /\ e.nodes = N /\ e.repo = m.repo
      /\ e.id = m.id /\ e.thrown = m.thrown
  BY <1>0, SetNodes
<1> HIDE DEF e
<1>10. NodesOK(e)
  BY <1>1, <1>2, <1>4, <1>7, <1>9 DEF NodesOK
<1>11. Owned(e, objs, T2)
  BY <1>1, <1>4, <1>7, <1>8, <1>9 DEF Owned, Present
<1>12. Hosted(e, U \ {i})
  <2>1. CASE host = "native"
    BY <1>9, <2>1 DEF Good, Hosted
  <2>2. CASE host # "native"
    <3>1. /\ DOMAIN m.repo = U \cup {m.nodes[k].is : k \in DOMAIN m.nodes}
          /\ \A k, j \in DOMAIN m.nodes : m.nodes[k].is = m.nodes[j].is => k = j
          /\ \A k \in DOMAIN m.nodes : m.nodes[k].is \notin U
          /\ \A k \in DOMAIN m.repo : k \in 1 .. m.id
          /\ i \in U
      BY <2>2 DEF Good, Hosted
    <3>2. \A k \in DOMAIN m.nodes : N[k].is = m.nodes[k].is /\ N[k].is # i
      BY <1>4, <3>1
    <3>3. {N[k].is : k \in DOMAIN N} = {m.nodes[k].is : k \in DOMAIN m.nodes} \cup {i}
      BY <1>4, <1>5, <3>2
    <3>4. DOMAIN m.repo = (U \ {i}) \cup {N[k].is : k \in DOMAIN N}
      BY <3>1, <3>3
    <3>5. \A k, j \in DOMAIN N : N[k].is = N[j].is => k = j
      BY <1>4, <1>5, <3>1, <3>2
    <3>6. \A k \in DOMAIN N : N[k].is \notin U \ {i}
      BY <1>4, <1>5, <3>1, <3>2
    <3> QED
      BY <1>9, <2>2, <3>1, <3>4, <3>5, <3>6 DEF Hosted
  <2> QED
    BY <2>1, <2>2
<1>13. Good(e, objs, T2, U \ {i}, low)
  BY <1>0, <1>1, <1>9, <1>10, <1>11, <1>12 DEF Good
<1> QED
  BY <1>1, <1>2, <1>3, <1>13 DEF T2, n

(* BigIntApi: an integer of its own for an upload or a result.             *)
LEMMA NewKey ==
    ASSUME NEW low \in Nat, NEW m, NEW objs, NEW T, NEW U, Good(m, objs, T, U, low),
           host # "native", NEW v
    PROVE  LET new == NewInteger(m, v)
           IN  \/ Broken(new.memory, low)
               \/ /\ Good(new.memory, objs, T, U \cup {new.handle}, low)
                  /\ new.memory.nodes = m.nodes
                  /\ new.memory.repo = Put(m.repo, new.handle, v)
                  /\ new.handle \in Int /\ new.handle \notin DOMAIN m.repo
                  /\ new.handle \notin U
<1>0. /\ Shape(m) /\ m.thrown = FALSE /\ m.id \in low .. MaxId
      /\ MaxId \in Nat \ {0} /\ m.id \in Nat
  BY MemoryAssumption DEF Good
<1>1. CASE m.id >= MaxId
  <2> DEFINE e == [m EXCEPT !.thrown = TRUE]
  <2>1. NewInteger(m, v).memory = e
    BY <1>1 DEF NewInteger
  <2>2. Shape(e) /\ e.id = m.id /\ e.thrown = TRUE
    BY <1>0, SetThrown
  <2> HIDE DEF e
  <2>3. m.id > MaxId \div 2
    BY <1>0, <1>1
  <2>4. Broken(NewInteger(m, v).memory, low)
    BY <1>0, <2>1, <2>2, <2>3 DEF Broken
  <2> QED
    BY <2>4
<1>2. CASE ~(m.id >= MaxId)
  <2> DEFINE k == m.id + 1
             R == Put(m.repo, k, v)
             e == [m EXCEPT !.id = @ + 1, !.repo = Put(@, m.id + 1, v)]
  <2>1. NewInteger(m, v) = [memory |-> e, handle |-> k]
    BY <1>2 DEF NewInteger
  <2>2. Shape(e) /\ e.nodes = m.nodes /\ e.repo = R /\ e.id = k /\ e.thrown = m.thrown
    BY <1>0, SetRepoId
  <2> HIDE DEF e
  <2>3. DOMAIN R = DOMAIN m.repo \cup {k}
    BY DEF Put
  <2>4. /\ DOMAIN m.repo = U \cup {m.nodes[n].is : n \in DOMAIN m.nodes}
        /\ \A n, j \in DOMAIN m.nodes : m.nodes[n].is = m.nodes[j].is => n = j
        /\ \A n \in DOMAIN m.nodes : m.nodes[n].is \notin U
        /\ \A j \in DOMAIN m.repo : j \in 1 .. m.id
    BY DEF Good, Hosted
  <2>5. k \in low .. MaxId /\ k \in 1 .. k /\ \A j \in 1 .. m.id : j \in 1 .. k /\ j # k
    BY <1>0, <1>2
  <2>6. k \notin DOMAIN m.repo
    BY <2>4, <2>5
  <2> HIDE DEF k
  <2>7. \A n \in DOMAIN m.nodes : m.nodes[n].is # k
    BY <2>4, <2>6
  <2>8. Hosted(e, U \cup {k})
    <3>1. DOMAIN R = (U \cup {k}) \cup {m.nodes[n].is : n \in DOMAIN m.nodes}
      BY <2>3, <2>4
    <3>2. \A j \in DOMAIN R : j \in 1 .. k
      BY <2>3, <2>4, <2>5
    <3> HIDE DEF R
    <3> QED
      BY <2>2, <2>4, <2>7, <3>1, <3>2 DEF Hosted
  <2>9. NodesOK(e) /\ Owned(e, objs, T)
    BY <2>2 DEF Good, NodesOK, Owned, Present
  <2>10. Good(e, objs, T, U \cup {k}, low)
    BY <1>0, <2>2, <2>5, <2>8, <2>9 DEF Good
  <2>11. k \in Int /\ k \notin U
    BY <2>4, <2>5, <2>6
  <2> QED
    BY <2>1, <2>2, <2>6, <2>10, <2>11 DEF R
<1> QED
  BY <1>1, <1>2

(* Results are made of integers.                                           *)
Of(z) == z = Small(z.v) \/ z = Big(z.v)

(* What arithmetic yields, given an integer, is an object.                 *)
LEMMA OfTyped ==
    ASSUME NEW z, Of(z), z.v \in Int
    PROVE  z \in Object
<1>1. ASSUME NEW v \in Int PROVE Small(v) \in Object /\ Big(v) \in Object
  BY DEF Small, Big, Object
<1> QED
  BY <1>1 DEF Of

(* from_host_result: a temporary of its own for an integer of any size.    *)
LEMMA ResultIs ==
    ASSUME NEW low \in Nat, NEW m, NEW objs, NEW T, NEW U, Either(m, objs, T, U, low),
           IsFiniteSet(T), Cardinality(T) <= 2, NEW z \in Object
    PROVE  LET new == Result(m, z)
           IN  \/ Broken(new.memory, low)
               \/ /\ Good(new.memory, objs, T \cup Node(new.object), U, low)
                  /\ new.object \in Object /\ Node(new.object) \cap T = {}
<1> DEFINE new == Result(m, z)
<1> SUFFICES \/ Broken(new.memory, low)
             \/ /\ Good(new.memory, objs, T \cup Node(new.object), U, low)
                /\ new.object \in Object /\ Node(new.object) \cap T = {}
  OBVIOUS
<1>0. z.small \in BOOLEAN /\ z.v \in Int
  BY DEF Object
<1>1. CASE Broken(m, low)
  BY <1>1, BrokenRest
<1>2. CASE Good(m, objs, T, U, low) /\ z.small
  <2>1. new = [memory |-> m, object |-> z]
    BY <1>2 DEF Result
  <2>2. Node(z) = {} /\ T \cup {} = T /\ {} \cap T = {}
    BY <1>2 DEF Node
  <2>3. new.memory = m /\ new.object = z
    BY <2>1
  <2> HIDE DEF new
  <2> QED
    BY <1>2, <2>2, <2>3
<1>3. CASE Good(m, objs, T, U, low) /\ ~z.small /\ host = "native"
  <2> DEFINE n == FreeNode(m)
             x == [small |-> FALSE, v |-> n]
  <2>1. new = [memory |-> NewNode(m, z.v), object |-> x]
    BY <1>3 DEF Result, NewInteger
  <2>2. /\ Good(NewNode(m, z.v), objs, T \cup {n}, U \ {z.v}, low)
        /\ n \in Nodes /\ n \notin T
    BY <1>0, <1>3, Allocate
  <2>3. n \in Int
    BY <2>2, MemoryAssumption
  <2> HIDE DEF n
  <2>4. x \in Object /\ Node(x) = {n}
    BY <2>3 DEF Object, Node
  <2>5. U \ {z.v} = U
    BY <1>3 DEF Good, Hosted
  <2>6. new.memory = NewNode(m, z.v) /\ new.object = x
    BY <2>1
  <2> HIDE DEF new, x
  <2>7. Node(x) \cap T = {}
    BY <2>2, <2>4
  <2> QED
    BY <2>2, <2>4, <2>5, <2>6, <2>7
<1>4. CASE Good(m, objs, T, U, low) /\ ~z.small /\ host # "native"
  <2> DEFINE made == NewInteger(m, z.v)
             n == FreeNode(m)
             x == [small |-> FALSE, v |-> n]
             e == NewNode(made.memory, made.handle)
  <2>1. new = [memory |-> e, object |-> x]
    BY <1>4 DEF Result
  <2>2. new.memory = e /\ new.object = x
    BY <2>1
  <2> HIDE DEF new
  <2>3. CASE Broken(made.memory, low)
    <3>1. Broken(e, low)
      BY <2>3, BrokenNew
    <3> QED
      BY <2>2, <3>1
  <2>4. CASE ~Broken(made.memory, low)
    <3>1. /\ Good(made.memory, objs, T, U \cup {made.handle}, low)
          /\ made.memory.nodes = m.nodes
          /\ made.handle \in Int /\ made.handle \notin U
      BY <1>4, <2>4, NewKey
    <3>2. FreeNode(made.memory) = n
      BY <3>1 DEF FreeNode
    <3> HIDE DEF made, n
    <3>3. /\ Good(e, objs, T \cup {n}, (U \cup {made.handle}) \ {made.handle}, low)
          /\ n \in Nodes /\ n \notin T
      BY <3>1, <3>2, Allocate
    <3>4. n \in Int
      BY <3>3, MemoryAssumption
    <3>5. x \in Object /\ Node(x) = {n}
      BY <3>4 DEF Object, Node
    <3>6. (U \cup {made.handle}) \ {made.handle} = U
      BY <3>1
    <3> HIDE DEF e, x
    <3>7. Node(x) \cap T = {}
      BY <3>3, <3>5
    <3> QED
      BY <2>2, <3>3, <3>5, <3>6, <3>7
  <2> QED
    BY <2>3, <2>4
<1> QED
  BY <1>0, <1>1, <1>2, <1>3, <1>4 DEF Either

(* The invariant: between operations there are neither temporaries nor     *)
(* uploads, and the registers account for everything in the memory.        *)
MemoryInv ==
    /\ TypeOK
    /\ TrapsAreLate
    /\ Shape(memory)
    /\ ~trapped => Good(memory, object, {}, {}, memory.id)

LEMMA MemoryInit == Init => MemoryInv
<1> SUFFICES ASSUME Init PROVE MemoryInv
  OBVIOUS
<1>0. host \in Hosts /\ trapped = FALSE /\ MaxId \in Nat
  BY MemoryAssumption DEF Init
<1>1. /\ Shape(memory) /\ memory.nodes = <<>> /\ memory.repo = <<>>
      /\ memory.id = 0 /\ memory.thrown = FALSE
  BY DEF Init, Shape
<1>2. /\ object \in [Registers -> Object]
      /\ \A r \in Registers : object[r].small
  <2>1. \A v \in Literals : Small(v) \in Object /\ Small(v).small
    BY MemoryAssumption DEF Small, Object
  <2> QED
    BY <2>1 DEF Init
<1>3. DOMAIN memory.nodes = {} /\ DOMAIN memory.repo = {}
  BY <1>1
<1>4. NodesOK(memory) /\ Owned(memory, object, {})
  BY <1>2, <1>3 DEF NodesOK, Owned, Present
<1>5. Hosted(memory, {})
  BY <1>3 DEF Hosted
<1>6. Good(memory, object, {}, {}, memory.id)
  BY <1>0, <1>1, <1>2, <1>4, <1>5 DEF Good
<1>7. TypeOK
  <2>1. memory.id \in 0 .. MaxId
    BY <1>0, <1>1
  <2>2. /\ DOMAIN memory.nodes \subseteq Nodes
        /\ DOMAIN memory.repo \subseteq 1 .. memory.id
        /\ \A n \in DOMAIN memory.nodes : memory.nodes[n] \in [owners : Nat \ {0}, is : Int]
    BY <1>3
  <2> QED
    BY <1>0, <1>2, <2>1, <2>2 DEF TypeOK
<1> QED
  BY <1>0, <1>1, <1>6, <1>7 DEF MemoryInv, TrapsAreLate

(* A statement ends with all temporaries gone.                             *)
LEMMA BecomeInv ==
    ASSUME MemoryInv, ~trapped, NEW m, NEW objs,
           Either(m, objs, {}, {}, memory.id), Become(m, objs)
    PROVE  MemoryInv'
<1>0. /\ Good(memory, object, {}, {}, memory.id) /\ Shape(memory) /\ TypeOK
      /\ MaxId \in Nat /\ memory.id \in Nat
  BY MemoryAssumption DEF MemoryInv, TypeOK
<1>1. CASE m.thrown
  <2>1. Broken(m, memory.id)
    BY <1>1 DEF Either, Good
  <2>2. /\ trapped' = TRUE /\ memory' = [memory EXCEPT !.id = m.id]
        /\ host' = host /\ object' = object
    BY <1>1 DEF Become
  <2>3. /\ Shape(memory') /\ memory'.nodes = memory.nodes /\ memory'.repo = memory.repo
        /\ memory'.id = m.id
    BY <1>0, <2>2 DEF Shape
  <2>4. m.id \in memory.id .. MaxId /\ m.id > MaxId \div 2
    BY <2>1 DEF Broken
  <2>5. \A k \in 1 .. memory.id : k \in 1 .. m.id
    BY <1>0, <2>4
  <2>6. m.id \in 0 .. MaxId
    BY <1>0, <2>4
  <2>7. TypeOK'
    BY <1>0, <2>2, <2>3, <2>5, <2>6 DEF TypeOK
  <2> QED
    BY <2>2, <2>3, <2>4, <2>7 DEF MemoryInv, TrapsAreLate, Shape
<1>2. CASE ~m.thrown
  <2>1. Good(m, objs, {}, {}, memory.id)
    BY <1>2 DEF Either, Broken
  <2>2. memory' = m /\ object' = objs /\ host' = host /\ trapped' = trapped
    BY <1>2 DEF Become
  <2>3. m.id \in memory.id .. MaxId /\ m.id \in m.id .. MaxId /\ m.id \in 0 .. MaxId
    <3>1. m.id \in memory.id .. MaxId
      BY <2>1 DEF Good
    <3> QED
      BY <1>0, <3>1
  <2>4. Good(m, objs, {}, {}, m.id)
    BY <2>1, <2>3 DEF Good
  <2>5. Good(memory, object, {}, {}, memory.id)'
    BY <2>2, <2>4 DEF Good, Shape, NodesOK, Owned, Present, Hosted, Owners, Count, Referring,
       Refers, One
  <2>6. TypeOK'
    <3>1. DOMAIN m.repo \subseteq 1 .. m.id
      BY <2>1 DEF Good, Hosted
    <3>2. /\ objs \in [Registers -> Object] /\ DOMAIN m.nodes \subseteq Nodes
          /\ \A n \in DOMAIN m.nodes : m.nodes[n] \in [owners : Nat \ {0}, is : Int]
      BY <2>1 DEF Good, NodesOK, NodeType
    <3> QED
      BY <1>0, <2>2, <2>3, <3>1, <3>2 DEF TypeOK
  <2>7. Shape(memory)'
    BY <2>1, <2>2 DEF Good, Shape
  <2> QED
    BY <2>2, <2>5, <2>6, <2>7 DEF MemoryInv, TrapsAreLate
<1> QED
  BY <1>1, <1>2

(* A temporary is moved into a register.                                   *)
LEMMA MovedIn ==
    ASSUME MemoryInv, ~trapped, NEW m, NEW z \in Object, NEW r \in Registers,
           Either(m, object, Node(z), {}, memory.id), MoveAssign(m, r, z)
    PROVE  MemoryInv'
<1> DEFINE e == SetZero(m, object[r])
           objs == [object EXCEPT ![r] = Small(0)]
           objs2 == [object EXCEPT ![r] = z]
<1>1. object \in [Registers -> Object] /\ memory.id \in Nat
  BY MemoryAssumption DEF MemoryInv, TypeOK
<1>2. Either(e, objs, Node(z), {}, memory.id)
  BY <1>1, ZeroRegister
<1>3. /\ objs[r].small /\ objs2 = [objs EXCEPT ![r] = z]
      /\ Node(z) \ Node(z) = {} /\ Node(z) \subseteq Node(z)
  BY <1>1 DEF Small
<1>4. Become(e, objs2)
  BY DEF MoveAssign
<1> HIDE DEF e, objs
<1>5. Either(e, objs2, {}, {}, memory.id)
  <2>1. CASE Broken(e, memory.id)
    BY <2>1 DEF Either
  <2>2. CASE Good(e, objs, Node(z), {}, memory.id)
    <3>1. Good(e, [objs EXCEPT ![r] = z], Node(z) \ Node(z), {}, memory.id)
      BY <1>3, <2>2, Take
    <3> QED
      BY <1>3, <3>1 DEF Either
  <2> QED
    BY <1>2, <2>1, <2>2 DEF Either
<1> QED
  BY <1>4, <1>5, BecomeInv

(* A result is moved into the register it is for.                          *)
LEMMA AssignInv ==
    ASSUME MemoryInv, ~trapped, NEW r \in Registers, NEW z, Of(z), Assign(r, z)
    PROVE  MemoryInv'
<1> DEFINE new == Result(memory, z)
<1>1. z \in Object
  <2>1. z.v \in Int
    BY DEF Assign, Bounded
  <2> QED
    BY <2>1, OfTyped
<1>2. Good(memory, object, {}, {}, memory.id) /\ memory.id \in Nat
  BY MemoryAssumption DEF MemoryInv, TypeOK
<1>3. IsFiniteSet({}) /\ Cardinality({}) <= 2 /\ {} \cup Node(new.object) = Node(new.object)
  BY FS_EmptySet
<1>4. /\ MoveAssign(new.memory, r, new.object)
  BY DEF Assign
<1>5. \/ Broken(new.memory, memory.id)
      \/ Good(new.memory, object, Node(new.object), {}, memory.id) /\ new.object \in Object
  <2>1. Either(memory, object, {}, {}, memory.id)
    BY <1>2 DEF Either
  <2>2. \/ Broken(new.memory, memory.id)
        \/ /\ Good(new.memory, object, {} \cup Node(new.object), {}, memory.id)
           /\ new.object \in Object
    BY <1>1, <1>2, <1>3, <2>1, ResultIs
  <2> HIDE DEF new
  <2> QED
    BY <1>3, <2>2
<1> HIDE DEF new
<1>6. CASE Broken(new.memory, memory.id)
  <2> DEFINE e == SetZero(new.memory, object[r])
  <2>1. Broken(e, memory.id)
    BY <1>2, <1>6, BrokenRest
  <2>2. Become(e, [object EXCEPT ![r] = new.object])
    BY <1>4 DEF MoveAssign
  <2> HIDE DEF e
  <2> QED
    BY <2>1, <2>2, BecomeInv DEF Either
<1>7. CASE Good(new.memory, object, Node(new.object), {}, memory.id) /\ new.object \in Object
  BY <1>4, <1>7, MovedIn DEF Either
<1> QED
  BY <1>5, <1>6, <1>7

(* Moves, copies and loads, also from the register itself.                 *)
LEMMA MoveInv ==
    ASSUME MemoryInv, NEW r \in Registers, NEW a \in Registers, Move(r, a)
    PROVE  MemoryInv'
<1>1. /\ Good(memory, object, {}, {}, memory.id) /\ memory.id \in Nat /\ ~trapped
      /\ object \in [Registers -> Object]
  BY MemoryAssumption DEF MemoryInv, TypeOK, Move
<1> DEFINE e == SetZero(memory, object[r])
           objs == [object EXCEPT ![r] = Small(0)]
<1>2. Either(e, objs, {}, {}, memory.id)
  BY <1>1, ZeroRegister DEF Either
<1>3. CASE r = a
  <2>1. Become(e, objs)
    BY <1>3 DEF Move
  <2> HIDE DEF e, objs
  <2> QED
    BY <1>1, <1>2, <2>1, BecomeInv
<1>4. CASE r # a
  <2> DEFINE z == object[a]
             objs2 == [objs EXCEPT ![a] = Small(0)]
             objs3 == [objs2 EXCEPT ![r] = z]
  <2>1. Become(e, [object EXCEPT ![r] = z, ![a] = Small(0)])
    BY <1>4 DEF Move
  <2>2. /\ objs \in [Registers -> Object] /\ objs2 \in [Registers -> Object]
        /\ objs[a] = z /\ objs2[r].small /\ z \in Object
        /\ [object EXCEPT ![r] = z, ![a] = Small(0)] = objs3
    <3>1. Small(0) \in Object /\ Small(0).small = TRUE
      BY DEF Small, Object
    <3>2. objs \in [Registers -> Object] /\ objs[r].small /\ objs[a] = z /\ z \in Object
      BY <1>1, <1>4, <3>1
    <3>3. objs2 \in [Registers -> Object] /\ objs2[r].small
      <4> HIDE DEF objs
      <4> QED
        BY <1>4, <3>1, <3>2
    <3>4. [object EXCEPT ![r] = z, ![a] = Small(0)] = objs3
      BY <1>1, <1>4
    <3> QED
      BY <3>2, <3>3, <3>4
  <2> HIDE DEF e, objs, objs2, z
  <2>3. ASSUME Good(e, objs, {}, {}, memory.id) PROVE Good(e, objs3, {}, {}, memory.id)
    <3>1. Node(objs[a]) \cap {} = {} /\ {} \cup Node(objs[a]) = Node(objs[a])
      OBVIOUS
    <3>2. Good(e, objs2, Node(z), {}, memory.id)
      <4>1. Good(e, [objs EXCEPT ![a] = Small(0)], {} \cup Node(objs[a]), {}, memory.id)
        BY <2>3, <3>1, Give
      <4> QED
        BY <2>2, <3>1, <4>1 DEF objs2
    <3>3. Node(z) \subseteq Node(z) /\ Node(z) \ Node(z) = {}
      OBVIOUS
    <3>4. Good(e, [objs2 EXCEPT ![r] = z], Node(z) \ Node(z), {}, memory.id)
      BY <2>2, <3>2, <3>3, Take
    <3> QED
      BY <3>3, <3>4
  <2> HIDE DEF objs3
  <2> QED
    BY <1>1, <1>2, <2>1, <2>2, <2>3, BecomeInv DEF Either
<1> QED
  BY <1>3, <1>4

LEMMA CopyInv ==
    ASSUME MemoryInv, NEW r \in Registers, NEW a \in Registers, Copy(r, a)
    PROVE  MemoryInv'
<1>1. /\ Good(memory, object, {}, {}, memory.id) /\ memory.id \in Nat /\ ~trapped
      /\ object \in [Registers -> Object] /\ r # a
  BY MemoryAssumption DEF MemoryInv, TypeOK, Copy
<1> DEFINE z == object[a]
           m == IF z.small THEN memory ELSE AddReference(memory, z.v)
<1>2. Good(m, object, Node(z), {}, memory.id)
  <2>1. CASE z.small
    BY <1>1, <2>1 DEF Node
  <2>2. CASE ~z.small
    <3>1. z.v \in DOMAIN memory.nodes
      BY <1>1, <2>2 DEF Good, Owned, Present
    <3>2. {} \cup {z.v} = Node(z) /\ z.v \notin {}
      BY <2>2 DEF Node
    <3> HIDE DEF z
    <3>3. Good(AddReference(memory, z.v), object, {} \cup {z.v}, {}, memory.id)
      BY <1>1, <3>1, <3>2, Share
    <3> QED
      BY <2>2, <3>2, <3>3
  <2> QED
    BY <2>1, <2>2
<1>3. MoveAssign(m, r, z)
  BY DEF Copy, MoveAssign
<1>4. z \in Object
  BY <1>1
<1> HIDE DEF m, z
<1> QED
  BY <1>1, <1>2, <1>3, <1>4, MovedIn DEF Either

LEMMA LoadInv ==
    ASSUME MemoryInv, NEW r \in Registers, NEW v \in Literals, Load(r, v)
    PROVE  MemoryInv'
<1>1. /\ Good(memory, object, {}, {}, memory.id) /\ ~trapped
  BY DEF MemoryInv, Load
<1>2. Small(v) \in Object /\ Node(Small(v)) = {}
  BY MemoryAssumption DEF Small, Object, Node
<1>3. MoveAssign(memory, r, Small(v))
  BY DEF Load
<1> QED
  BY <1>1, <1>2, <1>3, MovedIn DEF Either

(* An operand is not found only because its key has come back negative.    *)
LEMMA TrapInv ==
    ASSUME MemoryInv, NEW a \in Registers, Trap(a)
    PROVE  MemoryInv'
<1>1. /\ Good(memory, object, {}, {}, memory.id) /\ memory.id \in 0 .. MaxId /\ ~trapped
      /\ MaxId \in Nat
  BY MemoryAssumption DEF MemoryInv, TypeOK, Trap
<1> DEFINE n == object[a].v
           k == memory.nodes[n].is
<1>2. ~object[a].small /\ host # "native" /\ Key(k) \notin DOMAIN memory.repo
  BY DEF Trap, Readable, Known, Handle
<1>3. n \in DOMAIN memory.nodes
  BY <1>1, <1>2 DEF Good, Owned, Present
<1>4. k \in DOMAIN memory.repo /\ k \in 1 .. memory.id
  BY <1>1, <1>2, <1>3 DEF Good, Hosted
<1> HIDE DEF n, k
<1>5. k > MaxId \div 2
  <2>1. k \in 1 .. MaxId
    BY <1>1, <1>4
  <2> QED
    BY <1>2, <1>4, <2>1, KeyIs
<1>6. memory.id > MaxId \div 2
  BY <1>1, <1>4, <1>5
<1>7. trapped' = TRUE /\ host' = host /\ object' = object /\ memory' = memory
  BY DEF Trap
<1>8. TypeOK'
  BY <1>7 DEF MemoryInv, TypeOK
<1> QED
  BY <1>6, <1>7, <1>8 DEF MemoryInv, TrapsAreLate, Shape

(* The operators of arithmetic yield either form of an integer.            *)
LEMMA OfSmall == \A v : Of(Small(v)) /\ Small(v).v = v /\ Small(v).small = TRUE
  BY DEF Of, Small

LEMMA OfYield == \A v : Of(Yield(v))
  BY DEF Of, Yield, Small, Big

LEMMA OfI192 == \A h, d, top : Of(I192(h, d, top))
<1>1. \A v : Of(Big(v))
  BY DEF Of, Big
<1> QED
  BY <1>1, OfYield DEF I192

(* What an operation returns is small or big.                              *)
LEMMA OfUnary ==
    ASSUME NEW h, NEW x, NEW s
    PROVE  /\ Of(Negated(x)) /\ Of(Complement(x)) /\ Of(AbsoluteValue(x))
           /\ Of(Incremented(x)) /\ Of(Decremented(h, x))
           /\ Of(Pow(x, s)) /\ Of(Pow2(s))
           /\ Of(Shl(x, s)) /\ Of(Shr(x, s))
<1>1. Of(Pow2Limit)
  BY OfYield DEF Pow2Limit
<1>2. /\ Of(Negated(x)) /\ Of(Complement(x)) /\ Of(AbsoluteValue(x))
      /\ Of(Incremented(x)) /\ Of(Decremented(h, x))
  BY <1>1, OfSmall, OfYield, OfI192
     DEF Negated, Complement, AbsoluteValue, Incremented, Decremented
<1>3. Of(Pow(x, s)) /\ Of(Pow2(s))
  BY OfSmall, OfYield, Zenon DEF Pow, HostPower, Pow2
<1>4. \A y, t : Of(ShiftLeft(y, t)) /\ Of(ShiftRight(y, t))
  <2> SUFFICES ASSUME NEW y, NEW t PROVE Of(ShiftLeft(y, t)) /\ Of(ShiftRight(y, t))
    OBVIOUS
  <2>1. Of(ShiftLeft(y, t))
    BY OfSmall, OfYield, Zenon DEF ShiftLeft, HostShiftLeft
  <2>2. Of(ShiftRight(y, t))
    <3>1. CASE ~y.small
      <4>1. ShiftRight(y, t) = HostShiftRight(y.v, t)
        BY <3>1, Zenon DEF ShiftRight
      <4> QED
        BY <4>1, OfYield, Zenon DEF HostShiftRight
    <3>2. CASE y.small /\ t >= 2 * HalfBits
      <4>1. ShiftRight(y, t) = Small(IF y.v >= 0 THEN 0 ELSE -1)
        BY <3>2, Zenon DEF ShiftRight
      <4> QED
        BY <4>1, OfSmall, Zenon
    <3>3. CASE y.small /\ ~(t >= 2 * HalfBits)
      <4>1. ShiftRight(y, t) = Small(y.v \div Power(2, t))
        BY <3>3, Zenon DEF ShiftRight
      <4> QED
        BY <4>1, OfSmall, Zenon
    <3> QED
      BY <3>1, <3>2, <3>3
  <2> QED
    BY <2>1, <2>2
<1>5. Of(Shl(x, s)) /\ Of(Shr(x, s))
  BY <1>4, Zenon DEF Shl, Shr
<1> QED
  BY <1>2, <1>3, <1>5

LEMMA OfBits ==
    ASSUME NEW h, NEW x, NEW y
    PROVE  Of(And(h, x, y)) /\ Of(Or(h, x, y)) /\ Of(Xor(h, x, y))
<1>1. \A op : Of(BitwiseObject(op, h, x, y))
  BY OfSmall, OfYield, Zenon DEF BitwiseObject, HostBits
<1> QED
  BY <1>1, Zenon DEF And, Or, Xor

LEMMA OfBinary ==
    ASSUME NEW h, NEW x, NEW y
    PROVE  Of(Plus(h, x, y)) /\ Of(Times(x, y)) /\ Of(Minus(h, x, y))
  BY OfSmall, OfYield, OfI192, OfUnary, Zenon
     DEF Plus, Times, Minus, HostSum, HostProduct, HostDifference

LEMMA OfDivRem ==
    ASSUME NEW h, NEW rounding, NEW x, NEW y
    PROVE  /\ Of(DivRem(h, rounding, x, y).quotient)
           /\ Of(DivRem(h, rounding, x, y).remainder)
<1> DEFINE z == DivRem(h, rounding, x, y)
           a == x.v
           b == y.v
           q == DivRounded(rounding, a, b)
           r == RemRounded(rounding, a, b)
<1>1. CASE x.small /\ y.small
  <2>1. \/ z = [quotient |-> Pow2Limit, remainder |-> Small(0)]
        \/ z = [quotient |-> Small(Wrap(q)), remainder |-> Small(Wrap(r))]
    BY <1>1, Zenon DEF DivRem
  <2>2. \/ z.quotient = Pow2Limit /\ z.remainder = Small(0)
        \/ z.quotient = Small(Wrap(q)) /\ z.remainder = Small(Wrap(r))
    <3> HIDE DEF z, q, r
    <3> QED
      BY <2>1
  <2> HIDE DEF z, q, r
  <2>3. Of(Pow2Limit) /\ Of(Small(0)) /\ Of(Small(Wrap(q))) /\ Of(Small(Wrap(r)))
    BY OfSmall, OfYield, Zenon DEF Pow2Limit
  <2> QED
    BY <2>2, <2>3, Zenon DEF z
<1>2. CASE ~(x.small /\ y.small)
  <2>1. ASSUME NEW u, NEW v PROVE [quotient |-> Yield(u), remainder |-> Yield(v)].quotient = Yield(u)
                               /\ [quotient |-> Yield(u), remainder |-> Yield(v)].remainder = Yield(v)
    OBVIOUS
  <2>2. z = NativeDivRem(rounding, a, b) \/ z = WasmDivRem(rounding, a, b)
    BY <1>2, Zenon DEF DivRem, HostDivRem
  <2>3. \E u, v : NativeDivRem(rounding, a, b) = [quotient |-> Yield(u), remainder |-> Yield(v)]
    BY Zenon DEF NativeDivRem
  <2>4. \E u, v : WasmDivRem(rounding, a, b) = [quotient |-> Yield(u), remainder |-> Yield(v)]
    BY Zenon DEF WasmDivRem
  <2> HIDE DEF z
  <2>5. PICK u, v : z = [quotient |-> Yield(u), remainder |-> Yield(v)]
    BY <2>2, <2>3, <2>4, Zenon
  <2>6. z.quotient = Yield(u) /\ z.remainder = Yield(v)
    BY <2>1, <2>5, Zenon
  <2> QED
    BY <2>6, OfYield, Zenon DEF z
<1> QED
  BY <1>1, <1>2

LEMMA OfText ==
    ASSUME NEW text, NEW base
    PROVE  Of(FromCharacters(text, base))
<1>1. \E v : FromCharacters(text, base) = Small(v) \/ FromCharacters(text, base) = Yield(v)
  BY Zenon DEF FromCharacters
<1> QED
  BY <1>1, OfSmall, OfYield, Zenon

(* The operations with one temporary.                                      *)
LEMMA UnaryInv ==
    ASSUME MemoryInv, NEW r \in Registers, NEW a \in Registers, Unary(r, a)
    PROVE  MemoryInv'
<1>1. ~trapped
  BY DEF Unary, Operating
<1>2. PICK z \in UnaryResults(View(memory, object[a])) : Assign(r, z)
  BY DEF Unary
<1>3. Of(z)
  BY <1>2, OfUnary, Zenon DEF UnaryResults
<1> QED
  BY <1>1, <1>2, <1>3, AssignInv

LEMMA BinaryInv ==
    ASSUME MemoryInv, NEW r \in Registers, NEW a \in Registers, NEW b \in Registers,
           Binary(r, a, b)
    PROVE  MemoryInv'
<1> DEFINE x == View(memory, object[a])
           y == View(memory, object[b])
<1>1. ~trapped
  BY DEF Binary, Operating
<1>2. PICK z \in {Plus(host, x, y), Times(x, y),
                  And(host, x, y), Or(host, x, y), Xor(host, x, y)} : Assign(r, z)
  BY DEF Binary
<1> HIDE DEF x, y
<1>3. Of(z)
  BY <1>2, OfBinary, OfBits, Zenon
<1> QED
  BY <1>1, <1>2, <1>3, AssignInv

LEMMA ReparseInv ==
    ASSUME MemoryInv, NEW r \in Registers, NEW a \in Registers, NEW base \in Bases,
           Reparse(r, a, base)
    PROVE  MemoryInv'
<1>1. ~trapped
  BY DEF Reparse, Operating
<1> DEFINE text == PrintTo(View(memory, object[a]), base)
<1>2. Assign(r, FromCharacters(text, base))
  BY Zenon DEF Reparse
<1> HIDE DEF text
<1> QED
  BY <1>1, <1>2, OfText, AssignInv

(* Two temporaries at a time.                                              *)
LEMMA SubtractInv ==
    ASSUME MemoryInv, NEW r \in Registers, NEW a \in Registers, NEW b \in Registers,
           Subtract(r, a, b)
    PROVE  MemoryInv'
<1> DEFINE x == View(memory, object[a])
           y == View(memory, object[b])
           z == Minus(host, x, y)
           w == Yield(y.v - x.v)
           reverse == Result(memory, w)
           result == Result(reverse.memory, z)
           e == SetZero(result.memory, reverse.object)
           direct == Result(memory, z)
           low == memory.id
<1>1. /\ Good(memory, object, {}, {}, low) /\ low \in Nat /\ ~trapped
  BY MemoryAssumption DEF MemoryInv, TypeOK, Subtract, Operating
<1>2. Of(z) /\ Of(w)
  BY OfBinary, OfYield
<1>3. z.v \in Int /\ w.v \in Int
  BY DEF Subtract, Bounded
<1>4. z \in Object /\ w \in Object
  <2> HIDE DEF z, w
  <2> QED
    BY <1>2, <1>3, OfTyped
<1>5. /\ IsFiniteSet({}) /\ Cardinality({}) <= 2
      /\ \A S : {} \cup S = S /\ S \cap {} = {} /\ {} \cap S = {}
  BY FS_EmptySet
<1>6. \/ MoveAssign(e, r, result.object)
      \/ MoveAssign(direct.memory, r, direct.object)
  <2>1. CASE x.small /\ ~y.small
    <3>1. [result EXCEPT !.memory = SetZero(@, reverse.object)] =
              [memory |-> e, object |-> result.object]
      <4>1. \A m, o : LET p == Result(m, o) IN p = [memory |-> p.memory, object |-> p.object]
        BY Zenon DEF Result
      <4>2. result = [memory |-> result.memory, object |-> result.object]
        BY <4>1
      <4> HIDE DEF result, reverse
      <4>3. \A M, O : [[memory |-> M, object |-> O] EXCEPT !.memory = SetZero(@, reverse.object)]
                      = [memory |-> SetZero(M, reverse.object), object |-> O]
        OBVIOUS
      <4> QED
        BY <4>2, <4>3
    <3> DEFINE new == [result EXCEPT !.memory = SetZero(@, reverse.object)]
    <3>2. MoveAssign(new.memory, r, new.object)
      BY <2>1, Zenon DEF Subtract
    <3>3. new.memory = e /\ new.object = result.object
      <4> DEFINE o == result.object
      <4> HIDE DEF result, e, o
      <4>1. new = [memory |-> e, object |-> o]
        BY <3>1 DEF o
      <4> HIDE DEF new
      <4> QED
        BY <4>1 DEF o
    <3> HIDE DEF new
    <3> QED
      BY <3>2, <3>3
  <2>2. CASE ~(x.small /\ ~y.small)
    BY <2>2, Zenon DEF Subtract
  <2> QED
    BY <2>1, <2>2
<1>7. ASSUME NEW m, NEW o,
             \/ Broken(m, low)
             \/ Good(m, object, Node(o), {}, low) /\ o \in Object,
             MoveAssign(m, r, o)
      PROVE  MemoryInv'
  <2>1. CASE Broken(m, low)
    <3> DEFINE f == SetZero(m, object[r])
    <3>1. Broken(f, low)
      BY <1>1, <2>1, BrokenRest
    <3>2. Become(f, [object EXCEPT ![r] = o])
      BY <1>7 DEF MoveAssign
    <3> HIDE DEF f
    <3> QED
      BY <1>1, <3>1, <3>2, BecomeInv DEF Either
  <2>2. CASE Good(m, object, Node(o), {}, low) /\ o \in Object
    BY <1>1, <1>7, <2>2, MovedIn DEF Either
  <2> QED
    BY <1>7, <2>1, <2>2
<1>8. \/ Broken(direct.memory, low)
      \/ Good(direct.memory, object, Node(direct.object), {}, low) /\ direct.object \in Object
  <2>1. \/ Broken(direct.memory, low)
        \/ /\ Good(direct.memory, object, {} \cup Node(direct.object), {}, low)
           /\ direct.object \in Object
    <3> HIDE DEF z
    <3> QED
      BY <1>1, <1>4, <1>5, ResultIs DEF Either
  <2> HIDE DEF direct
  <2> QED
    BY <1>5, <2>1
<1>9. \/ Broken(reverse.memory, low)
      \/ Good(reverse.memory, object, Node(reverse.object), {}, low) /\ reverse.object \in Object
  <2>1. \/ Broken(reverse.memory, low)
        \/ /\ Good(reverse.memory, object, {} \cup Node(reverse.object), {}, low)
           /\ reverse.object \in Object
    <3> HIDE DEF w
    <3> QED
      BY <1>1, <1>4, <1>5, ResultIs DEF Either
  <2> HIDE DEF reverse
  <2> QED
    BY <1>5, <2>1
<1>10. \/ Broken(e, low)
       \/ Good(e, object, Node(result.object), {}, low) /\ result.object \in Object
  <2> DEFINE T == Node(reverse.object)
             T2 == T \cup Node(result.object)
  <2>1. IsFiniteSet(T) /\ Cardinality(T) <= 2
    <3>1. T = {} \/ T = {reverse.object.v}
      BY DEF Node
    <3> HIDE DEF T
    <3>2. IsFiniteSet({reverse.object.v}) /\ Cardinality({reverse.object.v}) = 1
      BY FS_Singleton, Zenon
    <3>3. 1 <= 2
      OBVIOUS
    <3> QED
      BY <1>5, <3>1, <3>2, <3>3, Zenon
  <2>2. CASE Broken(reverse.memory, low)
    <3>1. Broken(result.memory, low)
      BY <1>1, <2>2, BrokenRest
    <3> QED
      BY <1>1, <3>1, BrokenRest
  <2>3. CASE ~Broken(reverse.memory, low)
    <3>1. \/ Broken(result.memory, low)
          \/ /\ Good(result.memory, object, T2, {}, low)
             /\ result.object \in Object /\ Node(result.object) \cap T = {}
      <4>1. Good(reverse.memory, object, T, {}, low)
        BY <1>9, <2>3
      <4> HIDE DEF z, reverse, T
      <4> QED
        BY <1>1, <1>4, <2>1, <4>1, ResultIs DEF Either
    <3> HIDE DEF reverse, result
    <3>2. CASE Broken(result.memory, low)
      BY <1>1, <3>2, BrokenRest
    <3>3. CASE ~Broken(result.memory, low)
      <4>1. T2 \ T = Node(result.object) /\ T \subseteq T2
        BY <3>1, <3>3
      <4>2. Either(e, object, T2 \ T, {}, low)
        <5>1. Either(result.memory, object, T2, {}, low)
          BY <3>1, <3>3 DEF Either
        <5> HIDE DEF T2
        <5> QED
          BY <1>1, <4>1, <5>1, ZeroTemporary
      <4> QED
        BY <3>1, <3>3, <4>1, <4>2 DEF Either
    <3> QED
      BY <3>2, <3>3
  <2> QED
    BY <2>2, <2>3
<1> HIDE DEF e, result, direct
<1>11. MoveAssign(direct.memory, r, direct.object) => MemoryInv'
  BY <1>7, <1>8
<1>12. MoveAssign(e, r, result.object) => MemoryInv'
  BY <1>7, <1>10
<1> QED
  BY <1>6, <1>11, <1>12

(* A small operand is uploaded: natively to a node, otherwise to a key.    *)
UploadNode(k) == IF host = "native" THEN {k} ELSE {}
UploadKey(k) == IF host = "native" THEN {} ELSE {k}

(* An upload is a temporary node, or an integer that no node has.          *)
LEMMA UploadIs ==
    ASSUME NEW low \in Nat, Good(memory, object, {}, {}, low), NEW v \in Int
    PROVE  LET new == NewInteger(memory, v)
           IN  \/ Broken(new.memory, low)
               \/ /\ Good(new.memory, object, UploadNode(new.handle), UploadKey(new.handle), low)
                  /\ host # "native" =>
                        /\ new.memory.nodes = memory.nodes
                        /\ DOMAIN memory.repo \subseteq DOMAIN new.memory.repo
                        /\ new.handle \in DOMAIN new.memory.repo
<1> DEFINE new == NewInteger(memory, v)
<1> SUFFICES \/ Broken(new.memory, low)
             \/ /\ Good(new.memory, object, UploadNode(new.handle), UploadKey(new.handle), low)
                /\ host # "native" =>
                      /\ new.memory.nodes = memory.nodes
                      /\ DOMAIN memory.repo \subseteq DOMAIN new.memory.repo
                      /\ new.handle \in DOMAIN new.memory.repo
  OBVIOUS
<1>1. CASE host = "native"
  <2> DEFINE n == FreeNode(memory)
  <2>1. new = [memory |-> NewNode(memory, v), handle |-> n]
    BY <1>1 DEF NewInteger
  <2>2. new.memory = NewNode(memory, v) /\ new.handle = n
    BY <2>1
  <2>3. IsFiniteSet({}) /\ Cardinality({}) <= 2
    BY FS_EmptySet
  <2> HIDE DEF new
  <2>4. Good(NewNode(memory, v), object, {} \cup {n}, {} \ {v}, low)
    BY <1>1, <2>3, Allocate
  <2>5. {} \cup {n} = UploadNode(n) /\ {} \ {v} = UploadKey(n)
    BY <1>1 DEF UploadNode, UploadKey
  <2> HIDE DEF n
  <2> QED
    BY <1>1, <2>2, <2>4, <2>5
<1>2. CASE host # "native"
  <2>1. \/ Broken(new.memory, low)
        \/ /\ Good(new.memory, object, {}, {} \cup {new.handle}, low)
           /\ new.memory.nodes = memory.nodes
           /\ new.memory.repo = Put(memory.repo, new.handle, v)
    BY <1>2, NewKey
  <2> HIDE DEF new
  <2>2. {} = UploadNode(new.handle) /\ {} \cup {new.handle} = UploadKey(new.handle)
    BY <1>2 DEF UploadNode, UploadKey
  <2>3. /\ DOMAIN memory.repo \subseteq DOMAIN Put(memory.repo, new.handle, v)
        /\ new.handle \in DOMAIN Put(memory.repo, new.handle, v)
    BY DEF Put
  <2> QED
    BY <2>1, <2>2, <2>3
<1> QED
  BY <1>1, <1>2

(* A host that finds its operands leaves the memory as it is.              *)
LEMMA FoundIs ==
    ASSUME NEW low \in Nat, NEW m, NEW objs, NEW T, NEW U, Good(m, objs, T, U, low),
           NEW H, host # "native" => H \subseteq DOMAIN m.repo
    PROVE  Either(Found(m, H), objs, T, U, low)
<1>1. CASE \A h \in H : Known(m, Key(h))
  BY <1>1 DEF Found, Either
<1>2. CASE ~(\A h \in H : Known(m, Key(h)))
  <2>1. PICK h \in H : host # "native" /\ Key(h) \notin DOMAIN m.repo
    BY <1>2 DEF Known
  <2>2. /\ Shape(m) /\ m.id \in low .. MaxId /\ MaxId \in Nat
        /\ h \in 1 .. m.id /\ h \in DOMAIN m.repo
    BY <2>1, MemoryAssumption DEF Good, Hosted
  <2>3. h > MaxId \div 2
    <3>1. h \in 1 .. MaxId
      BY <2>2
    <3> QED
      BY <2>1, <2>2, <3>1, KeyIs
  <2>4. m.id > MaxId \div 2
    BY <2>2, <2>3
  <2> DEFINE e == [m EXCEPT !.thrown = TRUE]
  <2>5. Shape(e) /\ e.id = m.id /\ e.thrown = TRUE
    BY <2>2, SetThrown
  <2>6. Found(m, H) = e
    BY <1>2 DEF Found
  <2> HIDE DEF e
  <2> QED
    BY <2>2, <2>4, <2>5, <2>6 DEF Either, Broken
<1> QED
  BY <1>1, <1>2

(* Scoped_Handle: the temporary node is dropped again.                     *)
LEMMA ReleaseIs ==
    ASSUME NEW low \in Nat, NEW m, NEW objs, NEW k, NEW N, k \notin N,
           Good(m, objs, UploadNode(k) \cup N, UploadKey(k), low),
           NEW x, x.small
    PROVE  Either(Release(m, x, k), objs, N, {}, low)
<1>1. CASE host = "native"
  <2> DEFINE z == [small |-> FALSE, v |-> k]
             T == UploadNode(k) \cup N
  <2>1. SetZero(m, z) = DropReference(m, k) /\ Node(z) = {k}
    BY DEF SetZero, Node
  <2>2. Release(m, x, k) = DropReference(m, k)
    BY <1>1 DEF Release
  <2>3. {k} \subseteq T /\ T \ {k} = N /\ UploadKey(k) = {}
    BY <1>1 DEF UploadNode, UploadKey
  <2> HIDE DEF z, T
  <2>4. Either(m, objs, T, {}, low)
    BY <2>3 DEF Either, T
  <2>5. Either(SetZero(m, z), objs, T \ Node(z), {}, low)
    BY <2>1, <2>3, <2>4, ZeroTemporary
  <2> QED
    BY <2>1, <2>2, <2>3, <2>5
<1>2. CASE host # "native"
  <2>1. UploadNode(k) \cup N = N /\ UploadKey(k) = {k}
    BY <1>2 DEF UploadNode, UploadKey
  <2>2. Good(m, objs, N, {k}, low)
    BY <2>1
  <2>3. Either(DeleteInteger(m, Key(k)), objs, N, {k} \ {k}, low)
    BY <1>2, <2>2, DeleteUpload
  <2>4. {k} \ {k} = {}
    OBVIOUS
  <2> QED
    BY <1>2, <2>3, <2>4 DEF Release
<1> QED
  BY <1>1, <1>2

(* Two results, beside at most one upload.                                 *)
LEMMA TwoResults ==
    ASSUME NEW low \in Nat, NEW m, NEW T, NEW U, Either(m, object, T, U, low),
           T = {} \/ \E k : T = {k}, NEW u \in Object, NEW v \in Object
    PROVE  LET first == Result(m, u)
               second == Result(first.memory, v)
               N == Node(first.object) \cup Node(second.object)
           IN  \/ Broken(second.memory, low)
               \/ /\ Good(second.memory, object, T \cup N, U, low)
                  /\ first.object \in Object /\ second.object \in Object
                  /\ Node(first.object) \cap Node(second.object) = {}
                  /\ T \cap N = {}
<1> DEFINE first == Result(m, u)
           second == Result(first.memory, v)
           S == T \cup Node(first.object)
<1>1. IsFiniteSet(T) /\ Cardinality(T) <= 1 /\ Cardinality(T) \in Nat
  <2>1. IsFiniteSet({}) /\ Cardinality({}) = 0
    BY FS_EmptySet
  <2>2. CASE \E k : T = {k}
    <3>1. IsFiniteSet(T) /\ Cardinality(T) = 1
      BY <2>2, FS_Singleton, Zenon
    <3> QED
      BY <3>1
  <2> QED
    BY <2>1, <2>2
<1>2. Cardinality(T) <= 2
  BY <1>1
<1>3. \/ Broken(first.memory, low)
      \/ /\ Good(first.memory, object, S, U, low)
         /\ first.object \in Object /\ Node(first.object) \cap T = {}
  BY <1>1, <1>2, ResultIs
<1>4. IsFiniteSet(S) /\ Cardinality(S) <= 2
  <2>1. S = T \/ S = T \cup {first.object.v}
    BY DEF Node
  <2> HIDE DEF first, S
  <2>2. /\ IsFiniteSet(T \cup {first.object.v})
        /\ Cardinality(T \cup {first.object.v}) =
              IF first.object.v \in T THEN Cardinality(T) ELSE Cardinality(T) + 1
    BY <1>1, FS_AddElement
  <2> QED
    BY <1>1, <2>1, <2>2
<1>5. CASE Broken(first.memory, low)
  <2>1. Broken(second.memory, low)
    BY <1>5, BrokenRest
  <2> QED
    BY <2>1
<1>6. CASE ~Broken(first.memory, low)
  <2>1. \/ Broken(second.memory, low)
        \/ /\ Good(second.memory, object, S \cup Node(second.object), U, low)
           /\ second.object \in Object /\ Node(second.object) \cap S = {}
    <3>1. Either(first.memory, object, S, U, low)
      BY <1>3, <1>6 DEF Either
    <3> HIDE DEF first, S
    <3> QED
      BY <1>4, <3>1, ResultIs
  <2> HIDE DEF second
  <2>2. S \cup Node(second.object) = T \cup (Node(first.object) \cup Node(second.object))
    OBVIOUS
  <2> HIDE DEF first
  <2>3. Node(second.object) \cap S = {} /\ Node(first.object) \cap T = {} =>
            /\ Node(first.object) \cap Node(second.object) = {}
            /\ T \cap (Node(first.object) \cup Node(second.object)) = {}
    OBVIOUS
  <2> HIDE DEF S
  <2> QED
    BY <1>3, <1>6, <2>1, <2>2, <2>3 DEF first, second
<1> QED
  BY <1>5, <1>6

(* Two temporaries are moved into registers.                               *)
LEMMA TwoMovedIn ==
    ASSUME NEW low \in Nat, NEW m, NEW u \in Object, NEW v \in Object,
           Node(u) \cap Node(v) = {}, object \in [Registers -> Object],
           Either(m, object, Node(u) \cup Node(v), {}, low),
           NEW q \in Registers, NEW r \in Registers, q # r
    PROVE  Either(SetZero(SetZero(m, object[q]), object[r]),
                  [object EXCEPT ![q] = u, ![r] = v], {}, {}, low)
<1> DEFINE T == Node(u) \cup Node(v)
           m1 == SetZero(m, object[q])
           m2 == SetZero(m1, object[r])
           o1 == [object EXCEPT ![q] = Small(0)]
           o2 == [o1 EXCEPT ![r] = Small(0)]
           o3 == [o2 EXCEPT ![q] = u]
           o4 == [o3 EXCEPT ![r] = v]
<1>0. Small(0) \in Object /\ Small(0).small = TRUE
  BY DEF Small, Object
<1>1. Either(m1, o1, T, {}, low)
  BY ZeroRegister
<1>2. o1[r] = object[r] /\ o1 \in [Registers -> Object]
  BY <1>0
<1>3. Either(m2, o2, T, {}, low)
  <2> HIDE DEF m1, o1, T
  <2> QED
    BY <1>1, <1>2, ZeroRegister
<1>4. o2[q].small /\ o2[r].small /\ o3[r].small /\ o2 \in [Registers -> Object]
  BY <1>0
<1>5. [object EXCEPT ![q] = u, ![r] = v] = o4
  OBVIOUS
<1>6. /\ Node(u) \subseteq T /\ T \ Node(u) = Node(v) /\ Node(v) \subseteq Node(v)
      /\ Node(v) \ Node(v) = {}
  OBVIOUS
<1> HIDE DEF o2, m1, m2, T
<1>7. ASSUME Good(m2, o2, T, {}, low) PROVE Good(m2, o4, {}, {}, low)
  <2>1. Good(m2, o3, T \ Node(u), {}, low)
    BY <1>4, <1>6, <1>7, Take
  <2> HIDE DEF o3
  <2>2. Good(m2, o3, Node(v), {}, low)
    BY <1>6, <2>1
  <2>3. Good(m2, o4, Node(v) \ Node(v), {}, low)
    BY <1>4, <1>6, <2>2, Take
  <2> QED
    BY <1>6, <2>3
<1>8. Either(m2, o4, {}, {}, low)
  <2> HIDE DEF o4
  <2> QED
    BY <1>3, <1>7 DEF Either
<1> QED
  BY <1>5, <1>8 DEF m1, m2

(* The handle of a big operand is known, and remains so during an upload.  *)
LEMMA HandleIs ==
    ASSUME Good(memory, object, {}, {}, memory.id), NEW a \in Registers, ~object[a].small,
           Readable(memory, object[a]), host # "native"
    PROVE  /\ Handle(memory, object[a]) \in DOMAIN memory.repo
           /\ \A m : m.nodes = memory.nodes => Handle(m, object[a]) = Handle(memory, object[a])
  BY DEF Readable, Known, Handle

(* An upload beside the handle of a big operand: both are found.           *)
LEMMA UploadedIs ==
    ASSUME NEW low, Good(memory, object, {}, {}, low), low = memory.id, low \in Nat,
           object \in [Registers -> Object],
           NEW s \in Registers, NEW g \in Registers, ~object[g].small,
           Readable(memory, object[g]),
           NEW made, made = NewInteger(memory, object[s].v),
           NEW h, host # "native" => h = Handle(memory, object[g])
    PROVE  Either(Found(made.memory, {made.handle, h}), object,
                  UploadNode(made.handle), UploadKey(made.handle), low)
<1> DEFINE k == made.handle
           T == UploadNode(k)
           U == UploadKey(k)
<1>1. object[s].v \in Int
  BY DEF Object
<1>2. \/ Broken(made.memory, low)
      \/ /\ Good(made.memory, object, T, U, low)
         /\ host # "native" => /\ made.memory.nodes = memory.nodes
                               /\ DOMAIN memory.repo \subseteq DOMAIN made.memory.repo
                               /\ k \in DOMAIN made.memory.repo
  BY <1>1, UploadIs
<1>3. CASE Broken(made.memory, low)
  BY <1>3, BrokenRest DEF Either
<1>4. CASE ~Broken(made.memory, low)
  <2>1. host # "native" => {k, h} \subseteq DOMAIN made.memory.repo
    <3> SUFFICES ASSUME host # "native" PROVE h \in DOMAIN made.memory.repo
      BY <1>2, <1>4
    <3>1. Handle(memory, object[g]) \in DOMAIN memory.repo
      BY HandleIs
    <3> QED
      BY <1>2, <1>4, <3>1
  <2> HIDE DEF T, U
  <2> QED
    BY <1>2, <1>4, <2>1, FoundIs DEF T, U
<1> QED
  BY <1>3, <1>4

(* The upload of a small operand is deleted, the results are left.         *)
LEMMA UploadReleased ==
    ASSUME NEW m, NEW objs, NEW low, low \in Nat, NEW s, s.small, NEW k, NEW N,
           Good(m, objs, UploadNode(k) \cup N, UploadKey(k), low),
           UploadNode(k) \cap N = {}
    PROVE  Either(Release(m, s, k), objs, N, {}, low)
<1>1. CASE host = "native"
  <2>1. k \notin N
    BY <1>1 DEF UploadNode
  <2> QED
    BY <1>1, <2>1, ReleaseIs
<1>2. CASE host # "native"
  <2>1. UploadNode(k) = {} /\ UploadKey(k) = {k} /\ {} \cup N = N
    BY <1>2 DEF UploadNode, UploadKey
  <2>2. Good(m, objs, N, {k}, low) /\ k \in {k}
    BY <2>1
  <2>3. Either(DeleteInteger(m, Key(k)), objs, N, {k} \ {k}, low)
    BY <1>2, <2>2, DeleteUpload
  <2>4. {k} \ {k} = {}
    OBVIOUS
  <2>5. Release(m, s, k) = DeleteInteger(m, Key(k))
    BY <1>2 DEF Release
  <2> QED
    BY <2>3, <2>4, <2>5
<1> QED
  BY <1>1, <1>2

(* A division: operands are uploaded, quotient and remainder made, the     *)
(* uploads deleted, and the results moved into registers.                  *)
LEMMA DivideInv ==
    ASSUME MemoryInv, NEW q \in Registers, NEW r \in Registers,
           NEW a \in Registers, NEW b \in Registers, NEW rounding,
           Divide(q, r, a, b, rounding)
    PROVE  MemoryInv'
<1> DEFINE low == memory.id
           x == View(memory, object[a])
           y == View(memory, object[b])
           both == x.small /\ y.small
           z == DivRem(host, rounding, x, y)
           xh == Upload(memory, object[a])
           yh == Upload(xh.memory, object[b])
           m0 == IF both THEN memory ELSE Found(yh.memory, {xh.handle, yh.handle})
           quotient == Result(m0, z.quotient)
           remainder == Result(quotient.memory, z.remainder)
           m1 == Release(remainder.memory, object[b], yh.handle)
           m2 == IF both THEN remainder.memory ELSE Release(m1, object[a], xh.handle)
           m3 == SetZero(SetZero(m2, object[q]), object[r])
           objs == [object EXCEPT ![q] = quotient.object, ![r] = remainder.object]
           N == Node(quotient.object) \cup Node(remainder.object)
<1>1. /\ Good(memory, object, {}, {}, low) /\ low \in Nat /\ ~trapped /\ q # r
      /\ object \in [Registers -> Object]
      /\ Readable(memory, object[a]) /\ Readable(memory, object[b])
  <2>1. Operating({a, b}) /\ q # r
    BY Zenon DEF Divide
  <2>2. ~trapped /\ Readable(memory, object[a]) /\ Readable(memory, object[b])
    BY <2>1 DEF Operating
  <2>3. low \in Nat
    BY MemoryAssumption DEF MemoryInv, TypeOK
  <2>4. Good(memory, object, {}, {}, low) /\ object \in [Registers -> Object]
    BY <2>2, Zenon DEF MemoryInv, TypeOK
  <2> QED
    BY <2>1, <2>2, <2>3, <2>4
<1>2. z.quotient.v \in Int /\ z.remainder.v \in Int
  <2>1. Bounded(z.quotient) /\ Bounded(z.remainder)
    BY Zenon DEF Divide
  <2> HIDE DEF z
  <2> QED
    BY <2>1, MemoryAssumption DEF Bounded
<1>3. z.quotient \in Object /\ z.remainder \in Object
  <2>1. Of(z.quotient) /\ Of(z.remainder)
    BY OfDivRem
  <2> HIDE DEF z
  <2> QED
    BY <1>2, <2>1, OfTyped
<1>4. IF remainder.memory.thrown THEN Become(remainder.memory, object) ELSE Become(m3, objs)
  BY Zenon DEF Divide
<1>5. (x.small <=> object[a].small) /\ (y.small <=> object[b].small)
  BY DEF View, Big
<1>6. object[a] \in Object /\ object[b] \in Object /\ object[a].v \in Int /\ object[b].v \in Int
  BY <1>1 DEF Object
<1>7. ASSUME NEW T, NEW U, T = {} \/ \E k : T = {k}, Either(m0, object, T, U, low)
      PROVE  \/ Broken(remainder.memory, low)
             \/ /\ Good(remainder.memory, object, T \cup N, U, low)
                /\ quotient.object \in Object /\ remainder.object \in Object
                /\ Node(quotient.object) \cap Node(remainder.object) = {}
                /\ T \cap N = {}
  <2> HIDE DEF z, m0
  <2> QED
    BY <1>1, <1>3, <1>7, TwoResults
<1>8. ASSUME Broken(remainder.memory, low) PROVE MemoryInv'
  <2>1. remainder.memory.thrown = TRUE
    BY <1>8 DEF Broken
  <2> HIDE DEF remainder
  <2>2. Become(remainder.memory, object)
    BY <1>4, <2>1
  <2> QED
    BY <1>1, <1>8, <2>2, BecomeInv DEF Either
<1>9. ASSUME NEW T, NEW U, Good(remainder.memory, object, T \cup N, U, low),
             quotient.object \in Object, remainder.object \in Object,
             Node(quotient.object) \cap Node(remainder.object) = {},
             Either(m2, object, N, {}, low)
      PROVE  MemoryInv'
  <2>1. remainder.memory.thrown = FALSE
    BY <1>9 DEF Good
  <2>2. Become(m3, objs)
    <3> HIDE DEF remainder, m3, objs
    <3> QED
      BY <1>4, <2>1
  <2> HIDE DEF remainder, quotient, m2
  <2>3. Either(m3, objs, {}, {}, low)
    BY <1>1, <1>9, TwoMovedIn
  <2> HIDE DEF m3, objs
  <2> QED
    BY <1>1, <2>2, <2>3, BecomeInv
<1>10. CASE both
  <2>1. m0 = memory /\ m2 = remainder.memory
    BY <1>10
  <2>2. Either(m0, object, {}, {}, low)
    BY <1>1, <2>1 DEF Either
  <2>3. {} \cup N = N
    OBVIOUS
  <2> HIDE DEF m0, m2, quotient, remainder, N
  <2>4. CASE Broken(remainder.memory, low)
    BY <1>8, <2>4
  <2>5. CASE ~Broken(remainder.memory, low)
    <3>1. /\ Good(remainder.memory, object, {} \cup N, {}, low)
          /\ quotient.object \in Object /\ remainder.object \in Object
          /\ Node(quotient.object) \cap Node(remainder.object) = {}
      BY <1>7, <2>2, <2>5
    <3>2. Either(m2, object, N, {}, low)
      BY <2>1, <2>3, <3>1 DEF Either
    <3> QED
      BY <1>9, <3>1, <3>2
  <2> QED
    BY <2>4, <2>5
<1>11. ASSUME NEW s \in Registers, NEW g \in Registers, NEW made,
              made = NewInteger(memory, object[s].v),
              object[s].small, ~object[g].small, Readable(memory, object[g]),
              NEW h, host # "native" => h = Handle(memory, object[g]),
              m0 = Found(made.memory, {made.handle, h}),
              m2 = Release(remainder.memory, object[s], made.handle)
       PROVE  MemoryInv'
  <2> DEFINE T == UploadNode(made.handle)
             U == UploadKey(made.handle)
  <2>1. T = {} \/ \E j : T = {j}
    BY DEF UploadNode
  <2>2. Either(m0, object, T, U, low)
    <3> HIDE DEF m0
    <3> QED
      BY <1>1, <1>11, UploadedIs
  <2> HIDE DEF m0, m2, quotient, remainder, N
  <2>3. CASE Broken(remainder.memory, low)
    BY <1>8, <2>3
  <2>4. CASE ~Broken(remainder.memory, low)
    <3> HIDE DEF T, U
    <3>1. /\ Good(remainder.memory, object, T \cup N, U, low)
          /\ quotient.object \in Object /\ remainder.object \in Object
          /\ Node(quotient.object) \cap Node(remainder.object) = {}
          /\ T \cap N = {}
      BY <1>7, <2>1, <2>2, <2>4
    <3>2. Either(m2, object, N, {}, low)
      BY <1>1, <1>11, <3>1, UploadReleased DEF T, U
    <3> QED
      BY <1>9, <3>1, <3>2
  <2> QED
    BY <2>3, <2>4
<1>12. CASE object[a].small /\ ~object[b].small
  <2> DEFINE made == NewInteger(memory, object[a].v)
  <2>1. ~both
    BY <1>5, <1>12
  <2>2. xh = made /\ yh = [memory |-> made.memory, handle |-> Handle(made.memory, object[b])]
    BY <1>12 DEF Upload
  <2>3. yh.memory = made.memory /\ yh.handle = Handle(made.memory, object[b])
    BY <2>2
  <2>4. m0 = Found(made.memory, {made.handle, yh.handle})
    BY <2>1, <2>2, <2>3
  <2>5. m2 = Release(remainder.memory, object[a], made.handle)
    BY <1>12, <2>1, <2>2 DEF Release
  <2>6. host # "native" => Handle(made.memory, object[b]) = Handle(memory, object[b])
    <3> SUFFICES ASSUME host # "native" PROVE made.memory.nodes = memory.nodes
      BY <1>1, <1>12, HandleIs
    <3> QED
      BY DEF NewInteger
  <2> HIDE DEF made, xh, yh, m0, m2, remainder, quotient
  <2>7. made = NewInteger(memory, object[a].v)
    BY DEF made
  <2> QED
    BY <1>1, <1>11, <1>12, <2>3, <2>4, <2>5, <2>6, <2>7
<1>13. CASE ~object[a].small /\ object[b].small
  <2> DEFINE made == NewInteger(memory, object[b].v)
  <2>1. ~both
    BY <1>5, <1>13
  <2>2. xh = [memory |-> memory, handle |-> Handle(memory, object[a])]
    BY <1>13 DEF Upload
  <2>3. xh.memory = memory /\ xh.handle = Handle(memory, object[a])
    BY <2>2
  <2>4. yh = made
    <3> HIDE DEF xh
    <3> QED
      BY <1>13, <2>3 DEF Upload
  <2>5. m0 = Found(made.memory, {made.handle, xh.handle})
    <3>1. {made.handle, xh.handle} = {xh.handle, made.handle}
      OBVIOUS
    <3> QED
      BY <2>1, <2>4, <3>1
  <2>6. m2 = Release(remainder.memory, object[b], made.handle)
    BY <1>13, <2>1, <2>4 DEF Release
  <2> HIDE DEF made, xh, yh, m0, m2, remainder, quotient
  <2>7. made = NewInteger(memory, object[b].v)
    BY DEF made
  <2> QED
    BY <1>1, <1>11, <1>13, <2>3, <2>5, <2>6, <2>7
<1>14. CASE ~object[a].small /\ ~object[b].small
  <2>1. ~both
    BY <1>5, <1>14
  <2>2. xh = [memory |-> memory, handle |-> Handle(memory, object[a])]
    BY <1>14 DEF Upload
  <2>3. xh.memory = memory /\ xh.handle = Handle(memory, object[a])
    BY <2>2
  <2>4. yh = [memory |-> memory, handle |-> Handle(memory, object[b])]
    <3> HIDE DEF xh
    <3> QED
      BY <1>14, <2>3 DEF Upload
  <2>5. yh.memory = memory /\ yh.handle = Handle(memory, object[b])
    BY <2>4
  <2>6. m0 = Found(memory, {xh.handle, yh.handle})
    BY <2>1, <2>5
  <2>7. m2 = remainder.memory
    BY <1>14, <2>1 DEF Release
  <2> HIDE DEF xh, yh, m0, m2, remainder, quotient, N
  <2>8. host # "native" => {xh.handle, yh.handle} \subseteq DOMAIN memory.repo
    BY <1>1, <1>14, <2>3, <2>5, HandleIs
  <2>9. Either(m0, object, {}, {}, low)
    BY <1>1, <2>6, <2>8, FoundIs
  <2>10. CASE Broken(remainder.memory, low)
    BY <1>8, <2>10
  <2>11. CASE ~Broken(remainder.memory, low)
    <3>1. /\ Good(remainder.memory, object, {} \cup N, {}, low)
          /\ quotient.object \in Object /\ remainder.object \in Object
          /\ Node(quotient.object) \cap Node(remainder.object) = {}
      BY <1>7, <2>9, <2>11
    <3>2. {} \cup N = N
      OBVIOUS
    <3>3. Either(m2, object, N, {}, low)
      BY <2>7, <3>1, <3>2 DEF Either
    <3> QED
      BY <1>9, <3>1, <3>3
  <2> QED
    BY <2>10, <2>11
<1> QED
  BY <1>5, <1>10, <1>12, <1>13, <1>14

(* Every operation keeps the invariant.                                    *)
LEMMA MemoryStep == MemoryInv /\ [Next]_vars => MemoryInv'
<1> SUFFICES ASSUME MemoryInv, [Next]_vars PROVE MemoryInv'
  OBVIOUS
<1>1. ASSUME NEW r \in Registers, NEW a \in Registers, Move(r, a) PROVE MemoryInv'
  BY <1>1, MoveInv
<1>2. ASSUME NEW r \in Registers, NEW a \in Registers, Copy(r, a) PROVE MemoryInv'
  BY <1>2, CopyInv
<1>3. ASSUME NEW r \in Registers, NEW a \in Registers, Unary(r, a) PROVE MemoryInv'
  BY <1>3, UnaryInv
<1>4. ASSUME NEW r \in Registers, NEW v \in Literals, Load(r, v) PROVE MemoryInv'
  BY <1>4, LoadInv
<1>5. ASSUME NEW r \in Registers, NEW a \in Registers, NEW b \in Registers,
             Binary(r, a, b)
      PROVE  MemoryInv'
  BY <1>5, BinaryInv
<1>6. ASSUME NEW r \in Registers, NEW a \in Registers, NEW b \in Registers,
             Subtract(r, a, b)
      PROVE  MemoryInv'
  BY <1>6, SubtractInv
<1>7. ASSUME NEW q \in Registers, NEW r \in Registers, NEW a \in Registers,
             NEW b \in Registers, NEW rounding \in Roundings,
             Divide(q, r, a, b, rounding)
      PROVE  MemoryInv'
  BY <1>7, DivideInv
<1>8. ASSUME NEW r \in Registers, NEW a \in Registers, NEW base \in Bases,
             Reparse(r, a, base)
      PROVE  MemoryInv'
  BY <1>8, ReparseInv
<1>9. ASSUME NEW a \in Registers, Trap(a) PROVE MemoryInv'
  BY <1>9, TrapInv
<1>10. CASE UNCHANGED vars
  BY <1>10 DEF vars, MemoryInv, TypeOK, TrapsAreLate, Shape, Good, NodesOK, Owned,
               Present, Owners, Count, Referring, Hosted
<1> QED
  BY <1>1, <1>2, <1>3, <1>4, <1>5, <1>6, <1>7, <1>8, <1>9, <1>10 DEF Next

(* Between two operations there are no temporaries: the owners of a node   *)
(* are the registers that refer to it.                                     *)
LEMMA MemoryIsSound == MemoryInv => ReferencesAreSound
<1> SUFFICES ASSUME MemoryInv PROVE ReferencesAreSound
  OBVIOUS
<1>1. ASSUME ~trapped PROVE OwnersAreCounted
  <2>1. Good(memory, object, {}, {}, memory.id)
    BY <1>1 DEF MemoryInv
  <2>2. Present(memory, object)
    BY <2>1 DEF Good, Owned
  <2>3. ASSUME NEW n \in DOMAIN memory.nodes
        PROVE  memory.nodes[n].owners =
                   Cardinality({r \in Registers : ~object[r].small /\ object[r].v = n})
    <3>1. memory.nodes[n].owners = Count(object, n) + One(n \in {})
      BY <2>1 DEF Good, Owned, Owners
    <3>2. One(n \in {}) = 0 /\ Count(object, n) \in Nat
      BY CountIs DEF One
    <3>3. memory.nodes[n].owners = Count(object, n)
      BY <3>1, <3>2
    <3> QED
      BY <3>3 DEF Count, Referring, Refers
  <2>4. host = "wasm" =>
            DOMAIN memory.repo = {memory.nodes[n].is : n \in DOMAIN memory.nodes}
    BY <2>1 DEF Good, Hosted
  <2> QED
    BY <2>2, <2>3, <2>4 DEF OwnersAreCounted, Present
<1>2. CASE trapped
  BY <1>2 DEF MemoryInv, ReferencesAreSound, OwnersAreCounted
<1> QED
  BY <1>1, <1>2 DEF MemoryInv, ReferencesAreSound

(* For any number of registers and nodes, any limit of keys, any integers  *)
(* and either host: at every state of the program, a node counts exactly   *)
(* the objects that own it, the host of WASM keeps exactly the integers    *)
(* that nodes have, and JavaScript throws no exception before half of its  *)
(* keys have been given out.                                               *)
THEOREM ReferencesStaySound == Spec => []ReferencesAreSound
<1>1. Spec => []MemoryInv
  BY MemoryInit, MemoryStep, PTL DEF Spec
<1> QED
  BY <1>1, MemoryIsSound, PTL

-----------------------------------------------------------------------------
(* Powers, by induction over their exponents.                              *)

(* Induction over the natural numbers, for a set.                          *)
LEMMA SetInduction ==
    ASSUME NEW S, 0 \in S, \A n \in Nat : n \in S => n + 1 \in S
    PROVE  Nat \subseteq S
<1> DEFINE T == Nat \ S
<1>1. SUFFICES ASSUME T # {} PROVE FALSE
  OBVIOUS
<1>2. PICK x \in T : \A y \in T : ~(<<y, x>> \in OpToRel(<, Nat))
  <2>1. T \subseteq Nat
    OBVIOUS
  <2> HIDE DEF T
  <2> QED
    BY <1>1, <2>1, NatLessThanWellFounded, WFMin
<1>3. x # 0 /\ x - 1 \in Nat /\ x - 1 \notin T
  <2>1. x # 0 /\ x - 1 \in Nat
    OBVIOUS
  <2>2. <<x - 1, x>> \in OpToRel(<, Nat)
    BY <2>1 DEF OpToRel
  <2> QED
    BY <1>2, <2>1, <2>2
<1> QED
  BY <1>3

(* The function that Power takes its value from.                           *)
Powers(b, n, g) == g = [k \in 0 .. n |-> IF k = 0 THEN 1 ELSE b * g[k - 1]]

LEMMA PowersExist == \A b : \A n \in Nat : \E g : Powers(b, n, g)
<1> SUFFICES ASSUME NEW b PROVE \A n \in Nat : \E g : Powers(b, n, g)
  OBVIOUS
<1> DEFINE S == {n \in Nat : \E g : Powers(b, n, g)}
<1>1. 0 \in S
  <2>1. Powers(b, 0, [k \in 0 .. 0 |-> 1])
    BY DEF Powers
  <2> QED
    BY <2>1
<1>2. ASSUME NEW n \in Nat, n \in S PROVE n + 1 \in S
  <2>1. PICK g : Powers(b, n, g)
    BY <1>2
  <2> DEFINE e == [k \in 0 .. n + 1 |-> IF k = n + 1 THEN b * g[n] ELSE g[k]]
  <2>2. ASSUME NEW k \in 0 .. n + 1
        PROVE  e[k] = IF k = 0 THEN 1 ELSE b * e[k - 1]
    BY <2>1 DEF Powers
  <2>3. Powers(b, n + 1, e)
    BY <2>2 DEF Powers
  <2> QED
    BY <2>3
<1> HIDE DEF S
<1>3. Nat \subseteq S
  BY <1>1, <1>2, SetInduction
<1> QED
  BY <1>3 DEF S

LEMMA PowersAgree ==
    ASSUME NEW b, NEW m \in Nat, NEW n \in Nat, NEW g, NEW h,
           Powers(b, m, g), Powers(b, n, h)
    PROVE  \A k \in Nat : k <= m /\ k <= n => g[k] = h[k]
<1> DEFINE S == {k \in Nat : k <= m /\ k <= n => g[k] = h[k]}
<1>1. 0 \in S
  BY DEF Powers
<1>2. ASSUME NEW k \in Nat, k \in S PROVE k + 1 \in S
  BY <1>2 DEF Powers
<1> HIDE DEF S
<1>3. Nat \subseteq S
  BY <1>1, <1>2, SetInduction
<1> QED
  BY <1>3 DEF S

LEMMA PowerIs ==
    ASSUME NEW b, NEW n \in Nat
    PROVE  Powers(b, n, CHOOSE g : Powers(b, n, g))
  BY PowersExist

(* What a power is, without the function.                                  *)
LEMMA PowerSteps ==
    ASSUME NEW b
    PROVE  /\ Power(b, 0) = 1
           /\ \A n \in Nat : Power(b, n + 1) = b * Power(b, n)
<1>1. \A n \in Nat : Power(b, n) = (CHOOSE g : Powers(b, n, g))[n]
  BY DEF Power, Powers
<1>2. Power(b, 0) = 1
  <2> DEFINE g == CHOOSE g : Powers(b, 0, g)
  <2>1. Powers(b, 0, g)
    BY PowerIs
  <2>2. Power(b, 0) = g[0]
    BY <1>1
  <2> HIDE DEF g
  <2> QED
    BY <2>1, <2>2 DEF Powers
<1>3. ASSUME NEW n \in Nat PROVE Power(b, n + 1) = b * Power(b, n)
  <2> DEFINE g == CHOOSE g : Powers(b, n, g)
             h == CHOOSE h : Powers(b, n + 1, h)
  <2>1. Powers(b, n, g) /\ Powers(b, n + 1, h)
    BY PowerIs
  <2>2. Power(b, n) = g[n] /\ Power(b, n + 1) = h[n + 1]
    BY <1>1
  <2> HIDE DEF g, h
  <2>3. g[n] = h[n]
    BY <2>1, PowersAgree
  <2>4. h[n + 1] = b * h[n]
    BY <2>1 DEF Powers
  <2> QED
    BY <2>2, <2>3, <2>4
<1> QED
  BY <1>2, <1>3

LEMMA PowerTyped ==
    /\ \A b \in Int, n \in Nat : Power(b, n) \in Int
    /\ \A b \in Nat \ {0}, n \in Nat : Power(b, n) \in Nat \ {0}
<1>1. ASSUME NEW b \in Int, NEW n \in Nat PROVE Power(b, n) \in Int
  <2> DEFINE S == {k \in Nat : Power(b, k) \in Int}
  <2>1. 0 \in S
    BY PowerSteps
  <2>2. ASSUME NEW k \in Nat, k \in S PROVE k + 1 \in S
    <3>1. Power(b, k) \in Int /\ Power(b, k + 1) = b * Power(b, k)
      BY <2>2, PowerSteps
    <3>2. b * Power(b, k) \in Int
      BY <3>1
    <3> QED
      BY <3>1, <3>2
  <2> HIDE DEF S
  <2>3. Nat \subseteq S
    BY <2>1, <2>2, SetInduction
  <2> QED
    BY <2>3 DEF S
<1>2. ASSUME NEW b \in Nat \ {0}, NEW n \in Nat PROVE Power(b, n) \in Nat \ {0}
  <2> DEFINE S == {k \in Nat : Power(b, k) \in Nat \ {0}}
  <2>1. 0 \in S
    BY PowerSteps
  <2>2. ASSUME NEW k \in Nat, k \in S PROVE k + 1 \in S
    <3>1. \A m \in Nat \ {0}, l \in Nat \ {0} : m * l \in Nat \ {0}
      BY SMT
    <3>2. Power(b, k) \in Nat \ {0} /\ Power(b, k + 1) = b * Power(b, k)
      BY <2>2, PowerSteps
    <3> QED
      BY <3>1, <3>2
  <2> HIDE DEF S
  <2>3. Nat \subseteq S
    BY <2>1, <2>2, SetInduction
  <2> QED
    BY <2>3 DEF S
<1> QED
  BY <1>1, <1>2

LEMMA PowerSum ==
    ASSUME NEW b \in Nat \ {0}, NEW m \in Nat, NEW n \in Nat
    PROVE  Power(b, m + n) = Power(b, m) * Power(b, n)
<1> DEFINE S == {k \in Nat : Power(b, m + k) = Power(b, m) * Power(b, k)}
<1>1. 0 \in S
  <2>1. Power(b, m) \in Int /\ Power(b, 0) = 1 /\ m + 0 = m
    BY PowerTyped, PowerSteps
  <2>2. Power(b, m) * 1 = Power(b, m)
    BY <2>1
  <2> QED
    BY <2>1, <2>2
<1>2. ASSUME NEW k \in Nat, k \in S PROVE k + 1 \in S
  <2>1. /\ Power(b, k + 1) = b * Power(b, k)
        /\ Power(b, (m + k) + 1) = b * Power(b, m + k)
        /\ m + (k + 1) = (m + k) + 1 /\ m + k \in Nat
    BY PowerSteps
  <2>2. Power(b, m) \in Int /\ Power(b, k) \in Int /\ b \in Int
    BY PowerTyped
  <2>3. \A x, y, z \in Int : x * (y * z) = y * (x * z)
    BY SMT
  <2>4. Power(b, m + k) = Power(b, m) * Power(b, k)
    BY <1>2
  <2>5. b * (Power(b, m) * Power(b, k)) = Power(b, m) * (b * Power(b, k))
    BY <2>2, <2>3
  <2>6. Power(b, m + (k + 1)) = Power(b, m) * Power(b, k + 1)
    BY <2>1, <2>4, <2>5, Zenon
  <2> QED
    BY <2>6
<1> HIDE DEF S
<1>3. Nat \subseteq S
  BY <1>1, <1>2, SetInduction
<1> QED
  BY <1>3 DEF S

(* Powers grow, faster than their exponents.                               *)
LEMMA PowerGrows ==
    ASSUME NEW b \in Nat, b >= 2
    PROVE  /\ \A m, n \in Nat : m <= n => Power(b, m) <= Power(b, n)
           /\ \A m, n \in Nat : Power(b, m) < Power(b, n) => m < n
           /\ \A n \in Nat : n < Power(b, n)
           /\ \A n \in Nat : Power(2, n) <= Power(b, n)
<1>0. b \in Nat \ {0} /\ 2 \in Nat \ {0}
  OBVIOUS
<1>1. \A n \in Nat : Power(b, n) \in Nat \ {0} /\ Power(2, n) \in Nat \ {0}
  BY <1>0, PowerTyped
<1>2. ASSUME NEW m \in Nat, NEW n \in Nat, m <= n PROVE Power(b, m) <= Power(b, n)
  <2>1. n - m \in Nat /\ n = m + (n - m)
    BY <1>2
  <2>2. Power(b, n) = Power(b, m) * Power(b, n - m)
    BY <1>0, <2>1, PowerSum
  <2>3. \A x, y \in Nat \ {0} : x <= x * y
    BY SMT
  <2> QED
    BY <1>1, <2>1, <2>2, <2>3
<1>3. \A n \in Nat : n < Power(b, n) /\ Power(2, n) <= Power(b, n)
  <2> DEFINE S == {k \in Nat : k < Power(b, k) /\ Power(2, k) <= Power(b, k)}
  <2>1. 0 \in S
    BY PowerSteps
  <2>2. ASSUME NEW k \in Nat, k \in S PROVE k + 1 \in S
    <3>1. \A x \in Nat : b * x >= 2 * x
      BY SMT
    <3>2. Power(b, k + 1) = b * Power(b, k) /\ Power(2, k + 1) = 2 * Power(2, k)
      BY PowerSteps
    <3>3. b * Power(b, k) >= 2 * Power(b, k)
      BY <1>1, <3>1
    <3>4. b * Power(b, k) \in Nat
      BY <1>1
    <3> QED
      BY <1>1, <2>2, <3>2, <3>3, <3>4
  <2> HIDE DEF S
  <2>3. Nat \subseteq S
    BY <2>1, <2>2, SetInduction
  <2> QED
    BY <2>3 DEF S
<1>4. ASSUME NEW m \in Nat, NEW n \in Nat, Power(b, m) < Power(b, n) PROVE m < n
  <2>1. n <= m => Power(b, n) <= Power(b, m)
    BY <1>2
  <2> QED
    BY <1>1, <1>4, <2>1
<1> QED
  BY <1>2, <1>3, <1>4

(* Int128 has two words, an Int64 one.                                     *)
LEMMA LimitIs ==
    /\ 2 * HalfBits - 1 \in Nat
    /\ Power(2, 2 * HalfBits - 1) = Limit
    /\ Power(2, 2 * HalfBits) = 2 * Limit
    /\ Word \in Nat \ {0} /\ Limit \in Nat /\ Limit >= 2
    /\ Word * Power(2, HalfBits - 1) = Limit
<1>1. HalfBits \in Nat /\ HalfBits - 1 \in Nat /\ 2 * HalfBits - 1 \in Nat
  BY WidthAssumption
<1>2. Power(2, 2 * HalfBits) = Word * Word
  <2>1. 2 * HalfBits = HalfBits + HalfBits
    BY <1>1
  <2> QED
    BY <1>1, <2>1, PowerSum, WidthAssumption
<1>3. Power(2, 2 * HalfBits) = 2 * Limit
  BY <1>2, WidthAssumption
<1>4. Power(2, 2 * HalfBits) = 2 * Power(2, 2 * HalfBits - 1)
  <2>1. 2 * HalfBits = (2 * HalfBits - 1) + 1
    BY <1>1
  <2>2. Power(2, (2 * HalfBits - 1) + 1) = 2 * Power(2, 2 * HalfBits - 1)
    BY <1>1, PowerSteps
  <2> QED
    BY <2>1, <2>2
<1>5. Power(2, 2 * HalfBits - 1) \in Int /\ Limit \in Nat
  BY <1>1, PowerTyped, LimitAssumption
<1>6. Power(2, 2 * HalfBits - 1) = Limit
  BY <1>3, <1>4, <1>5
<1>7. Word \in Nat \ {0}
  BY <1>1, PowerTyped, WidthAssumption
<1>8. Word * Power(2, HalfBits - 1) = Limit
  <2>1. 2 * HalfBits - 1 = HalfBits + (HalfBits - 1)
    BY <1>1
  <2> QED
    BY <1>1, <1>6, <2>1, PowerSum, WidthAssumption
<1>9. Limit >= 2
  <2>1. Power(2, 1) = 2
    <3>1. Power(2, 0) = 1 /\ Power(2, 0 + 1) = 2 * Power(2, 0)
      BY PowerSteps
    <3> QED
      BY <3>1
  <2>2. 1 <= 2 * HalfBits - 1
    BY WidthAssumption
  <2> QED
    BY <1>1, <1>6, <2>1, <2>2, PowerGrows
<1> QED
  BY <1>1, <1>3, <1>5, <1>6, <1>7, <1>8, <1>9

-----------------------------------------------------------------------------
(* Division of integers by natural numbers.                                *)

(* Division rounds down, whatever the sign of what is divided.             *)
LEMMA IntegerDivision ==
    \A n \in Int, k \in Nat \ {0} :
        /\ n \div k \in Int /\ n % k \in Int
        /\ n = k * (n \div k) + (n % k)
        /\ 0 <= n % k /\ n % k < k
  BY SMT

LEMMA DivisionIs ==
    ASSUME NEW k \in Nat \ {0}, NEW q \in Int, NEW r \in Int, 0 <= r, r < k
    PROVE  /\ (q * k + r) \div k = q
           /\ (q * k + r) % k = r
<1> DEFINE n == q * k + r
           p == n \div k
           s == n % k
<1>1. n \in Int
  OBVIOUS
<1>2. p \in Int /\ s \in Int /\ n = k * p + s /\ 0 <= s /\ s < k
  <2> HIDE DEF n
  <2> QED
    BY <1>1, IntegerDivision
<1>3. n = q * k + r
  OBVIOUS
<1> HIDE DEF n, p, s
<1>4. \A d \in Int : /\ d >= 1 => d * k >= k
                     /\ d <= -1 => d * k <= -k
  BY SMT
<1>5. (q - p) * k = s - r
  <2>1. q * k + r = k * p + s
    BY <1>2, <1>3
  <2>2. \A a, b \in Int : (a - b) * k = a * k - k * b
    BY SMT
  <2>3. q * k \in Int /\ k * p \in Int
    BY <1>2
  <2>4. (q - p) * k = q * k - k * p
    BY <1>2, <2>2
  <2> QED
    BY <1>2, <2>1, <2>3, <2>4
<1>6. q - p \in Int
  BY <1>2
<1>7. ~(q - p >= 1) /\ ~(q - p <= -1)
  BY <1>2, <1>4, <1>5, <1>6
<1>8. p = q
  BY <1>2, <1>7
<1>9. s = r
  <2>1. q * k \in Int /\ k * q = q * k
    OBVIOUS
  <2> QED
    BY <1>2, <1>3, <1>8, <2>1
<1> QED
  BY <1>8, <1>9 DEF n, p, s

(* One division after the other is one by the product.                     *)
LEMMA DivisionTwice ==
    ASSUME NEW n \in Int, NEW a \in Nat \ {0}, NEW b \in Nat \ {0}
    PROVE  /\ a * b \in Nat \ {0}
           /\ (n \div a) \div b = n \div (a * b)
<1> DEFINE q == n \div a
           r == n % a
           q2 == q \div b
           r2 == q % b
<1>1. q \in Int /\ r \in Int /\ n = a * q + r /\ 0 <= r /\ r < a
  BY IntegerDivision
<1>2. q2 \in Int /\ r2 \in Int /\ q = b * q2 + r2 /\ 0 <= r2 /\ r2 < b
  <2> HIDE DEF q
  <2> QED
    BY <1>1, IntegerDivision
<1>3. a * b \in Nat \ {0}
  BY SMT
<1> HIDE DEF q, r, q2, r2
<1> DEFINE rest == a * r2 + r
<1>4. rest \in Int /\ 0 <= rest /\ rest < a * b
  <2>1. \A x, y \in Nat : a * x \in Nat /\ (x < y => a * x + a <= a * y)
    BY SMT
  <2>2. a * r2 \in Nat /\ a * r2 + a <= a * b
    BY <1>2, <2>1
  <2> QED
    BY <1>1, <1>3, <2>2
<1>5. n = q2 * (a * b) + rest
  <2>1. \A x, y \in Int : a * (b * x + y) = x * (a * b) + a * y
    BY SMT
  <2>2. a * (b * q2 + r2) = q2 * (a * b) + a * r2
    BY <1>2, <2>1
  <2>3. q2 * (a * b) \in Int /\ a * r2 \in Int
    BY <1>2, <1>3
  <2>4. n = (q2 * (a * b) + a * r2) + r
    BY <1>1, <1>2, <2>2
  <2> QED
    BY <1>1, <2>3, <2>4
<1>6. n \div (a * b) = q2
  <2> DEFINE ab == a * b
  <2>1. ab \in Nat \ {0} /\ rest < ab /\ n = q2 * ab + rest
    BY <1>3, <1>4, <1>5
  <2> HIDE DEF ab, rest
  <2>2. n \div ab = q2
    BY <1>2, <1>4, <2>1, DivisionIs
  <2> QED
    BY <2>2 DEF ab
<1> QED
  BY <1>3, <1>6 DEF q2, q

(* Bounds of a quotient.                                                   *)
LEMMA QuotientBounds ==
    ASSUME NEW n \in Int, NEW k \in Nat \ {0}, NEW l \in Nat \ {0}, NEW u \in Int
    PROVE  /\ -u * k <= n /\ n < u * k <=> -u <= n \div k /\ n \div k < u
           /\ -l <= n /\ n < l => -l <= n \div k /\ n \div k < l
<1> DEFINE q == n \div k
           r == n % k
<1>1. q \in Int /\ r \in Int /\ n = k * q + r /\ 0 <= r /\ r < k
  BY IntegerDivision
<1> HIDE DEF q, r
<1>2. \A x, y \in Int : /\ x * k \in Int /\ k * x = x * k
                        /\ x <= y => x * k <= y * k
                        /\ x < y => x * k + k <= y * k
  BY SMT
<1>3. -u * k <= n /\ n < u * k <=> -u <= q /\ q < u
  <2>1. -u \in Int /\ q * k \in Int /\ k * q = q * k /\ u * k \in Int /\ (-u) * k \in Int
    BY <1>1, <1>2
  <2>2. /\ -u <= q => (-u) * k <= q * k
        /\ q < -u => q * k + k <= (-u) * k
    BY <1>1, <1>2, <2>1
  <2>3. /\ u <= q => u * k <= q * k
        /\ q < u => q * k + k <= u * k
    BY <1>1, <1>2
  <2> QED
    BY <1>1, <2>1, <2>2, <2>3
<1>4. -l <= n /\ n < l => -l <= q /\ q < l
  <2>1. -l \in Int /\ q * k \in Int /\ k * q = q * k /\ l * k \in Int /\ (-l) * k \in Int
    BY <1>1, <1>2
  <2>2. l <= l * k /\ (-l) * k <= -l
    BY SMT
  <2>3. q < -l => q * k + k <= (-l) * k
    BY <1>1, <1>2, <2>1
  <2>4. l <= q => l * k <= q * k
    BY <1>1, <1>2
  <2> QED
    BY <1>1, <2>1, <2>2, <2>3, <2>4
<1> QED
  BY <1>3, <1>4 DEF q

-----------------------------------------------------------------------------
(* Shifts and powers.                                                      *)

LEMMA PowerOfTwo ==
    ASSUME NEW s \in Nat
    PROVE  Power(2, s) \in Nat \ {0}
<1>1. 2 \in Nat \ {0}
  OBVIOUS
<1> QED
  BY <1>1, PowerTyped

LEMMA ProductsTyped ==
    \A a, b \in Int : a * b \in Int
  BY SMT

(* operator<< for a shift that is not negative: nothing is cut off.        *)
LEMMA ShiftLeftIs ==
    ASSUME NEW x, Canonical(x), NEW s \in Nat
    PROVE  ShiftLeft(x, s).v = x.v * Power(2, s) /\ Canonical(ShiftLeft(x, s))
<1> DEFINE p == Power(2, s)
<1>1. p \in Nat \ {0}
  BY PowerOfTwo
<1>2. x.v \in Int
  BY DEF Canonical, Object
<1>3. x.v * p \in Int
  BY <1>1, <1>2, ProductsTyped
<1> HIDE DEF p
<1>4. CASE x.small /\ ~(s >= HalfBits - 1 \/ x.v >= Word \/ x.v <= -Word)
  <2>1. HalfBits - 1 \in Nat /\ s <= HalfBits - 1
    BY <1>4, WidthAssumption
  <2> DEFINE top == Power(2, HalfBits - 1)
  <2>2. top \in Nat \ {0} /\ p <= top
    BY <2>1, PowerOfTwo, PowerGrows DEF p
  <2>3. Word * top = Limit /\ Word \in Nat \ {0} /\ Limit \in Nat
    BY LimitIs
  <2> HIDE DEF top
  <2>4. \A a, b, c, d \in Nat : a <= b /\ c <= d => a * c <= b * d /\ a * c \in Nat
    <3>1. ASSUME NEW a \in Nat, NEW b \in Nat, NEW c \in Nat, NEW d \in Nat, a <= b, c <= d
          PROVE  a * c <= b * d
      <4>1. a * c <= b * c
        BY <3>1, SMT
      <4>2. b * c <= b * d
        BY <3>1, SMT
      <4>3. a * c \in Nat /\ b * c \in Nat /\ b * d \in Nat
        BY SMT
      <4> QED
        BY <4>1, <4>2, <4>3
    <3>2. \A a, c \in Nat : a * c \in Nat
      BY SMT
    <3> QED
      BY <3>1, <3>2
  <2>5. -Word < x.v /\ x.v < Word
    BY <1>2, <1>4, <2>3
  <2>6. ASSUME x.v >= 0 PROVE Fits(x.v * p)
    <3>1. x.v \in Nat /\ x.v + 1 \in Nat /\ x.v + 1 <= Word
      BY <1>2, <2>3, <2>5, <2>6
    <3>2. (x.v + 1) * p <= Word * top /\ x.v * p \in Nat
      BY <1>1, <2>2, <2>3, <2>4, <3>1
    <3>3. (x.v + 1) * p = x.v * p + p
      BY <1>1, <1>2, SMT
    <3> DEFINE a == x.v * p
    <3>4. a \in Nat /\ a + p <= Limit
      BY <2>3, <3>2, <3>3
    <3> HIDE DEF a
    <3>5. Fits(a)
      BY <1>1, <2>3, <3>4 DEF Fits
    <3> QED
      BY <3>5 DEF a
  <2>7. ASSUME x.v < 0 PROVE Fits(x.v * p)
    <3>1. -x.v \in Nat /\ -x.v <= Word
      BY <1>2, <2>3, <2>5, <2>7
    <3>2. (-x.v) * p <= Word * top /\ (-x.v) * p \in Nat
      BY <1>1, <2>2, <2>3, <2>4, <3>1
    <3>3. (-x.v) * p = -(x.v * p)
      BY <1>1, <1>2, SMT
    <3> DEFINE a == x.v * p
    <3>4. a \in Int /\ -a \in Nat /\ -a <= Limit
      BY <1>3, <2>3, <3>2, <3>3
    <3> HIDE DEF a
    <3>5. Fits(a)
      BY <3>4, LimitAssumption DEF Fits
    <3> QED
      BY <3>5 DEF a
  <2>8. Fits(x.v * p)
    <3>1. x.v >= 0 \/ x.v < 0
      BY <1>2
    <3> QED
      BY <2>6, <2>7, <3>1, Zenon
  <2>9. Wrap(x.v * p) = x.v * p
    BY <1>3, <2>8, WrapFits
  <2>10. ShiftLeft(x, s) = Small(x.v * p)
    BY <1>4, <2>9 DEF ShiftLeft, p
  <2> QED
    BY <1>3, <2>8, <2>10 DEF p, Small, Canonical, Object
<1>5. CASE ~(x.small /\ ~(s >= HalfBits - 1 \/ x.v >= Word \/ x.v <= -Word))
  <2>1. ShiftLeft(x, s) = Yield(x.v * p)
    BY <1>5 DEF ShiftLeft, HostShiftLeft, p
  <2> QED
    BY <1>3, <2>1, YieldIsCanonical DEF p
<1> QED
  BY <1>4, <1>5

(* operator>> for a shift that is not negative rounds down, for an Int128  *)
(* as for the host, also by more bits than there are.                      *)
LEMMA ShiftRightIs ==
    ASSUME NEW x, Canonical(x), NEW s \in Nat
    PROVE  ShiftRight(x, s).v = x.v \div Power(2, s) /\ Canonical(ShiftRight(x, s))
<1> DEFINE p == Power(2, s)
<1>1. p \in Nat \ {0}
  BY PowerOfTwo
<1>2. x.v \in Int
  BY DEF Canonical, Object
<1>3. Limit \in Nat \ {0} /\ Limit >= 2
  BY LimitIs
<1> HIDE DEF p
<1>4. x.v \div p \in Int
  BY <1>1, <1>2, IntegerDivision
<1>5. CASE x.small /\ s >= 2 * HalfBits
  <2>1. Power(2, 2 * HalfBits) <= p /\ Power(2, 2 * HalfBits) = 2 * Limit
    <3>1. 2 * HalfBits \in Nat
      BY WidthAssumption
    <3> QED
      BY <1>5, <3>1, PowerGrows, LimitIs DEF p
  <2>2. -Limit <= x.v /\ x.v < Limit
    BY <1>5 DEF Canonical, Fits
  <2>3. x.v >= 0 => x.v \div p = 0
    <3>1. CASE x.v >= 0
      <4>1. (0 * p + x.v) \div p = 0
        BY <1>1, <1>2, <1>3, <2>1, <2>2, <3>1, DivisionIs
      <4>2. 0 * p + x.v = x.v
        BY <1>1, <1>2
      <4> QED
        BY <4>1, <4>2
    <3> QED
      BY <3>1
  <2>4. ~(x.v >= 0) => x.v \div p = -1
    <3>1. CASE ~(x.v >= 0)
      <4>1. x.v + p \in Int /\ 0 <= x.v + p /\ x.v + p < p
        BY <1>1, <1>2, <1>3, <2>1, <2>2, <3>1
      <4>2. ((-1) * p + (x.v + p)) \div p = -1
        BY <1>1, <4>1, DivisionIs
      <4>3. (-1) * p + (x.v + p) = x.v
        BY <1>1, <1>2
      <4> QED
        BY <4>2, <4>3
    <3> QED
      BY <3>1
  <2>5. ShiftRight(x, s) = Small(IF x.v >= 0 THEN 0 ELSE -1)
    BY <1>5 DEF ShiftRight
  <2>6. ShiftRight(x, s) = Small(x.v \div p)
    BY <2>3, <2>4, <2>5
  <2>7. Fits(x.v \div p)
    BY <1>3, <2>3, <2>4 DEF Fits
  <2> QED
    BY <1>4, <2>6, <2>7 DEF p, Small, Canonical, Object
<1>6. CASE x.small /\ ~(s >= 2 * HalfBits)
  <2>1. -Limit <= x.v /\ x.v < Limit
    BY <1>6 DEF Canonical, Fits
  <2>2. Fits(x.v \div p)
    BY <1>1, <1>2, <1>3, <2>1, QuotientBounds DEF Fits
  <2>3. ShiftRight(x, s) = Small(x.v \div p)
    BY <1>6 DEF ShiftRight, p
  <2> QED
    BY <1>4, <2>2, <2>3 DEF p, Small, Canonical, Object
<1>7. CASE ~x.small
  <2>1. ShiftRight(x, s) = Yield(x.v \div p)
    BY <1>7 DEF ShiftRight, HostShiftRight, p
  <2> QED
    BY <1>4, <2>1, YieldIsCanonical DEF p
<1> QED
  BY <1>5, <1>6, <1>7

(* Any int may be shifted by: also the one that has no negative, which is  *)
(* shifted by in two steps.                                                *)
THEOREM ShiftsAreExact ==
    ASSUME NEW x, Canonical(x), NEW s \in Int
    PROVE  /\ Canonical(Shl(x, s)) /\ Canonical(Shr(x, s))
           /\ s >= 0 => /\ Shl(x, s).v = x.v * Power(2, s)
                        /\ Shr(x, s).v = x.v \div Power(2, s)
           /\ s < 0 => /\ Shl(x, s).v = x.v \div Power(2, -s)
                       /\ Shr(x, s).v = x.v * Power(2, -s)
<1>1. CASE s >= 0
  <2>1. s \in Nat
    BY <1>1
  <2>2. Shl(x, s) = ShiftLeft(x, s) /\ Shr(x, s) = ShiftRight(x, s)
    BY <1>1 DEF Shl, Shr
  <2> QED
    BY <1>1, <2>1, <2>2, ShiftLeftIs, ShiftRightIs
<1>2. CASE s < 0 /\ s # -IntMax - 1
  <2>1. -s \in Nat /\ ~(s >= 0)
    BY <1>2
  <2>2. Shl(x, s) = ShiftRight(x, -s) /\ Shr(x, s) = ShiftLeft(x, -s)
    BY <1>2, <2>1 DEF Shl, Shr
  <2> QED
    BY <1>2, <2>1, <2>2, ShiftLeftIs, ShiftRightIs
<1>3. CASE s < 0 /\ s = -IntMax - 1
  <2>1. IntMax \in Nat /\ -s = IntMax + 1 /\ ~(s >= 0) /\ 1 \in Nat
    BY <1>3, WidthAssumption
  <2>2. /\ Shl(x, s) = ShiftRight(ShiftRight(x, IntMax), 1)
        /\ Shr(x, s) = ShiftLeft(ShiftLeft(x, IntMax), 1)
    BY <1>3, <2>1, Zenon DEF Shl, Shr
  <2> DEFINE p == Power(2, IntMax)
             l == ShiftLeft(x, IntMax)
             r == ShiftRight(x, IntMax)
  <2>3. x.v \in Int
    BY DEF Canonical, Object
  <2>4. p \in Nat \ {0}
    BY <2>1, PowerOfTwo
  <2>5. Power(2, -s) = 2 * p /\ Power(2, 1) = 2
    <3>1. Power(2, IntMax + 1) = 2 * Power(2, IntMax)
      BY <2>1, PowerSteps
    <3>2. Power(2, 0) = 1 /\ Power(2, 0 + 1) = 2 * Power(2, 0)
      BY PowerSteps
    <3> QED
      BY <2>1, <3>1, <3>2
  <2>6. l.v = x.v * p /\ Canonical(l) /\ r.v = x.v \div p /\ Canonical(r)
    BY <2>1, ShiftLeftIs, ShiftRightIs
  <2>7. /\ ShiftLeft(l, 1).v = l.v * Power(2, 1) /\ Canonical(ShiftLeft(l, 1))
        /\ ShiftRight(r, 1).v = r.v \div Power(2, 1) /\ Canonical(ShiftRight(r, 1))
    <3> HIDE DEF l, r
    <3> QED
      BY <2>1, <2>6, ShiftLeftIs, ShiftRightIs
  <2>8. (x.v * p) * 2 = x.v * (2 * p)
    <3>1. \A a, b \in Int : (a * b) * 2 = a * (2 * b)
      BY SMT
    <3> HIDE DEF p
    <3> QED
      BY <2>3, <2>4, <3>1
  <2>9. (x.v \div p) \div 2 = x.v \div (2 * p)
    <3>1. 2 \in Nat \ {0}
      OBVIOUS
    <3> HIDE DEF p
    <3>2. (x.v \div p) \div 2 = x.v \div (p * 2) /\ p * 2 = 2 * p
      BY <2>3, <2>4, <3>1, DivisionTwice
    <3> QED
      BY <3>2
  <2> HIDE DEF p, l, r
  <2>10. /\ Shl(x, s) = ShiftRight(r, 1) /\ Shr(x, s) = ShiftLeft(l, 1)
    BY <2>2 DEF l, r
  <2>11. /\ Shl(x, s).v = x.v \div Power(2, -s)
         /\ Shr(x, s).v = x.v * Power(2, -s)
    BY <2>5, <2>6, <2>7, <2>8, <2>9, <2>10, Zenon
  <2> QED
    BY <1>3, <2>1, <2>7, <2>10, <2>11, Zenon
<1> QED
  BY <1>1, <1>2, <1>3

(* pow and pow2, of any integer to any power that it is asked for.         *)
LEMMA PowerOfZero ==
    ASSUME NEW n \in Nat, n # 0
    PROVE  Power(0, n) = 0
<1>1. n - 1 \in Nat /\ n = (n - 1) + 1
  OBVIOUS
<1>2. Power(0, (n - 1) + 1) = 0 * Power(0, n - 1)
  BY <1>1, PowerSteps
<1>3. Power(0, n - 1) \in Int
  BY <1>1, PowerTyped
<1> QED
  BY <1>1, <1>2, <1>3

(* Powers of any integer, also those that pow computes without the host,   *)
(* and powers of two.                                                      *)
THEOREM PowersStayExact ==
    ASSUME NEW x, Canonical(x), NEW e \in Int
    PROVE  /\ Canonical(Pow(x, e)) /\ Canonical(Pow2(e))
           /\ e >= 0 => Pow2(e).v = Power(2, e)
           /\ PowerDefined(x, e) /\ e >= 0 => Pow(x, e).v = Power(x.v, e)
<1>1. Limit \in Nat /\ Limit >= 2 /\ x.v \in Int
  BY LimitIs DEF Canonical, Object
<1>2. Canonical(Small(0)) /\ Canonical(Small(1)) /\ Small(1).v = 1 /\ Small(0).v = 0
  BY <1>1 DEF Canonical, Small, Object, Fits
<1>3. CASE e < 0
  <2>1. Pow(x, e) = Small(0) /\ Pow2(e) = Small(0) /\ ~(e >= 0)
    BY <1>3 DEF Pow, Pow2
  <2> QED
    BY <1>2, <2>1
<1>4. CASE e = 0
  <2>1. /\ Pow(x, e) = Small(1) /\ Power(x.v, e) = 1
        /\ Power(2, e) = 1 /\ Pow2(e) = Yield(1)
    BY <1>4, PowerSteps DEF Pow, Pow2
  <2> QED
    BY <1>2, <2>1, YieldIsCanonical
<1>5. CASE e > 0
  <2>1. e \in Nat /\ e # 0 /\ ~(e < 0)
    BY <1>5
  <2>2. Power(x.v, e) \in Int /\ Power(2, e) \in Int
    <3>1. 2 \in Int
      OBVIOUS
    <3> QED
      BY <1>1, <2>1, <3>1, PowerTyped
  <2>3. Pow2(e) = Yield(Power(2, e))
    BY <2>1 DEF Pow2
  <2>4. Pow(x, e) = Yield(IF x.v = 0 THEN 0 ELSE Power(x.v, e))
    BY <2>1 DEF Pow, HostPower
  <2>5. x.v = 0 => Power(x.v, e) = 0
    BY <2>1, PowerOfZero
  <2>6. Pow(x, e) = Yield(Power(x.v, e))
    BY <2>4, <2>5
  <2> QED
    BY <2>2, <2>3, <2>6, YieldIsCanonical
<1> QED
  BY <1>3, <1>4, <1>5

-----------------------------------------------------------------------------
(* Bits.                                                                   *)

LEMMA Parity ==
    /\ \A c, d \in Int : (2 * c + d) % 2 = d % 2
    /\ \A d \in Int : (-d - 1) % 2 = 1 <=> ~(d % 2 = 1)
  BY SMT

(* Bits of a number that is put together from two.                         *)
LEMMA BitOfParts ==
    ASSUME NEW k \in Nat, NEW q \in Int, NEW r \in Int, 0 <= r, r < Power(2, k), NEW i \in Nat
    PROVE  /\ i < k => (Bit(q * Power(2, k) + r, i) <=> Bit(r, i))
           /\ i >= k => (Bit(q * Power(2, k) + r, i) <=> Bit(q, i - k))
<1> DEFINE p == Power(2, k)
           n == q * p + r
<1>1. p \in Nat \ {0}
  BY PowerOfTwo
<1>2. n \in Int /\ n \div p = q
  <2> HIDE DEF p
  <2>1. q * p \in Int
    BY <1>1, ProductsTyped
  <2>2. r < p
    BY DEF p
  <2> QED
    BY <1>1, <2>1, <2>2, DivisionIs
<1> HIDE DEF n, p
<1>3. ASSUME i >= k PROVE Bit(n, i) <=> Bit(q, i - k)
  <2>1. i - k \in Nat /\ k + (i - k) = i
    BY <1>3
  <2> DEFINE t == Power(2, i - k)
  <2>2. t \in Nat \ {0}
    BY <2>1, PowerOfTwo
  <2>3. Power(2, i) = p * t
    <3>1. 2 \in Nat \ {0}
      OBVIOUS
    <3>2. Power(2, k + (i - k)) = Power(2, k) * Power(2, i - k)
      BY <2>1, <3>1, PowerSum
    <3> QED
      BY <2>1, <3>2 DEF p
  <2> HIDE DEF t
  <2>4. (n \div p) \div t = n \div (p * t)
    BY <1>1, <1>2, <2>2, DivisionTwice, Zenon
  <2>5. n \div Power(2, i) = q \div t
    BY <1>2, <2>3, <2>4
  <2> QED
    BY <2>5 DEF Bit, t
<1>4. ASSUME i < k PROVE Bit(n, i) <=> Bit(r, i)
  <2>1. k - i - 1 \in Nat /\ (i + (k - i - 1)) + 1 = k /\ i + (k - i - 1) \in Nat
    BY <1>4
  <2> DEFINE u == Power(2, i)
             t == Power(2, k - i - 1)
             d == r \div u
             e == r % u
  <2>2. u \in Nat \ {0} /\ t \in Nat \ {0}
    BY <2>1, PowerOfTwo
  <2>3. p = 2 * (u * t)
    <3>1. 2 \in Nat \ {0}
      OBVIOUS
    <3>2. Power(2, i + (k - i - 1)) = Power(2, i) * Power(2, k - i - 1)
      BY <2>1, <3>1, PowerSum
    <3>3. Power(2, (i + (k - i - 1)) + 1) = 2 * Power(2, i + (k - i - 1))
      BY <2>1, PowerSteps
    <3> QED
      BY <2>1, <3>2, <3>3 DEF p
  <2> HIDE DEF u, t
  <2>4. d \in Int /\ e \in Int /\ r = u * d + e /\ 0 <= e /\ e < u
    BY <2>2, IntegerDivision
  <2> HIDE DEF d, e
  <2>5. n = (2 * (q * t) + d) * u + e
    <3>1. \A a, b, c \in Int : a * (2 * (b * c)) = (2 * (a * c)) * b
      BY SMT
    <3>2. \A a, b, c \in Int : (2 * a + b) * c = (2 * a) * c + c * b
      BY SMT
    <3>3. q * t \in Int
      BY <2>2, ProductsTyped
    <3>4. (2 * (q * t) + d) * u = (2 * (q * t)) * u + u * d
      BY <2>2, <2>4, <3>2, <3>3
    <3>5. q * p = (2 * (q * t)) * u
      BY <2>2, <2>3, <3>1
    <3>6. (2 * (q * t)) * u \in Int /\ u * d \in Int
      BY <2>2, <2>4, <3>3, ProductsTyped
    <3>7. n = q * p + (u * d + e)
      BY <2>4 DEF n
    <3> QED
      BY <2>4, <3>4, <3>5, <3>6, <3>7
  <2> DEFINE c == q * t
  <2>6. c \in Int
    BY <2>2, ProductsTyped
  <2> HIDE DEF c
  <2>7. n \div u = 2 * c + d
    <3>1. 2 * c + d \in Int
      BY <2>4, <2>6
    <3> DEFINE f == 2 * c + d
    <3>2. n = f * u + e /\ f \in Int
      BY <2>5, <3>1 DEF c
    <3> HIDE DEF f
    <3>3. n \div u = f
      BY <2>2, <2>4, <3>2, DivisionIs
    <3> QED
      BY <3>3 DEF f
  <2>8. (n \div u) % 2 = d % 2
    BY <2>4, <2>6, <2>7, Parity
  <2> QED
    BY <2>8 DEF Bit, u, d
<1> QED
  BY <1>3, <1>4 DEF n, p

(* A 0 has no bits, -1 has them all.                                       *)
LEMMA BitsOfSigns ==
    ASSUME NEW i \in Nat
    PROVE  ~Bit(0, i) /\ Bit(-1, i)
<1> DEFINE p == Power(2, i)
<1>1. p \in Nat \ {0}
  BY PowerOfTwo
<1> HIDE DEF p
<1>2. (0 * p + 0) \div p = 0
  BY <1>1, DivisionIs
<1>3. ((-1) * p + (p - 1)) \div p = -1
  BY <1>1, DivisionIs
<1>4. 0 * p + 0 = 0 /\ (-1) * p + (p - 1) = -1
  BY <1>1
<1>5. 0 \div p = 0 /\ (-1) \div p = -1
  BY <1>2, <1>3, <1>4
<1>6. 0 % 2 = 0 /\ (-1) % 2 = 1
  <2>1. \A d \in Int : (d = 0 => d % 2 = 0) /\ (d = -1 => d % 2 = 1)
    BY SMT
  <2>2. 0 \in Int /\ -1 \in Int
    OBVIOUS
  <2> QED
    BY <2>1, <2>2
<1> QED
  BY <1>5, <1>6 DEF Bit, p

(* An integer of the width w in two's complement.                          *)
OfWidth(n, w) == -Power(2, w - 1) <= n /\ n < Power(2, w - 1)

(* Beyond its width every bit is the sign.                                 *)
LEMMA BitsBeyond ==
    ASSUME NEW n \in Int, NEW w \in Nat, w >= 1, OfWidth(n, w), NEW i \in Nat, i >= w - 1
    PROVE  Bit(n, i) <=> Bit(n, w - 1)
<1> DEFINE p == Power(2, w - 1)
           q == n \div p
           r == n % p
<1>1. w - 1 \in Nat
  OBVIOUS
<1>2. p \in Nat \ {0}
  BY <1>1, PowerOfTwo
<1>3. -p <= n /\ n < p
  BY DEF OfWidth
<1>4. q \in Int /\ r \in Int /\ n = q * p + r /\ 0 <= r /\ r < p
  <2> HIDE DEF p
  <2>1. q \in Int /\ p * q = q * p
    BY <1>2, IntegerDivision
  <2> QED
    BY <1>2, <2>1, IntegerDivision
<1>5. q = 0 \/ q = -1
  <2> HIDE DEF p
  <2>1. -1 * p <= n /\ n < 1 * p
    BY <1>2, <1>3
  <2>2. \A u \in Int : -u * p <= n /\ n < u * p => -u <= q /\ q < u
    BY <1>2, QuotientBounds
  <2>3. 1 \in Int
    OBVIOUS
  <2>4. -1 <= q /\ q < 1
    BY <2>1, <2>2, <2>3
  <2> QED
    BY <1>4, <2>4
<1> HIDE DEF q, r
<1>6. \A j \in Nat : j >= w - 1 => (Bit(n, j) <=> Bit(q, j - (w - 1)))
  BY <1>1, <1>4, BitOfParts
<1>7. i - (w - 1) \in Nat /\ (w - 1) - (w - 1) = 0 /\ 0 \in Nat /\ w - 1 >= w - 1
  BY <1>1
<1>8. /\ Bit(n, i) <=> Bit(q, i - (w - 1))
      /\ Bit(n, w - 1) <=> Bit(q, 0)
  BY <1>1, <1>6, <1>7
<1> QED
  BY <1>5, <1>7, <1>8, BitsOfSigns

-----------------------------------------------------------------------------

Weight(op, a, b, i) == IF Combined(op, Bit(a, i), Bit(b, i)) THEN Power(2, i) ELSE 0

(* The functions that Bitwise takes its value from.                        *)
Lows(op, a, b, n, g) ==
    g = [k \in 0 .. n |-> IF k = 0 THEN 0 ELSE g[k - 1] + Weight(op, a, b, k - 1)]

LEMMA LowsExist == \A op, a, b : \A n \in Nat : \E g : Lows(op, a, b, n, g)
<1> SUFFICES ASSUME NEW op, NEW a, NEW b PROVE \A n \in Nat : \E g : Lows(op, a, b, n, g)
  OBVIOUS
<1> DEFINE S == {n \in Nat : \E g : Lows(op, a, b, n, g)}
<1>1. 0 \in S
  <2>1. Lows(op, a, b, 0, [k \in 0 .. 0 |-> 0])
    BY DEF Lows
  <2> QED
    BY <2>1
<1>2. ASSUME NEW n \in Nat, n \in S PROVE n + 1 \in S
  <2>1. PICK g : Lows(op, a, b, n, g)
    BY <1>2
  <2> DEFINE e == [k \in 0 .. n + 1 |-> IF k = n + 1 THEN g[n] + Weight(op, a, b, n) ELSE g[k]]
  <2>2. ASSUME NEW k \in 0 .. n + 1
        PROVE  e[k] = IF k = 0 THEN 0 ELSE e[k - 1] + Weight(op, a, b, k - 1)
    <3>1. CASE k = n + 1
      <4>1. k - 1 = n /\ n \in 0 .. n + 1 /\ n # n + 1 /\ k # 0
        BY <3>1
      <4>2. e[k] = g[n] + Weight(op, a, b, n) /\ e[n] = g[n]
        BY <3>1, <4>1
      <4> QED
        BY <4>1, <4>2, Zenon
    <3>2. CASE k # n + 1 /\ k # 0
      <4>1. k \in 0 .. n /\ k - 1 \in 0 .. n + 1 /\ k - 1 # n + 1
        BY <3>2
      <4>2. e[k] = g[k] /\ e[k - 1] = g[k - 1]
        BY <3>2, <4>1
      <4>3. g[k] = g[k - 1] + Weight(op, a, b, k - 1)
        BY <2>1, <3>2, <4>1 DEF Lows
      <4> QED
        BY <3>2, <4>2, <4>3, Zenon
    <3>3. CASE k = 0
      <4>1. 0 \in 0 .. n /\ 0 # n + 1 /\ 0 \in 0 .. n + 1
        OBVIOUS
      <4>2. e[0] = g[0] /\ g[0] = 0
        BY <2>1, <4>1 DEF Lows
      <4> QED
        BY <3>3, <4>2
    <3> QED
      BY <3>1, <3>2, <3>3
  <2>3. Lows(op, a, b, n + 1, e)
    BY <2>2 DEF Lows
  <2> QED
    BY <2>3
<1> HIDE DEF S
<1>3. Nat \subseteq S
  BY <1>1, <1>2, SetInduction
<1> QED
  BY <1>3 DEF S

LEMMA WeightIs ==
    ASSUME NEW op, NEW a, NEW b, NEW i \in Nat
    PROVE  \E c \in {0, 1} :
               /\ Weight(op, a, b, i) = c * Power(2, i)
               /\ Combined(op, Bit(a, i), Bit(b, i)) <=> c = 1
<1>1. Power(2, i) \in Int
  BY PowerOfTwo
<1>2. 1 * Power(2, i) = Power(2, i) /\ 0 * Power(2, i) = 0
  BY <1>1
<1>3. CASE Combined(op, Bit(a, i), Bit(b, i))
  BY <1>2, <1>3, Zenon DEF Weight
<1>4. CASE ~Combined(op, Bit(a, i), Bit(b, i))
  <2>1. Weight(op, a, b, i) = 0 /\ 0 # 1
    BY <1>4 DEF Weight
  <2> QED
    BY <1>2, <1>4, <2>1, Zenon
<1> QED
  BY <1>3, <1>4

(* The bits below k, put together.                                         *)
LEMMA LowBits ==
    ASSUME NEW op, NEW a, NEW b, NEW n \in Nat, NEW g, Lows(op, a, b, n, g)
    PROVE  \A k \in 0 .. n :
               /\ g[k] \in Int /\ 0 <= g[k] /\ g[k] < Power(2, k)
               /\ \A i \in Nat : i < k => (Bit(g[k], i) <=> Combined(op, Bit(a, i), Bit(b, i)))
<1> DEFINE P(k) == /\ g[k] \in Int /\ 0 <= g[k] /\ g[k] < Power(2, k)
                   /\ \A i \in Nat : i < k => (Bit(g[k], i) <=> Combined(op, Bit(a, i), Bit(b, i)))
           S == {k \in Nat : k <= n => P(k)}
<1>1. 0 \in S
  <2>1. g[0] = 0 /\ Power(2, 0) = 1
    BY PowerSteps DEF Lows
  <2> QED
    BY <2>1
<1>2. ASSUME NEW k \in Nat, k \in S, k + 1 <= n PROVE P(k + 1)
  <2>1. k <= n /\ P(k)
    BY <1>2
  <2>2. PICK c \in {0, 1} : /\ Weight(op, a, b, k) = c * Power(2, k)
                            /\ Combined(op, Bit(a, k), Bit(b, k)) <=> c = 1
    BY WeightIs
  <2>3. g[k + 1] = g[k] + Weight(op, a, b, k)
    <3>1. k + 1 \in 0 .. n /\ (k + 1) - 1 = k /\ k + 1 # 0
      BY <1>2
    <3>2. g[k + 1] = IF k + 1 = 0 THEN 0 ELSE g[(k + 1) - 1] + Weight(op, a, b, (k + 1) - 1)
      BY <3>1, Zenon DEF Lows
    <3> QED
      BY <3>1, <3>2, Zenon
  <2> DEFINE p == Power(2, k)
             l == g[k]
  <2>4. p \in Nat \ {0} /\ Power(2, k + 1) = 2 * p
    BY PowerOfTwo, PowerSteps
  <2>5. l \in Int /\ 0 <= l /\ l < p
    BY <2>1
  <2>6. g[k + 1] = c * p + l
    <3>1. g[k + 1] = l + c * p
      BY <2>2, <2>3
    <3> HIDE DEF p, l
    <3> QED
      BY <2>2, <2>4, <2>5, <3>1
  <2>7. g[k + 1] \in Int /\ 0 <= g[k + 1] /\ g[k + 1] < Power(2, k + 1)
    <3> HIDE DEF p, l
    <3> QED
      BY <2>2, <2>4, <2>5, <2>6
  <2>8. ASSUME NEW i \in Nat, i < k + 1
        PROVE  Bit(g[k + 1], i) <=> Combined(op, Bit(a, i), Bit(b, i))
    <3>1. CASE i < k
      <4>1. c \in Int
        BY <2>2
      <4>2. Bit(c * Power(2, k) + g[k], i) <=> Bit(g[k], i)
        BY <2>5, <3>1, <4>1, BitOfParts
      <4>3. Bit(g[k], i) <=> Combined(op, Bit(a, i), Bit(b, i))
        BY <2>1, <3>1
      <4> QED
        BY <2>6, <4>2, <4>3, Zenon
    <3>2. CASE ~(i < k)
      <4>1. i = k /\ i >= k /\ c \in Int /\ i - k = 0
        BY <2>2, <2>8, <3>2
      <4>2. Bit(c * Power(2, k) + g[k], i) <=> Bit(c, i - k)
        BY <2>5, <4>1, BitOfParts
      <4>3. Bit(c, 0) <=> c = 1
        <5>1. Power(2, 0) = 1
          BY PowerSteps
        <5>2. (0 \div 1) % 2 = 0 /\ (1 \div 1) % 2 = 1
          BY SMT
        <5> QED
          BY <2>2, <5>1, <5>2 DEF Bit
      <4>4. Bit(g[k + 1], i) <=> c = 1
        BY <2>6, <4>1, <4>2, <4>3, Zenon
      <4>5. Combined(op, Bit(a, i), Bit(b, i)) <=> c = 1
        BY <2>2, <4>1, Zenon
      <4> QED
        BY <4>4, <4>5, Zenon
    <3> QED
      BY <3>1, <3>2
  <2> QED
    BY <2>7, <2>8
<1>3. ASSUME NEW k \in Nat, k \in S PROVE k + 1 \in S
  BY <1>2, <1>3
<1> HIDE DEF S
<1>4. Nat \subseteq S
  BY <1>1, <1>3, SetInduction
<1> QED
  BY <1>4 DEF S

(* Bitwise, of integers of the width: every bit of the result, and its     *)
(* width.                                                                  *)
LEMMA BitwiseIs ==
    ASSUME NEW op, NEW a \in Int, NEW b \in Int, NEW w \in Nat, w >= 1,
           OfWidth(a, w), OfWidth(b, w)
    PROVE  /\ Bitwise(op, a, b, w) \in Int
           /\ OfWidth(Bitwise(op, a, b, w), w)
           /\ \A i \in Nat :
                Bit(Bitwise(op, a, b, w), i) <=> Combined(op, Bit(a, i), Bit(b, i))
<1> DEFINE g == CHOOSE g : Lows(op, a, b, w - 1, g)
           z == Bitwise(op, a, b, w)
           p == Power(2, w - 1)
<1>1. w - 1 \in Nat /\ w - 1 \in 0 .. w - 1
  OBVIOUS
<1>2. Lows(op, a, b, w - 1, g)
  BY <1>1, LowsExist
<1>3. z = g[w - 1] - Weight(op, a, b, w - 1)
  BY DEF Bitwise, Lows, Weight
<1> HIDE DEF g, z
<1>4. /\ g[w - 1] \in Int /\ 0 <= g[w - 1] /\ g[w - 1] < p
      /\ \A i \in Nat :
           i < w - 1 => (Bit(g[w - 1], i) <=> Combined(op, Bit(a, i), Bit(b, i)))
  BY <1>1, <1>2, LowBits
<1>5. PICK c \in {0, 1} : /\ Weight(op, a, b, w - 1) = c * Power(2, w - 1)
                          /\ Combined(op, Bit(a, w - 1), Bit(b, w - 1)) <=> c = 1
  BY <1>1, WeightIs
<1>6. p \in Nat \ {0}
  BY <1>1, PowerOfTwo
<1> DEFINE l == g[w - 1]
<1>7. z = (-c) * p + l /\ -c \in Int
  <2>1. z = l - c * p
    BY <1>3, <1>5
  <2> HIDE DEF p, l
  <2>2. l \in Int
    BY <1>4 DEF l
  <2> QED
    BY <1>5, <1>6, <2>1, <2>2
<1>8. z \in Int /\ OfWidth(z, w)
  <2>1. z \in Int /\ -p <= z /\ z < p
    <3>1. l \in Int /\ 0 <= l /\ l < p
      BY <1>4
    <3> HIDE DEF p, l
    <3> QED
      BY <1>5, <1>6, <1>7, <3>1
  <2> QED
    BY <2>1 DEF OfWidth
<1>9. ASSUME NEW i \in Nat, i < w - 1
      PROVE  Bit(z, i) <=> Combined(op, Bit(a, i), Bit(b, i))
  <2>1. Bit((-c) * Power(2, w - 1) + l, i) <=> Bit(l, i)
    <3>1. l \in Int /\ 0 <= l /\ l < Power(2, w - 1)
      BY <1>4
    <3> HIDE DEF l
    <3> QED
      BY <1>1, <1>7, <1>9, <3>1, BitOfParts
  <2>2. Bit(g[w - 1], i) <=> Combined(op, Bit(a, i), Bit(b, i))
    BY <1>4, <1>9
  <2> QED
    BY <1>7, <2>1, <2>2, Zenon
<1>10. ASSUME NEW i \in Nat, i >= w - 1
       PROVE  Bit(z, i) <=> Combined(op, Bit(a, i), Bit(b, i))
  <2>1. Bit((-c) * Power(2, w - 1) + g[w - 1], i) <=> Bit(-c, i - (w - 1))
    BY <1>1, <1>4, <1>7, <1>10, BitOfParts
  <2>2. i - (w - 1) \in Nat
    BY <1>10
  <2>3. Bit(-c, i - (w - 1)) <=> c = 1
    <3>1. CASE c = 0
      <4>1. -c = 0 /\ ~(c = 1)
        <5>1. \A d \in Int : d >= 0 /\ d <= 0 => -d = 0 /\ ~(d = 1)
          BY SMT
        <5>2. c \in Int
          BY <1>5
        <5>3. c >= 0 /\ c <= 0
          BY <3>1
        <5> QED
          BY <5>1, <5>2, <5>3
      <4> QED
        BY <2>2, <4>1, BitsOfSigns
    <3>2. CASE c = 1
      <4>1. -c = -1
        BY <3>2
      <4> QED
        BY <2>2, <3>2, <4>1, BitsOfSigns
    <3> QED
      BY <1>5, <3>1, <3>2
  <2>4. (Bit(a, i) <=> Bit(a, w - 1)) /\ (Bit(b, i) <=> Bit(b, w - 1))
    BY <1>10, BitsBeyond
  <2>5. Bit(a, i) = Bit(a, w - 1) /\ Bit(b, i) = Bit(b, w - 1)
    BY <2>4 DEF Bit
  <2>6. Combined(op, Bit(a, i), Bit(b, i)) <=> c = 1
    BY <1>5, <2>5, Zenon
  <2> QED
    BY <1>7, <2>1, <2>3, <2>6, Zenon
<1>11. \A i \in Nat : i < w - 1 \/ i >= w - 1
  BY <1>1
<1> QED
  BY <1>8, <1>9, <1>10, <1>11 DEF z

LEMMA ComplementBits ==
    ASSUME NEW n \in Int, NEW i \in Nat
    PROVE  Bit(-n - 1, i) <=> ~Bit(n, i)
<1> DEFINE p == Power(2, i)
           q == n \div p
           r == n % p
<1>1. p \in Nat \ {0}
  BY PowerOfTwo
<1> HIDE DEF p
<1>2. q \in Int /\ r \in Int /\ n = p * q + r /\ 0 <= r /\ r < p
  BY <1>1, IntegerDivision
<1> HIDE DEF q, r
<1>3. -n - 1 = (-q - 1) * p + (p - 1 - r)
  <2>1. \A a, b \in Int : (-a - 1) * b = -(b * a) - b
    BY SMT
  <2>2. (-q - 1) * p = -(p * q) - p /\ p * q \in Int
    BY <1>1, <1>2, <2>1, ProductsTyped
  <2> QED
    BY <1>1, <1>2, <2>2
<1>4. (-n - 1) \div p = -q - 1
  <2> DEFINE d == -q - 1
             e == p - 1 - r
  <2>1. d \in Int /\ e \in Int /\ 0 <= e /\ e < p
    BY <1>1, <1>2
  <2>2. -n - 1 = d * p + e
    BY <1>3
  <2> HIDE DEF d, e
  <2>3. (-n - 1) \div p = d
    BY <1>1, <2>1, <2>2, DivisionIs
  <2> QED
    BY <2>3 DEF d
<1>5. (-q - 1) % 2 = 1 <=> ~(q % 2 = 1)
  BY <1>2, Parity
<1> QED
  BY <1>4, <1>5 DEF Bit, p, q

-----------------------------------------------------------------------------
(* Widths, and the bitwise operations.                                     *)

(* How many digits n has in a base, from 1 on.                             *)
LEMMA LengthExists ==
    ASSUME NEW b \in Nat, b >= 2
    PROVE  \A n \in Nat \ {0} : \E k \in 1 .. n : Power(b, k - 1) <= n /\ n < Power(b, k)
<1> DEFINE P(n) == \E k \in 1 .. n : Power(b, k - 1) <= n /\ n < Power(b, k)
           S == {n \in Nat : n # 0 => P(n)}
<1>0. b \in Nat \ {0}
  OBVIOUS
<1>1. 0 \in S
  OBVIOUS
<1>2. ASSUME NEW n \in Nat, n \in S PROVE P(n + 1)
  <2>1. CASE n = 0
    <3>1. Power(b, 0) = 1 /\ Power(b, 1) = b
      <4>1. Power(b, 0) = 1 /\ Power(b, 0 + 1) = b * Power(b, 0)
        BY PowerSteps
      <4> QED
        BY <4>1
    <3>2. 1 \in 1 .. n + 1 /\ 1 - 1 = 0 /\ n + 1 = 1
      BY <2>1
    <3>3. Power(b, 1 - 1) <= n + 1 /\ n + 1 < Power(b, 1)
      BY <3>1, <3>2
    <3> QED
      BY <3>2, <3>3
  <2>2. CASE n # 0
    <3>1. PICK k \in 1 .. n : Power(b, k - 1) <= n /\ n < Power(b, k)
      BY <1>2, <2>2
    <3>2. k \in Nat /\ k - 1 \in Nat /\ (k + 1) - 1 = k
      OBVIOUS
    <3>3. /\ Power(b, k) \in Nat /\ Power(b, k - 1) \in Nat /\ Power(b, k + 1) \in Nat
          /\ Power(b, k + 1) = b * Power(b, k)
      <4>1. k + 1 \in Nat
        BY <3>2
      <4> QED
        BY <1>0, <3>2, <4>1, PowerTyped, PowerSteps
    <3>4. CASE n + 1 < Power(b, k)
      <4>1. k \in 1 .. n + 1 /\ Power(b, k - 1) <= n + 1
        BY <3>1, <3>3
      <4> QED
        BY <3>4, <4>1
    <3>5. CASE ~(n + 1 < Power(b, k))
      <4>1. n + 1 = Power(b, k)
        BY <3>1, <3>3, <3>5
      <4>2. n + 1 < Power(b, k + 1)
        <5>1. \A x \in Nat : x >= 1 => x < b * x
          BY SMT
        <5>2. Power(b, k) >= 1
          BY <3>3, <4>1
        <5> QED
          BY <3>3, <4>1, <5>1, <5>2
      <4>3. k + 1 \in 1 .. n + 1 /\ Power(b, (k + 1) - 1) <= n + 1
        BY <3>2, <3>3, <4>1
      <4> QED
        BY <4>2, <4>3
    <3> QED
      BY <3>4, <3>5
  <2> QED
    BY <2>1, <2>2
<1>3. ASSUME NEW n \in Nat, n \in S PROVE n + 1 \in S
  <2>1. P(n + 1)
    BY <1>2, <1>3
  <2> QED
    BY <2>1
<1> HIDE DEF P
<1>4. S = {n \in Nat : n # 0 => P(n)}
  OBVIOUS
<1> HIDE DEF S
<1>5. Nat \subseteq S
  BY <1>1, <1>3, SetInduction
<1>6. \A n \in Nat \ {0} : P(n)
  BY <1>4, <1>5
<1> QED
  BY <1>6 DEF P

LEMMA BitLengthIs ==
    ASSUME NEW n \in Nat
    PROVE  /\ BitLength(n) \in Nat /\ n < Power(2, BitLength(n))
           /\ n = 0 <=> BitLength(n) = 0
           /\ n # 0 => BitLength(n) \in 1 .. n /\ Power(2, BitLength(n) - 1) <= n
<1>1. CASE n = 0
  <2>1. BitLength(n) = 0 /\ Power(2, 0) = 1
    BY <1>1, PowerSteps DEF BitLength
  <2> QED
    BY <1>1, <2>1
<1>2. CASE n # 0
  <2> DEFINE L == CHOOSE k \in 1 .. n : Power(2, k - 1) <= n /\ n < Power(2, k)
  <2>1. \E k \in 1 .. n : Power(2, k - 1) <= n /\ n < Power(2, k)
    BY <1>2, LengthExists
  <2>2. L \in 1 .. n /\ Power(2, L - 1) <= n /\ n < Power(2, L)
    BY <2>1
  <2>3. BitLength(n) = L
    BY <1>2 DEF BitLength
  <2> HIDE DEF L
  <2> QED
    BY <1>2, <2>2, <2>3
<1> QED
  BY <1>1, <1>2

(* The width of an integer in two's complement: the least one there is.    *)
Least(n, w) ==
    /\ w \in Nat /\ w >= 1
    /\ OfWidth(n, w)
    /\ w > 1 => n < -Power(2, w - 2) \/ Power(2, w - 2) <= n

LEMMA NativeWidthIs ==
    ASSUME NEW n \in Int
    PROVE  Least(n, NativeTwosWidth(n))
<1> DEFINE m == IF n < 0 THEN -n - 1 ELSE n
           L == BitLength(m)
<1>1. m \in Nat
  OBVIOUS
<1>2. n < 0 => m = -n - 1
  OBVIOUS
<1>3. ~(n < 0) => m = n
  OBVIOUS
<1>4. NativeTwosWidth(n) = L + 1
  BY DEF NativeTwosWidth
<1> HIDE DEF m
<1>5. /\ L \in Nat /\ m < Power(2, L)
      /\ m # 0 => L >= 1 /\ Power(2, L - 1) <= m
      /\ m = 0 => L = 0
  BY <1>1, BitLengthIs
<1> HIDE DEF L
<1>6. Power(2, L) \in Nat /\ (L + 1) - 1 = L /\ (L + 1) - 2 = L - 1
  BY <1>5, PowerOfTwo
<1>7. L >= 1 => Power(2, L - 1) \in Nat
  <2>1. L >= 1 => L - 1 \in Nat
    BY <1>5
  <2> QED
    BY <2>1, PowerOfTwo
<1>8. -Power(2, L) <= n /\ n < Power(2, L)
  BY <1>1, <1>2, <1>3, <1>5, <1>6
<1>9. L >= 1 => n < -Power(2, L - 1) \/ Power(2, L - 1) <= n
  BY <1>1, <1>2, <1>3, <1>5, <1>7
<1>10. L + 1 \in Nat /\ L + 1 >= 1 /\ (L + 1 > 1 => L >= 1)
  BY <1>5
<1> QED
  BY <1>4, <1>6, <1>8, <1>9, <1>10 DEF Least, OfWidth

LEMMA WasmWidthIs ==
    ASSUME NEW n \in Int
    PROVE  Least(n, WasmTwosWidth(n))
<1> DEFINE m == Magnitude(n)
           L == BitLength(m)
           W == WasmTwosWidth(n)
<1>1. m \in Nat /\ (n < 0 => m = -n) /\ (n > 0 => m = n)
  BY DEF Magnitude
<1>2. /\ n > 0 => W = L + 1
      /\ n < 0 /\ m = Power(2, L - 1) => W = L
      /\ n < 0 /\ m # Power(2, L - 1) => W = L + 1
      /\ n = 0 => W = 1
  <2> DEFINE pow2 == m = Power(2, L - 1)
  <2>1. W = IF n > 0 THEN L + 1 ELSE IF n < 0 THEN L + (IF pow2 THEN 0 ELSE 1) ELSE 1
    BY DEF WasmTwosWidth
  <2>2. L \in Nat
    <3> HIDE DEF m
    <3> QED
      BY <1>1, BitLengthIs
  <2> HIDE DEF m, L, W
  <2>3. /\ n < 0 /\ pow2 => W = L + 0
        /\ n < 0 /\ ~pow2 => W = L + 1
        /\ n > 0 => W = L + 1
        /\ n = 0 => W = 1
    <3>1. n < 0 => ~(n > 0)
      OBVIOUS
    <3>2. n = 0 => ~(n > 0) /\ ~(n < 0)
      OBVIOUS
    <3> HIDE DEF pow2
    <3> QED
      BY <2>1, <3>1, <3>2, Zenon
  <2>4. L + 0 = L
    BY <2>2
  <2> QED
    BY <2>3, <2>4 DEF pow2
<1> SUFFICES Least(n, W)
  OBVIOUS
<1> HIDE DEF m, W
<1>3. /\ L \in Nat /\ m < Power(2, L)
      /\ m # 0 => L >= 1 /\ Power(2, L - 1) <= m
  BY <1>1, BitLengthIs
<1> HIDE DEF L
<1>4. Power(2, L) \in Nat /\ (L + 1) - 1 = L /\ (L + 1) - 2 = L - 1
  BY <1>3, PowerOfTwo
<1>5. CASE n > 0
  <2>1. L >= 1 /\ m = n /\ Power(2, L - 1) <= m
    BY <1>1, <1>3, <1>5
  <2>2. -Power(2, L) <= n /\ n < Power(2, L)
    BY <1>3, <1>4, <1>5, <2>1
  <2>3. L + 1 \in Nat /\ L + 1 >= 1
    BY <1>3
  <2> QED
    BY <1>2, <1>4, <1>5, <2>1, <2>2, <2>3 DEF Least, OfWidth
<1>6. CASE n = 0
  <2>1. Power(2, 1 - 1) = 1
    BY PowerSteps
  <2>2. W = 1
    BY <1>2, <1>6
  <2>3. OfWidth(n, W)
    BY <1>6, <2>1, <2>2 DEF OfWidth
  <2> QED
    BY <2>2, <2>3 DEF Least
<1>7. CASE n < 0
  <2>1. L >= 1 /\ m = -n /\ Power(2, L - 1) <= m /\ L - 1 \in Nat
    BY <1>1, <1>3, <1>7
  <2>2. Power(2, L - 1) \in Nat
    BY <2>1, PowerOfTwo
  <2>3. CASE m = Power(2, L - 1)
    <3>1. W = L
      BY <1>2, <1>7, <2>3
    <3>2. OfWidth(n, L)
      BY <1>7, <2>1, <2>2, <2>3 DEF OfWidth
    <3>3. L > 1 => n < -Power(2, L - 2)
      <4>1. CASE L > 1
        <5>1. L - 2 \in Nat /\ (L - 2) + 1 = L - 1
          BY <1>3, <4>1
        <5>2. Power(2, L - 2) \in Nat \ {0} /\ Power(2, (L - 2) + 1) = 2 * Power(2, L - 2)
          BY <5>1, PowerOfTwo, PowerSteps
        <5> QED
          BY <2>1, <2>3, <5>1, <5>2
      <4> QED
        BY <4>1
    <3> QED
      BY <1>3, <2>1, <3>1, <3>2, <3>3 DEF Least
  <2>4. CASE m # Power(2, L - 1)
    <3>1. W = L + 1
      BY <1>2, <1>7, <2>4
    <3>2. -Power(2, L) <= n /\ n < Power(2, L) /\ n < -Power(2, L - 1)
      BY <1>3, <1>4, <1>7, <2>1, <2>2, <2>4
    <3>3. L + 1 \in Nat /\ L + 1 >= 1
      BY <1>3
    <3> QED
      BY <1>4, <3>1, <3>2, <3>3 DEF Least, OfWidth
  <2> QED
    BY <2>3, <2>4
<1>8. n > 0 \/ n = 0 \/ n < 0
  OBVIOUS
<1> QED
  BY <1>5, <1>6, <1>7, <1>8

LEMMA TwosWidthIs ==
    ASSUME NEW h, NEW x, x.v \in Int
    PROVE  Least(x.v, TwosWidth(h, x))
<1>1. TwosWidth(h, x) = NativeTwosWidth(x.v) \/ TwosWidth(h, x) = WasmTwosWidth(x.v)
  BY DEF TwosWidth
<1> QED
  BY <1>1, NativeWidthIs, WasmWidthIs

LEMMA Wider ==
    ASSUME NEW n \in Int, NEW w \in Nat, w >= 1, OfWidth(n, w), NEW u \in Nat, w <= u
    PROVE  OfWidth(n, u)
<1>1. w - 1 \in Nat /\ u - 1 \in Nat /\ w - 1 <= u - 1
  OBVIOUS
<1>2. Power(2, w - 1) \in Nat /\ Power(2, u - 1) \in Nat
  BY <1>1, PowerOfTwo
<1>3. Power(2, w - 1) <= Power(2, u - 1)
  BY <1>1, PowerGrows
<1> QED
  BY <1>2, <1>3 DEF OfWidth

(* `&`, `|` and `^`: bit by bit, in the path for Int128 as in the hosts'.  *)
LEMMA BitwiseObjectIs ==
    ASSUME NEW op, NEW h, NEW x, NEW y, Canonical(x), Canonical(y)
    PROVE  LET z == BitwiseObject(op, h, x, y)
           IN  /\ Canonical(z)
               /\ \A i \in Nat : Bit(z.v, i) <=> Combined(op, Bit(x.v, i), Bit(y.v, i))
<1> DEFINE z == BitwiseObject(op, h, x, y)
<1>1. x.v \in Int /\ y.v \in Int
  BY DEF Canonical, Object
<1>2. CASE x.small /\ y.small
  <2> DEFINE w == 2 * HalfBits
  <2>1. w \in Nat /\ w >= 1 /\ Power(2, w - 1) = Limit
    BY WidthAssumption, LimitIs
  <2>2. \A n : OfWidth(n, w) <=> Fits(n)
    BY <2>1 DEF OfWidth, Fits
  <2>3. z = Small(Bitwise(op, x.v, y.v, w))
    BY <1>2 DEF BitwiseObject
  <2> HIDE DEF w
  <2>4. OfWidth(x.v, w) /\ OfWidth(y.v, w)
    BY <1>2, <2>2 DEF Canonical
  <2> DEFINE b == Bitwise(op, x.v, y.v, w)
  <2>5. /\ b \in Int /\ OfWidth(b, w)
        /\ \A i \in Nat : Bit(b, i) <=> Combined(op, Bit(x.v, i), Bit(y.v, i))
    BY <1>1, <2>1, <2>4, BitwiseIs
  <2> HIDE DEF b, z
  <2>6. Canonical(z) /\ z.v = b
    BY <2>2, <2>3, <2>5 DEF Canonical, Small, Object, b
  <2> QED
    BY <2>5, <2>6 DEF z
<1>3. CASE ~(x.small /\ y.small)
  <2> DEFINE u == TwosWidth(h, x)
             v == TwosWidth(h, y)
             w == Larger(u, v)
             b == Bitwise(op, x.v, y.v, w)
  <2>1. Least(x.v, u) /\ Least(y.v, v)
    BY <1>1, TwosWidthIs
  <2>2. z = Yield(b)
    BY <1>3 DEF BitwiseObject, HostBits
  <2> HIDE DEF u, v
  <2>3. w \in Nat /\ w >= 1 /\ u <= w /\ v <= w
    BY <2>1 DEF Least, Larger
  <2> HIDE DEF w
  <2>4. OfWidth(x.v, w) /\ OfWidth(y.v, w)
    BY <1>1, <2>1, <2>3, Wider DEF Least
  <2>5. /\ b \in Int
        /\ \A i \in Nat : Bit(b, i) <=> Combined(op, Bit(x.v, i), Bit(y.v, i))
    BY <1>1, <2>3, <2>4, BitwiseIs
  <2> HIDE DEF b, z
  <2>6. Canonical(z) /\ z.v = b
    BY <2>2, <2>5, YieldIsCanonical
  <2> QED
    BY <2>5, <2>6 DEF z
<1> QED
  BY <1>2, <1>3

LEMMA CombinedIs ==
    ASSUME NEW p \in BOOLEAN, NEW q \in BOOLEAN
    PROVE  /\ Combined("and", p, q) <=> p /\ q
           /\ Combined("or", p, q) <=> p \/ q
           /\ Combined("xor", p, q) <=> p # q
  BY DEF Combined

(* Every bit of a bitwise operation, however far out, with either host.    *)
THEOREM BitwiseIsExact ==
    ASSUME NEW h \in Hosts, NEW x, NEW y, Canonical(x), Canonical(y)
    PROVE  /\ Canonical(And(h, x, y)) /\ Canonical(Or(h, x, y)) /\ Canonical(Xor(h, x, y))
           /\ \A i \in Nat :
                /\ Bit(And(h, x, y).v, i) = (Bit(x.v, i) /\ Bit(y.v, i))
                /\ Bit(Or(h, x, y).v, i) = (Bit(x.v, i) \/ Bit(y.v, i))
                /\ Bit(Xor(h, x, y).v, i) = (Bit(x.v, i) # Bit(y.v, i))
                /\ Bit(Complement(x).v, i) = ~Bit(x.v, i)
<1>1. \A n, i : Bit(n, i) \in BOOLEAN
  BY DEF Bit
<1>2. /\ Canonical(And(h, x, y)) /\ Canonical(Or(h, x, y)) /\ Canonical(Xor(h, x, y))
      /\ \A i \in Nat :
           /\ Bit(And(h, x, y).v, i) <=> Combined("and", Bit(x.v, i), Bit(y.v, i))
           /\ Bit(Or(h, x, y).v, i) <=> Combined("or", Bit(x.v, i), Bit(y.v, i))
           /\ Bit(Xor(h, x, y).v, i) <=> Combined("xor", Bit(x.v, i), Bit(y.v, i))
  BY BitwiseObjectIs DEF And, Or, Xor
<1>3. ASSUME NEW i \in Nat
      PROVE  /\ Bit(And(h, x, y).v, i) <=> (Bit(x.v, i) /\ Bit(y.v, i))
             /\ Bit(Or(h, x, y).v, i) <=> (Bit(x.v, i) \/ Bit(y.v, i))
             /\ Bit(Xor(h, x, y).v, i) <=> (Bit(x.v, i) # Bit(y.v, i))
  BY <1>1, <1>2, CombinedIs
<1>4. ASSUME NEW i \in Nat PROVE Bit(Complement(x).v, i) <=> ~Bit(x.v, i)
  <2>1. Complement(x).v = -x.v - 1 /\ x.v \in Int
    BY ComplementIsExact DEF Canonical, Object
  <2> QED
    BY <2>1, ComplementBits
<1> QED
  BY <1>1, <1>2, <1>3, <1>4

-----------------------------------------------------------------------------
(* Text.                                                                   *)

(* The functions that HostFromString takes its value from.                 *)
Numbers(digits, base, n, g) ==
    g = [k \in 0 .. n |-> IF k = 0 THEN 0 ELSE g[k - 1] * base + digits[k]]

LEMMA NumbersExist == \A digits, base : \A n \in Nat : \E g : Numbers(digits, base, n, g)
<1> SUFFICES ASSUME NEW digits, NEW base PROVE \A n \in Nat : \E g : Numbers(digits, base, n, g)
  OBVIOUS
<1> DEFINE S == {n \in Nat : \E g : Numbers(digits, base, n, g)}
<1>1. 0 \in S
  <2>1. Numbers(digits, base, 0, [k \in 0 .. 0 |-> 0])
    BY DEF Numbers
  <2> QED
    BY <2>1
<1>2. ASSUME NEW n \in Nat, n \in S PROVE n + 1 \in S
  <2>1. PICK g : Numbers(digits, base, n, g)
    BY <1>2
  <2> DEFINE e == [k \in 0 .. n + 1 |-> IF k = n + 1 THEN g[n] * base + digits[n + 1] ELSE g[k]]
  <2>2. ASSUME NEW k \in 0 .. n + 1
        PROVE  e[k] = IF k = 0 THEN 0 ELSE e[k - 1] * base + digits[k]
    <3>1. CASE k = n + 1
      <4>1. k - 1 = n /\ n \in 0 .. n + 1 /\ n # n + 1 /\ k # 0
        BY <3>1
      <4>2. e[k] = g[n] * base + digits[k] /\ e[n] = g[n]
        BY <3>1, <4>1
      <4> QED
        BY <4>1, <4>2, Zenon
    <3>2. CASE k # n + 1 /\ k # 0
      <4>1. k \in 0 .. n /\ k - 1 \in 0 .. n + 1 /\ k - 1 # n + 1
        BY <3>2
      <4>2. e[k] = g[k] /\ e[k - 1] = g[k - 1]
        BY <3>2, <4>1
      <4>3. g[k] = g[k - 1] * base + digits[k]
        BY <2>1, <3>2, <4>1 DEF Numbers
      <4> QED
        BY <3>2, <4>2, <4>3, Zenon
    <3>3. CASE k = 0
      <4>1. 0 \in 0 .. n /\ 0 # n + 1 /\ 0 \in 0 .. n + 1
        OBVIOUS
      <4>2. e[0] = g[0] /\ g[0] = 0
        BY <2>1, <4>1 DEF Numbers
      <4> QED
        BY <3>3, <4>2
    <3> QED
      BY <3>1, <3>2, <3>3
  <2>3. Numbers(digits, base, n + 1, e)
    BY <2>2 DEF Numbers
  <2> QED
    BY <2>3
<1> HIDE DEF S
<1>3. Nat \subseteq S
  BY <1>1, <1>2, SetInduction
<1> QED
  BY <1>3 DEF S

LEMMA DigitCountIs ==
    ASSUME NEW n \in Nat, NEW base \in Nat, base >= 2
    PROVE  LET count == DigitCount(n, base)
           IN  /\ count \in Nat /\ count >= 1 /\ n < Power(base, count)
               /\ n # 0 => Power(base, count - 1) <= n
               /\ n = 0 => count = 1
<1> DEFINE count == DigitCount(n, base)
<1>1. CASE n = 0
  <2>1. count = 1
    BY <1>1 DEF DigitCount
  <2>2. Power(base, 0) = 1 /\ Power(base, 0 + 1) = base * Power(base, 0)
    BY PowerSteps
  <2>3. Power(base, 1) = base
    BY <2>2
  <2> HIDE DEF count
  <2>4. n < Power(base, count)
    BY <1>1, <2>1, <2>3
  <2> QED
    BY <1>1, <2>1, <2>4 DEF count
<1>2. CASE n # 0
  <2> DEFINE L == CHOOSE k \in 1 .. n : Power(base, k - 1) <= n /\ n < Power(base, k)
  <2>1. \E k \in 1 .. n : Power(base, k - 1) <= n /\ n < Power(base, k)
    BY <1>2, LengthExists
  <2>2. L \in 1 .. n /\ Power(base, L - 1) <= n /\ n < Power(base, L)
    BY <2>1
  <2>3. count = L
    BY <1>2 DEF DigitCount
  <2> HIDE DEF L, count
  <2>4. count \in Nat /\ count >= 1 /\ n < Power(base, count) /\ Power(base, count - 1) <= n
    BY <2>2, <2>3
  <2> QED
    BY <1>2, <2>4 DEF count
<1> QED
  BY <1>1, <1>2

(* An integer has no more digits in any base than it has bits, so that the *)
(* buffer which print_to estimates from the width is large enough.         *)
LEMMA DigitsFit ==
    ASSUME NEW n \in Nat, n # 0, NEW base \in Nat, base >= 2
    PROVE  DigitCount(n, base) <= BitLength(n)
<1> DEFINE c == DigitCount(n, base)
           L == BitLength(n)
<1>1. c \in Nat /\ c >= 1 /\ Power(base, c - 1) <= n
  BY DigitCountIs
<1>2. L \in Nat /\ n < Power(2, L)
  BY BitLengthIs
<1> HIDE DEF c, L
<1>3. Power(2, L) <= Power(base, L) /\ Power(2, L) \in Nat
  BY <1>2, PowerGrows, PowerOfTwo
<1>4. c - 1 \in Nat /\ base \in Nat \ {0}
  BY <1>1
<1>5. Power(base, L) \in Nat /\ Power(base, c - 1) \in Nat
  BY <1>2, <1>4, PowerTyped
<1>6. Power(base, c - 1) < Power(base, L)
  BY <1>1, <1>2, <1>3, <1>5
<1>7. c - 1 < L
  BY <1>2, <1>4, <1>6, PowerGrows
<1> QED
  BY <1>1, <1>2, <1>7 DEF c, L

(* Reading the digits gives back the integer they were made of.            *)
LEMMA DigitsRoundTrip ==
    ASSUME NEW n \in Nat, NEW base \in Nat, base >= 2
    PROVE  /\ Len(HostToString(n, base)) = DigitCount(n, base)
           /\ HostFromString(HostToString(n, base), base) = n
<1> DEFINE c == DigitCount(n, base)
           d == HostToString(n, base)
           g == CHOOSE g : Numbers(d, base, Len(d), g)
<1>1. c \in Nat /\ c >= 1 /\ n < Power(base, c)
  BY DigitCountIs
<1>2. d = [i \in 1 .. c |-> (n \div Power(base, c - i)) % base]
  BY DEF HostToString
<1>3. HostFromString(d, base) = g[Len(d)]
  BY DEF HostFromString, Numbers
<1> HIDE DEF c, d, g
<1>4. Len(d) = c
  BY <1>1, <1>2
<1>5. Numbers(d, base, c, g)
  BY <1>1, <1>4, NumbersExist DEF g
<1> DEFINE Above(k) == Power(base, c - k)
<1>6. base \in Nat \ {0}
  OBVIOUS
<1>7. ASSUME NEW k \in Nat, k < c
      PROVE  /\ Above(k + 1) \in Nat \ {0}
             /\ n \div Above(k) = (n \div Above(k + 1)) \div base
  <2>1. c - (k + 1) \in Nat /\ c - k = (c - (k + 1)) + 1
    BY <1>1, <1>7
  <2> DEFINE p == Power(base, c - (k + 1))
  <2>2. p \in Nat \ {0}
    BY <1>6, <2>1, PowerTyped
  <2>3. Above(k) = base * p
    BY <2>1, PowerSteps
  <2> HIDE DEF p
  <2>4. p * base = base * p
    BY <2>2
  <2>5. (n \div p) \div base = n \div (p * base)
    <3>1. n \in Int
      OBVIOUS
    <3> QED
      BY <1>6, <2>2, <3>1, DivisionTwice, Zenon
  <2> QED
    BY <2>2, <2>3, <2>4, <2>5 DEF p
<1> DEFINE S == {k \in Nat : k <= c => g[k] = n \div Above(k)}
<1>8. 0 \in S
  <2>1. g[0] = 0
    BY <1>1, <1>5 DEF Numbers
  <2>2. c - 0 = c /\ Power(base, c) \in Nat \ {0}
    BY <1>1, <1>6, PowerTyped
  <2>3. (0 * Power(base, c) + n) \div Power(base, c) = 0
    BY <1>1, <2>2, DivisionIs
  <2>4. 0 * Power(base, c) + n = n
    BY <2>2
  <2> QED
    BY <2>1, <2>2, <2>3, <2>4
<1>9. ASSUME NEW k \in Nat, k \in S PROVE k + 1 \in S
  <2>1. CASE k + 1 <= c
    <3>1. k < c /\ k <= c /\ k + 1 \in 1 .. c /\ k + 1 \in 0 .. c /\ (k + 1) - 1 = k /\ k + 1 # 0
      BY <1>1, <2>1
    <3>2. g[k + 1] = g[k] * base + d[k + 1]
      <4>1. g[k + 1] = IF k + 1 = 0 THEN 0 ELSE g[(k + 1) - 1] * base + d[k + 1]
        BY <1>5, <3>1, Zenon DEF Numbers
      <4> QED
        BY <3>1, <4>1, Zenon
    <3> DEFINE a == n \div Above(k + 1)
    <3>3. d[k + 1] = a % base
      BY <1>2, <3>1
    <3>4. Above(k + 1) \in Nat \ {0} /\ g[k] = a \div base
      BY <1>7, <1>9, <3>1
    <3>5. a \in Int
      <4> HIDE DEF Above
      <4> QED
        BY <3>4, IntegerDivision
    <3> HIDE DEF a, Above
    <3>6. a = base * (a \div base) + (a % base) /\ a \div base \in Int
      BY <1>6, <3>5, IntegerDivision
    <3>7. base * (a \div base) = (a \div base) * base
      BY <3>6
    <3>8. g[k + 1] = a
      BY <3>2, <3>3, <3>4, <3>6, <3>7
    <3> QED
      BY <3>8 DEF a
  <2>2. CASE ~(k + 1 <= c)
    BY <2>2
  <2> QED
    BY <2>1, <2>2
<1>10. Nat \subseteq S
  <2> HIDE DEF S
  <2> QED
    BY <1>8, <1>9, SetInduction
<1>11. g[c] = n
  <2>1. g[c] = n \div Power(base, c - c)
    BY <1>1, <1>10
  <2>2. c - c = 0 /\ Power(base, 0) = 1
    BY <1>1, PowerSteps
  <2>3. (n * 1 + 0) \div 1 = n
    <3>1. 1 \in Nat \ {0} /\ 0 \in Int
      OBVIOUS
    <3> QED
      BY <3>1, DivisionIs
  <2>4. n * 1 + 0 = n
    OBVIOUS
  <2> QED
    BY <2>1, <2>2, <2>3, <2>4
<1> QED
  BY <1>3, <1>4, <1>11 DEF c, d

(* What is printed can be printed, and parses as the same integer, in the  *)
(* one representation, in every base.                                      *)
THEOREM TextStaysExact ==
    ASSUME NEW x, Canonical(x), NEW base \in Nat, base >= 2
    PROVE  /\ PrintTo(x, base).fits
           /\ FromCharacters(PrintTo(x, base), base).v = x.v
           /\ Canonical(FromCharacters(PrintTo(x, base), base))
<1> DEFINE m == Magnitude(x.v)
           d == HostToString(m, base)
           text == PrintTo(x, base)
           n == HostFromString(d, base)
           v == IF x.v < 0 THEN -n ELSE n
           l == Len(d)
<1>1. x.v \in Int /\ m \in Nat /\ (x.v < 0 => -m = x.v) /\ (~(x.v < 0) => m = x.v)
  BY DEF Canonical, Object, Magnitude
<1>2. /\ text.digits = d /\ text.negative = (x.v < 0)
      /\ text.fits = (x.small \/ l + (IF x.v < 0 THEN 1 ELSE 0) <= (BitLength(m) + 1) + 1)
  BY DEF PrintTo, OnesWidth
<1>3. FromCharacters(text, base) = IF Fits(v) THEN Small(v) ELSE Yield(v)
  BY <1>2 DEF FromCharacters
<1> HIDE DEF m, text
<1>4. l = DigitCount(m, base) /\ n = m
  BY <1>1, DigitsRoundTrip
<1>5. l \in Nat /\ BitLength(m) \in Nat /\ l <= BitLength(m) + 1
  <2>1. BitLength(m) \in Nat
    BY <1>1, BitLengthIs
  <2>2. l \in Nat /\ (m = 0 => l = 1)
    BY <1>1, <1>4, DigitCountIs
  <2>3. m # 0 => l <= BitLength(m)
    BY <1>1, <1>4, DigitsFit
  <2> HIDE DEF l
  <2> QED
    BY <1>1, <2>1, <2>2, <2>3
<1>6. v = x.v
  <2> HIDE DEF n
  <2> QED
    BY <1>1, <1>4
<1> HIDE DEF d, n, v, l
<1>7. text.fits
  <2>1. l + (IF x.v < 0 THEN 1 ELSE 0) <= (BitLength(m) + 1) + 1
    BY <1>5
  <2> QED
    BY <1>2, <2>1, Zenon
<1>8. FromCharacters(text, base).v = x.v /\ Canonical(FromCharacters(text, base))
  <2>1. CASE Fits(x.v)
    <3>1. FromCharacters(text, base) = Small(x.v)
      BY <1>3, <1>6, <2>1
    <3> QED
      BY <1>1, <2>1, <3>1 DEF Small, Canonical, Object
  <2>2. CASE ~Fits(x.v)
    <3>1. FromCharacters(text, base) = Yield(x.v)
      BY <1>3, <1>6, <2>2
    <3> QED
      BY <1>1, <3>1, YieldIsCanonical
  <2> QED
    BY <2>1, <2>2
<1> QED
  BY <1>7, <1>8 DEF text

-----------------------------------------------------------------------------
(* All operations, on operands in their one representation.                *)

(* The ints that are shifted by and raised to, the bases converted to.     *)
LEMMA BoundsTyped ==
    /\ \A s \in Shifts : s \in Int
    /\ \A e \in Exponents : e \in Int
    /\ \A b \in Bases : b \in Nat /\ b >= 2
    /\ \A v \in Literals : v \in Int /\ Fits(v)
<1>1. IntMax \in Int /\ Limit \in Int
  BY WidthAssumption, LimitAssumption
<1>2. \A s \in Shifts \cup Exponents : s \in -IntMax - 1 .. IntMax
  BY MemoryAssumption
<1>3. \A s \in -IntMax - 1 .. IntMax : s \in Int
  BY <1>1
<1>4. \A v \in Literals : v \in -Limit .. Limit - 1
  BY MemoryAssumption
<1>5. \A v \in -Limit .. Limit - 1 : v \in Int /\ Fits(v)
  BY <1>1 DEF Fits
<1>6. \A b \in Bases : b \in 2 .. 36
  BY MemoryAssumption
<1> QED
  BY <1>2, <1>3, <1>4, <1>5, <1>6

(* A quotient by a power of two, by what it lies between.                  *)
LEMMA ShiftedBetween ==
    ASSUME NEW n \in Int, NEW p \in Nat \ {0}
    PROVE  (n \div p) * p <= n /\ n < (n \div p + 1) * p
<1> DEFINE q == n \div p
           r == n % p
<1>1. q \in Int /\ r \in Int /\ n = p * q + r /\ 0 <= r /\ r < p
  BY IntegerDivision
<1> HIDE DEF q, r
<1>2. (q + 1) * p = q * p + p /\ p * q = q * p /\ q * p \in Int
  BY <1>1, SMT
<1> QED
  BY <1>1, <1>2 DEF q

LEMMA BitsStayExact ==
    ASSUME host \in Hosts, NEW x, NEW y, Canonical(x), Canonical(y)
    PROVE  BitsAreExact(x, y)
<1>1. x.v \in Int
  BY DEF Canonical, Object
<1>2. \A i \in 0 .. 3 * HalfBits : i \in Nat
  BY WidthAssumption
<1>3. \A i \in Nat :
        /\ Bit(And(host, x, y).v, i) = (Bit(x.v, i) /\ Bit(y.v, i))
        /\ Bit(Or(host, x, y).v, i) = (Bit(x.v, i) \/ Bit(y.v, i))
        /\ Bit(Xor(host, x, y).v, i) = (Bit(x.v, i) # Bit(y.v, i))
        /\ Bit(Complement(x).v, i) = ~Bit(x.v, i)
  BY BitwiseIsExact
<1>4. ASSUME NEW s \in Shifts
      PROVE  /\ s >= 0 => Shl(x, s).v = x.v * Power(2, s)
             /\ s < 0 => /\ Shl(x, s).v * Power(2, -s) <= x.v
                         /\ x.v < (Shl(x, s).v + 1) * Power(2, -s)
             /\ Shr(x, -s).v = Shl(x, s).v
  <2>1. s \in Int /\ -s \in Int
    BY BoundsTyped
  <2>2. CASE s > 0
    <3>1. Shl(x, s).v = x.v * Power(2, s)
      BY <2>1, <2>2, ShiftsAreExact
    <3>2. -s < 0 /\ -(-s) = s
      BY <2>1, <2>2
    <3>3. Shr(x, -s).v = x.v * Power(2, -(-s))
      BY <2>1, <3>2, ShiftsAreExact
    <3> QED
      BY <2>1, <2>2, <3>1, <3>2, <3>3
  <2>3. CASE s = 0
    <3>1. Shl(x, 0).v = x.v * Power(2, 0) /\ Shr(x, 0).v = x.v \div Power(2, 0)
      <4>1. 0 \in Int /\ 0 >= 0
        OBVIOUS
      <4> QED
        BY <4>1, ShiftsAreExact
    <3>2. Power(2, 0) = 1
      BY PowerSteps
    <3>3. x.v \div 1 = x.v * 1
      <4>1. 1 \in Nat \ {0} /\ 0 \in Int
        OBVIOUS
      <4>2. (x.v * 1 + 0) \div 1 = x.v
        BY <1>1, <4>1, DivisionIs
      <4>3. x.v * 1 + 0 = x.v /\ x.v * 1 = x.v
        BY <1>1
      <4> QED
        BY <4>2, <4>3
    <3>4. -s = 0 /\ ~(s < 0)
      <4>1. \A d \in Int : d >= 0 /\ d <= 0 => -d = 0 /\ ~(d < 0)
        BY SMT
      <4>2. s >= 0 /\ s <= 0
        BY <2>3
      <4> QED
        BY <2>1, <4>1, <4>2
    <3> QED
      BY <2>3, <3>1, <3>2, <3>3, <3>4, Zenon
  <2>4. CASE s < 0
    <3> DEFINE p == Power(2, -s)
    <3>1. -s \in Nat /\ -s >= 0
      BY <2>1, <2>4
    <3>2. p \in Nat \ {0}
      BY <3>1, PowerOfTwo
    <3>3. Shl(x, s).v = x.v \div p
      BY <2>1, <2>4, ShiftsAreExact
    <3>4. Shr(x, -s).v = x.v \div p
      BY <2>1, <3>1, ShiftsAreExact
    <3>5. (x.v \div p) * p <= x.v /\ x.v < (x.v \div p + 1) * p
      <4> HIDE DEF p
      <4> QED
        BY <1>1, <3>2, ShiftedBetween
    <3>6. ~(s >= 0)
      BY <2>1, <2>4
    <3> QED
      BY <3>3, <3>4, <3>5, <3>6, Zenon
  <2> QED
    BY <2>1, <2>2, <2>3, <2>4
<1>5. Least(x.v, TwosWidth(host, x))
  BY <1>1, TwosWidthIs
<1>6. /\ -Power(2, TwosWidth(host, x) - 1) <= x.v
      /\ x.v < Power(2, TwosWidth(host, x) - 1)
      /\ TwosWidth(host, x) > 1 =>
           \/ x.v < -Power(2, TwosWidth(host, x) - 2)
           \/ Power(2, TwosWidth(host, x) - 2) <= x.v
  BY <1>5 DEF Least, OfWidth
<1>7. \A i \in 0 .. 3 * HalfBits :
        /\ Bit(And(host, x, y).v, i) = (Bit(x.v, i) /\ Bit(y.v, i))
        /\ Bit(Or(host, x, y).v, i) = (Bit(x.v, i) \/ Bit(y.v, i))
        /\ Bit(Xor(host, x, y).v, i) = (Bit(x.v, i) # Bit(y.v, i))
        /\ Bit(Complement(x).v, i) = ~Bit(x.v, i)
  BY <1>2, <1>3
<1>8. \A s \in Shifts :
        LET left == Shl(x, s).v
            right == Shr(x, -s).v
        IN  /\ IF s >= 0 THEN left = x.v * Power(2, s)
               ELSE left * Power(2, -s) <= x.v /\ x.v < (left + 1) * Power(2, -s)
            /\ -s \in -IntMax - 1 .. IntMax => right = left
  <2> SUFFICES ASSUME NEW s \in Shifts
               PROVE  /\ IF s >= 0 THEN Shl(x, s).v = x.v * Power(2, s)
                         ELSE /\ Shl(x, s).v * Power(2, -s) <= x.v
                              /\ x.v < (Shl(x, s).v + 1) * Power(2, -s)
                      /\ Shr(x, -s).v = Shl(x, s).v
    OBVIOUS
  <2>1. s \in Int
    BY BoundsTyped
  <2>2. s < 0 \/ s >= 0
    BY <2>1
  <2> QED
    BY <1>4, <2>2, Zenon
<1> QED
  BY <1>6, <1>7, <1>8, Zenon DEF BitsAreExact

(* Whatever the operands, if only they have the one representation: no     *)
(* operation loses a bit, whichever path it takes.                         *)
LEMMA OperandsExact ==
    ASSUME host \in Hosts, NEW x, NEW y, Canonical(x), Canonical(y)
    PROVE  /\ SumsAreExact(x, y) /\ QuotientsAreExact(x, y)
           /\ PowersAreExact(x) /\ BitsAreExact(x, y) /\ TextIsExact(x)
<1>1. SumsAreExact(x, y)
  BY SumsStayExact
<1>2. QuotientsAreExact(x, y)
  BY QuotientsStayExact
<1>3. PowersAreExact(x)
  BY BoundsTyped, PowersStayExact, Zenon DEF PowersAreExact
<1>4. BitsAreExact(x, y)
  BY BitsStayExact
<1>5. TextIsExact(x)
  BY BoundsTyped, TextStaysExact, Zenon DEF TextIsExact
<1> QED
  BY <1>1, <1>2, <1>3, <1>4, <1>5

(* And every result has the one representation again.                      *)
LEMMA UnaryCanonical ==
    ASSUME host \in Hosts, NEW x, Canonical(x), NEW z \in UnaryResults(x)
    PROVE  Canonical(z)
<1>1. /\ Canonical(Negated(x)) /\ Canonical(Complement(x)) /\ Canonical(AbsoluteValue(x))
      /\ Canonical(Incremented(x)) /\ Canonical(Decremented(host, x))
  BY NegationIsExact, ComplementIsExact, MagnitudeIsExact, StepIsExact
<1>2. \A s \in Shifts : Canonical(Shl(x, s)) /\ Canonical(Shr(x, s))
  BY BoundsTyped, ShiftsAreExact
<1>3. \A e \in Exponents : Canonical(Pow(x, e)) /\ Canonical(Pow2(e))
  BY BoundsTyped, PowersStayExact
<1> QED
  BY <1>1, <1>2, <1>3, Zenon DEF UnaryResults

LEMMA BinaryCanonical ==
    ASSUME host \in Hosts, NEW x, NEW y, Canonical(x), Canonical(y)
    PROVE  /\ Canonical(Plus(host, x, y)) /\ Canonical(Minus(host, x, y))
           /\ Canonical(Times(x, y))
           /\ Canonical(And(host, x, y)) /\ Canonical(Or(host, x, y))
           /\ Canonical(Xor(host, x, y))
  BY SumIsExact, DifferenceIsExact, ProductIsExact, BitwiseIsExact

-----------------------------------------------------------------------------
(* What nodes keep.                                                        *)

(* What a node of the memory m may stand for: an integer that does not fit *)
(* into an Int128, as long as the host has it.                             *)
Held(m, i) ==
    IF host = "native" THEN ~Fits(i)
    ELSE i <= m.id /\ (i \in DOMAIN m.repo => m.repo[i] \in Int /\ ~Fits(m.repo[i]))

(* All nodes but those of uploaded operands do.                            *)
Full(m, E) ==
    /\ Shape(m)
    /\ m.id \in Nat
    /\ DOMAIN m.repo \subseteq 1 .. m.id
    /\ \A n \in DOMAIN m.nodes : m.nodes[n] \in NodeType
    /\ \A n \in DOMAIN m.nodes \ E : Held(m, m.nodes[n].is)

(* Whatever is taken away, the rest is as it was.                          *)
LEMMA FullLess ==
    ASSUME NEW m, NEW E, Full(m, E), NEW e, Shape(e), e.id = m.id,
           DOMAIN e.repo \subseteq DOMAIN m.repo,
           \A k \in DOMAIN e.repo : e.repo[k] = m.repo[k],
           DOMAIN e.nodes \subseteq DOMAIN m.nodes,
           \A n \in DOMAIN e.nodes : e.nodes[n] \in NodeType /\ e.nodes[n].is = m.nodes[n].is
    PROVE  Full(e, E)
<1>1. ASSUME NEW i, Held(m, i) PROVE Held(e, i)
  BY <1>1 DEF Held
<1>2. \A n \in DOMAIN e.nodes \ E : Held(m, e.nodes[n].is)
  BY DEF Full
<1>3. \A n \in DOMAIN e.nodes \ E : Held(e, e.nodes[n].is)
  BY <1>1, <1>2
<1>4. e.id \in Nat /\ DOMAIN e.repo \subseteq 1 .. e.id
  BY DEF Full
<1> QED
  BY <1>3, <1>4 DEF Full

LEMMA FullThrown ==
    ASSUME NEW m, NEW E, Full(m, E)
    PROVE  Full([m EXCEPT !.thrown = TRUE], E)
<1> DEFINE e == [m EXCEPT !.thrown = TRUE]
<1>1. Shape(m) /\ \A n \in DOMAIN m.nodes : m.nodes[n] \in NodeType
  BY DEF Full
<1>2. Shape(e) /\ e.nodes = m.nodes /\ e.repo = m.repo /\ e.id = m.id
  BY <1>1, SetThrown
<1> HIDE DEF e
<1>3. Full(e, E)
  BY <1>1, <1>2, FullLess
<1> QED
  BY <1>3 DEF e

LEMMA FullDelete ==
    ASSUME NEW m, NEW E, Full(m, E), NEW k
    PROVE  Full(DeleteInteger(m, k), E)
<1>1. Shape(m) /\ \A n \in DOMAIN m.nodes : m.nodes[n] \in NodeType
  BY DEF Full
<1>2. Full([m EXCEPT !.repo = Without(@, k)], E)
  <2> DEFINE e == [m EXCEPT !.repo = Without(@, k)]
  <2>1. Shape(e) /\ e.nodes = m.nodes /\ e.repo = Without(m.repo, k) /\ e.id = m.id
    BY <1>1, SetRepo
  <2> HIDE DEF e
  <2>2. /\ DOMAIN e.repo \subseteq DOMAIN m.repo
        /\ \A j \in DOMAIN e.repo : e.repo[j] = m.repo[j]
    BY <2>1 DEF Without
  <2>3. Full(e, E)
    BY <1>1, <2>1, <2>2, FullLess
  <2> QED
    BY <2>3 DEF e
<1> QED
  BY <1>2, FullThrown DEF DeleteInteger

(* Counting owners up and down.                                            *)
LEMMA FullCounted ==
    ASSUME NEW m, NEW E, Full(m, E), NEW n, NEW c,
           n \in DOMAIN m.nodes => c \in Nat \ {0}
    PROVE  Full([m EXCEPT !.nodes = [m.nodes EXCEPT ![n].owners = c]], E)
<1> DEFINE N == [m.nodes EXCEPT ![n].owners = c]
           e == [m EXCEPT !.nodes = N]
<1>1. Shape(m) /\ \A k \in DOMAIN m.nodes : m.nodes[k] \in NodeType
  BY DEF Full
<1>2. Shape(e) /\ e.nodes = N /\ e.repo = m.repo /\ e.id = m.id
  BY <1>1, SetNodes
<1>3. /\ DOMAIN N = DOMAIN m.nodes
      /\ \A k \in DOMAIN m.nodes :
            /\ k # n => N[k] = m.nodes[k]
            /\ k = n => N[k] = [m.nodes[n] EXCEPT !.owners = c]
  BY Zenon
<1> HIDE DEF e, N
<1>4. ASSUME NEW k \in DOMAIN m.nodes PROVE N[k] \in NodeType /\ N[k].is = m.nodes[k].is
  <2>1. CASE k # n
    BY <1>1, <1>3, <2>1
  <2>2. CASE k = n
    <3>1. m.nodes[n] \in NodeType /\ c \in Nat \ {0} /\ N[k] = [m.nodes[n] EXCEPT !.owners = c]
      BY <1>1, <1>3, <2>2
    <3>2. /\ [m.nodes[n] EXCEPT !.owners = c] \in NodeType
          /\ [m.nodes[n] EXCEPT !.owners = c].is = m.nodes[n].is
      BY <3>1, NodeTyped
    <3> QED
      BY <2>2, <3>1, <3>2
  <2> QED
    BY <2>1, <2>2
<1>5. Full(e, E)
  BY <1>2, <1>3, <1>4, FullLess
<1> QED
  BY <1>5 DEF e, N

LEMMA FullDrop ==
    ASSUME NEW m, NEW E, Full(m, E), NEW n
    PROVE  Full(DropReference(m, n), E)
<1>1. Shape(m) /\ \A k \in DOMAIN m.nodes : m.nodes[k] \in NodeType
  BY DEF Full
<1>2. CASE m.nodes[n].owners > 1
  <2> DEFINE c == m.nodes[n].owners - 1
  <2>1. n \in DOMAIN m.nodes => c \in Nat \ {0}
    <3>1. n \in DOMAIN m.nodes => m.nodes[n].owners \in Nat \ {0}
      BY <1>1 DEF NodeType
    <3> QED
      BY <1>2, <3>1
  <2>2. [m EXCEPT !.nodes[n].owners = @ - 1] =
            [m EXCEPT !.nodes = [m.nodes EXCEPT ![n].owners = c]]
    BY Zenon
  <2>3. DropReference(m, n) = [m EXCEPT !.nodes[n].owners = @ - 1]
    BY <1>2 DEF DropReference
  <2> HIDE DEF c
  <2>4. Full([m EXCEPT !.nodes = [m.nodes EXCEPT ![n].owners = c]], E)
    BY <2>1, FullCounted
  <2> QED
    BY <2>2, <2>3, <2>4
<1>3. CASE ~(m.nodes[n].owners > 1)
  <2> DEFINE e == [m EXCEPT !.nodes = Without(@, n)]
  <2>1. Shape(e) /\ e.nodes = Without(m.nodes, n) /\ e.repo = m.repo /\ e.id = m.id
    BY <1>1, SetNodes
  <2>2. DropReference(m, n) = e \/ \E k : DropReference(m, n) = DeleteInteger(e, k)
    BY <1>3, Zenon DEF DropReference
  <2> HIDE DEF e
  <2>3. /\ DOMAIN e.nodes \subseteq DOMAIN m.nodes
        /\ \A k \in DOMAIN e.nodes : e.nodes[k] = m.nodes[k]
    BY <2>1 DEF Without
  <2>4. Full(e, E)
    BY <1>1, <2>1, <2>3, FullLess
  <2> QED
    BY <2>2, <2>4, FullDelete
<1> QED
  BY <1>2, <1>3

LEMMA FullShared ==
    ASSUME NEW m, NEW E, Full(m, E), NEW n
    PROVE  Full(AddReference(m, n), E)
<1>1. Shape(m) /\ \A k \in DOMAIN m.nodes : m.nodes[k] \in NodeType
  BY DEF Full
<1> DEFINE c == m.nodes[n].owners + 1
<1>2. n \in DOMAIN m.nodes => c \in Nat \ {0}
  <2>1. n \in DOMAIN m.nodes => m.nodes[n].owners \in Nat \ {0}
    BY <1>1 DEF NodeType
  <2> QED
    BY <2>1
<1>3. [m EXCEPT !.nodes[n].owners = @ + 1] =
          [m EXCEPT !.nodes = [m.nodes EXCEPT ![n].owners = c]]
  BY Zenon
<1> HIDE DEF c
<1>4. Full([m EXCEPT !.nodes = [m.nodes EXCEPT ![n].owners = c]], E)
  BY <1>2, FullCounted
<1> QED
  BY <1>3, <1>4 DEF AddReference

LEMMA FullRest ==
    ASSUME NEW m, NEW E, Full(m, E), NEW x, NEW h
    PROVE  /\ Full(SetZero(m, x), E)
           /\ Full(Found(m, h), E)
           /\ Full(Release(m, x, h), E)
<1>1. Full(SetZero(m, x), E)
  BY FullDrop DEF SetZero
<1>2. Full(Found(m, h), E)
  BY FullThrown DEF Found
<1>3. Full(Release(m, x, h), E)
  BY FullDrop, FullDelete DEF Release
<1> QED
  BY <1>1, <1>2, <1>3

(* A new node, for an integer that does not fit, or for an upload.         *)
LEMMA FullNode ==
    ASSUME NEW m, NEW E, Full(m, E), NEW i \in Int
    PROVE  /\ Held(m, i) => Full(NewNode(m, i), E)
           /\ Full(NewNode(m, i), E \cup {FreeNode(m)})
<1> DEFINE n == FreeNode(m)
           x == [owners |-> 1, is |-> i]
           N == Put(m.nodes, n, x)
           e == [m EXCEPT !.nodes = N]
<1>1. Shape(m) /\ \A k \in DOMAIN m.nodes : m.nodes[k] \in NodeType
  BY DEF Full
<1>2. Shape(e) /\ e.nodes = N /\ e.repo = m.repo /\ e.id = m.id
  BY <1>1, SetNodes
<1>3. NewNode(m, i) = e
  BY Zenon DEF NewNode
<1>4. x \in NodeType /\ x.is = i
  BY NewNodeTyped
<1> HIDE DEF x, n
<1>5. /\ DOMAIN N = DOMAIN m.nodes \cup {n}
      /\ N[n] = x
      /\ \A k \in DOMAIN m.nodes : k # n => N[k] = m.nodes[k]
  BY DEF Put
<1> HIDE DEF e, N
<1>6. \A k \in DOMAIN N : N[k] \in NodeType
  BY <1>1, <1>4, <1>5
<1>7. \A j : Held(m, j) <=> Held(e, j)
  BY <1>2 DEF Held
<1>8. \A k \in DOMAIN N \ (E \cup {n}) : Held(e, N[k].is)
  <2>1. \A k \in DOMAIN N \ (E \cup {n}) : k \in DOMAIN m.nodes \ E /\ N[k] = m.nodes[k]
    BY <1>5
  <2> QED
    BY <1>7, <2>1 DEF Full
<1>9. ASSUME Held(m, i) PROVE \A k \in DOMAIN N \ E : Held(e, N[k].is)
  BY <1>4, <1>5, <1>7, <1>8, <1>9
<1>10. e.id \in Nat /\ DOMAIN e.repo \subseteq 1 .. e.id
  BY <1>2 DEF Full
<1>11. Full(e, E \cup {n})
  BY <1>2, <1>6, <1>8, <1>10 DEF Full
<1>12. ASSUME Held(m, i) PROVE Full(e, E)
  <2>1. \A k \in DOMAIN e.nodes \ E : Held(e, e.nodes[k].is)
    BY <1>2, <1>9, <1>12
  <2> QED
    BY <1>2, <1>6, <1>10, <2>1 DEF Full
<1> QED
  BY <1>3, <1>11, <1>12 DEF n

(* BigIntApi: no node had the key before.                                  *)
LEMMA FullKey ==
    ASSUME NEW m, NEW E, Full(m, E), host # "native", NEW v \in Int
    PROVE  LET new == NewInteger(m, v)
           IN  /\ Full(new.memory, E)
               /\ new.memory.nodes = m.nodes
               /\ new.handle \in Int
               /\ ~Fits(v) => Held(new.memory, new.handle)
<1> DEFINE new == NewInteger(m, v)
<1> SUFFICES /\ Full(new.memory, E)
             /\ new.memory.nodes = m.nodes
             /\ new.handle \in Int
             /\ ~Fits(v) => Held(new.memory, new.handle)
  OBVIOUS
<1>1. /\ Shape(m) /\ m.id \in Nat /\ DOMAIN m.repo \subseteq 1 .. m.id
      /\ \A n \in DOMAIN m.nodes : m.nodes[n] \in NodeType
      /\ \A n \in DOMAIN m.nodes \ E : Held(m, m.nodes[n].is)
  BY DEF Full
<1>2. CASE m.id >= MaxId
  <2> DEFINE e == [m EXCEPT !.thrown = TRUE]
  <2>1. new = [memory |-> e, handle |-> 0]
    BY <1>2 DEF NewInteger
  <2>2. new.memory = e /\ new.handle = 0
    BY <2>1
  <2>3. Shape(e) /\ e.nodes = m.nodes /\ e.repo = m.repo /\ e.id = m.id
    BY <1>1, SetThrown
  <2>4. Full(e, E)
    BY FullThrown
  <2> HIDE DEF new, e
  <2>5. Held(e, 0)
    <3>1. 0 \notin DOMAIN e.repo /\ 0 <= e.id
      BY <1>1, <2>3
    <3> QED
      BY <1>2, <3>1 DEF Held
  <2> QED
    BY <2>2, <2>3, <2>4, <2>5
<1>3. CASE ~(m.id >= MaxId)
  <2> DEFINE k == m.id + 1
             e == [m EXCEPT !.id = @ + 1, !.repo = Put(@, m.id + 1, v)]
  <2>1. new = [memory |-> e, handle |-> k]
    BY <1>3 DEF NewInteger
  <2>2. new.memory = e /\ new.handle = k
    BY <2>1
  <2>3. Shape(e) /\ e.nodes = m.nodes /\ e.repo = Put(m.repo, k, v) /\ e.id = k
    BY <1>1, SetRepoId
  <2> HIDE DEF new, e
  <2>4. /\ DOMAIN e.repo = DOMAIN m.repo \cup {k}
        /\ e.repo[k] = v
        /\ \A j \in DOMAIN m.repo : j # k => e.repo[j] = m.repo[j]
    BY <2>3 DEF Put
  <2>5. e.id \in Nat /\ DOMAIN e.repo \subseteq 1 .. e.id
    BY <1>1, <2>3, <2>4
  <2>6. ASSUME NEW i \in Int, Held(m, i) PROVE Held(e, i)
    <3>1. /\ i <= m.id
          /\ i \in DOMAIN m.repo => m.repo[i] \in Int /\ ~Fits(m.repo[i])
      BY <1>3, <2>6 DEF Held
    <3>2. i <= e.id /\ i # k
      BY <1>1, <2>3, <3>1
    <3> QED
      BY <2>4, <3>1, <3>2 DEF Held
  <2>7. \A n \in DOMAIN e.nodes \ E : Held(e, e.nodes[n].is)
    <3>1. \A n \in DOMAIN m.nodes : m.nodes[n].is \in Int
      BY <1>1 DEF NodeType
    <3> QED
      BY <1>1, <2>3, <2>6, <3>1
  <2>8. Full(e, E)
    BY <1>1, <2>3, <2>5, <2>7 DEF Full
  <2>9. ~Fits(v) => Held(e, k)
    BY <2>3, <2>4, <1>1 DEF Held
  <2>10. k \in Int
    BY <1>1
  <2> QED
    BY <2>2, <2>3, <2>8, <2>9, <2>10
<1> QED
  BY <1>2, <1>3

(* from_host_result: what does not fit is kept by a node, what fits is in  *)
(* the object.                                                             *)
LEMMA FullResult ==
    ASSUME NEW m, NEW E, Full(m, E), NEW z, Canonical(z)
    PROVE  LET new == Result(m, z)
           IN  /\ Full(new.memory, E)
               /\ new.object.small => Fits(new.object.v)
<1> DEFINE new == Result(m, z)
<1>0. z.v \in Int /\ (z.small => Fits(z.v)) /\ (~z.small => ~Fits(z.v))
  BY DEF Canonical, Object
<1>1. CASE z.small
  <2>1. new = [memory |-> m, object |-> z]
    BY <1>1 DEF Result
  <2> QED
    BY <1>0, <1>1, <2>1
<1>2. CASE ~z.small /\ host = "native"
  <2> DEFINE n == FreeNode(m)
             e == NewNode(m, z.v)
             x == [small |-> FALSE, v |-> n]
  <2>1. new = [memory |-> e, object |-> x]
    BY <1>2 DEF Result, NewInteger
  <2>2. Held(m, z.v)
    BY <1>0, <1>2 DEF Held
  <2>3. Full(e, E)
    BY <1>0, <2>2, FullNode
  <2>4. new.memory = e /\ new.object = x /\ ~x.small
    BY <2>1
  <2> HIDE DEF new, e, x
  <2> QED
    BY <2>3, <2>4 DEF new
<1>3. CASE ~z.small /\ host # "native"
  <2> DEFINE made == NewInteger(m, z.v)
             e == NewNode(made.memory, made.handle)
             x == [small |-> FALSE, v |-> FreeNode(m)]
  <2>1. new = [memory |-> e, object |-> x]
    BY <1>3 DEF Result
  <2>2. Full(made.memory, E) /\ made.handle \in Int /\ Held(made.memory, made.handle)
    BY <1>0, <1>3, FullKey
  <2>3. Full(e, E)
    <3> HIDE DEF made
    <3> QED
      BY <2>2, FullNode
  <2>4. new.memory = e /\ new.object = x /\ ~x.small
    BY <2>1
  <2> HIDE DEF new, e, x
  <2> QED
    BY <2>3, <2>4 DEF new
<1> QED
  BY <1>1, <1>2, <1>3

-----------------------------------------------------------------------------
(* Operations keep the one representation.                                 *)

(* The invariant: what objects stand for has its one representation, and   *)
(* so has what nodes keep.                                                 *)
CanonicalInv ==
    /\ MemoryInv
    /\ ~trapped => Full(memory, {})
    /\ \A r \in Registers : Readable(memory, object[r]) => Canonical(View(memory, object[r]))

(* An object, when every node keeps an integer that does not fit.          *)
LEMMA HeldIsCanonical ==
    ASSUME NEW m, NEW low \in Nat, NEW objs, Good(m, objs, {}, {}, low), Full(m, {}),
           NEW r \in Registers, objs[r].small => Fits(objs[r].v), Readable(m, objs[r])
    PROVE  Canonical(View(m, objs[r]))
<1> DEFINE x == objs[r]
<1>1. x \in Object /\ x.small \in BOOLEAN /\ x.v \in Int
  BY DEF Good, Object
<1>2. CASE x.small
  BY <1>1, <1>2 DEF View, Canonical
<1>3. CASE ~x.small
  <2> DEFINE i == m.nodes[x.v].is
  <2>1. x.v \in DOMAIN m.nodes
    BY <1>3 DEF Good, Owned, Present
  <2>2. i \in Int /\ Held(m, i)
    BY <2>1 DEF Full, NodeType
  <2>3. View(m, x) = Big(Integer(m, Handle(m, x)))
    BY <1>3 DEF View
  <2>4. Integer(m, Handle(m, x)) \in Int /\ ~Fits(Integer(m, Handle(m, x)))
    <3>1. CASE host = "native"
      BY <2>2, <3>1 DEF Integer, Handle, Held
    <3>2. CASE host # "native"
      <4>1. Handle(m, x) = Key(i) /\ Key(i) \in DOMAIN m.repo
        BY <1>3, <3>2 DEF Handle, Readable, Known
      <4>2. i \in DOMAIN m.repo /\ DOMAIN m.repo \subseteq 1 .. m.id /\ m.id <= MaxId
            /\ m.id \in Int /\ MaxId \in Nat
        BY <2>1, <3>2, MemoryAssumption DEF Good, Hosted
      <4>3. i \in 1 .. MaxId
        BY <4>2
      <4>4. Key(i) = i
        <5>1. Key(i) \in 1 .. m.id
          BY <4>1, <4>2
        <5>2. Key(i) \in Int /\ Key(i) >= 1
          BY <4>2, <5>1
        <5>3. /\ i > MaxId \div 2 => Key(i) < 0
              /\ ~(i > MaxId \div 2) => Key(i) = i
          BY <4>3, KeyIs
        <5>4. ~(Key(i) < 0)
          BY <5>2
        <5> QED
          BY <5>3, <5>4, Zenon
      <4>5. Integer(m, Handle(m, x)) = m.repo[i]
        BY <3>2, <4>1, <4>4 DEF Integer
      <4> QED
        BY <2>2, <3>2, <4>2, <4>5 DEF Held
    <3> QED
      BY <3>1, <3>2
  <2> DEFINE w == Integer(m, Handle(m, x))
  <2>5. w \in Int /\ ~Fits(w)
    BY <2>4
  <2> HIDE DEF w
  <2>6. Canonical(Big(w))
    BY <2>5 DEF Canonical, Big, Object
  <2> QED
    BY <2>3, <2>6 DEF w
<1> QED
  BY <1>2, <1>3

(* At the end of a statement: the nodes of uploads are gone again.         *)
LEMMA BecomeCanonical ==
    ASSUME CanonicalInv, MemoryInv', ~trapped, NEW m, NEW objs, NEW E, Become(m, objs),
           Full(m, E),
           \A r \in Registers : /\ objs[r].small => Fits(objs[r].v)
                                /\ ~objs[r].small => objs[r].v \notin E
    PROVE  CanonicalInv'
<1>1. CASE m.thrown
  <2>1. /\ trapped' = TRUE /\ memory' = [memory EXCEPT !.id = m.id]
        /\ host' = host /\ object' = object
    BY <1>1 DEF Become
  <2>2. Shape(memory)
    BY DEF CanonicalInv, MemoryInv
  <2>3. memory'.nodes = memory.nodes /\ memory'.repo = memory.repo
    BY <2>1, <2>2 DEF Shape
  <2>4. ASSUME NEW r \in Registers
        PROVE  /\ Readable(memory, object[r])' <=> Readable(memory, object[r])
               /\ View(memory, object[r])' = View(memory, object[r])
    BY <2>1, <2>3 DEF Readable, Known, Handle, View, Integer, Key
  <2>5. ASSUME NEW r \in Registers, Readable(memory, object[r])'
        PROVE  Canonical(View(memory, object[r])')
    BY <2>4, <2>5 DEF CanonicalInv
  <2> QED
    BY <2>1, <2>5 DEF CanonicalInv
<1>2. CASE ~m.thrown
  <2>1. memory' = m /\ object' = objs /\ host' = host /\ trapped' = trapped
    BY <1>2 DEF Become
  <2>2. Good(m, objs, {}, {}, m.id)
    <3>1. Good(memory, object, {}, {}, memory.id)'
      BY <2>1 DEF MemoryInv
    <3> QED
      BY <2>1, <3>1 DEF Good, Shape, NodesOK, Owned, Present, Hosted, Owners, Count,
         Referring, Refers, One
  <2>3. Full(m, {})
    <3>1. ASSUME NEW n \in DOMAIN m.nodes PROVE n \notin E
      <4>1. m.nodes[n].owners = Count(objs, n) + One(n \in {})
        BY <2>2 DEF Good, Owned, Owners
      <4>2. m.nodes[n].owners \in Nat \ {0}
        BY DEF Full, NodeType
      <4>3. One(n \in {}) = 0 /\ Count(objs, n) \in Nat
        BY CountIs DEF One
      <4>4. Count(objs, n) # 0
        BY <4>1, <4>2, <4>3
      <4>5. PICK r \in Registers : Refers(objs[r], n)
        BY <4>4, CountIs
      <4> QED
        BY <4>5 DEF Refers
    <3> QED
      BY <3>1 DEF Full
  <2>4. m.id \in Nat
    BY DEF Full
  <2>5. ASSUME NEW r \in Registers, Readable(m, objs[r]) PROVE Canonical(View(m, objs[r]))
    BY <2>2, <2>3, <2>4, <2>5, HeldIsCanonical
  <2>6. Full(memory, {})'
    BY <2>1, <2>3 DEF Full, Shape, Held
  <2>7. ASSUME NEW r \in Registers
        PROVE  /\ Readable(memory, object[r])' <=> Readable(m, objs[r])
               /\ View(memory, object[r])' = View(m, objs[r])
    BY <2>1 DEF Readable, Known, Handle, View, Integer, Key
  <2>8. ASSUME NEW r \in Registers, Readable(memory, object[r])'
        PROVE  Canonical(View(memory, object[r])')
    BY <2>5, <2>7, <2>8
  <2> QED
    BY <2>6, <2>8 DEF CanonicalInv
<1> QED
  BY <1>1, <1>2

(* What a small object holds is an Int128.                                 *)
LEMMA SmallFits ==
    ASSUME CanonicalInv, NEW r \in Registers, object[r].small
    PROVE  Fits(object[r].v)
<1>1. Readable(memory, object[r]) /\ View(memory, object[r]) = object[r]
  BY DEF Readable, View
<1> QED
  BY <1>1 DEF CanonicalInv, Canonical

LEMMA ZeroFits == Small(0).small /\ Small(0).v = 0 /\ Fits(0)
<1>1. Limit \in Nat /\ Limit >= 2
  BY LimitIs
<1>2. Fits(0)
  BY <1>1 DEF Fits
<1> QED
  BY <1>2 DEF Small

(* A temporary is moved into a register, which was the last thing to do.   *)
LEMMA MoveAssignCanonical ==
    ASSUME CanonicalInv, MemoryInv', ~trapped, NEW m, NEW x, NEW r \in Registers,
           Full(m, {}), x.small => Fits(x.v), MoveAssign(m, r, x)
    PROVE  CanonicalInv'
<1> DEFINE e == SetZero(m, object[r])
           objs == [object EXCEPT ![r] = x]
<1>1. Full(e, {})
  BY FullRest
<1>2. Become(e, objs)
  BY DEF MoveAssign
<1>3. ASSUME NEW s \in Registers
      PROVE  objs[s].small => Fits(objs[s].v)
  <2>1. object \in [Registers -> Object]
    BY DEF CanonicalInv, MemoryInv, TypeOK
  <2>2. CASE s = r
    BY <2>1, <2>2
  <2>3. CASE s # r
    BY <2>1, <2>3, SmallFits
  <2> QED
    BY <2>2, <2>3
<1> HIDE DEF e, objs
<1> QED
  BY <1>1, <1>2, <1>3, BecomeCanonical

LEMMA AssignCanonical ==
    ASSUME CanonicalInv, MemoryInv', ~trapped, NEW z, Canonical(z), NEW r \in Registers,
           Assign(r, z)
    PROVE  CanonicalInv'
<1> DEFINE new == Result(memory, z)
<1>1. Full(new.memory, {}) /\ (new.object.small => Fits(new.object.v))
  BY FullResult DEF CanonicalInv
<1>2. MoveAssign(new.memory, r, new.object)
  BY DEF Assign
<1> HIDE DEF new
<1> QED
  BY <1>1, <1>2, MoveAssignCanonical

(* An operand has its one representation.                                  *)
LEMMA OperandIs ==
    ASSUME CanonicalInv, NEW a \in Registers, Readable(memory, object[a])
    PROVE  Canonical(View(memory, object[a])) /\ host \in Hosts
  BY DEF CanonicalInv, MemoryInv, TypeOK

LEMMA MoveCanonical ==
    ASSUME CanonicalInv, MemoryInv', NEW r \in Registers, NEW a \in Registers, Move(r, a)
    PROVE  CanonicalInv'
<1> DEFINE e == SetZero(memory, object[r])
           o1 == [object EXCEPT ![r] = Small(0)]
           o2 == [object EXCEPT ![r] = object[a], ![a] = Small(0)]
<1>1. ~trapped /\ object \in [Registers -> Object]
  BY DEF CanonicalInv, MemoryInv, TypeOK, Move
<1>2. Full(e, {})
  BY <1>1, FullRest DEF CanonicalInv
<1>3. ASSUME NEW s \in Registers
      PROVE  /\ o1[s] = object[s] \/ o1[s] = Small(0)
             /\ o2[s] \in {object[s], object[a], Small(0)}
  BY <1>1
<1>4. \A s \in Registers : /\ o1[s].small => Fits(o1[s].v)
                           /\ o2[s].small => Fits(o2[s].v)
  <2> HIDE DEF o1, o2
  <2> QED
    BY <1>3, SmallFits, ZeroFits
<1>5. Become(e, o1) \/ Become(e, o2)
  BY DEF Move
<1> HIDE DEF e, o1, o2
<1> QED
  BY <1>1, <1>2, <1>4, <1>5, BecomeCanonical

LEMMA CopyCanonical ==
    ASSUME CanonicalInv, MemoryInv', NEW r \in Registers, NEW a \in Registers, Copy(r, a)
    PROVE  CanonicalInv'
<1> DEFINE m == IF object[a].small THEN memory ELSE AddReference(memory, object[a].v)
           e == SetZero(m, object[r])
           o == [object EXCEPT ![r] = object[a]]
<1>1. ~trapped /\ object \in [Registers -> Object]
  BY DEF CanonicalInv, MemoryInv, TypeOK, Copy
<1>2. Full(m, {})
  BY <1>1, FullShared DEF CanonicalInv
<1>3. Become(e, o)
  BY DEF Copy
<1> HIDE DEF m
<1>4. Full(e, {})
  BY <1>2, FullRest
<1>5. ASSUME NEW s \in Registers PROVE o[s].small => Fits(o[s].v)
  <2>1. o[s] = object[s] \/ o[s] = object[a]
    BY <1>1
  <2> HIDE DEF o
  <2> QED
    BY <2>1, SmallFits
<1> HIDE DEF e, o
<1> QED
  BY <1>1, <1>3, <1>4, <1>5, BecomeCanonical

LEMMA LoadCanonical ==
    ASSUME CanonicalInv, MemoryInv', NEW r \in Registers, NEW v \in Literals, Load(r, v)
    PROVE  CanonicalInv'
<1>1. ~trapped /\ MoveAssign(memory, r, Small(v)) /\ Full(memory, {})
  BY DEF CanonicalInv, Load
<1>2. Small(v).small => Fits(Small(v).v)
  BY BoundsTyped DEF Small
<1> QED
  BY <1>1, <1>2, MoveAssignCanonical

LEMMA TrapCanonical ==
    ASSUME CanonicalInv, MemoryInv', NEW a \in Registers, Trap(a)
    PROVE  CanonicalInv'
<1>1. trapped' = TRUE /\ host' = host /\ memory' = memory /\ object' = object
  BY DEF Trap
<1>2. ASSUME NEW r \in Registers
      PROVE  /\ Readable(memory, object[r])' <=> Readable(memory, object[r])
             /\ View(memory, object[r])' = View(memory, object[r])
  BY <1>1 DEF Readable, Known, Handle, View, Integer, Key
<1>3. ASSUME NEW r \in Registers, Readable(memory, object[r])'
      PROVE  Canonical(View(memory, object[r])')
  BY <1>2, <1>3 DEF CanonicalInv
<1> QED
  BY <1>1, <1>3 DEF CanonicalInv

LEMMA UnaryKeeps ==
    ASSUME CanonicalInv, MemoryInv', NEW r \in Registers, NEW a \in Registers, Unary(r, a)
    PROVE  CanonicalInv'
<1> DEFINE x == View(memory, object[a])
<1>1. ~trapped /\ Readable(memory, object[a])
  BY DEF Unary, Operating
<1>2. PICK z \in UnaryResults(x) : Assign(r, z)
  BY DEF Unary
<1>3. Canonical(x) /\ host \in Hosts
  BY <1>1, OperandIs
<1> HIDE DEF x
<1>4. Canonical(z)
  BY <1>3, UnaryCanonical
<1> QED
  BY <1>1, <1>2, <1>4, AssignCanonical

LEMMA BinaryKeeps ==
    ASSUME CanonicalInv, MemoryInv', NEW r \in Registers, NEW a \in Registers,
           NEW b \in Registers, Binary(r, a, b)
    PROVE  CanonicalInv'
<1> DEFINE x == View(memory, object[a])
           y == View(memory, object[b])
<1>1. ~trapped /\ Readable(memory, object[a]) /\ Readable(memory, object[b])
  BY DEF Binary, Operating
<1>2. PICK z \in {Plus(host, x, y), Times(x, y),
                  And(host, x, y), Or(host, x, y), Xor(host, x, y)} : Assign(r, z)
  BY Zenon DEF Binary
<1>3. Canonical(x) /\ Canonical(y) /\ host \in Hosts
  BY <1>1, OperandIs
<1> HIDE DEF x, y
<1>4. Canonical(z)
  BY <1>2, <1>3, BinaryCanonical, Zenon
<1> QED
  BY <1>1, <1>2, <1>4, AssignCanonical

LEMMA ReparseKeeps ==
    ASSUME CanonicalInv, MemoryInv', NEW r \in Registers, NEW a \in Registers,
           NEW base \in Bases, Reparse(r, a, base)
    PROVE  CanonicalInv'
<1> DEFINE x == View(memory, object[a])
           z == FromCharacters(PrintTo(x, base), base)
<1>1. ~trapped /\ Readable(memory, object[a])
  BY DEF Reparse, Operating
<1>2. Assign(r, z)
  BY Zenon DEF Reparse
<1>3. Canonical(x) /\ base \in Nat /\ base >= 2
  BY <1>1, OperandIs, BoundsTyped
<1>4. Canonical(z)
  <2> HIDE DEF x
  <2> QED
    BY <1>3, TextStaysExact
<1> HIDE DEF z
<1> QED
  BY <1>1, <1>2, <1>4, AssignCanonical

LEMMA SubtractKeeps ==
    ASSUME CanonicalInv, MemoryInv', NEW r \in Registers, NEW a \in Registers,
           NEW b \in Registers, Subtract(r, a, b)
    PROVE  CanonicalInv'
<1> DEFINE x == View(memory, object[a])
           y == View(memory, object[b])
           z == Minus(host, x, y)
           w == Yield(y.v - x.v)
           reverse == Result(memory, w)
           result == Result(reverse.memory, z)
           e == SetZero(result.memory, reverse.object)
           direct == Result(memory, z)
<1>1. ~trapped /\ Readable(memory, object[a]) /\ Readable(memory, object[b])
  BY DEF Subtract, Operating
<1>2. Canonical(x) /\ Canonical(y) /\ host \in Hosts /\ Full(memory, {})
  BY <1>1, OperandIs DEF CanonicalInv
<1>3. Canonical(z) /\ Canonical(w)
  <2>1. y.v - x.v \in Int
    <3> HIDE DEF x, y
    <3> QED
      BY <1>2 DEF Canonical, Object
  <2> HIDE DEF x, y
  <2> QED
    BY <1>2, <2>1, BinaryCanonical, YieldIsCanonical
<1>4. \/ MoveAssign(e, r, result.object)
      \/ MoveAssign(direct.memory, r, direct.object)
  <2>1. CASE x.small /\ ~y.small
    <3> DEFINE new == [result EXCEPT !.memory = SetZero(@, reverse.object)]
    <3>1. MoveAssign(new.memory, r, new.object)
      BY <2>1, Zenon DEF Subtract
    <3>2. result = [memory |-> result.memory, object |-> result.object]
      <4>1. \A m, o : LET p == Result(m, o) IN p = [memory |-> p.memory, object |-> p.object]
        BY Zenon DEF Result
      <4> QED
        BY <4>1
    <3>3. new.memory = e /\ new.object = result.object
      <4> HIDE DEF result, reverse
      <4>1. \A M, O : LET n == [[memory |-> M, object |-> O]
                                    EXCEPT !.memory = SetZero(@, reverse.object)]
                      IN  n.memory = SetZero(M, reverse.object) /\ n.object = O
        OBVIOUS
      <4> QED
        BY <3>2, <4>1
    <3> HIDE DEF new, e, result
    <3> QED
      BY <3>1, <3>3
  <2>2. CASE ~(x.small /\ ~y.small)
    BY <2>2, Zenon DEF Subtract
  <2> QED
    BY <2>1, <2>2
<1> HIDE DEF z, w
<1>5. Full(direct.memory, {}) /\ (direct.object.small => Fits(direct.object.v))
  BY <1>2, <1>3, FullResult
<1>6. Full(reverse.memory, {})
  BY <1>2, <1>3, FullResult
<1> HIDE DEF direct, reverse
<1>7. Full(result.memory, {}) /\ (result.object.small => Fits(result.object.v))
  BY <1>3, <1>6, FullResult
<1> HIDE DEF result
<1>8. Full(e, {})
  BY <1>7, FullRest
<1> HIDE DEF e
<1> QED
  BY <1>1, <1>4, <1>5, <1>7, <1>8, MoveAssignCanonical

(* Uploads and results of a division: the node of an upload is new, and is *)
(* none of the results' nodes, so that it is gone at the end.              *)
LEMMA UploadFull ==
    ASSUME NEW E, Full(memory, {}), NEW v \in Int,
           NEW made, made = NewInteger(memory, v), E = UploadNode(made.handle)
    PROVE  Full(made.memory, E)
<1>1. CASE host = "native"
  <2>1. made.memory = NewNode(memory, v) /\ made.handle = FreeNode(memory)
    BY <1>1 DEF NewInteger
  <2>2. Full(NewNode(memory, v), {} \cup {FreeNode(memory)})
    BY FullNode
  <2>3. {} \cup {FreeNode(memory)} = E
    BY <1>1, <2>1 DEF UploadNode
  <2> QED
    BY <2>1, <2>2, <2>3
<1>2. CASE host # "native"
  <2>1. E = {}
    BY <1>2 DEF UploadNode
  <2> QED
    BY <1>2, <2>1, FullKey
<1> QED
  BY <1>1, <1>2

LEMMA DivideKeeps ==
    ASSUME CanonicalInv, MemoryInv', NEW q \in Registers, NEW r \in Registers,
           NEW a \in Registers, NEW b \in Registers, NEW rounding \in Roundings,
           Divide(q, r, a, b, rounding)
    PROVE  CanonicalInv'
<1> DEFINE low == memory.id
           x == View(memory, object[a])
           y == View(memory, object[b])
           both == x.small /\ y.small
           z == DivRem(host, rounding, x, y)
           xh == Upload(memory, object[a])
           yh == Upload(xh.memory, object[b])
           m0 == IF both THEN memory ELSE Found(yh.memory, {xh.handle, yh.handle})
           quotient == Result(m0, z.quotient)
           remainder == Result(quotient.memory, z.remainder)
           m1 == Release(remainder.memory, object[b], yh.handle)
           m2 == IF both THEN remainder.memory ELSE Release(m1, object[a], xh.handle)
           m3 == SetZero(SetZero(m2, object[q]), object[r])
           objs == [object EXCEPT ![q] = quotient.object, ![r] = remainder.object]
           N == Node(quotient.object) \cup Node(remainder.object)
<1>1. /\ Good(memory, object, {}, {}, low) /\ low \in Nat /\ ~trapped /\ q # r
      /\ object \in [Registers -> Object] /\ Full(memory, {})
      /\ Readable(memory, object[a]) /\ Readable(memory, object[b]) /\ y.v # 0
  <2>1. Operating({a, b}) /\ q # r /\ y.v # 0
    BY Zenon DEF Divide
  <2>2. ~trapped /\ Readable(memory, object[a]) /\ Readable(memory, object[b])
    BY <2>1 DEF Operating
  <2>3. low \in Nat
    BY MemoryAssumption DEF CanonicalInv, MemoryInv, TypeOK
  <2>4. /\ Good(memory, object, {}, {}, low) /\ object \in [Registers -> Object]
        /\ Full(memory, {})
    BY <2>2, Zenon DEF CanonicalInv, MemoryInv, TypeOK
  <2> QED
    BY <2>1, <2>2, <2>3, <2>4
<1>2. Canonical(z.quotient) /\ Canonical(z.remainder)
  <2>1. Canonical(x) /\ Canonical(y) /\ host \in Hosts
    BY <1>1, OperandIs
  <2> HIDE DEF x, y
  <2> QED
    BY <1>1, <2>1, DivisionIsExact
<1>3. IF remainder.memory.thrown THEN Become(remainder.memory, object) ELSE Become(m3, objs)
  BY Zenon DEF Divide
<1>4. (x.small <=> object[a].small) /\ (y.small <=> object[b].small)
  BY DEF View, Big
<1>5. object[a].v \in Int /\ object[b].v \in Int
  BY <1>1 DEF Object
<1>6. z.quotient \in Object /\ z.remainder \in Object
  BY <1>2 DEF Canonical
<1>7. ASSUME NEW T, NEW U, T = {} \/ \E k : T = {k}, Either(m0, object, T, U, low)
       PROVE  \/ Broken(remainder.memory, low)
              \/ /\ Good(remainder.memory, object, T \cup N, U, low)
                 /\ quotient.object \in Object /\ remainder.object \in Object
                 /\ Node(quotient.object) \cap Node(remainder.object) = {}
                 /\ T \cap N = {}
  <2> HIDE DEF z, m0
  <2> QED
    BY <1>1, <1>6, <1>7, TwoResults
<1>8. ASSUME NEW E, Full(m0, E),
             E = {} \/ (host = "native" /\ E = {FreeNode(memory)}),
             NEW T, NEW U, T = E, Either(m0, object, T, U, low)
      PROVE  CanonicalInv'
  <2>1. /\ Full(quotient.memory, E)
        /\ quotient.object.small => Fits(quotient.object.v)
    <3> HIDE DEF m0, z
    <3> QED
      BY <1>2, <1>8, FullResult
  <2>2. /\ Full(remainder.memory, E)
        /\ remainder.object.small => Fits(remainder.object.v)
    <3> HIDE DEF quotient, z
    <3> QED
      BY <1>2, <2>1, FullResult
  <2>3. \/ Broken(remainder.memory, low)
        \/ T \cap N = {}
    <3>1. T = {} \/ \E k : T = {k}
      BY <1>8
    <3> QED
      BY <1>8, <1>7, <3>1
  <2> HIDE DEF m0, quotient, remainder
  <2>4. Full(m1, E)
    BY <2>2, FullRest
  <2> HIDE DEF m1
  <2>5. Full(m2, E)
    BY <2>2, <2>4, FullRest
  <2> HIDE DEF m2
  <2>6. Full(m3, E)
    BY <2>5, FullRest
  <2>7. \A s \in Registers : ~object[s].small => object[s].v \notin E
    <3>1. CASE E = {}
      BY <3>1
    <3>2. CASE E = {FreeNode(memory)} /\ E # {}
      <4>1. IsFiniteSet({}) /\ Cardinality({}) <= 2
        BY FS_EmptySet
      <4>2. Nodes \ DOMAIN memory.nodes # {}
        BY <1>1, <4>1, Room
      <4>3. FreeNode(memory) \notin DOMAIN memory.nodes
        BY <4>2, FreeNodeIsFree
      <4> QED
        BY <1>1, <3>2, <4>3 DEF Good, Owned, Present
    <3> QED
      BY <1>8, <3>1, <3>2
  <2>8. \A s \in Registers : object[s].small => Fits(object[s].v)
    BY SmallFits
  <2>9. CASE remainder.memory.thrown
    <3>1. Become(remainder.memory, object)
      BY <1>3, <2>9
    <3> QED
      BY <1>1, <2>2, <2>7, <2>8, <3>1, BecomeCanonical
  <2>10. CASE ~remainder.memory.thrown
    <3>1. Become(m3, objs)
      BY <1>3, <2>10
    <3>2. T \cap N = {}
      BY <2>3, <2>10 DEF Broken
    <3>3. ASSUME NEW s \in Registers
          PROVE  /\ objs[s].small => Fits(objs[s].v)
                 /\ ~objs[s].small => objs[s].v \notin E
      <4>1. objs[s] = object[s] \/ objs[s] = quotient.object \/ objs[s] = remainder.object
        BY <1>1
      <4>2. /\ ~quotient.object.small => quotient.object.v \notin E
            /\ ~remainder.object.small => remainder.object.v \notin E
        BY <1>8, <3>2 DEF Node
      <4> HIDE DEF objs
      <4> QED
        BY <2>1, <2>2, <2>7, <2>8, <4>1, <4>2, Zenon
    <3> HIDE DEF m3, objs
    <3> QED
      BY <1>1, <2>6, <3>1, <3>3, BecomeCanonical
  <2> QED
    BY <2>9, <2>10
<1>9. CASE both
  <2>1. m0 = memory
    BY <1>9
  <2>2. Either(m0, object, {}, {}, low)
    BY <1>1, <2>1 DEF Either
  <2> HIDE DEF m0, quotient, remainder, m1, m2, N, z
  <2> QED
    BY <1>1, <1>8, <2>1, <2>2
<1>10. ASSUME NEW s \in Registers, NEW g \in Registers, NEW made,
             made = NewInteger(memory, object[s].v),
             object[s].small, ~object[g].small, Readable(memory, object[g]),
             NEW h, host # "native" => h = Handle(memory, object[g]),
             m0 = Found(made.memory, {made.handle, h})
      PROVE  CanonicalInv'
  <2> DEFINE T == UploadNode(made.handle)
             U == UploadKey(made.handle)
  <2>1. Either(m0, object, T, U, low)
    <3> HIDE DEF m0
    <3> QED
      BY <1>1, <1>10, UploadedIs
  <2>2. Full(made.memory, T)
    <3>1. object[s].v \in Int
      BY <1>1 DEF Object
    <3> QED
      BY <1>1, <1>10, <3>1, UploadFull
  <2>3. T = {} \/ (host = "native" /\ T = {FreeNode(memory)})
    <3>1. CASE host = "native"
      <4>1. made.handle = FreeNode(memory)
        BY <1>10, <3>1 DEF NewInteger
      <4> QED
        BY <3>1, <4>1 DEF UploadNode
    <3>2. CASE host # "native"
      BY <3>2 DEF UploadNode
    <3> QED
      BY <3>1, <3>2
  <2> HIDE DEF T, U, m0, quotient, remainder, m1, m2, N, z
  <2>4. Full(m0, T)
    BY <1>10, <2>2, FullRest
  <2> QED
    BY <1>8, <2>1, <2>3, <2>4
<1>11. CASE object[a].small /\ ~object[b].small
  <2> DEFINE made == NewInteger(memory, object[a].v)
  <2>1. ~both
    BY <1>4, <1>11
  <2>2. xh = made /\ yh = [memory |-> made.memory, handle |-> Handle(made.memory, object[b])]
    BY <1>11 DEF Upload
  <2>3. yh.memory = made.memory /\ yh.handle = Handle(made.memory, object[b])
    BY <2>2
  <2>4. m0 = Found(made.memory, {made.handle, yh.handle})
    BY <2>1, <2>2, <2>3
  <2>5. host # "native" => Handle(made.memory, object[b]) = Handle(memory, object[b])
    <3> SUFFICES ASSUME host # "native" PROVE made.memory.nodes = memory.nodes
      BY <1>1, <1>11, HandleIs
    <3> QED
      BY DEF NewInteger
  <2> HIDE DEF made, xh, yh, m0, m1, m2, remainder, quotient
  <2>6. made = NewInteger(memory, object[a].v)
    BY DEF made
  <2> QED
    BY <1>1, <1>10, <1>11, <2>3, <2>4, <2>5, <2>6
<1>12. CASE ~object[a].small /\ object[b].small
  <2> DEFINE made == NewInteger(memory, object[b].v)
  <2>1. ~both
    BY <1>4, <1>12
  <2>2. xh = [memory |-> memory, handle |-> Handle(memory, object[a])]
    BY <1>12 DEF Upload
  <2>3. xh.memory = memory /\ xh.handle = Handle(memory, object[a])
    BY <2>2
  <2>4. yh = made
    <3> HIDE DEF xh
    <3> QED
      BY <1>12, <2>3 DEF Upload
  <2>5. m0 = Found(made.memory, {made.handle, xh.handle})
    <3>1. {made.handle, xh.handle} = {xh.handle, made.handle}
      OBVIOUS
    <3> QED
      BY <2>1, <2>4, <3>1
  <2> HIDE DEF made, xh, yh, m0, m1, m2, remainder, quotient
  <2>6. made = NewInteger(memory, object[b].v)
    BY DEF made
  <2> QED
    BY <1>1, <1>10, <1>12, <2>3, <2>5, <2>6
<1>13. CASE ~object[a].small /\ ~object[b].small
  <2>1. ~both
    BY <1>4, <1>13
  <2>2. xh = [memory |-> memory, handle |-> Handle(memory, object[a])]
    BY <1>13 DEF Upload
  <2>3. xh.memory = memory /\ xh.handle = Handle(memory, object[a])
    BY <2>2
  <2>4. yh = [memory |-> memory, handle |-> Handle(memory, object[b])]
    <3> HIDE DEF xh
    <3> QED
      BY <1>13, <2>3 DEF Upload
  <2>5. yh.memory = memory /\ yh.handle = Handle(memory, object[b])
    BY <2>4
  <2>6. m0 = Found(memory, {xh.handle, yh.handle})
    BY <2>1, <2>5
  <2> HIDE DEF xh, yh, m0, m1, m2, remainder, quotient, N
  <2>7. host # "native" => {xh.handle, yh.handle} \subseteq DOMAIN memory.repo
    BY <1>1, <1>13, <2>3, <2>5, HandleIs
  <2>8. Either(m0, object, {}, {}, low)
    BY <1>1, <2>6, <2>7, FoundIs
  <2>9. Full(m0, {})
    BY <1>1, <2>6, FullRest
  <2> QED
    BY <1>8, <2>8, <2>9
<1> QED
  BY <1>4, <1>9, <1>11, <1>12, <1>13

-----------------------------------------------------------------------------

LEMMA CanonicalInit == Init => CanonicalInv
<1> SUFFICES ASSUME Init PROVE CanonicalInv
  OBVIOUS
<1>1. /\ Shape(memory) /\ memory.nodes = <<>> /\ memory.repo = <<>> /\ memory.id = 0
  BY DEF Init, Shape
<1>2. DOMAIN memory.nodes = {} /\ DOMAIN memory.repo = {} /\ memory.id \in Nat
  BY <1>1
<1>3. Full(memory, {})
  BY <1>1, <1>2 DEF Full
<1>4. ASSUME NEW r \in Registers PROVE Canonical(View(memory, object[r]))
  <2>1. PICK v \in Literals : object[r] = Small(v)
    BY DEF Init
  <2>2. View(memory, object[r]) = Small(v)
    BY <2>1 DEF View, Small
  <2>3. v \in Int /\ Fits(v)
    BY BoundsTyped
  <2> QED
    BY <2>2, <2>3 DEF Canonical, Small, Object
<1> QED
  BY <1>3, <1>4, MemoryInit DEF CanonicalInv

LEMMA CanonicalStep == CanonicalInv /\ [Next]_vars => CanonicalInv'
<1> SUFFICES ASSUME CanonicalInv, [Next]_vars PROVE CanonicalInv'
  OBVIOUS
<1>0. MemoryInv'
  BY MemoryStep DEF CanonicalInv
<1>1. ASSUME NEW r \in Registers, NEW a \in Registers, Move(r, a) PROVE CanonicalInv'
  BY <1>0, <1>1, MoveCanonical
<1>2. ASSUME NEW r \in Registers, NEW a \in Registers, Copy(r, a) PROVE CanonicalInv'
  BY <1>0, <1>2, CopyCanonical
<1>3. ASSUME NEW r \in Registers, NEW a \in Registers, Unary(r, a) PROVE CanonicalInv'
  BY <1>0, <1>3, UnaryKeeps
<1>4. ASSUME NEW r \in Registers, NEW v \in Literals, Load(r, v) PROVE CanonicalInv'
  BY <1>0, <1>4, LoadCanonical
<1>5. ASSUME NEW r \in Registers, NEW a \in Registers, NEW b \in Registers,
             Binary(r, a, b)
      PROVE  CanonicalInv'
  BY <1>0, <1>5, BinaryKeeps
<1>6. ASSUME NEW r \in Registers, NEW a \in Registers, NEW b \in Registers,
             Subtract(r, a, b)
      PROVE  CanonicalInv'
  BY <1>0, <1>6, SubtractKeeps
<1>7. ASSUME NEW q \in Registers, NEW r \in Registers, NEW a \in Registers,
             NEW b \in Registers, NEW rounding \in Roundings,
             Divide(q, r, a, b, rounding)
      PROVE  CanonicalInv'
  BY <1>0, <1>7, DivideKeeps
<1>8. ASSUME NEW r \in Registers, NEW a \in Registers, NEW base \in Bases,
             Reparse(r, a, base)
      PROVE  CanonicalInv'
  BY <1>0, <1>8, ReparseKeeps
<1>9. ASSUME NEW a \in Registers, Trap(a) PROVE CanonicalInv'
  BY <1>0, <1>9, TrapCanonical
<1>10. CASE UNCHANGED vars
  <2>1. host' = host /\ memory' = memory /\ object' = object /\ trapped' = trapped
    BY <1>10 DEF vars
  <2>2. ASSUME NEW r \in Registers
        PROVE  /\ Readable(memory, object[r])' <=> Readable(memory, object[r])
               /\ View(memory, object[r])' = View(memory, object[r])
    BY <2>1 DEF Readable, Known, Handle, View, Integer, Key
  <2>3. ASSUME NEW r \in Registers, Readable(memory, object[r])'
        PROVE  Canonical(View(memory, object[r])')
    BY <2>2, <2>3 DEF CanonicalInv
  <2>4. ~trapped' => Full(memory, {})'
    BY <2>1 DEF CanonicalInv, Full, Shape, Held
  <2> QED
    BY <1>0, <2>3, <2>4 DEF CanonicalInv
<1> QED
  BY <1>1, <1>2, <1>3, <1>4, <1>5, <1>6, <1>7, <1>8, <1>9, <1>10 DEF Next

LEMMA CanonicalIsExact == CanonicalInv => ExactAndCanonical
<1> SUFFICES ASSUME CanonicalInv PROVE ExactAndCanonical
  OBVIOUS
<1>1. host \in Hosts /\ object \in [Registers -> Object]
  BY DEF CanonicalInv, MemoryInv, TypeOK
<1>2. \A x \in Operands : Canonical(x)
  BY DEF Operands, CanonicalInv
<1>3. ResultsAreExact
  BY <1>1, <1>2, OperandsExact DEF ResultsAreExact
<1>4. ASSUME NEW r \in Registers, Readable(memory, object[r])
      PROVE  object[r].small = (View(memory, object[r]).v \in -Limit .. Limit - 1)
  <2> DEFINE x == View(memory, object[r])
  <2>1. Canonical(x)
    BY <1>4 DEF CanonicalInv
  <2>2. object[r].small \in BOOLEAN /\ (x.small <=> object[r].small)
    BY <1>1 DEF Object, View, Big
  <2> HIDE DEF x
  <2>3. x.v \in Int /\ Limit \in Nat
    BY <2>1, LimitAssumption DEF Canonical, Object
  <2>4. x.v \in -Limit .. Limit - 1 <=> Fits(x.v)
    BY <2>3 DEF Fits
  <2>5. x.small <=> x.v \in -Limit .. Limit - 1
    BY <2>1, <2>4, Zenon DEF Canonical
  <2> QED
    BY <2>2, <2>5 DEF x
<1> QED
  BY <1>3, <1>4 DEF ExactAndCanonical, OneRepresentation

(* For any width of Int128, any registers, nodes, keys, shifts, exponents  *)
(* and bases, and either host: at every state of the program, whatever     *)
(* integers are in objects, every operation of Big_Int on them gives the   *)
(* exact result, and an integer is in the host exactly when it does not    *)
(* fit into an Int128.                                                     *)
THEOREM ResultsStayExact == Spec => []ExactAndCanonical
<1>1. Spec => []CanonicalInv
  BY CanonicalInit, CanonicalStep, PTL DEF Spec
<1> QED
  BY <1>1, CanonicalIsExact, PTL
=============================================================================
