-------------------------- MODULE BigIntArithmetic --------------------------
(***************************************************************************)
(* The arithmetic of Big_Int (big_int.hpp).  An integer is small, and then *)
(* in the object itself as an Int128, or big, and then in the host: in a   *)
(* cpp_int (big_int_boost.cpp, host "native") or in a BigInt of JavaScript *)
(* (BigIntApi in cowel-wasm.ts, host "wasm").  The operators below are the *)
(* operators of Big_Int on objects [small, v]: which path they take, and   *)
(* what that path computes in integers of limited width.                   *)
(*                                                                         *)
(* Widths are scaled down: Limit stands for 2^127, Word for 2^64, HalfBits *)
(* for 64, and IntMax for the largest int.                                 *)
(***************************************************************************)
EXTENDS Integers, Sequences, FiniteSets

CONSTANTS Limit, Word, HalfBits, IntMax

(* b ^ n, written so that it can be reasoned about.                        *)
Power(b, n) == LET power[k \in 0 .. n] == IF k = 0 THEN 1 ELSE b * power[k - 1] IN power[n]

ASSUME LimitAssumption == Limit \in Nat \ {0}

ASSUME WidthAssumption ==
    /\ HalfBits \in Nat \ {0}
    /\ Word = Power(2, HalfBits)
    /\ Word * Word = 2 * Limit
    /\ IntMax \in Nat \ {0}

Hosts == {"native", "wasm"}
Roundings == {"to_zero", "to_pos_inf", "to_neg_inf"}

Object == [small : BOOLEAN, v : Int]

Small(v) == [small |-> TRUE, v |-> v]
Big(v) == [small |-> FALSE, v |-> v]

(* fits_i128, and the range checks of yieldResult.                         *)
Fits(v) == -Limit <= v /\ v < Limit

(* yield_result and yieldResult, with from_host_result: what fits comes    *)
(* back in cowel_big_int_small_result.                                     *)
Yield(v) == IF Fits(v) THEN Small(v) ELSE Big(v)

(* Signed integers of 128 bits wrap around; in sums and differences at     *)
(* most once.                                                              *)
WrapOnce(v) ==
    IF v >= Limit THEN v - 2 * Limit ELSE IF v < -Limit THEN v + 2 * Limit ELSE v

Wrap(v) == ((v + Limit) % (2 * Limit)) - Limit

(* cowel_big_int_i192 of the words of an Int128 d and a third word top.    *)
(* The host of WASM does not check whether the result fits.                *)
Unsigned(d) == IF d < 0 THEN d + 2 * Limit ELSE d

I192(h, d, top) ==
    LET v == top * (2 * Limit) + Unsigned(d)
    IN  IF h = "native" THEN Yield(v) ELSE Big(v)

Sign(n) == IF n < 0 THEN -1 ELSE IF n > 0 THEN 1 ELSE 0
Magnitude(n) == IF n < 0 THEN -n ELSE n

(* cowel_big_int_pow2_i32(127)                                             *)
Pow2Limit == Yield(Limit)

Pow2(e) == IF e < 0 THEN Small(0) ELSE Yield(Power(2, e))

-----------------------------------------------------------------------------
(* Unary operations.                                                       *)

(* Mutant of Negated: what fits again stays in the host.                   *)
Negated_Kept(x) ==
    IF x.small THEN IF x.v = -Limit THEN Pow2Limit ELSE Small(-x.v) ELSE Big(-x.v)

Negated(x) ==
    IF x.small
    THEN IF x.v = -Limit THEN Pow2Limit ELSE Small(-x.v)
    ELSE Yield(-x.v)

Complement(x) == IF x.small THEN Small(-x.v - 1) ELSE Yield(-x.v - 1)

AbsoluteValue(x) ==
    IF x.small
    THEN IF x.v = -Limit THEN Pow2Limit ELSE Small(Magnitude(x.v))
    ELSE Yield(Magnitude(x.v))

Incremented(x) ==
    IF x.small
    THEN IF x.v = Limit - 1 THEN Pow2Limit ELSE Small(x.v + 1)
    ELSE Yield(x.v + 1)

(* The three words are -1, the largest Int64 and -1.                       *)
Decremented(h, x) ==
    IF x.small
    THEN IF x.v = -Limit THEN I192(h, Limit - 1, -1) ELSE Small(x.v - 1)
    ELSE Yield(x.v - 1)

(* The bits of the magnitude (msb + 1), and the widths with a sign.        *)
BitLength(n) == IF n = 0 THEN 0 ELSE CHOOSE k \in 1 .. n : Power(2, k - 1) <= n /\ n < Power(2, k)

NativeTwosWidth(n) == BitLength(IF n < 0 THEN -n - 1 ELSE n) + 1

WasmTwosWidth(n) ==
    LET m == Magnitude(n)
        IsPow2 == m = Power(2, BitLength(m) - 1)
    IN  IF n > 0 THEN BitLength(m) + 1
        ELSE IF n < 0 THEN BitLength(m) + (IF IsPow2 THEN 0 ELSE 1)
        ELSE 1

TwosWidth(h, x) ==
    IF x.small \/ h = "native" THEN NativeTwosWidth(x.v) ELSE WasmTwosWidth(x.v)

OnesWidth(x) == BitLength(Magnitude(x.v)) + 1

(* as_i128 and as_i64: the value cut to its low bits, and whether that     *)
(* lost anything.                                                          *)
AsI128(x) ==
    LET cut == IF x.small THEN x.v ELSE Wrap(x.v)
    IN  [value |-> cut, lossy |-> cut # x.v]

AsI64(x) ==
    LET wide == AsI128(x)
        cut == ((wide.value + Word \div 2) % Word) - Word \div 2
    IN  [value |-> cut, lossy |-> wide.lossy \/ cut # wide.value]

-----------------------------------------------------------------------------
(* Binary operations.                                                      *)

(* The host's.                                                             *)
HostComparison(a, b) == Sign(a - b)
HostSum(a, b) == Yield(a + b)
HostDifference(a, b) == Yield(a - b)
HostProduct(a, b) == Yield(a * b)

(* operator<=>: the host compares its integer with the small one.          *)
Compare(x, y) ==
    IF x.small /\ ~y.small THEN -HostComparison(y.v, x.v) ELSE HostComparison(x.v, y.v)

Plus(h, x, y) ==
    IF x.small /\ y.small
    THEN LET sum == WrapOnce(x.v + y.v)
         IN  IF sum = x.v + y.v THEN Small(sum)
             ELSE I192(h, sum, IF sum < 0 THEN 0 ELSE -1)
    ELSE HostSum(x.v, y.v)

(* A small x minus a big y is the host's y - x, negated.                   *)
Minus(h, x, y) ==
    IF x.small /\ y.small
    THEN LET diff == WrapOnce(x.v - y.v)
         IN  IF diff = x.v - y.v THEN Small(diff)
             ELSE I192(h, diff, IF diff < 0 THEN 0 ELSE -1)
    ELSE IF x.small THEN Negated(HostDifference(y.v, x.v))
    ELSE HostDifference(x.v, y.v)

Times(x, y) ==
    IF x.small /\ y.small /\ Fits(x.v * y.v) THEN Small(x.v * y.v) ELSE HostProduct(x.v, y.v)

(* `/` and `%` of C++, of cpp_int and of BigInt round toward zero.         *)
Quotient(a, b) == Sign(a) * Sign(b) * (Magnitude(a) \div Magnitude(b))
Remainder(a, b) == Sign(a) * (Magnitude(a) % Magnitude(b))

(* Int128: the sign of the exact quotient is the sign bit of x ^ y.        *)
SameSign(a, b) == (a < 0) = (b < 0)

DivRounded(rounding, a, b) ==
    LET inexact == Remainder(a, b) # 0
    IN  CASE rounding = "to_zero" -> Quotient(a, b)
          [] rounding = "to_pos_inf" ->
                 Quotient(a, b) + (IF inexact /\ SameSign(a, b) THEN 1 ELSE 0)
          [] rounding = "to_neg_inf" ->
                 Quotient(a, b) - (IF inexact /\ ~SameSign(a, b) THEN 1 ELSE 0)

RemRounded(rounding, a, b) ==
    LET rest == Remainder(a, b)
    IN  CASE rounding = "to_zero" -> rest
          [] rounding = "to_pos_inf" ->
                 rest - (IF rest # 0 /\ SameSign(a, b) THEN b ELSE 0)
          [] rounding = "to_neg_inf" ->
                 rest + (IF rest # 0 /\ ~SameSign(a, b) THEN b ELSE 0)

(* cpp_int: rounded toward zero and then adjusted, by sign() ^ sign().     *)
NativeAdjustment(rounding, a, b) ==
    LET differ == (Sign(a) < 0) # (Sign(b) < 0)
    IN  IF Remainder(a, b) = 0 THEN 0
        ELSE CASE rounding = "to_pos_inf" /\ ~differ -> 1
               [] rounding = "to_neg_inf" /\ differ -> -1
               [] OTHER -> 0

NativeDivRem(rounding, a, b) ==
    LET adjustment == NativeAdjustment(rounding, a, b)
    IN  [quotient |-> Yield(Quotient(a, b) + adjustment),
         remainder |-> Yield(Remainder(a, b) - adjustment * b)]

(* BigInt: by a comparison of a >= 0 with b >= 0.                          *)
WasmDivRem(rounding, a, b) ==
    LET inexact == Remainder(a, b) # 0
        same == (a >= 0) = (b >= 0)
        adjustment == IF inexact /\ same /\ rounding = "to_pos_inf" THEN 1
                      ELSE IF inexact /\ ~same /\ rounding = "to_neg_inf" THEN -1
                      ELSE 0
    IN  [quotient |-> Yield(Quotient(a, b) + adjustment),
         remainder |-> Yield(Remainder(a, b) - adjustment * b)]

HostDivRem(h, rounding, a, b) ==
    IF h = "native" THEN NativeDivRem(rounding, a, b) ELSE WasmDivRem(rounding, a, b)

(* div and rem, for y # 0, which they assert.  The quotient of two small   *)
(* integers is an Int128 and wraps around, but for the one special case.   *)
Div(h, rounding, x, y) ==
    IF x.small /\ y.small
    THEN IF x.v = -Limit /\ y.v = -1 THEN Pow2Limit
         ELSE Small(Wrap(DivRounded(rounding, x.v, y.v)))
    ELSE HostDivRem(h, rounding, x.v, y.v).quotient

Rem(h, rounding, x, y) ==
    IF x.small /\ y.small
    THEN IF y.v = -1 THEN Small(0) ELSE Small(Wrap(RemRounded(rounding, x.v, y.v)))
    ELSE HostDivRem(h, rounding, x.v, y.v).remainder

(* div_rem has one special case for both of its results.                   *)
DivRem(h, rounding, x, y) ==
    IF ~(x.small /\ y.small) THEN HostDivRem(h, rounding, x.v, y.v)
    ELSE IF x.v = -Limit /\ y.v = -1
    THEN [quotient |-> Pow2Limit, remainder |-> Small(0)]
    ELSE [quotient |-> Small(Wrap(DivRounded(rounding, x.v, y.v))),
          remainder |-> Small(Wrap(RemRounded(rounding, x.v, y.v)))]

-----------------------------------------------------------------------------
(* Shifts, for a shift s >= 0.  `<<` leaves the path of Int128 as soon as  *)
(* the result may not fit.                                                 *)

HostShiftLeft(a, s) == Yield(a * Power(2, s))
HostShiftRight(a, s) == Yield(a \div Power(2, s))

ShiftLeft(x, s) ==
    LET mayOverflow == s >= HalfBits - 1 \/ x.v >= Word \/ x.v <= -Word
    IN  IF x.small /\ ~mayOverflow THEN Small(Wrap(x.v * Power(2, s))) ELSE HostShiftLeft(x.v, s)

ShiftRight(x, s) ==
    IF x.small
    THEN IF s >= 2 * HalfBits THEN Small(IF x.v >= 0 THEN 0 ELSE -1)
         ELSE Small(x.v \div Power(2, s))
    ELSE HostShiftRight(x.v, s)

(* operator<< and operator>> for any int s: a negative s shifts the other  *)
(* way; since -IntMax - 1 has no negative, that is done in two shifts.     *)
Shl(x, s) ==
    IF s >= 0 THEN ShiftLeft(x, s)
    ELSE IF s = -IntMax - 1 THEN ShiftRight(ShiftRight(x, IntMax), 1)
    ELSE ShiftRight(x, -s)

Shr(x, s) ==
    IF s >= 0 THEN ShiftRight(x, s)
    ELSE IF s = -IntMax - 1 THEN ShiftLeft(ShiftLeft(x, IntMax), 1)
    ELSE ShiftLeft(x, -s)

(* pow, which asserts that it is not asked for the power 0 of 0.           *)
PowerDefined(x, e) == e # 0 \/ x.v # 0

HostPower(a, e) == Yield(IF e < 0 \/ a = 0 THEN 0 ELSE Power(a, e))

Pow(x, e) ==
    IF e < 0 THEN Small(0) ELSE IF e = 0 THEN Small(1) ELSE HostPower(x.v, e)

-----------------------------------------------------------------------------
(* Bitwise operations: in two's complement of the width of Int128 when     *)
(* both integers are small, of any width in the host.                      *)

Bit(n, i) == (n \div Power(2, i)) % 2 = 1

Combined(op, p, q) ==
    CASE op = "and" -> p /\ q
      [] op = "or" -> p \/ q
      [] op = "xor" -> p # q

Bitwise(op, a, b, width) ==
    LET Weight(i) == IF Combined(op, Bit(a, i), Bit(b, i)) THEN Power(2, i) ELSE 0
        low[k \in 0 .. width - 1] == IF k = 0 THEN 0 ELSE low[k - 1] + Weight(k - 1)
    IN  low[width - 1] - Weight(width - 1)

Larger(a, b) == IF a > b THEN a ELSE b

HostBits(op, a, b, width) == Yield(Bitwise(op, a, b, width))

BitwiseObject(op, h, x, y) ==
    IF x.small /\ y.small
    THEN Small(Bitwise(op, x.v, y.v, 2 * HalfBits))
    ELSE HostBits(op, x.v, y.v, Larger(TwosWidth(h, x), TwosWidth(h, y)))

And(h, x, y) == BitwiseObject("and", h, x, y)
Or(h, x, y) == BitwiseObject("or", h, x, y)
Xor(h, x, y) == BitwiseObject("xor", h, x, y)

-----------------------------------------------------------------------------
(* Conversion to digits and back.                                          *)

DigitCount(n, base) ==
    IF n = 0 THEN 1 ELSE CHOOSE k \in 1 .. n : Power(base, k - 1) <= n /\ n < Power(base, k)

HostToString(n, base) ==
    LET count == DigitCount(n, base)
    IN  [i \in 1 .. count |-> (n \div Power(base, count - i)) % base]

(* print_to: big_int_to_string returns nothing when the sign and digits    *)
(* need more than the buffer, whose size is estimated from the width.      *)
PrintTo(x, base) ==
    LET digits == HostToString(Magnitude(x.v), base)
        length == Len(digits) + (IF x.v < 0 THEN 1 ELSE 0)
        capacity == OnesWidth(x) + 1
    IN  [fits |-> x.small \/ length <= capacity, negative |-> x.v < 0, digits |-> digits]

(* Digit by digit, in big_int_from_string and in parseBigInt.              *)
HostFromString(digits, base) ==
    LET number[k \in 0 .. Len(digits)] ==
            IF k = 0 THEN 0 ELSE number[k - 1] * base + digits[k]
    IN  number[Len(digits)]

(* from_characters: digits that overflow an Int128 go to the host.         *)
FromCharacters(text, base) ==
    LET n == HostFromString(text.digits, base)
        v == IF text.negative THEN -n ELSE n
    IN  IF Fits(v) THEN Small(v) ELSE Yield(v)
=============================================================================
