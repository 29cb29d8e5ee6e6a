----------------------------- MODULE Evaluation -----------------------------
(***************************************************************************)
(* Values and the operations on them (semantics.cpp).                      *)
(*                                                                         *)
(* A value is a record [kind, is, of, code, frame].  The numbers in `is`   *)
(* are the value of one of basic type; a string is its code units, of      *)
(* which the properties tell apart a few.  `of` are the members of a       *)
(* group.  `code` is the syntax of a block, which runs in `frame`.         *)
(*                                                                         *)
(* A float n stands for n halves; what is not one is rounded to one, and   *)
(* what exceeds FloatMax to infinity.                                      *)
(*                                                                         *)
(* Evaluation passes a state s on: the variables, the number of errors     *)
(* reported and the first assertion that failed, "" for none.              *)
(***************************************************************************)
EXTENDS Types, ProcessingStatus

CONSTANT FloatMax   \* the greatest float, in halves, a natural number

NoCode == [x |-> "none"]
Val(kind, is) == [kind |-> kind, is |-> is, of |-> <<>>, code |-> NoCode, frame |-> 0]

UnitValue == Val("unit", <<>>)
NullValue == Val("null", <<>>)
BoolValue(b) == Val("boolean", <<IF b THEN 1 ELSE 0>>)
IntValue(n) == Val("integer", <<n>>)
FloatValue(n) == Val("floating", <<n>>)
StrValue(units) == Val("str", units)
BlockValue(code, frame) == [Val("block", <<>>) EXCEPT !.code = code, !.frame = frame]
GroupValue(members) == [Val("group", <<>>) EXCEPT !.of = members]

IsTrue(v) == v.is = <<1>>

(* Value::get_type: a value does not know what is in its group.            *)
TypeOf(v) == IF v.kind = "group" THEN DynamicGroup ELSE Basic(v.kind)

-----------------------------------------------------------------------------
(* Results.                                                                *)

None == Val("nothing", <<>>)
Given(s, v) == [s |-> s, status |-> "ok", value |-> v]
Without(s, status) == [s |-> s, status |-> status, value |-> None]
Report(s) == [s EXCEPT !.reports = @ + 1]
Refused(s) == Without(Report(s), "error")

(* An assertion that fails ends the program.                               *)
Asserted(s, why) == Without([s EXCEPT !.dead = IF @ = "" THEN why ELSE @], "fatal")

-----------------------------------------------------------------------------
(* Numbers.                                                                *)

Infinite == 1000
NaN == 2000
IsNaN(x) == x = NaN
IsInfinite(x) == x \in {Infinite, -Infinite}
Finite(x) == ~IsNaN(x) /\ ~IsInfinite(x)

Abs(n) == IF n < 0 THEN -n ELSE n
Sign(n) == IF n < 0 THEN -1 ELSE IF n > 0 THEN 1 ELSE 0
Rounded(x) == IF Abs(x) > FloatMax THEN Sign(x) * Infinite ELSE x

FloatSum(x, y) ==
    CASE IsNaN(x) \/ IsNaN(y) -> NaN
      [] IsInfinite(x) /\ IsInfinite(y) -> IF x = y THEN x ELSE NaN
      [] IsInfinite(x) -> x
      [] IsInfinite(y) -> y
      [] OTHER -> Rounded(x + y)

FloatNegated(x) == IF IsNaN(x) THEN x ELSE -x

FloatProduct(x, y) ==
    CASE IsNaN(x) \/ IsNaN(y) -> NaN
      [] IsInfinite(x) \/ IsInfinite(y) ->
             IF x = 0 \/ y = 0 THEN NaN ELSE Sign(x) * Sign(y) * Infinite
      [] OTHER -> Rounded((x * y) \div 2)

FloatQuotient(x, y) ==
    CASE IsNaN(x) \/ IsNaN(y) \/ (IsInfinite(x) /\ IsInfinite(y)) -> NaN
      [] y = 0 -> IF x = 0 THEN NaN ELSE Sign(x) * Infinite
      [] IsInfinite(x) -> Sign(x) * Sign(y) * Infinite
      [] IsInfinite(y) -> 0
      [] OTHER -> Rounded((2 * x * Sign(y)) \div Abs(y))

(* div and rem of integers, rounding to zero, up or down.                  *)
Quotient(x, y, rounding) ==
    LET down == (x * Sign(y)) \div Abs(y)
        exact == down * y = x
    IN  CASE exact \/ rounding = "down" -> down
          [] rounding = "up" -> down + 1
          [] OTHER -> IF Sign(x) * Sign(y) < 0 THEN down + 1 ELSE down

Remainder(x, y, rounding) == x - y * Quotient(x, y, rounding)

-----------------------------------------------------------------------------
(* Comparisons.  Strings are ordered by their units.                       *)

UnitsBefore(u, v) ==
    \E i \in 0 .. Len(u) :
        /\ i < Len(v)
        /\ \A j \in 1 .. i : u[j] = v[j]
        /\ i < Len(u) => u[i + 1] < v[i + 1]

Less(x, y) == IF x.kind = "str" THEN UnitsBefore(x.is, y.is) ELSE x.is[1] < y.is[1]
Alike(x, y) == x.is = y.is

Unordered(x, y) == x.kind = "floating" /\ (IsNaN(x.is[1]) \/ IsNaN(y.is[1]))

Compared(op, x, y) ==
    CASE Unordered(x, y) -> op = "ne"
      [] op = "eq" -> Alike(x, y)
      [] op = "ne" -> ~Alike(x, y)
      [] op = "lt" -> Less(x, y)
      [] op = "gt" -> Less(y, x)
      [] op = "le" -> Less(x, y) \/ Alike(x, y)
      [] op = "ge" -> Less(y, x) \/ Alike(x, y)

-----------------------------------------------------------------------------
(* The operators of expressions, and what their operands have to be.       *)

Comparisons == {"eq", "ne", "lt", "gt", "le", "ge"}
Logical == {"logical_or", "logical_and"}
Arithmetic == {"plus", "minus", "multiply", "divide", "remainder"}
Storing == {"let", "assign"}

OneOf(kinds) == UnionOf([i \in DOMAIN kinds |-> Basic(kinds[i])])

EqualityComparable == OneOf(<<"unit", "null", "boolean", "integer", "floating", "str">>)
RelationComparable == OneOf(<<"integer", "floating", "str">>)
Numeric == OneOf(<<"integer", "floating">>)

Admitted(op) ==
    CASE op \in Logical -> Basic("boolean")
      [] op \in {"eq", "ne"} -> EqualityComparable
      [] op \in {"lt", "gt", "le", "ge"} -> RelationComparable
      [] op \in {"plus", "minus", "multiply"} -> Numeric
      [] op = "divide" -> Basic("floating")
      [] op = "remainder" -> Basic("integer")

(* expect_types_homogeneous.                                               *)
Homogeneous(x, y, type) ==
    /\ InstanceOf(TypeOf(x), type) /\ InstanceOf(TypeOf(y), type)
    /\ Same(TypeOf(x), TypeOf(y))

(* check_dynamically_typed_operation.                                      *)
CheckedOperation(op, x, y) ==
    IF op \in Storing THEN x.kind = "str" /\ ValueHoldable(y.kind) /\ y.kind # "lazy"
    ELSE Homogeneous(x, y, Admitted(op))

Arithmetical(op, x, y) ==
    LET a == x.is[1]
        b == y.is[1]
    IN  IF x.kind = "integer"
        THEN IntValue(CASE op = "plus" -> a + b
                   [] op = "minus" -> a - b
                   [] op = "multiply" -> a * b
                   [] op = "remainder" -> Remainder(a, b, "zero"))
        ELSE FloatValue(CASE op = "plus" -> FloatSum(a, b)
                     [] op = "minus" -> FloatSum(a, FloatNegated(b))
                     [] op = "multiply" -> FloatProduct(a, b)
                     [] op = "divide" -> FloatQuotient(a, b))

Put(f, k, v) == [i \in DOMAIN f \cup {k} |-> IF i = k THEN v ELSE f[i]]

(* let declares a variable, assign sets one.                               *)
Stored(op, s, name, v) ==
    IF (name \in DOMAIN s.vars) = (op = "let") THEN Refused(s)
    ELSE Given([s EXCEPT !.vars = Put(@, name, v)], v)

(* evaluate_builtin of a dynamic operation.                                *)
Builtin(op, s, x, y) ==
    CASE ~CheckedOperation(op, x, y) -> Refused(s)
      [] OTHER ->
         (CASE op \in Storing -> Stored(op, s, x.is, y)
            [] op = "logical_or" -> Given(s, BoolValue(IsTrue(x) \/ IsTrue(y)))
            [] op = "logical_and" -> Given(s, BoolValue(IsTrue(x) /\ IsTrue(y)))
            [] op \in Comparisons -> Given(s, BoolValue(Compared(op, x, y)))
            [] op = "remainder" /\ y.is[1] = 0 -> Refused(s)
            [] OTHER -> Given(s, Arithmetical(op, x, y)))

(* members_equal and evaluate_internal_equality: groups, member by member, *)
(* up to the first difference.  Regular expressions and blocks are not     *)
(* expected.                                                               *)
RECURSIVE InternallyEqual(_, _, _), MembersEqual(_, _, _)

InternallyEqual(s, x, y) ==
    CASE x.kind # y.kind -> Given(s, BoolValue(FALSE))
      [] x.kind = "group" -> MembersEqual(s, x.of, y.of)
      [] x.kind \in {"regex", "block"} -> Asserted(s, "Invalid type in internal equality.")
      [] OTHER -> Builtin("eq", s, x, y)

MembersEqual(s, xs, ys) ==
    LET names == InternallyEqual(s, Head(xs).name, Head(ys).name)
        values == InternallyEqual(s, Head(xs).value, Head(ys).value)
    IN  CASE Len(xs) # Len(ys) -> Given(s, BoolValue(FALSE))
          [] xs = <<>> -> Given(s, BoolValue(TRUE))
          [] names.status # "ok" \/ ~IsTrue(names.value) -> Given(names.s, BoolValue(FALSE))
          [] values.s.dead # "" -> values
          [] values.status # "ok" \/ ~IsTrue(values.value) -> Given(values.s, BoolValue(FALSE))
          [] OTHER -> MembersEqual(s, Tail(xs), Tail(ys))

-----------------------------------------------------------------------------
(* evaluate_unary.                                                         *)

Unary(op, s, v) ==
    CASE op = "bitwise_not" /\ v.kind = "integer" -> Given(s, IntValue(-v.is[1] - 1))
      [] op = "logical_not" /\ v.kind = "boolean" -> Given(s, BoolValue(~IsTrue(v)))
      [] op = "plus" /\ v.kind \in {"integer", "floating"} -> Given(s, v)
      [] op = "minus" /\ v.kind = "integer" -> Given(s, IntValue(-v.is[1]))
      [] op = "minus" /\ v.kind = "floating" -> Given(s, FloatValue(FloatNegated(v.is[1])))
      [] OTHER -> Refused(s)

(* operate_unary of variables.cpp, the operations that are directives.     *)
Operated(op, v) ==
    LET n == v.is[1]
        half(up) == n + (IF up THEN 1 ELSE -1)     \* the whole number above or below
        whole == n % 2 = 0 \/ ~Finite(n)
        even(m) == m % 4 = 0
    IN  CASE op = "bit_not" -> IntValue(-n - 1)
          [] op = "pos" -> v
          [] op = "neg" -> IF v.kind = "integer" THEN IntValue(-n) ELSE FloatValue(FloatNegated(n))
          [] op = "abs" -> [v EXCEPT !.is = <<Abs(n)>>]
          [] op = "sqrt" ->
                 FloatValue(CASE n < 0 \/ IsNaN(n) -> NaN
                         [] n = Infinite -> n
                         [] OTHER -> CHOOSE r \in 0 .. n + 1 :
                                         r * r <= 2 * n /\ (r + 1) * (r + 1) > 2 * n)
          [] whole -> v
          [] op = "trunc" -> FloatValue(half(n < 0))
          [] op = "floor" -> FloatValue(half(FALSE))
          [] op = "ceil" -> FloatValue(half(TRUE))
          [] op = "nearest" -> FloatValue(half(even(n + 1)))
          [] op = "nearest_away_zero" -> FloatValue(half(n > 0))

(* operate_binary of variables.cpp, applied from left to right.            *)
OperatedBinary(op, x, y) ==
    LET a == x.is[1]
        b == y.is[1]
        nan == x.kind = "floating" /\ (IsNaN(a) \/ IsNaN(b))
    IN  CASE op = "min" -> IF nan THEN FloatValue(NaN) ELSE IF b < a THEN y ELSE x
          [] op = "max" -> IF nan THEN FloatValue(NaN) ELSE IF a < b THEN y ELSE x
          [] OTHER -> Arithmetical(op, x, y)
=============================================================================
