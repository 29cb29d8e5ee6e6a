----------------------------- MODULE Expressions -----------------------------
(***************************************************************************)
(* Expressions and directives: how they are evaluated and spliced          *)
(* (directive_processing.cpp), how arguments are matched to the parameters *)
(* of a built-in directive (parameters.cpp), and the directives that       *)
(* compute (directives/variables.cpp).                                     *)
(*                                                                         *)
(* An expression is a record whose field x names its alternative.  It is   *)
(* processed with a frame, an index into Frames, and in a state (see       *)
(* Evaluation).  Splicing yields the text that is written; markup that is  *)
(* generated is not part of it.  A float and the words `true`, `null` and  *)
(* so on are printed as one unit.                                          *)
(***************************************************************************)
EXTENDS Evaluation

CONSTANTS
    Frames,         \* Frames[f]: the arguments of a macro's invocation, and
                    \* the frame they are written in
    Statements,     \* what a document consists of: expressions, and the frame
                    \* they are processed with
    Operands,       \* expressions that operators are compared on
    MaxStatements   \* bound: how many of them are processed

VARIABLES
    env,            \* Context's variables
    before,         \* history: what they were before the last statement
    last            \* history: the statements, and what came of the last

expressionVars == <<env, before, last>>

Literal(kind, v) == [x |-> "literal", kind |-> kind, value |-> v]
Id(name) == [x |-> "id", name |-> name]
Quoted(elements) == [x |-> "quoted", elements |-> elements]
Block(elements) == [x |-> "block", elements |-> elements]
Group(members) == [x |-> "group", members |-> members]
UnaryOf(op, e) == [x |-> "unary", op |-> op, operand |-> e]
BinaryOf(op, l, r) == [x |-> "binary", op |-> op, lhs |-> l, rhs |-> r]
LetOf(name, e) == [x |-> "let", name |-> name, rhs |-> e]
Call(name, args, content) ==
    [x |-> "directive", name |-> name, arguments |-> args, content |-> content]
Text(units) == [x |-> "text", units |-> units]

Positional(e) == [kind |-> "positional", name |-> <<>>, rhs |-> <<e>>]
Named(name, e) == [kind |-> "named", name |-> <<name>>, rhs |-> <<e>>]
Ellipsis == [kind |-> "ellipsis", name |-> <<>>, rhs |-> <<>>]

-----------------------------------------------------------------------------
(* The directives: what they do (a class of behaviour and an operation),   *)
(* the type their behaviour promises, and their parameters.                *)

Param(name, matcher, type, optional) ==
    [name |-> name, matcher |-> matcher, type |-> type, optional |-> optional]

X == <<23>>         \* the names of parameters that arguments may be named by
Args == <<24>>
Base == <<25>>
ZPad == <<26>>
Format == <<27>>
NameOf == <<28>>
ValueOf == <<29>>
Y == <<30>>

XParam(type) == <<Param(X, "value", type, FALSE)>>
XYParams(type) == XParam(type) \o <<Param(Y, "value", type, FALSE)>>
NameParam == <<Param(NameOf, "value", Basic("str"), FALSE)>>
PackParam(matcher) == <<Param(Args, matcher, PackOf(Anything), FALSE)>>

VariableType == EqualityComparable      \* and groups
ToStrType == OneOf(<<"unit", "boolean", "integer", "floating", "str", "block">>)

WithGroups(t) == UnionOf(t.of \o <<GroupOf(<<>>)>>)

Unaries == {"pos", "neg", "abs", "bit_not", "sqrt", "trunc", "floor", "ceil",
            "nearest", "nearest_away_zero"}
NAry == [add |-> "plus", sub |-> "minus", mul |-> "multiply", div |-> "divide",
         min |-> "min", max |-> "max"]
Divisions == {"div_to_zero", "div_to_pos_inf", "div_to_neg_inf",
              "rem_to_zero", "rem_to_pos_inf", "rem_to_neg_inf"}
Rounding(name) == CASE name \in {"div_to_zero", "rem_to_zero"} -> "zero"
                    [] name \in {"div_to_pos_inf", "rem_to_pos_inf"} -> "up"
                    [] OTHER -> "down"

UnaryType(name) == CASE name = "bit_not" -> Basic("integer")
                     [] name \in {"pos", "neg", "abs"} -> Numeric
                     [] OTHER -> Basic("floating")

LogicalNames == {"and", "or"}

Directives ==
    {"not", "internal_eq", "to_str", "var_delete", "var_exists", "var_get", "var_let",
     "var_set", "element"} \cup LogicalNames \cup Comparisons \cup Unaries
    \cup DOMAIN NAry \cup Divisions

(* Mutant of StaticTypeOf: arithmetic is taken to be that of integers.     *)
StaticTypeOf_Integer(name) ==
    CASE name \in {"not", "internal_eq", "var_exists"} \cup LogicalNames \cup Comparisons
            -> Basic("boolean")
      [] name \in Divisions \cup DOMAIN NAry -> Basic("integer")
      [] name = "to_str" -> Basic("str")
      [] name \in {"var_delete", "var_let", "var_set"} -> Basic("unit")
      [] name = "element" -> Basic("block")
      [] OTHER -> Anything

(* The behaviours and the parameters they match.                           *)
StaticTypeOf(name) ==
    CASE name \in {"not", "internal_eq", "var_exists"} \cup LogicalNames \cup Comparisons
            -> Basic("boolean")
      [] name \in Divisions -> Basic("integer")
      [] name = "to_str" -> Basic("str")
      [] name \in {"var_delete", "var_let", "var_set"} -> Basic("unit")
      [] name = "element" -> Basic("block")
      [] OTHER -> Anything

ParametersOf(name) ==
    CASE name = "not" -> XParam(Basic("boolean"))
      [] name \in LogicalNames -> PackParam("lazy_pack")
      [] name \in Comparisons -> XYParams(Admitted(name))
      [] name = "internal_eq" -> XYParams(WithGroups(EqualityComparable))
      [] name \in Unaries -> XParam(UnaryType(name))
      [] name \in Divisions -> XYParams(Basic("integer"))
      [] name \in DOMAIN NAry -> PackParam("pack")
      [] name = "to_str" ->
             XParam(ToStrType) \o <<Param(Base, "value", Basic("integer"), TRUE),
                                    Param(ZPad, "value", Basic("integer"), TRUE),
                                    Param(Format, "option", Basic("str"), TRUE)>>
      [] name \in {"var_delete", "var_exists", "var_get"} -> NameParam
      [] name \in {"var_let", "var_set"} ->
             NameParam \o <<Param(ValueOf, "value", WithGroups(VariableType), name = "var_let")>>
      [] name = "element" ->
             <<Param(Args, "named_pack", PackOf(NamedOf(Basic("str"))), TRUE),
               Param(ValueOf, "value", Basic("block"), TRUE)>>

SpliceFormat == <<3>>
Formats == {<<1>>, <<2>>, SpliceFormat}   \* fixed, scientific, splice

(* get_static_type.                                                        *)
StaticType(e) ==
    CASE e.x = "directive" /\ e.name \in Directives -> StaticTypeOf(e.name)
      [] e.x = "literal" -> Basic(e.value.kind)
      [] e.x = "quoted" -> Basic("str")
      [] e.x = "block" -> Basic("block")
      [] e.x = "group" -> GroupOf(<<PackOf(Anything)>>)
      [] OTHER -> Anything

-----------------------------------------------------------------------------
(* Splicing a value that is not a block.                                   *)

Wrote(s, units) == [s |-> s, status |-> "ok", out |-> units]
WroteNothing(s, status) == [s |-> s, status |-> status, out |-> <<>>]
Dying(s, why) == WroteNothing(Asserted(s, why).s, "fatal")

Zero == 48
Minus == 45
SignOf(n) == IF n < 0 THEN <<Minus>> ELSE <<>>

RECURSIVE Digits(_, _)
Digits(n, radix) ==
    IF n < radix THEN <<Zero + n>> ELSE Append(Digits(n \div radix, radix), Zero + (n % radix))

Printed(v) ==
    LET n == v.is[1]
    IN  CASE v.kind = "unit" -> <<>>
          [] v.kind = "null" -> <<103>>
          [] v.kind = "boolean" -> IF IsTrue(v) THEN <<101>> ELSE <<102>>
          [] v.kind = "integer" -> SignOf(n) \o Digits(Abs(n), 10)
          [] v.kind = "floating" -> IF IsNaN(n) THEN <<104>> ELSE <<40000 + n>>
          [] v.kind = "str" -> v.is

(* Expressions contain one another, and blocks contain elements, through   *)
(* this operator only: the "value" or the "text" of e.                     *)
RECURSIVE Processed(_, _, _, _)

ValueIn(e, f, s) == Processed("value", e, f, s)
TextIn(e, f, s) == Processed("text", e, f, s)

(* process_greedy: an error does not keep what follows from being spliced. *)
RECURSIVE SpliceAll(_, _, _)

Followed(first, rest) ==
    [s |-> rest.s, status |-> Concat(first.status, rest.status), out |-> first.out \o rest.out]

AndTheRest(first, elements, f) ==
    IF IsBreak(first.status) THEN first ELSE Followed(first, SpliceAll(elements, f, first.s))

SpliceAll(elements, f, s) ==
    IF elements = <<>> THEN Wrote(s, <<>>)
    ELSE AndTheRest(TextIn(Head(elements), f, s), Tail(elements), f)

SpliceValue(v, s) ==
    CASE v.kind \in {"regex", "group"} -> WroteNothing(Report(s), "error")
      [] v.kind = "block" ->
             IF v.code.x = "block" THEN SpliceAll(v.code.elements, v.frame, s)
             ELSE TextIn(v.code, v.frame, s)
      [] OTHER -> Wrote(s, Printed(v))

SpliceResult(v) ==
    IF v.status # "ok" THEN WroteNothing(v.s, v.status) ELSE SpliceValue(v.value, v.s)

(* splice_to_plaintext and the like, whose result is a string.             *)
AsString(spliced) ==
    IF spliced.status = "ok" THEN Given(spliced.s, StrValue(spliced.out))
    ELSE Without(spliced.s, spliced.status)

-----------------------------------------------------------------------------
(* Matching arguments to parameters.  While matching, m is a record        *)
(* [s, status, bound, slots, mode, pack]: what was bound to each parameter *)
(* (a sequence), whether it was and by what, and the parameter whose pack  *)
(* is being filled.                                                        *)

(* Argument: evaluating it gives what a matcher looks at.  Whatever keeps  *)
(* it from having a value is at least an error to the directive.           *)
OfType(type, v) ==
    CASE v.status # "ok" -> Without(v.s, StatusMax(v.status, "error"))
      [] ~InstanceOf(TypeOf(v.value), type) -> Refused(v.s)
      [] OTHER -> v

MatchTyped(type, member, f, s) == OfType(type, ValueIn(member.rhs[1], f, s))

(* An option is spliced, not evaluated, and is one of a few words.         *)
AsOption(text) ==
    CASE text.status # "ok" -> Without(text.s, text.status)
      [] text.out \notin Formats -> Refused(text.s)
      [] OTHER -> Given(text.s, StrValue(text.out))

MatchOption(member, f, s) == AsOption(TextIn(member.rhs[1], f, s))

(* A lazy matcher takes the argument itself, but not the frame it was      *)
(* passed with.                                                            *)
MatchLazy(member, s) == Given(s, [Val("lazy", <<>>) EXCEPT !.of = <<member>>])

MatchPackOf(type, member, f, s) == MatchTyped(type.of[1], member, f, s)

MatchPackOfNamed(type, member, f, s) ==
    IF member.kind = "named" THEN MatchTyped(type.of[1].of[1], member, f, s) ELSE Refused(s)

MatchValue(p, member, f, s) ==
    CASE p.matcher = "lazy_pack" -> MatchLazy(member, s)
      [] p.matcher = "named_pack" -> MatchPackOfNamed(p.type, member, f, s)
      [] p.matcher = "pack" -> MatchPackOf(p.type, member, f, s)
      [] p.matcher = "option" -> MatchOption(member, f, s)
      [] OTHER -> MatchTyped(p.type, member, f, s)

Failing(m, result) == [m EXCEPT !.s = result.s, !.status = result.status]

(* The argument is bound to parameter i, in the mode that follows.         *)
BoundTo(m, i, mode, r) ==
    IF r.status # "ok" THEN Failing(m, r)
    ELSE [m EXCEPT !.s = r.s, !.bound[i] = Append(@, r.value), !.mode = mode,
                   !.slots[i] = IF @ = "free" THEN "given" ELSE @,
                   !.pack = IF mode \in {"pack", "named_pack"} THEN i ELSE @]

Bound(ps, m, i, member, f, mode) ==
    BoundTo(m, i, mode, MatchValue(ps[i], member, f, m.s))

(* What becomes of an argument: the parameter it is bound to and the mode, *)
(* or parameter 0 and why it is not bound to any.                          *)
Destined(parameter, mode) == [parameter |-> parameter, mode |-> mode]

MatchPositional(ps, m, i) ==
    CASE m.mode \in {"named", "named_pack"} -> Destined(0, "refused")
      [] m.mode = "pack" -> Destined(m.pack, "pack")
      [] i > Len(ps) -> Destined(0, "refused")
      [] m.slots[i] = "block" -> Destined(0, "refused")
      [] m.slots[i] = "given" -> Destined(0, "asserted")
      [] OTHER -> Destined(i, IF ps[i].type.kind = "pack" THEN "pack" ELSE "normal")

MatchNamed(ps, m, i, name) ==
    LET meant == {j \in DOMAIN ps : ps[j].name = name}
        j == CHOOSE k \in meant : TRUE
    IN  CASE m.mode = "named_pack" -> Destined(m.pack, "named_pack")
          [] m.mode = "normal" /\ i <= Len(ps) /\ ps[i].matcher = "named_pack" ->
                 Destined(i, "named_pack")
          [] meant = {} -> Destined(0, "refused")
          [] m.slots[j] # "free" -> Destined(0, "refused")
          [] OTHER -> Destined(j, "named")

MatchMember(ps, m, d, member, f) ==
    CASE d.mode = "refused" -> Failing(m, Refused(m.s))
      [] d.mode = "asserted" -> Failing(m, Asserted(m.s, "positional argument matched twice"))
      [] OTHER -> Bound(ps, m, d.parameter, member, f, d.mode)

(* The name of an argument is evaluated first.                             *)
NamedMember(ps, m, i, member, f, name) ==
    IF name.status # "ok" THEN Failing(m, Without(name.s, StatusMax("error", name.status)))
    ELSE MatchMember(ps, [m EXCEPT !.s = name.s], MatchNamed(ps, m, i, name.value.is), member, f)

(* `...` is the arguments of the frame it is written in, counted on from   *)
(* its own position; what follows it, however, is not counted on.          *)
RECURSIVE MatchMembers(_, _, _, _, _)

MatchNext(ps, m, member, k, at) ==
    CASE member.kind = "positional" ->
             MatchMember(ps, m, MatchPositional(ps, m, at.base + k + 1), member, at.frame)
      [] member.kind = "named" ->
             NamedMember(ps, m, at.base + k + 1, member, at.frame,
                         ValueIn(member.name[1], at.frame, m.s))
      [] member.kind = "ellipsis" ->
             MatchMembers(ps, m, Frames[at.frame].arguments, 0,
                          [frame |-> Frames[at.frame].frame, base |-> at.base + k])

MatchMembers(ps, m, members, k, at) ==
    IF k = Len(members) \/ m.status # "ok" THEN m
    ELSE MatchMembers(ps, MatchNext(ps, m, members[k + 1], k, at), members, k + 1, at)

(* match_call: the block is bound to the last parameter before anything    *)
(* else, and in the end every mandatory parameter has to have a value.     *)
Unmatched(ps, s) ==
    [s |-> s, status |-> "ok", bound |-> [i \in DOMAIN ps |-> <<>>],
     slots |-> [i \in DOMAIN ps |-> "free"], mode |-> "normal", pack |-> 0]

WithBlock(m, n, block) ==
    IF block.status # "ok" THEN Failing(m, block)
    ELSE [m EXCEPT !.s = block.s, !.bound[n] = <<block.value>>, !.slots[n] = "block"]

BlockMatched(ps, m, content, f) ==
    IF content = <<>> THEN m
    ELSE WithBlock(m, Len(ps), MatchValue(ps[Len(ps)], Positional(content[1]), f, m.s))

NoneMissing(ps, m) ==
    IF m.status = "ok" /\ \E i \in DOMAIN ps : ~ps[i].optional /\ m.bound[i] = <<>>
    THEN Failing(m, Refused(m.s)) ELSE m

MatchedTo(ps, call, f, s) ==
    NoneMissing(ps, MatchMembers(ps, BlockMatched(ps, Unmatched(ps, s), call.content, f),
                                 call.arguments, 0, [frame |-> f, base |-> 0]))

Matched(call, f, s) == MatchedTo(ParametersOf(call.name), call, f, s)

-----------------------------------------------------------------------------
(* The directives that compute.                                            *)

(* Logical_Expression_Evaluator: the arguments, which are lazy, are        *)
(* evaluated one after another until one decides.                          *)
RECURSIVE EvaluateLogical(_, _, _, _)

Decided(name, v, members, f) ==
    CASE v.status # "ok" -> v
      [] v.value.kind # "boolean" -> Refused(v.s)
      [] IsTrue(v.value) = (name = "or") -> v
      [] OTHER -> EvaluateLogical(name, members, f, v.s)

(* An argument whose static type is known to be wrong is not evaluated;    *)
(* all are evaluated with the frame of the call, wherever they come from.  *)
MightBe(t, type) == Same(t, Anything) \/ InstanceOf(t, type)

EvaluateLogical(name, members, f, s) ==
    CASE members = <<>> -> Given(s, BoolValue(name = "and"))
      [] Head(members).kind = "named" -> Asserted(s, "member.is_positional()")
      [] ~MightBe(StaticType(Head(members).rhs[1]), Basic("boolean")) -> Refused(s)
      [] OTHER -> Decided(name, ValueIn(Head(members).rhs[1], f, s), Tail(members), f)
(* Two groups, or two values of one type.                                  *)
EvaluateEqual(x, y, s) ==
    CASE x.kind # y.kind -> Refused(s)
      [] x.kind = "group" -> InternallyEqual(s, x, y)
      [] OTHER -> Builtin("eq", s, x, y)

(* An error is reported for every argument that is not fit, and one more   *)
(* for every argument that is not like the first.                          *)
EvaluateNAry(op, values, s) ==
    LET wanted == IF op = "divide" THEN Basic("floating") ELSE Numeric
        unfit == {i \in DOMAIN values : ~InstanceOf(TypeOf(values[i]), wanted)}
        unlike == {i \in DOMAIN values : values[i].kind # values[1].kind}
        wrong == Cardinality(unfit) + Cardinality(unlike)
    IN  IF wrong > 0 THEN Without([s EXCEPT !.reports = @ + wrong], "error")
        ELSE Given(s, FoldLeft(LAMBDA x, y : OperatedBinary(op, x, y),
                               values[1], Tail(values)))

IntegerToStr(n, base, zpad, s) ==
    LET radix == IF base = <<>> THEN 10 ELSE base[1].is[1]
        width == IF zpad = <<>> THEN 0 ELSE zpad[1].is[1]
        digits == Digits(Abs(n), radix)
        zeros == [i \in 1 .. (IF width > Len(digits) THEN width - Len(digits) ELSE 0) |-> Zero]
    IN  IF radix \notin 2 .. 36 \/ width \notin 0 .. 1000000 THEN Refused(s)
        ELSE Given(s, StrValue(SignOf(n) \o zeros \o digits))

FloatToStr(x, format, s) ==
    Given(s, StrValue(Printed(x) \o (IF format = <<>> \/ format[1].is = SpliceFormat \/ ~Finite(x.is[1])
                                     THEN <<>> ELSE format[1].is)))

(* to_str takes a base and a padding with integers, a format with floats.  *)
EvaluateToStr(x, base, zpad, format, s) ==
    LET extra == CASE x.kind = "integer" -> format
                   [] x.kind = "floating" -> base \o zpad
                   [] OTHER -> base \o zpad \o format
    IN  CASE extra # <<>> -> Refused(s)
          [] x.kind = "unit" -> Given(s, StrValue(<<105>>))
          [] x.kind = "integer" -> IntegerToStr(x.is[1], base, zpad, s)
          [] x.kind = "floating" -> FloatToStr(x, format, s)
          [] OTHER -> AsString(SpliceValue(x, s))

EvaluateDivision(name, x, y, s) ==
    CASE y.is[1] = 0 -> Refused(s)
      [] name \in {"div_to_zero", "div_to_pos_inf", "div_to_neg_inf"} ->
             Given(s, IntValue(Quotient(x.is[1], y.is[1], Rounding(name))))
      [] OTHER -> Given(s, IntValue(Remainder(x.is[1], y.is[1], Rounding(name))))

(* Mutant of EvaluateVariable: what cannot be done is not reported.        *)
EvaluateVariable_Lenient(name, key, value, s) ==
    LET exists == key \in DOMAIN s.vars
    IN  CASE name = "var_exists" -> Given(s, BoolValue(exists))
          [] exists = (name = "var_let") -> Without(s, "error")
          [] name = "var_get" -> Given(s, s.vars[key])
          [] name = "var_delete" ->
                 Given([s EXCEPT !.vars = Restrict(@, DOMAIN @ \ {key})], UnitValue)
          [] OTHER -> Given([s EXCEPT !.vars = Put(@, key, value)], UnitValue)

EvaluateVariable(name, key, value, s) ==
    LET exists == key \in DOMAIN s.vars
    IN  CASE name = "var_exists" -> Given(s, BoolValue(exists))
          [] exists = (name = "var_let") -> Refused(s)
          [] name = "var_get" -> Given(s, s.vars[key])
          [] name = "var_delete" ->
                 Given([s EXCEPT !.vars = Restrict(@, DOMAIN @ \ {key})], UnitValue)
          [] OTHER -> Given([s EXCEPT !.vars = Put(@, key, value)], UnitValue)

(* A comparison's error is not expected: the value of a result that has    *)
(* none is taken.                                                          *)
ExpectedToSucceed(r) == IF r.status = "ok" THEN r ELSE Asserted(r.s, "has_value()")

EvaluateComparison(op, x, y, s) == ExpectedToSucceed(Builtin(op, s, x, y))

(* do_evaluate of the directives, once their arguments are matched.        *)
EvaluateMatched(name, bound, f, s) ==
    LET x == bound[1][1]
        y == bound[2][1]
        value == IF bound[2] = <<>> THEN NullValue ELSE y
        arguments == [i \in DOMAIN bound[1] |-> bound[1][i].of[1]]
    IN  CASE name = "not" -> Given(s, BoolValue(~IsTrue(x)))
          [] name \in LogicalNames -> EvaluateLogical(name, arguments, f, s)
          [] name \in Comparisons -> EvaluateComparison(name, x, y, s)
          [] name = "internal_eq" -> EvaluateEqual(x, y, s)
          [] name \in Unaries -> Given(s, Operated(name, x))
          [] name \in Divisions -> EvaluateDivision(name, x, y, s)
          [] name \in DOMAIN NAry -> EvaluateNAry(NAry[name], bound[1], s)
          [] name = "to_str" -> EvaluateToStr(x, bound[2], bound[3], bound[4], s)
          [] name \in {"var_let", "var_set"} -> EvaluateVariable(name, x.is, value, s)
          [] OTHER -> EvaluateVariable(name, x.is, NullValue, s)

-----------------------------------------------------------------------------
(* Evaluating expressions.                                                 *)

(* evaluate of a directive.  One that makes a block is its own value, and  *)
(* is processed where that is spliced.                                     *)
EvaluateInvoked(name, m, f) ==
    IF m.status # "ok" THEN Without(m.s, m.status) ELSE EvaluateMatched(name, m.bound, f, m.s)

EvaluateCall(call, f, s) ==
    CASE call.name \notin Directives -> Refused(s)
      [] call.name = "element" -> Given(s, BlockValue(call, f))
      [] OTHER -> EvaluateInvoked(call.name, Matched(call, f, s), f)

EvaluateId(e, s) == IF e.name \in DOMAIN s.vars THEN Given(s, s.vars[e.name]) ELSE Refused(s)

(* Evaluate_Member_Values: the members of `...` are those of the frame.    *)
RECURSIVE EvaluateMembers(_, _, _, _)

AfterEllipsis(inner, members, f) ==
    IF inner.status # "ok" THEN inner ELSE EvaluateMembers(members, f, inner.s, inner.value.of)

AfterValue(name, v, members, f, out) ==
    IF v.status # "ok" THEN v
    ELSE EvaluateMembers(members, f, v.s, Append(out, [name |-> name, value |-> v.value]))

AfterName(name, members, f, out) ==
    IF name.status # "ok" THEN name
    ELSE AfterValue(name.value, ValueIn(Head(members).rhs[1], f, name.s), Tail(members), f, out)

EvaluateMembers(members, f, s, out) ==
    CASE members = <<>> -> Given(s, GroupValue(out))
      [] Head(members).kind = "ellipsis" ->
             AfterEllipsis(EvaluateMembers(Frames[f].arguments, Frames[f].frame, s, out),
                           Tail(members), f)
      [] Head(members).kind = "named" ->
             AfterName(ValueIn(Head(members).name[1], f, s), members, f, out)
      [] OTHER -> AfterName(Given(s, NullValue), members, f, out)

OnValues(op, l, r) == IF r.status # "ok" THEN r ELSE Builtin(op, r.s, l.value, r.value)

(* The left side alone may decide.                                         *)
RightSide(r) == IF r.status = "ok" /\ r.value.kind # "boolean" THEN Refused(r.s) ELSE r

(* Mutant of LeftSide: the right side is always evaluated.                 *)
LeftSide_Eager(e, f, l) ==
    CASE l.status # "ok" -> l
      [] OTHER -> OnValues(e.op, l, ValueIn(e.rhs, f, l.s))

LeftSide(e, f, l) ==
    CASE l.status # "ok" -> l
      [] l.value.kind # "boolean" -> Refused(l.s)
      [] IsTrue(l.value) = (e.op = "logical_or") -> l
      [] OTHER -> RightSide(ValueIn(e.rhs, f, l.s))

EvaluateConnective(e, f, s) == LeftSide(e, f, ValueIn(e.lhs, f, s))

OnRight(e, f, l) == IF l.status # "ok" THEN l ELSE OnValues(e.op, l, ValueIn(e.rhs, f, l.s))

EvaluateBinary(e, f, s) == OnRight(e, f, ValueIn(e.lhs, f, s))

OnOperand(op, v) == IF v.status # "ok" THEN v ELSE Unary(op, v.s, v.value)

EvaluateUnary(e, f, s) == OnOperand(e.op, ValueIn(e.operand, f, s))

Declared(name, v) == IF v.status # "ok" THEN v ELSE Stored("let", v.s, name, v.value)

EvaluateLet(e, f, s) == Declared(e.name, ValueIn(e.rhs, f, s))

Evaluate(e, f, s) ==
    CASE s.dead # "" -> Without(s, "fatal")
      [] e.x = "literal" -> Given(s, e.value)
      [] e.x = "id" -> EvaluateId(e, s)
      [] e.x = "quoted" -> AsString(SpliceAll(e.elements, f, s))
      [] e.x = "block" -> Given(s, BlockValue(e, f))
      [] e.x = "group" -> EvaluateMembers(e.members, f, s, <<>>)
      [] e.x = "unary" -> EvaluateUnary(e, f, s)
      [] e.x = "binary" /\ e.op \in Logical -> EvaluateConnective(e, f, s)
      [] e.x = "binary" -> EvaluateBinary(e, f, s)
      [] e.x = "let" -> EvaluateLet(e, f, s)
      [] e.x = "directive" -> EvaluateCall(e, f, s)

-----------------------------------------------------------------------------
(* Splicing expressions.                                                   *)

(* Passthrough_Behavior: the content, inside of an element.                *)
SpliceElement(bound, s) ==
    IF bound[2] = <<>> THEN Wrote(s, <<>>) ELSE SpliceValue(bound[2][1], s)

(* splice of a behaviour.  Where it fails, but not in those that yield     *)
(* unit or a block, the error's markup is generated, and the status is     *)
(* what it was.                                                            *)
SpliceInvoked(m) ==
    IF m.status # "ok" THEN WroteNothing(m.s, m.status) ELSE SpliceElement(m.bound, m.s)

SpliceCall(call, f, s) ==
    IF call.name = "element" THEN SpliceInvoked(Matched(call, f, s))
    ELSE SpliceResult(EvaluateCall(call, f, s))

(* Mutant of SplicePrimary: blocks in variables are written as their       *)
(* first element only.                                                     *)
SplicePrimary_First(e, f, s) ==
    CASE e.x \in {"quoted", "block"} -> SpliceAll(SubSeq(e.elements, 1, 1), f, s)
      [] e.x = "group" -> Dying(s, "primary.is_spliceable()")
      [] e.x = "literal" -> Wrote(s, Printed(e.value))
      [] e.x = "id" -> IF e.name \in DOMAIN s.vars THEN SpliceValue(s.vars[e.name], s)
                       ELSE WroteNothing(Report(s), "error")

(* splice_primary.  Infinity is not thought of.                            *)
SplicePrimary(e, f, s) ==
    CASE e.x \in {"quoted", "block"} -> SpliceAll(e.elements, f, s)
      [] e.x = "group" -> Dying(s, "primary.is_spliceable()")
      [] e.x = "literal" /\ e.kind = "infinity" ->
             Dying(s, "All spliceable kinds should have been handled above.")
      [] e.x = "literal" -> Wrote(s, Printed(e.value))
      [] e.x = "id" -> IF e.name \in DOMAIN s.vars THEN SpliceValue(s.vars[e.name], s)
                       ELSE WroteNothing(Report(s), "error")

(* What is stored is not written.                                          *)
IsStoring(e) == e.x = "let" \/ (e.x = "binary" /\ e.op = "assign")

SpliceStored(v) == IF v.status # "ok" THEN WroteNothing(v.s, v.status) ELSE Wrote(v.s, <<>>)

Splice(e, f, s) ==
    CASE s.dead # "" -> WroteNothing(s, "fatal")
      [] e.x = "text" -> Wrote(s, e.units)
      [] e.x = "directive" -> SpliceCall(e, f, s)
      [] e.x \in {"literal", "id", "quoted", "block", "group"} -> SplicePrimary(e, f, s)
      [] IsStoring(e) -> SpliceStored(ValueIn(e, f, s))
      [] OTHER -> SpliceResult(ValueIn(e, f, s))

Processed(what, e, f, s) == IF what = "value" THEN Evaluate(e, f, s) ELSE Splice(e, f, s)

-----------------------------------------------------------------------------
(* A document: statements are spliced one after another, at top level or   *)
(* in a macro's body, until one ends the program.                          *)

InState(variables) == [vars |-> variables, reports |-> 0, dead |-> ""]

ExpressionInit ==
    /\ env = <<>>
    /\ before = <<>>
    /\ last = [count |-> 0, e |-> Text(<<>>), frame |-> 0, result |-> Wrote(InState(<<>>), <<>>)]

SpliceStatement ==
    /\ last.count < MaxStatements
    /\ last.result.s.dead = ""
    /\ \E statement \in Statements :
           last' = [count |-> last.count + 1, e |-> statement.e, frame |-> statement.frame,
                    result |-> TextIn(statement.e, statement.frame, InState(env))]
    /\ env' = last'.result.s.vars
    /\ before' = env

-----------------------------------------------------------------------------
Alive == last.result.s.dead = ""

(* Variables hold values (variable_type, evaluate_builtin's let_dynamic).  *)
TypeOK ==
    /\ last.result.status \in Statuses
    /\ \A x \in DOMAIN env : ValueHoldable(env[x].kind) /\ env[x].kind # "lazy"

(* A statement fails if and only if at least one error has been reported:  *)
(* what a document says is never dropped in silence, and no error is       *)
(* logged for output that is complete (Processing_Status against           *)
(* Context::try_error, throughout directive_processing.cpp, parameters.cpp *)
(* and variables.cpp).                                                     *)
ErrorsAreReported ==
    /\ TypeOK
    /\ Alive => (last.result.status = "ok" <=> last.result.s.reports = 0)

Evaluated == ValueIn(last.e, last.frame, InState(before))

(* The type that is known of an expression before it is evaluated is a     *)
(* type of its value (get_static_type against the behaviours' evaluate):   *)
(* lazy arguments are rejected by the former without looking at the latter.*)
StaticTypesHold ==
    last.e.x # "text" /\ Alive =>
        \A v \in {Evaluated} :
            v.status = "ok" => InstanceOf(TypeOf(v.value), StaticType(last.e))

(* The expressions that can be evaluated, but whose splicing fails an      *)
(* assertion: splice_primary has no case for `infinity`, although it is    *)
(* spliceable, and wants no group, which splice_value would report.        *)
Overlooked(e) == e.x = "group" \/ (e.x = "literal" /\ e.kind = "infinity")

(* Splicing an expression directly succeeds, fails or ends the program as  *)
(* evaluating it and splicing its value does, with the same variables and  *)
(* as many reports, and when it succeeds, with the same text (the fast     *)
(* paths of splice_expression and of the behaviours that override splice). *)
(* This leaves out `\(infinity)` and `\((1, 2))`, which end the program at *)
(* directive_processing.cpp:472 and :428 while evaluating them gives a     *)
(* value; and assignments and lets, whose value is not written.            *)
FastPathsAgree ==
    last.e.x # "text" /\ ~IsStoring(last.e) /\ ~Overlooked(last.e) =>
        \A r \in {SpliceResult(Evaluated)} :
            /\ last.result.status = r.status
            /\ last.result.s = r.s
            /\ r.status = "ok" => last.result.out = r.out

OperatorNames ==
    [plus |-> "add", minus |-> "sub", multiply |-> "mul", divide |-> "div",
     remainder |-> "rem_to_zero", eq |-> "eq", ne |-> "ne", lt |-> "lt", gt |-> "gt",
     le |-> "le", ge |-> "ge", logical_or |-> "or", logical_and |-> "and"]

Agree(r1, r2) ==
    r1.s.dead = "" /\ r2.s.dead = ""
        => /\ r1.status = r2.status
           /\ r1.status = "ok" => r1.value = r2.value /\ r1.s.vars = r2.s.vars

(* `x op y` and the directive of that name, which is implemented once      *)
(* more, fail for the same operands, and have the same value and the same  *)
(* effects otherwise, whichever operands they evaluate (evaluate of a      *)
(* binary expression against Comparison_Expression_Behavior,               *)
(* N_Ary_Numeric_Expression_Behavior, Logical_Expression_Evaluator).       *)
OperatorsAgree ==
    last.count + 1 = MaxStatements =>
        \A op \in DOMAIN OperatorNames, l, r \in Operands :
            Agree(ValueIn(BinaryOf(op, l, r), 0, InState(env)),
                  ValueIn(Call(OperatorNames[op], <<Positional(l), Positional(r)>>, <<>>), 0,
                          InState(env)))

(* "The operation is a comparison, so there's no way it could have failed, *)
(* e.g. through division by zero." (directives/variables.cpp:260)          *)
ComparisonsSucceed == last.result.s.dead # "has_value()"
=============================================================================
