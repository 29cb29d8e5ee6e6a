------------------------------ MODULE Parsing ------------------------------
(***************************************************************************)
(* The parser (parse.cpp): from tokens to a sequence of instructions, each *)
(* a leaf, the push that opens a node or the pop that closes it.  Tokens   *)
(* are not in the instructions: whoever reads them walks the tokens in     *)
(* step.  A parser p has the tokens ts, pos, the instructions out, ok      *)
(* (m_success), and dead, which names the assertion that failed or the     *)
(* read past the last token that ended it.                                 *)
(***************************************************************************)
EXTENDS Integers, Sequences, SequencesExt

BlankTokens == {"whitespace", "line_comment", "block_comment"}
Keyword == {"unit", "null", "true", "false", "infinity"}
Closers == {"comma", "parenthesis_right"}

(* token_kind_op_precedence                                                *)
Precedence(kind) ==
    CASE kind = "equals" -> 1
      [] kind = "logical_or" -> 2
      [] kind = "logical_and" -> 3
      [] kind \in {"equals_equals", "not_equals"} -> 4
      [] kind \in {"less_than", "greater_than", "less_equal", "greater_equal"} -> 5
      [] kind \in {"plus", "minus"} -> 6
      [] kind \in {"asterisk", "slash", "percent"} -> 7
      [] OTHER -> 0

(* token_kind_binary_op_instructions, and those of the prefix operators.   *)
Binary(kind) == "expr_" \o kind
Unary(kind) == "unary_" \o kind

(* Tokens that cannot begin an expression, silently.                       *)
NoExpression ==
    {"comma", "ellipsis", "equals", "parenthesis_right", "brace_right", "escape",
     "directive_splice_name", "line_terminator", "asterisk", "equals_equals", "greater_equal",
     "greater_than", "less_equal", "less_than", "logical_and", "logical_or", "not_equals",
     "percent", "slash"}

-----------------------------------------------------------------------------
AtEnd(p) == p.pos > Len(p.ts)
Kind(p) == IF AtEnd(p) THEN "eof" ELSE p.ts[p.pos].kind

(* Nothing happens after the first failure; at the end, every loop ends.   *)
Die(p, why) ==
    [p EXCEPT !.dead = IF @ = "" THEN why ELSE @, !.pos = Len(p.ts) + 1]

Reported(p) == [p EXCEPT !.ok = IF p.dead = "" THEN FALSE ELSE @]
(* error(m_tokens[m_pos].location, ...)                                    *)
Error(p) == IF AtEnd(p) THEN Die(p, "out of bounds") ELSE Reported(p)

Yes(p) == [p |-> p, ok |-> TRUE]
No(p) == [p |-> p, ok |-> FALSE]
OrError(r) == IF r.ok THEN r.p ELSE Error(r.p)

Advance(p) == [p EXCEPT !.pos = @ + 1]
Instruction(do, what, n) == [do |-> do, what |-> what, n |-> n]
Put(p, do, what) == [p EXCEPT !.out = Append(@, Instruction(do, what, 0))]
(* emit_and_advance_by_one                                                 *)
Leaf(p, what) == Put(Advance(p), "leaf", what)

(* Mutant of Aborted: the instructions are not taken back.                 *)
Aborted_KeepsInstructions(before, after) ==
    LET back == [before EXCEPT !.ok = after.ok, !.out = after.out]
    IN  IF after.dead = "" THEN back ELSE Die(back, after.dead)

(* ~Scoped_Attempt: the position and the instructions are as they were     *)
(* before; what was reported stays reported.                               *)
Aborted(before, after) ==
    LET back == [before EXCEPT !.ok = after.ok]
    IN  IF after.dead = "" THEN back ELSE Die(back, after.dead)

(* The rules of the grammar contain one another through this operator      *)
(* only: rule is what is parsed at p, n the least precedence of operators  *)
(* in an expression.                                                       *)
RECURSIVE Parsed(_, _, _)

ExpressionAt(p) == Parsed("expression", p, 0)
GroupAt(p) == Parsed("group", p, 0).p
BlockAt(p) == Parsed("block", p, 0).p
QuotedAt(p, what) == Parsed(what, p, 0).p

(* consume_blank_sequence                                                  *)
RECURSIVE BlankSequence(_)
BlankSequence(p) ==
    IF Kind(p) \in BlankTokens THEN BlankSequence(Leaf(p, "skip")) ELSE p

-----------------------------------------------------------------------------
(* skip_to_end_of_group_member                                             *)
RECURSIVE SkipNested(_)
SkipNested(p) ==
    CASE Kind(p) \in Closers \cup {"eof"} -> p
      [] Kind(p) = "parenthesis_left" -> SkipNested(GroupAt(p))
      [] Kind(p) = "brace_left" -> SkipNested(BlockAt(p))
      [] OTHER -> SkipNested(Advance(p))

OrStuck(p, q) ==
    IF q.pos = p.pos /\ Kind(p) \notin Closers THEN Die(q, "no progress") ELSE q

SkipMember(p) == OrStuck(p, SkipNested(p))

OrSkipped(r) == IF r.ok THEN r.p ELSE SkipMember(Error(r.p))

(* expect_member_name                                                      *)
NamedOrNot(p, named) == IF Kind(named) = "equals" THEN Yes(BlankSequence(Leaf(named, "equals")))
                        ELSE No(Aborted(p, named))

MemberName(p) ==
    CASE Kind(p) = "identifier" -> NamedOrNot(p, BlankSequence(Leaf(p, "unquoted_member_name")))
      [] Kind(p) = "string_quote" -> NamedOrNot(p, BlankSequence(QuotedAt(p, "quoted_member_name")))
      [] OTHER -> No(p)

(* consume_group_member: the push instruction, which is known last, has    *)
(* its place at from the beginning.                                        *)
MemberEnd(p, at, kind) ==
    IF Kind(p) \notin Closers THEN SkipMember(Error(p))
    ELSE Put([p EXCEPT !.out[at] = Instruction("push", kind, 0)], "pop", kind)

MemberValue(value, at, kind) ==
    IF value.ok THEN MemberEnd(BlankSequence(value.p), at, kind) ELSE SkipMember(Error(value.p))

MemberRest(name, at) ==
    IF ~name.ok /\ Kind(name.p) = "ellipsis"
    THEN MemberEnd(BlankSequence(Leaf(name.p, "ellipsis")), at, "ellipsis_argument")
    ELSE MemberValue(ExpressionAt(BlankSequence(name.p)), at,
                     IF name.ok THEN "named_member" ELSE "positional_member")

GroupMember(p) ==
    IF AtEnd(p) THEN Die(p, "member at the end")
    ELSE MemberRest(MemberName(BlankSequence(Put(p, "leaf", "skip"))), Len(p.out) + 1)

(* consume_group                                                           *)
RECURSIVE GroupMembers(_, _, _)
GroupMembers(p, at, count) ==
    LET q == BlankSequence(p)
    IN  CASE AtEnd(p) -> Die(p, "unterminated group")
          [] ~AtEnd(p) /\ Kind(q) = "parenthesis_right" ->
                 Put(Advance([q EXCEPT !.out[at].n = count]), "pop", "group")
          [] ~AtEnd(p) /\ Kind(q) = "comma" -> GroupMembers(Leaf(q, "comma"), at, count)
          [] OTHER -> GroupMembers(GroupMember(q), at, count + 1)

ParsedGroup(p) == GroupMembers(Put(Advance(p), "push", "group"), Len(p.out) + 1, 0)

(* consume_group_tail                                                      *)
RECURSIVE GroupTail(_, _, _)
GroupTail(p, at, count) ==
    LET q == BlankSequence(Leaf(p, "comma"))
        Closed(r) == Put(Advance([r EXCEPT !.out[at].n = count]), "pop", "group")
    IN  CASE AtEnd(p) -> Reported(p)
          [] Kind(p) = "parenthesis_right" -> Closed(p)
          [] Kind(p) = "comma" -> IF Kind(q) = "parenthesis_right" THEN Closed(q)
                                  ELSE GroupTail(GroupMember(q), at, count + 1)
          [] OTHER -> GroupTail(SkipMember(Error(p)), at, count)

(* consume_group_or_parenthesized_expression: what it is shows behind the  *)
(* first member, which is then made the first member of a group.  at is    *)
(* the place of the instruction that is pushed, and that of the member is  *)
(* behind those in front of it.                                            *)
AsGroup(p, at, count) == [p EXCEPT !.out[at] = Instruction("push", "group", count)]

Promoted(p, at, first, kind) ==
    GroupTail(Put([AsGroup(p, at, 1) EXCEPT
                       !.out = InsertAt(@, first, Instruction("push", kind, 0))], "pop", kind),
              at, 1)

ClosedOrGroup(p, at, first) ==
    IF Kind(p) = "parenthesis_right" THEN Put(Advance(p), "pop", "parenthesized")
    ELSE Promoted(IF Kind(p) = "comma" THEN p ELSE SkipMember(Error(p)), at, first,
                  "positional_member")

ValueOrGroup(value, at, first) ==
    IF value.ok THEN ClosedOrGroup(BlankSequence(value.p), at, first)
    ELSE GroupTail(AsGroup(Error(value.p), at, 0), at, 0)

NamedOrValue(name, at, first) ==
    IF name.ok
    THEN Promoted(BlankSequence(OrSkipped(ExpressionAt(BlankSequence(name.p)))), at, first,
                  "named_member")
    ELSE ValueOrGroup(ExpressionAt(name.p), at, first)

Opened(p, at, first) ==
    CASE Kind(p) = "parenthesis_right" -> Put(AsGroup(Advance(p), at, 0), "pop", "group")
      [] Kind(p) = "ellipsis" ->
             Promoted(BlankSequence(Leaf(p, "ellipsis")), at, first, "ellipsis_argument")
      [] OTHER -> NamedOrValue(MemberName(p), at, first)

GroupOrParenthesized(p) ==
    LET opened == BlankSequence(Put(Advance(p), "push", "parenthesized"))
    IN  Opened(opened, Len(p.out) + 1, Len(opened.out) + 1)

-----------------------------------------------------------------------------
(* consume_let_expression                                                  *)
LetExpression(p) ==
    LET named == BlankSequence(Put(Advance(p), "push", "let"))
        assigned == BlankSequence(Leaf(named, "id_expression"))
    IN  CASE Kind(named) # "identifier" -> SkipMember(Error(named))
          [] Kind(named) = "identifier" /\ Kind(assigned) # "equals" -> SkipMember(Error(assigned))
          [] OTHER -> Put(OrSkipped(ExpressionAt(BlankSequence(Advance(assigned)))), "pop", "let")

(* expect_directive_call_expression: without a group and a block, it is    *)
(* no call.                                                                *)
CallWithGroup(p) ==
    Yes(Put(IF Kind(p) = "brace_left" THEN BlockAt(p) ELSE p, "pop", "directive_call"))

CallBehindName(p, named) ==
    CASE Kind(named) = "parenthesis_left" -> CallWithGroup(BlankSequence(GroupAt(named)))
      [] Kind(named) = "brace_left" -> Yes(Put(BlockAt(named), "pop", "directive_call"))
      [] OTHER -> No(Aborted(p, named))

DirectiveCall(p) == CallBehindName(p, BlankSequence(Put(Advance(p), "push", "directive_call")))

OrIdentifier(call) == Yes(IF call.ok THEN call.p ELSE Leaf(call.p, "id_expression"))

(* do_expect_prefix_expression: the attempt begins behind the operator.    *)
PrefixEnd(p, operand) ==
    IF operand.ok THEN Yes(Put(operand.p, "pop", Unary(Kind(p))))
    ELSE No(Aborted(Advance(p), operand.p))

PrefixExpression(p) ==
    PrefixEnd(p, Parsed("unary", BlankSequence(Put(Advance(p), "push", Unary(Kind(p)))), 0))

(* expect_unary_expression                                                 *)
UnaryExpression(p) ==
    CASE Kind(p) \in {"bitwise_not", "logical_not", "plus", "minus"} -> PrefixExpression(p)
      [] Kind(p) = "identifier" -> OrIdentifier(DirectiveCall(p))
      [] Kind(p) = "let" -> Yes(LetExpression(p))
      [] Kind(p) = "string_quote" -> Yes(QuotedAt(p, "quoted_string"))
      [] Kind(p) = "parenthesis_left" -> Yes(GroupOrParenthesized(p))
      [] Kind(p) = "brace_left" -> Yes(BlockAt(p))
      [] Kind(p) \in Keyword \cup {"decimal_int"} -> Yes(Leaf(p, Kind(p)))
      [] Kind(p) \in NoExpression \cup {"eof"} -> No(p)
      [] OTHER -> No(Error(p))

(* The left side of an assignment has to be an identifier by itself.       *)
IsIdentifier(out, from) ==
    LET side == SelectSeq(SubSeq(out, from, Len(out)), LAMBDA i : i.what # "skip")
    IN  Len(side) = 1 /\ side[1].what = "id_expression"

RECURSIVE Operators(_, _, _)

Operated(p, right, start, min) ==
    Operators(Put(OrSkipped(right), "pop", Binary(Kind(p))), start, min)

(* The push of an operator is inserted in front of its left side.          *)
WithPush(p, start) ==
    [Advance(p) EXCEPT !.out = InsertAt(@, start, Instruction("push", Binary(Kind(p)), 0))]

(* Mutant of AtOperator: all operators bind to the right.                  *)
AtOperator_RightAssociative(p, start, min) ==
    IF Precedence(Kind(p)) \in {0} \cup 1 .. min - 1 THEN p
    ELSE Operated(p, Parsed("expression", BlankSequence(WithPush(p, start)), Precedence(Kind(p))),
                  start, min)

AtOperator(p, start, min) ==
    LET level == Precedence(Kind(p))
        assign == Kind(p) = "equals"
        checked(q) == IF assign /\ ~IsIdentifier(p.out, start) THEN Reported(q) ELSE q
    IN  IF level = 0 \/ level < min THEN p
        ELSE Operated(p, Parsed("expression", BlankSequence(checked(WithPush(p, start))),
                                IF assign THEN level ELSE level + 1),
                      start, min)

(* expect_expression_with_min_precedence: all that has been parsed since   *)
(* start is the left side of an operator that binds tightly enough.        *)
Operators(p, start, min) == AtOperator(BlankSequence(p), start, min)

WithOperators(left, start, min) ==
    IF left.ok THEN Yes(Operators(left.p, start, min)) ELSE left

Expression(p, min) == WithOperators(Parsed("unary", p, 0), Len(p.out) + 1, min)

-----------------------------------------------------------------------------
(* consume_directive_splice                                                *)
SpliceBehindGroup(p) ==
    Put(IF Kind(p) = "brace_left" THEN BlockAt(p) ELSE p, "pop", "directive_splice")

SpliceBehindName(p) ==
    SpliceBehindGroup(IF Kind(p) = "parenthesis_left" THEN GroupAt(p) ELSE p)

DirectiveSplice(p) == SpliceBehindName(Put(Advance(p), "push", "directive_splice"))

RECURSIVE SkipParentheses(_, _)
SkipParentheses(p, depth) ==
    CASE AtEnd(p) -> p
      [] Kind(p) = "parenthesis_left" -> SkipParentheses(Advance(p), depth + 1)
      [] Kind(p) = "parenthesis_right" ->
             IF depth = 0 THEN p ELSE SkipParentheses(Advance(p), depth - 1)
      [] OTHER -> SkipParentheses(Advance(p), depth)

(* consume_expression_splice                                               *)
SpliceClosed(p) ==
    IF Kind(p) = "parenthesis_right" THEN Put(Advance(p), "pop", "expression_splice")
    ELSE Die(p, "not closed")

SpliceEnd(p) ==
    SpliceClosed(IF Kind(p) = "parenthesis_right" THEN p ELSE SkipParentheses(Error(p), 0))

ExpressionSplice(p) ==
    SpliceEnd(BlankSequence(OrError(
        ExpressionAt(BlankSequence(Put(Advance(p), "push", "expression_splice"))))))

(* consume_expression_line_splice: whether there was an expression does    *)
(* not matter; other tokens up to the end of the line are an error.        *)
LineEnd(p) ==
    LET ends == {k \in p.pos .. Len(p.ts) : p.ts[k].kind = "line_terminator"}
        end == IF ends = {} THEN Len(p.ts) + 1 ELSE CHOOSE k \in ends : \A j \in ends : k <= j
        trailing == \E k \in p.pos .. end - 1 : p.ts[k].kind \notin BlankTokens
        skipped == [IF trailing THEN Reported(p) ELSE p EXCEPT !.pos = end]
    IN  IF ends = {} THEN Reported(skipped)
        ELSE Put(Advance(skipped), "pop", "expression_line_splice")

LineSplice(p) ==
    LineEnd(ExpressionAt(BlankSequence(Put(Advance(p), "push", "expression_line_splice"))).p)

(* expect_markup_element and consume_markup_sequence                       *)
RECURSIVE Elements(_, _, _)
Elements(p, context, count) ==
    LET More(q) == Elements(q, context, count + 1)
        done == [p |-> p, n |-> count]
    IN  CASE Kind(p) = "eof" -> done
          [] Kind(p) = context \o "_text" -> More(Leaf(p, "text"))
          [] Kind(p) \in {"escape", "line_comment", "block_comment"} -> More(Leaf(p, Kind(p)))
          [] Kind(p) = "directive_splice_name" -> More(DirectiveSplice(p))
          [] Kind(p) = "expression_splice" -> More(ExpressionSplice(p))
          [] Kind(p) = "expression_line_splice" -> More(LineSplice(p))
          [] Kind(p) = "brace_right" /\ context = "block" -> done
          [] Kind(p) = "string_quote" /\ context = "quoted_string" -> done
          [] OTHER -> [p |-> Die(p, "unexpected token in markup"), n |-> count]

(* consume_quoted and consume_block: their elements are counted in n.      *)
EnclosedEnd(end, at, what, closer) ==
    IF Kind(end.p) = closer THEN Put(Advance([end.p EXCEPT !.out[at].n = end.n]), "pop", what)
    ELSE Die(end.p, "not closed")

Enclosed(p, what, context, closer) ==
    EnclosedEnd(Elements(Put(Advance(p), "push", what), context, 0), Len(p.out) + 1, what, closer)

Quoted(p, what) == Enclosed(p, what, "quoted_string", "string_quote")
ParsedBlock(p) == Enclosed(p, "block", "block", "brace_right")

(* consume_document                                                        *)
DocumentEnd(end) == Put([end.p EXCEPT !.out[1].n = end.n], "pop", "document")

ParsedDocument(p) == DocumentEnd(Elements(Put(p, "push", "document"), "document", 0))

Parsed(rule, p, n) ==
    CASE rule = "expression" -> Expression(p, n)
      [] rule = "unary" -> UnaryExpression(p)
      [] rule = "group" -> Yes(ParsedGroup(p))
      [] rule = "block" -> Yes(ParsedBlock(p))
      [] rule \in {"quoted_string", "quoted_member_name"} -> Yes(Quoted(p, rule))
      [] rule = "document" -> Yes(ParsedDocument(p))

Parse(tokens) ==
    Parsed("document", [ts |-> tokens, pos |-> 1, out |-> <<>>, ok |-> TRUE, dead |-> ""], 0).p
=============================================================================
