----------------------------- MODULE SyntaxTree -----------------------------
(***************************************************************************)
(* The builder of the syntax tree (build_ast.cpp), which walks the tokens  *)
(* and the instructions in step.  A builder b has the tokens ts and the    *)
(* instructions ins with the next of each, t and i, and dead, the first    *)
(* assertion that failed, those of the debug build included.  A node is    *)
(* [kind, from, to, kids]: it stands for the lexemes from .. to - 1.       *)
(***************************************************************************)
EXTENDS Parsing

Node(kind, from, to, kids) == [kind |-> kind, from |-> from, to |-> to, kids |-> kids]

Failed(b, why) == [b EXCEPT !.dead = IF @ = "" THEN why ELSE @, !.i = Len(b.ins) + 1]

NoInstructionLeft(b) == b.i > Len(b.ins)
TokenKind(b) == IF b.t > Len(b.ts) THEN "none" ELSE b.ts[b.t].kind
Begin(b) == IF b.t > Len(b.ts) THEN b.end ELSE b.ts[b.t].at
TokenEnd(b) == IF b.t > Len(b.ts) THEN b.end ELSE b.ts[b.t].at + b.ts[b.t].length

(* cst_instruction_kind_fixed_token: the tokens an instruction stands for, *)
(* or "any".                                                               *)
FixedToken(i) ==
    CASE i.what = "group" -> IF i.do = "push" THEN "parenthesis_left" ELSE "parenthesis_right"
      [] i.what = "parenthesized" ->
             IF i.do = "push" THEN "parenthesis_left" ELSE "parenthesis_right"
      [] i.what = "block" -> IF i.do = "push" THEN "brace_left" ELSE "brace_right"
      [] i.what \in {"quoted_string", "quoted_member_name"} -> "string_quote"
      [] i.what = "expression_splice" ->
             IF i.do = "push" THEN "expression_splice" ELSE "parenthesis_right"
      [] i.what = "expression_line_splice" ->
             IF i.do = "push" THEN "expression_line_splice" ELSE "line_terminator"
      [] i.what = "directive_splice" /\ i.do = "push" -> "directive_splice_name"
      [] i.what = "directive_call" /\ i.do = "push" -> "identifier"
      [] i.what \in {"unary_bitwise_not", "unary_logical_not", "unary_plus", "unary_minus"}
            /\ i.do = "push" ->
             (CASE i.what = "unary_bitwise_not" -> "bitwise_not"
                [] i.what = "unary_logical_not" -> "logical_not"
                [] i.what = "unary_plus" -> "plus"
                [] i.what = "unary_minus" -> "minus")
      [] i.what \in {"unquoted_member_name", "id_expression"} -> "identifier"
      [] i.what \in {"escape", "line_comment", "block_comment", "ellipsis", "equals", "comma",
                     "decimal_int"} \cup Keyword -> i.what
      [] OTHER -> "any"

(* peek_instruction                                                        *)
Peeked(b) ==
    CASE NoInstructionLeft(b) -> Failed(b, "no instruction")
      [] ~NoInstructionLeft(b) /\ FixedToken(b.ins[b.i]) \notin {"any", TokenKind(b)} ->
             Failed(b, "out of step")
      [] OTHER -> b

Current(b) == IF NoInstructionLeft(b) THEN Instruction("none", "none", 0) ELSE b.ins[b.i]
At(b, do, what) == Current(b).do = do /\ Current(b).what = what

(* pop_instruction, and the assertion about it; advance_by_tokens.         *)
Popped(b, do, what) ==
    LET p == Peeked(b)
    IN  IF At(p, do, what) THEN [p EXCEPT !.i = @ + 1] ELSE Failed(p, "unexpected instruction")
Stepped(b) == IF b.t > Len(b.ts) THEN Failed(b, "no token") ELSE [b EXCEPT !.t = @ + 1]
Taken(b, do, what) == Stepped(Popped(b, do, what))

(* Expressions, groups, blocks and strings contain one another through     *)
(* this operator only: what is built next.                                 *)
RECURSIVE BuiltAt(_, _)

ExpressionIn(b) == BuiltAt(b, "expression")
DelimitedIn(b, what) == BuiltAt(b, what)

(* ignore_skips                                                            *)
RECURSIVE IgnoreSkips(_)
IgnoreSkips(b) ==
    CASE NoInstructionLeft(b) -> b
      [] At(b, "leaf", "skip") -> IgnoreSkips(Taken(b, "leaf", "skip"))
      [] OTHER -> Peeked(b)

Built(b, kind, from, to, kids) == [b |-> b, node |-> Node(kind, from, to, kids)]

(* The checks of a Primary: a source that is not empty and, for a group,   *)
(* a block or a string, begins and ends with its delimiters.               *)
Primary(b, kind, from, to, kids) ==
    LET delimiters == CASE kind = "group" -> <<"(", ")">> [] kind = "block" -> <<"{", "}">>
                        [] OTHER -> <<"\"", "\"">>
        valid == /\ from < to
                 /\ kind \in {"group", "block", "quoted_string", "quoted_member_name"} =>
                        <<b.source[from], b.source[to - 1]>> = delimiters
    IN  Built(IF valid THEN b ELSE Failed(b, "invalid source"), kind, from, to, kids)

(* build_simple_primary                                                    *)
Simple(b) ==
    LET what == Current(b).what
    IN  Primary(Stepped(Popped(b, "leaf", what)), what, Begin(b), TokenEnd(b), <<>>)

(* build_group_member: the source of a named member is that of its value.  *)
MemberWithValue(value, kind) ==
    Built(Popped(IgnoreSkips(value.b), "pop", kind), kind,
          value.node.from, value.node.to, <<value.node>>)

NameOf(b) ==
    IF At(b, "leaf", "unquoted_member_name") THEN Taken(b, "leaf", "unquoted_member_name")
    ELSE DelimitedIn(b, "quoted_member_name").b

StartedMember(b, kind) ==
    CASE kind = "named_member" ->
             MemberWithValue(ExpressionIn(IgnoreSkips(Taken(IgnoreSkips(NameOf(b)),
                                                            "leaf", "equals"))), kind)
      [] kind = "positional_member" -> MemberWithValue(ExpressionIn(b), kind)
      [] kind = "ellipsis_argument" ->
             Built(Popped(IgnoreSkips(Taken(b, "leaf", "ellipsis")), "pop", kind), kind,
                   Begin(b), TokenEnd(b), <<>>)
      [] OTHER -> Built(Failed(b, "bad member"), "none", b.end, b.end, <<>>)

GroupMemberOf(b) ==
    LET kind == Current(b).what
    IN  StartedMember(IgnoreSkips(Popped(b, "push", kind)), kind)

(* try_build_group: its source ends where the next token begins.           *)
RECURSIVE Members(_, _)
WithMember(member, nodes) == Members(member.b, Append(nodes, member.node))

Members(b, nodes) ==
    CASE NoInstructionLeft(b) -> [b |-> b, nodes |-> nodes]
      [] At(b, "pop", "group") -> [b |-> Taken(b, "pop", "group"), nodes |-> nodes]
      [] Current(b).do = "leaf" /\ Current(b).what \in {"skip", "comma", "equals"} ->
             Members(Taken(b, "leaf", Current(b).what), nodes)
      [] OTHER -> WithMember(GroupMemberOf(b), nodes)

GroupFrom(b, members) == Primary(members.b, "group", Begin(b), Begin(members.b), members.nodes)

Group(b) == GroupFrom(b, Members(Taken(b, "push", "group"), <<>>))

(* build_directive: a group and a block that may both be missing.          *)
Spaced(b, what) == IF what = "directive_call" THEN IgnoreSkips(b) ELSE b

Ended(b, start, what, kids) == Built(b, what, Begin(start), Begin(b), kids)

WithBlock(block, start, what, kids) ==
    Ended(Popped(block.b, "pop", what), start, what, Append(kids, block.node))

BehindGroup(b, start, what, kids) ==
    IF At(b, "push", "block") THEN WithBlock(DelimitedIn(b, "block"), start, what, kids)
    ELSE Ended(Popped(b, "pop", what), start, what, kids)

WithGroup(group, start, what) ==
    BehindGroup(Spaced(group.b, what), start, what, <<group.node>>)

BehindName(b, start, what) ==
    IF At(b, "push", "group") THEN WithGroup(BuiltAt(b, "group"), start, what)
    ELSE BehindGroup(Spaced(Peeked(b), what), start, what, <<>>)

BuiltDirective(b, what) == BehindName(Spaced(Taken(b, "push", what), what), b, what)

(* build_expression_splice                                                 *)
SpliceFrom(b, start, what, kids) == Built(Stepped(b), what, Begin(start), TokenEnd(b), kids)

SpliceOf(value, start, what) ==
    SpliceFrom(Popped(IgnoreSkips(value.b), "pop", what), start, what, <<value.node>>)

BuiltSplice(b, what) ==
    LET opened == IgnoreSkips(Taken(b, "push", what))
    IN  IF At(opened, "pop", what) THEN SpliceFrom(Popped(opened, "pop", what), b, what, <<>>)
        ELSE SpliceOf(ExpressionIn(opened), b, what)

(* append_markup_element, until the instruction that closes the sequence.  *)
Element(b) ==
    LET what == Current(b).what
    IN  CASE what \in {"escape", "text", "line_comment", "block_comment"} -> Simple(b)
          [] At(b, "push", "directive_splice") -> BuiltDirective(b, what)
          [] what \in {"expression_splice", "expression_line_splice"} -> BuiltSplice(b, what)
          [] OTHER -> Built(Failed(b, "not a markup element"), "none", b.end, b.end, <<>>)

RECURSIVE Sequence(_, _, _)
WithElement(element, what, nodes) == Sequence(element.b, what, Append(nodes, element.node))

Sequence(b, what, nodes) ==
    CASE NoInstructionLeft(b) -> [b |-> b, nodes |-> nodes]
      [] At(b, "pop", what) -> [b |-> Popped(b, "pop", what), nodes |-> nodes]
      [] OTHER -> WithElement(Element(Peeked(b)), what, nodes)

(* try_build_block_or_string: the closing token may be anything.           *)
DelimitedFrom(b, content, what) ==
    Primary(Stepped(content.b), what, Begin(b), TokenEnd(content.b), content.nodes)

Delimited(b, what) == DelimitedFrom(b, Sequence(Taken(b, "push", what), what, <<>>), what)

-----------------------------------------------------------------------------
(* The instructions of a binary expression do not say where its operator   *)
(* is: what is in front of it has to be skips.                             *)
RECURSIVE SkipsUntil(_, _)
SkipsUntil(b, kind) ==
    CASE TokenKind(b) = kind \/ NoInstructionLeft(b) -> b
      [] OTHER -> SkipsUntil(Taken(b, "leaf", "skip"), kind)

(* build_let_expression                                                    *)
LetFrom(name, value) ==
    Built(Popped(IgnoreSkips(value.b), "pop", "let"), "let",
          name.node.from, value.node.to, <<name.node, value.node>>)

LetNamed(name) ==
    LetFrom(name, ExpressionIn(IgnoreSkips(Stepped(SkipsUntil(name.b, "equals")))))

BuiltLet(b) == LetNamed(Simple(IgnoreSkips(Taken(b, "push", "let"))))

Operator(what) == CHOOSE k \in {"equals", "logical_or", "logical_and", "equals_equals",
    "not_equals", "less_than", "greater_than", "less_equal", "greater_equal", "plus", "minus",
    "asterisk", "slash", "percent"} : Binary(k) = what

(* build_binary_expression                                                 *)
BinaryEnd(ended, left, right, what) ==
    Built(IF right.node.from >= left.node.to THEN ended ELSE Failed(ended, "operands overlap"),
          what, left.node.from, right.node.to, <<left.node, right.node>>)

(* Mutant of WithOperands: the source is that of the left operand.         *)
WithOperands_LeftOnly(left, right, what) ==
    Built(Popped(IgnoreSkips(right.b), "pop", what), what,
          left.node.from, left.node.to, <<left.node, right.node>>)

WithOperands(left, right, what) ==
    BinaryEnd(Popped(IgnoreSkips(right.b), "pop", what), left, right, what)

BinaryFrom(left, what) ==
    WithOperands(left, ExpressionIn(IgnoreSkips(Stepped(SkipsUntil(left.b, Operator(what))))),
                 what)

BuiltBinary(b, what) == BinaryFrom(ExpressionIn(Popped(b, "push", what)), what)

(* build_unary_expression: the source ends behind the token that follows,  *)
(* of which there is one in all that parses.                               *)
UnaryEnd(ended, b, operand, what) ==
    Built(ended, what, Begin(b), TokenEnd(ended), <<operand.node>>)

UnaryFrom(b, operand, what) == UnaryEnd(Popped(operand.b, "pop", what), b, operand, what)

BuiltUnary(b, what) == UnaryFrom(b, ExpressionIn(IgnoreSkips(Taken(b, "push", what))), what)

(* The expression itself stands for parentheses around it.                 *)
BuiltParenthesized(b) ==
    [ExpressionIn(IgnoreSkips(Taken(b, "push", "parenthesized")))
     EXCEPT !.b = Taken(IgnoreSkips(@), "pop", "parenthesized")]

(* build_expression                                                        *)
BuiltExpression(b) ==
    LET what == Current(b).what
    IN  CASE what \in {"unary_bitwise_not", "unary_logical_not", "unary_plus", "unary_minus"} ->
                 BuiltUnary(b, what)
          [] what = "let" -> BuiltLet(b)
          [] what = "parenthesized" -> BuiltParenthesized(b)
          [] what = "directive_call" -> BuiltDirective(b, what)
          [] what \in Keyword \cup {"id_expression", "decimal_int"} -> Simple(b)
          [] what = "group" -> BuiltAt(b, "group")
          [] what \in {"block", "quoted_string"} -> DelimitedIn(b, what)
          [] \E k \in 1 .. Len(b.ts) : what = Binary(b.ts[k].kind) -> BuiltBinary(b, what)
          [] OTHER -> Built(Failed(b, "invalid expression"), "none", b.end, b.end, <<>>)

BuiltAt(b, what) ==
    CASE what = "expression" -> BuiltExpression(b)
      [] what = "group" -> Group(b)
      [] OTHER -> Delimited(b, what)

(* build_document: as many elements as the parser has counted.             *)
RECURSIVE Document(_, _, _)
AndOn(element, count, nodes) == Document(element.b, count - 1, Append(nodes, element.node))

Document(b, count, nodes) ==
    IF count = 0 \/ NoInstructionLeft(b) THEN [b |-> b, nodes |-> nodes]
    ELSE AndOn(Element(Peeked(b)), count, nodes)

Build(tokens, instructions, source) ==
    LET b == [ts |-> tokens, ins |-> instructions, t |-> 1, i |-> 1, dead |-> "",
              source |-> source, end |-> Len(source) + 1]
    IN  Document(Popped(b, "push", "document"), instructions[1].n, <<>>)
=============================================================================
