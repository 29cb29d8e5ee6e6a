------------------------------- MODULE Syntax -------------------------------
(***************************************************************************)
(* A source is typed and then processed as by lex_and_parse_and_build      *)
(* (build_ast.cpp): lexed; if that had no error, parsed; and if that had   *)
(* none, the tree is built.  A Shape says what is typed: letters between a *)
(* fixed prefix and a fixed suffix, at most limit of them.                 *)
(***************************************************************************)
EXTENDS SyntaxTree, FiniteSets

CONSTANT Shapes

L == INSTANCE Lexing

VARIABLES shape, source, stage, tokens, parsed, built

vars == <<shape, source, stage, tokens, parsed, built>>

Nothing == [ok |-> FALSE]
NotBuilt == [b |-> Nothing, nodes |-> <<>>]

Full == shape.prefix \o source \o shape.suffix

Init ==
    /\ shape \in Shapes
    /\ source = <<>>
    /\ stage = "typing"
    /\ tokens = <<>>
    /\ parsed = Nothing
    /\ built = NotBuilt

Type(x) ==
    /\ stage = "typing"
    /\ Len(source) < shape.limit
    /\ source' = Append(source, x)
    /\ UNCHANGED <<shape, stage, tokens, parsed, built>>

Lex ==
    /\ stage = "typing"
    /\ \E result \in {L!Lex(Full)} :
            /\ tokens' = result.out
            /\ stage' = IF result.ok THEN "lexed" ELSE "rejected"
    /\ UNCHANGED <<shape, source, parsed, built>>

ParseTokens ==
    /\ stage = "lexed"
    /\ \E result \in {Parse(tokens)} :
            /\ parsed' = [ok |-> result.ok, dead |-> result.dead, out |-> result.out]
            /\ stage' = CASE result.dead # "" -> "aborted" [] result.dead = "" /\ result.ok -> "parsed"
                          [] OTHER -> "rejected"
    /\ UNCHANGED <<shape, source, tokens, built>>

BuildTree ==
    /\ stage = "parsed"
    /\ \E result \in {Build(tokens, parsed.out, Full)} :
            /\ built' = [b |-> [dead |-> result.b.dead, t |-> result.b.t, i |-> result.b.i],
                         nodes |-> result.nodes]
            /\ stage' = "built"
    /\ UNCHANGED <<shape, source, tokens, parsed>>

Next == (\E x \in shape.letters : Type(x)) \/ Lex \/ ParseTokens \/ BuildTree

Spec == Init /\ [][Next]_vars

-----------------------------------------------------------------------------
(* The types; a stage has what the stages before it produced.              *)
TypeOK ==
    /\ shape \in Shapes
    /\ source \in Seq(shape.letters) /\ Len(source) <= shape.limit
    /\ stage \in {"typing", "lexed", "parsed", "built", "rejected", "aborted"}
    /\ \A k \in 1 .. Len(tokens) : tokens[k].at \in 1 .. Len(Full) /\ tokens[k].length > 0
    /\ stage \in {"parsed", "built"} => parsed.ok /\ parsed.dead = ""
    /\ (stage = "built") <=> (built # NotBuilt)

(* Without lexical errors, every lexeme of the source is in one token and  *)
(* the tokens are in the order of the source (lex.cpp, emit and            *)
(* advance_by, which every rule has to call in pairs).                     *)
TokensTile ==
    stage = "lexed" =>
        /\ \A k \in 1 .. Len(tokens) :
               tokens[k].at = IF k = 1 THEN 1 ELSE tokens[k - 1].at + tokens[k - 1].length
        /\ tokens # <<>> =>
               tokens[Len(tokens)].at + tokens[Len(tokens)].length = Len(Full) + 1

Depth(out, i, j) ==
    Cardinality({k \in i .. j : out[k].do = "push"}) - Cardinality({k \in i .. j : out[k].do = "pop"})

Ends(out, i) == {j \in i .. Len(out) : Depth(out, i, j) = 0}
EndOf(out, i) == CHOOSE j \in Ends(out, i) : \A k \in Ends(out, i) : j <= k

(* Where the nodes begin that lie directly in the node at i.               *)
Children(out, i) ==
    {k \in i + 1 .. EndOf(out, i) - 1 :
        out[k].do # "pop" /\ out[k].what # "skip" /\ Depth(out, i, k - 1) = 1}

Level(instruction) ==
    IF \E k \in {t.kind : t \in {tokens[n] : n \in 1 .. Len(tokens)}} :
           Precedence(k) > 0 /\ instruction = Instruction("push", Binary(k), 0)
    THEN Precedence(CHOOSE k \in {tokens[n].kind : n \in 1 .. Len(tokens)} :
                        instruction.what = Binary(k))
    ELSE 8

(* Every push is closed by its own pop although pushes are inserted and    *)
(* overwritten later, counts are those of the elements; operators on the   *)
(* left bind at least as tightly as the operator whose operand they are,   *)
(* those on the right more tightly, and assignments associate to the right *)
(* (parse.cpp, expect_expression_with_min_precedence).                     *)
BindsTightly ==
    stage = "parsed" =>
        \A i \in 1 .. Len(parsed.out) :
            LET out == parsed.out
                level == Level(out[i])
                kids == Children(out, i)
                left == CHOOSE k \in kids : \A j \in kids : k <= j
                right == CHOOSE k \in kids : \A j \in kids : k >= j
            IN  out[i].do = "push" =>
                    /\ Ends(out, i) # {}
                    /\ out[EndOf(out, i)].what = out[i].what
                    /\ out[i].what \in {"block", "quoted_string", "document"} =>
                           out[i].n = Cardinality(kids)
                    /\ out[i].what = "group" =>
                           out[i].n = Cardinality({k \in kids : out[k].do = "push"})
                    /\ level < 8 =>
                           /\ Cardinality(kids) = 2
                           /\ Level(out[left]) >= level
                           /\ level = 1 => out[left].what = "id_expression"
                           /\ IF level = 1 THEN Level(out[right]) >= level
                              ELSE Level(out[right]) > level

(* How many more tokens of a kind than of another there are in from .. to. *)
Excess(kind, other, from, to) ==
      Cardinality({k \in from .. to : tokens[k].kind = kind})
    - Cardinality({k \in from .. to : tokens[k].kind = other})

(* The line splices that end with the source and not with a line.          *)
LinesAtEnd ==
    {k \in 1 .. Len(tokens) :
        \A j \in k .. Len(tokens) :
            Excess("expression_line_splice", "line_terminator", k, j) > 0}

(* An operator without its right operand, a let without its name or its =, *)
(* or a parenthesis that is not closed, at the end of a line splice that   *)
(* ends with the source: the lexer takes the end of a source for the end   *)
(* of a line.                                                              *)
CutOff ==
    \E k \in LinesAtEnd :
        LET rest == SelectSeq(SubSeq(tokens, k + 1, Len(tokens)),
                              LAMBDA t : t.kind \notin BlankTokens)
            last == Len(rest)
        IN  \/ Excess("parenthesis_left", "parenthesis_right", k, Len(tokens)) > 0
            \/ last > 0 /\ (rest[last].kind = "let" \/ Precedence(rest[last].kind) > 0)
            \/ last > 1 /\ rest[last - 1].kind = "let"

(* The parser fails an assertion, or reads past the last token, only after *)
(* it has reported an error, and what was parsed without an error is       *)
(* built.  This leaves out the expressions that are cut off by the end of  *)
(* the source, at which parse.cpp:480 ("should have been dealt with by     *)
(* lexer") fails for `\ f(1`, and m_tokens[m_pos] is read behind the last  *)
(* token for `\ 1+` and `\ let a`.                                         *)
ReportedFirst ==
    /\ TypeOK
    /\ stage = "aborted" => ~parsed.ok \/ CutOff

(* What parses, builds: every token and every instruction is used once and *)
(* no assertion fails (build_ast.cpp, peek_instruction).                   *)
InStep ==
    stage = "built" =>
        built.b = [dead |-> "", t |-> Len(tokens) + 1, i |-> Len(parsed.out)]

(* Only a line splice, which takes no expression for an empty one, makes a *)
(* program parse that does not build.                                      *)
InStepOutsideLines ==
    (\A k \in 1 .. Len(tokens) : tokens[k].kind # "expression_line_splice") => InStep

RECURSIVE Within(_)
Within(node) ==
    /\ node.from < node.to
    /\ \A k \in 1 .. Len(node.kids) :
           LET kid == node.kids[k]
               reach == IF kid.kind \in {"unary_plus", "unary_minus", "unary_bitwise_not",
                                         "unary_logical_not"}
                        THEN kid.kids[1].to ELSE kid.to
           IN  /\ Within(kid)
               /\ kid.from >= node.from
               /\ reach <= node.to
               /\ k > 1 => kid.from >= node.kids[k - 1].from

(* The source of a node has the sources of its parts in it, in order; but  *)
(* that of a prefix operator reaches over the token behind the operand     *)
(* (build_ast.cpp, build_unary_expression).                                *)
SourcesNest ==
    stage = "built" /\ built.b.dead = "" =>
        \A k \in 1 .. Len(built.nodes) : Within(built.nodes[k])
=============================================================================
