------------------------------- MODULE Lexing -------------------------------
(***************************************************************************)
(* The lexer (lex.cpp).  A source is a sequence of lexemes, the shortest   *)
(* pieces that the lexer decides on; a lexeme that begins with a backslash *)
(* is all that the lexer needs to see of what the backslash introduces:    *)
(*   "\\:"  a line comment with the line terminator that ends it           *)
(*   "\\**" a block comment, and "\\*" one that has no end                 *)
(*   "\\("  an expression splice, "\\ " an expression line splice          *)
(*   "\\a"  the name of a directive                                        *)
(*   "\\."  an escape, and "\\?" a reserved one                            *)
(* The result is a sequence of tokens [kind, at, length] in lexemes, and   *)
(* whether the source is free of lexical errors.                           *)
(***************************************************************************)
EXTENDS Integers, Sequences

Introducers == {"\\:", "\\**", "\\*", "\\(", "\\ ", "\\a", "\\.", "\\?"}
Keywords == {"unit", "null", "true", "false", "infinity", "let"}
Digits == {"1"}
IdentifierStarts == {"a"} \cup Keywords
Spaces == {" ", "nl"}

(* Tokens of one lexeme, in the content of a group.                        *)
Punctuation ==
    [x \in {"(", ")", ",", "=", "*", "/", "%", "~", "!", "<", ">", "-", "+", "..."} |->
        CASE x = "(" -> "parenthesis_left" [] x = ")" -> "parenthesis_right"
          [] x = "," -> "comma" [] x = "=" -> "equals" [] x = "*" -> "asterisk"
          [] x = "/" -> "slash" [] x = "%" -> "percent" [] x = "~" -> "bitwise_not"
          [] x = "!" -> "logical_not" [] x = "<" -> "less_than" [] x = ">" -> "greater_than"
          [] x = "-" -> "minus" [] x = "+" -> "plus" [] x = "..." -> "ellipsis"]

(* Tokens of two lexemes, which are tried first.                           *)
Pairs ==
    [x \in {<<"=", "=">>, <<"!", "=">>, <<"<", "=">>, <<">", "=">>, <<"&", "&">>, <<"|", "|">>} |->
        CASE x[1] = "=" -> "equals_equals" [] x[1] = "!" -> "not_equals"
          [] x[1] = "<" -> "less_equal" [] x[1] = ">" -> "greater_equal"
          [] x[1] = "&" -> "logical_and" [] x[1] = "|" -> "logical_or"]

-----------------------------------------------------------------------------
(* The state of a Lexer: source, pos, out and ok (m_success).              *)

Ended(l) == l.pos > Len(l.source)
Here(l) == IF Ended(l) THEN "end" ELSE l.source[l.pos]
After(l) == IF l.pos >= Len(l.source) THEN "end" ELSE l.source[l.pos + 1]

(* emit, followed by advance_by.                                           *)
Emitted(l, kind, length) ==
    [l EXCEPT !.out = Append(@, [kind |-> kind, at |-> l.pos, length |-> length]),
              !.pos = @ + length]

Erroneous(l) == [l EXCEPT !.ok = FALSE]
OrErroneous(success, l) == IF success THEN l ELSE Erroneous(l)

(* The number of lexemes from here on that are all in S.                   *)
RunLength(l, S) ==
    LET ends == {k \in l.pos .. Len(l.source) : l.source[k] \notin S}
    IN  IF ends = {} THEN Len(l.source) + 1 - l.pos
        ELSE (CHOOSE k \in ends : \A j \in ends : k <= j) - l.pos

IdentifierLength(l) ==
    IF Here(l) \in IdentifierStarts THEN RunLength(l, IdentifierStarts \cup Digits) ELSE 0

(* consume_numeric_literal: digits and letters behind them belong to the   *)
(* literal, which is invalid with letters.                                 *)
NumericLiteral(l) ==
    LET length == RunLength(l, IdentifierStarts \cup Digits)
    IN  IF RunLength(l, Digits) = length THEN Emitted(l, "decimal_int", length)
        ELSE Erroneous(Emitted(l, "reserved_number", length))

(* expect_identifier_or_keyword, or an erroneous token.                    *)
IdentifierOrKeyword(l) ==
    LET length == IdentifierLength(l)
    IN  IF length = 0 THEN Erroneous(Emitted(l, "error", 1))
        ELSE IF length = 1 /\ Here(l) \in Keywords THEN Emitted(l, Here(l), 1)
        ELSE Emitted(l, "identifier", length)

(* The text in front of what ends it: a backslash; in a string, a quote;   *)
(* in a block, the brace that closes it, for which braces are counted.     *)
RECURSIVE TextIn(_, _, _, _)
TextIn(l, context, length, level) ==
    LET c == Here([l EXCEPT !.pos = @ + length])
    IN  IF \/ c = "end" \/ c \in Introducers
           \/ context = "quoted_string" /\ c = "\""
           \/ context = "block" /\ c = "}" /\ level = 0
        THEN [length |-> length, level |-> level]
        ELSE TextIn(l, context, length + 1,
                    CASE context = "block" /\ c = "{" -> level + 1
                      [] context = "block" /\ c = "}" -> level - 1
                      [] OTHER -> level)

RECURSIVE MarkupSequence(_, _, _), GroupContent(_, _, _)

(* consume_quoted_string, consume_block and consume_group: what comes     *)
(* behind the content.                                                     *)

(* Mutant of QuoteEnd: the closing quote is skipped without a token.       *)
QuoteEnd_Silent(l) == IF Here(l) = "\"" THEN [l EXCEPT !.pos = @ + 1] ELSE Erroneous(l)

QuoteEnd(l) == IF Here(l) = "\"" THEN Emitted(l, "string_quote", 1) ELSE Erroneous(l)

(* Mutant of BlockEnd: a block without an end is not reported.             *)
BlockEnd_Unreported(l) == IF Here(l) = "}" THEN Emitted(l, "brace_right", 1) ELSE l

BlockEnd(l) == IF Here(l) = "}" THEN Emitted(l, "brace_right", 1) ELSE Erroneous(l)

GroupEnd(end) == OrErroneous(end.closed, end.l)

QuotedString(l) ==
    QuoteEnd(MarkupSequence(Emitted(l, "string_quote", 1), "quoted_string", 0))

LexedBlock(l) == BlockEnd(MarkupSequence(Emitted(l, "brace_left", 1), "block", 0))

LexedGroup(l) == GroupEnd(GroupContent(Emitted(l, "parenthesis_left", 1), 1, "parenthesis"))

(* expect_directive_splice: a group and a block directly behind the name.  *)
BehindGroup(l) == IF Here(l) = "{" THEN LexedBlock(l) ELSE l
BehindName(l) == BehindGroup(IF Here(l) = "(" THEN LexedGroup(l) ELSE l)

LexedSplice(l) ==
    LET name == RunLength([l EXCEPT !.pos = @ + 1], IdentifierStarts \cup Digits)
    IN  BehindName(Emitted(l, "directive_splice_name", 1 + name))

(* consume_backslash_prefixed                                              *)
BackslashPrefixed(l) ==
    LET c == Here(l)
    IN  CASE c = "\\:" -> Emitted(l, "line_comment", 1)
          [] c = "\\**" -> Emitted(l, "block_comment", 1)
          [] c = "\\*" -> Erroneous([l EXCEPT !.pos = Len(l.source) + 1])
          [] c = "\\(" ->
                 GroupEnd(GroupContent(Emitted(l, "expression_splice", 1), 1, "parenthesis"))
          [] c = "\\ " -> GroupContent(Emitted(l, "expression_line_splice", 1), 0, "line").l
          [] c = "\\a" -> LexedSplice(l)
          [] c = "\\." -> Emitted(l, "escape", 1)
          [] c = "\\?" -> Erroneous(Emitted(l, "reserved_escape", 1))

BehindText(l, text, context) ==
    IF text.length = 0 THEN l
    ELSE MarkupSequence(Emitted(l, context \o "_text", text.length), context, text.level)

MarkupSequence(l, context, level) ==
    IF Here(l) \in Introducers THEN MarkupSequence(BackslashPrefixed(l), context, level)
    ELSE BehindText(l, TextIn(l, context, 0, level), context)

(* In a line splice, spaces and line ends are tokens of their own.         *)
Whitespace(l, line) ==
    Emitted(l, "whitespace", RunLength(l, IF line /\ Here(l) = " " THEN {" "} ELSE Spaces))

(* In a group, a backslash may introduce comments only.                    *)
BehindBackslash(l, next, depth, terminator) ==
    IF Len(next.out) = Len(l.out)
           \/ next.out[Len(l.out) + 1].kind \in {"line_comment", "block_comment"}
    THEN GroupContent(next, depth, terminator)
    ELSE [l |-> Erroneous(next), closed |-> FALSE]

BehindParenthesis(l, depth, terminator) ==
    IF depth = 1 /\ terminator # "line" THEN [l |-> l, closed |-> TRUE]
    ELSE GroupContent(l, IF depth = 0 THEN 0 ELSE depth - 1, terminator)

(* One piece of the content that is not a parenthesis.                     *)
Piece(l, line) ==
    LET c == Here(l)
    IN  CASE c = "{" -> LexedBlock(l)
          [] c = "\"" -> QuotedString(l)
          [] c \in Digits -> NumericLiteral(l)
          [] c \in Spaces -> Whitespace(l, line)
          [] <<c, After(l)>> \in DOMAIN Pairs -> Emitted(l, Pairs[<<c, After(l)>>], 2)
          [] c \in DOMAIN Punctuation /\ <<c, After(l)>> \notin DOMAIN Pairs ->
                 Emitted(l, Punctuation[c], 1)
          [] OTHER -> IdentifierOrKeyword(l)

(* consume_group_content, up to the parenthesis that closes the group or   *)
(* to the end of the line; lines in parentheses do not end the content.    *)
GroupContent(l, depth, terminator) ==
    LET c == Here(l)
        line == terminator = "line"
    IN  CASE c = "end" -> [l |-> l, closed |-> FALSE]
          [] c = "(" -> GroupContent(Emitted(l, "parenthesis_left", 1), depth + 1, terminator)
          [] c = ")" -> BehindParenthesis(Emitted(l, "parenthesis_right", 1), depth, terminator)
          [] c \in Introducers -> BehindBackslash(l, BackslashPrefixed(l), depth, terminator)
          [] c = "nl" /\ line /\ depth = 0 ->
                 [l |-> Emitted(l, "line_terminator", 1), closed |-> TRUE]
          [] OTHER -> GroupContent(Piece(l, line), depth, terminator)

Lex(source) ==
    MarkupSequence([source |-> source, pos |-> 1, out |-> <<>>, ok |-> TRUE], "document", 0)
=============================================================================
