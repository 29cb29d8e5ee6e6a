------------------------------ MODULE MCSyntax ------------------------------
EXTENDS Syntax

Shape(prefix, letters, suffix, limit) ==
    [prefix |-> prefix, letters |-> letters, suffix |-> suffix, limit |-> limit]

(* Operators and what they are applied to, in an expression splice.        *)
Expressions == Shape(<<"\\(">>, {"a", "+", "*", "=", "-", "<", "(", ")"}, <<")">>, 5)
Lets == Shape(<<"\\(", "let", " ">>, {"a", "=", "let", " ", "&", "1"}, <<")">>, 5)
(* Calls, groups and their members.                                        *)
Groups == Shape(<<"\\a", "(">>, {"a", "=", ",", "...", "(", ")", " "}, <<")">>, 5)
Texts == Shape(<<"\\a">>, {"{", "}", "a", "\"", "(", ")"}, <<>>, 6)
Strings == Shape(<<"\\a", "(">>, {"\"", "a", "=", "\\(", ")"}, <<")">>, 6)
Calls == Shape(<<"\\(">>, {"a", "{", "}", "\\a", "(", " "}, <<")">>, 5)
(* Line splices, in a document and in a block.                             *)
Lines == Shape(<<"\\ ">>, {"a", "-", "nl", "(", ")", "\\:"}, <<>>, 5)
LineInBlock == Shape(<<"\\a", "{", "\\ ">>, {"1", "+", "let", "nl", " ", "\\**"}, <<"}">>, 4)
(* A line splice that ends with the source.                                *)
LastLine == Shape(<<"\\ ">>, {"a", "let", "=", "+", "(", ",", " "}, <<>>, 5)

MCShapes == {Expressions, Lets, Groups, Texts, Strings, Calls, Lines, LineInBlock,
             LastLine}
MCLines == {Lines}
=============================================================================
