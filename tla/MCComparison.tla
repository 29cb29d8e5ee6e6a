---------------------------- MODULE MCComparison ----------------------------
(***************************************************************************)
(* Comparing values of different types by the directives for comparison.   *)
(***************************************************************************)
EXTENDS Expressions

Number == Literal("int_literal", IntValue(1))
String == Quoted(<<Text(<<7>>)>>)

MCFrames == <<>>
MCOperands == {Number, String}
MCStatements ==
    [e : {Call(name, <<Positional(left), Positional(right)>>, <<>>) :
             name \in Comparisons, left \in MCOperands, right \in MCOperands},
     frame : {0}]

Comparing == ExpressionInit /\ [][SpliceStatement]_expressionVars
=============================================================================
