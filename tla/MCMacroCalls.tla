---------------------------- MODULE MCMacroCalls ----------------------------
(* MacroCalls with up to three calls, argument lists of up to two members  *)
(* and built-in directives with up to two parameters.                      *)
EXTENDS MacroCalls

CONSTANTS n, m

MCArgNames == {n, m}

MCArgLists ==
    {<<>>, <<Positional>>, <<Positional, Positional>>, <<n>>, <<Positional, n>>,
     <<Ellipsis>>, <<Ellipsis, Positional>>, <<Positional, Ellipsis>>,
     <<Ellipsis, n>>, <<n, Ellipsis>>}

ParameterOf(name, kind, mandatory) ==
    [name |-> name, kind |-> kind, mandatory |-> mandatory]

MCParameterLists ==
    {<<>>,
     <<ParameterOf(n, "value", TRUE), ParameterOf(m, "value", FALSE)>>,
     <<ParameterOf(m, "pack", FALSE), ParameterOf(n, "value", FALSE)>>,
     <<ParameterOf(m, "value", FALSE), ParameterOf(n, "named_pack", FALSE)>>}

MCNeedles == {0, 1, n}
=============================================================================
