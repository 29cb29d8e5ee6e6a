------------------------------ MODULE MCWatch ------------------------------
(* Watch with a document, a part of it and a part of that part.            *)
EXTENDS Watch, TLC

CONSTANTS main, part, leaf

MCFiles == {main, part, leaf}

T(fault, inc) == [fault |-> fault, inc |-> inc]

MCTexts ==
    (main :> {T("none", <<part>>), T("error", <<leaf, part>>), T("none", <<>>)}) @@
    (part :> {T("none", <<leaf>>), T("fatal", <<>>)}) @@
    (leaf :> {T("none", <<>>), T("error", <<>>)})
=============================================================================
