---------------------------- MODULE MCLspServer ----------------------------
(* LspServer with a document, a part of it and a part of that part.        *)
EXTENDS LspServer, TLC

CONSTANTS main, part, leaf

MCDocs == {main, part, leaf}

T(fault, inc) == [fault |-> fault, inc |-> inc]

MCTexts ==
    (main :> {T("none", <<part>>), T("none", <<leaf, part>>), T("none", <<>>)}) @@
    (part :> {T("none", <<leaf>>), T("directive", <<>>)}) @@
    (leaf :> {T("none", <<>>), T("directive", <<>>), T("syntax", <<>>)})

AnyConfig == {<<"standalone", {}>>, <<"entries", {}>>, <<"entries", {main}>>}
NoConfig == {<<"standalone", {}>>}
MainConfig == {<<"entries", {main}>>}
=============================================================================
