------------------------ MODULE MCReferenceResolver ------------------------
(* ReferenceResolver over every document with three sections to refer to.  *)
EXTENDS ReferenceResolver

CONSTANTS a, b, p

MCNames == {Unnamed, Html, a, b}
MCPieces == {p}

Words(n) == UNION {[1..k -> {Html, a, b, p}] : k \in 0..n}

Document(h, x, y) ==
    [s \in MCNames |-> CASE s = Html -> h [] s = a -> x [] s = b -> y
                         [] OTHER -> <<>>]

Skeletons == {<<p, a>>, <<a, a>>, <<b, a>>}

(* Every text of at most two tokens for both sections, cycles included.    *)
AllDocuments ==
    {Document(h, x, y) : h \in Skeletons, x \in Words(2), y \in Words(2)}
=============================================================================
