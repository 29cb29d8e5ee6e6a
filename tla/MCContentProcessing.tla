------------------------ MODULE MCContentProcessing ------------------------
(***************************************************************************)
(* What becomes of content: its statuses (ContentProcessing, over every    *)
(* document that is a block inside a block with an element before, inside  *)
(* and after each) and the page that it is written to (Rendering, over the *)
(* documents of MCRendering).  They are models of their own, checked       *)
(* together: component says which one runs, the other stays as it begins.  *)
(***************************************************************************)
EXTENDS ContentProcessing

VARIABLES
    component,
    text, at, policies, calls   \* of Rendering

page == <<text, at, policies, calls>>

Documented == INSTANCE MCRendering WITH Rendered <- {}, doc <- text, pos <- at
R == INSTANCE MCRendering WITH
        Rendered <- Documented!AllDocuments, doc <- text, pos <- at

LeafOf(r, h) == [kind |-> "leaf", raised |-> r, handler |-> h]

(* Every status, and an error whose error directive fails.                 *)
AnyLeaf == {LeafOf(r, "ok") : r \in Statuses} \cup {LeafOf("error", "error")}
MildLeaf == {LeafOf(r, "ok") : r \in {"ok", "error"}}
SomeLeaf == {LeafOf(r, "ok") : r \in {"ok", "error", "brk"}}
LastLeaf == {LeafOf(r, "ok") : r \in {"ok", "brk"}}

OpenOf(how, raised, handler, attr, tail, close) ==
    [kind |-> "open", how |-> how, raised |-> raised, handler |-> handler,
     attr |-> attr, tail |-> tail, close |-> close]

Opens(close) ==
    {OpenOf("through", "ok", "ok", "ok", "ok", close)}
    \cup {OpenOf("passthrough", "ok", "ok", a, "ok", close) : a \in AttributeStatuses}
    \cup {OpenOf("passthrough", r, "ok", "ok", "ok", close) :
            r \in {"error", "fatal"}}
    \cup {OpenOf("element", "error", h, "error", "ok", close) : h \in {"ok", "error"}}
    \cup {OpenOf("raw", "ok", "ok", a, "error", close) : a \in AttributeStatuses}

End == [kind |-> "close"]

Nested ==
    {<<l1, o1, l2, o2, l3, End, l4, End, l5>> :
        l1 \in MildLeaf, o1 \in Opens(8), l2 \in MildLeaf, o2 \in Opens(6),
        l3 \in AnyLeaf, l4 \in SomeLeaf, l5 \in LastLeaf}

-----------------------------------------------------------------------------
MCInit ==
    /\ component \in {"statuses", "pages"}
    /\ IF component = "statuses"
       THEN /\ Init
            /\ R!InitialPage(<<>>)
       ELSE /\ InitialStatus(<<>>)
            /\ R!Init

Raise == component = "statuses" /\ Next /\ UNCHANGED <<component, page>>
Render == component = "pages" /\ R!Next /\ UNCHANGED <<component, vars>>

(* The only states without a successor of their own: the document has its  *)
(* status, the page is complete.  Anything else that cannot go on is a     *)
(* deadlock.                                                               *)
Rest ==
    /\ component = "statuses" => result # None
    /\ component = "pages" => R!Done
    /\ UNCHANGED <<component, vars, page>>

MCNext == Raise \/ Render \/ Rest
MCSpec == MCInit /\ [][MCNext]_<<component, vars, page>>

-----------------------------------------------------------------------------
TagsNestElsewhere == R!TagsNestElsewhere
TextComesThrough == R!TextComesThrough
ParagraphsAtBlankLines == R!ParagraphsAtBlankLines
=============================================================================
