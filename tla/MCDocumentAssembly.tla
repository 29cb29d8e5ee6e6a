------------------------- MODULE MCDocumentAssembly -------------------------
(***************************************************************************)
(* DocumentAssembly with one section of the user's own and one id, and the *)
(* numbers of headings, of which DocumentAssembly knows only where they    *)
(* are written: models of their own, checked together.  component says     *)
(* which one runs, the other stays as it begins.                           *)
(***************************************************************************)
EXTENDS DocumentAssembly

CONSTANTS sec, preview

MCNames == {Unnamed, Html, StdHead, StdBody, StdToc, sec, preview}
MCPreviews == {preview}
MCStashes == {StdHead, StdBody, sec}
MCReferences == {StdBody, sec, preview}

CONSTANTS Levels, MaxHeadings

(* There are \h1 to \h6.                                                  *)
ASSUME HeadingsAssumption ==
    /\ Levels \subseteq 1..6
    /\ MaxHeadings \in Nat

VARIABLES component, counters, calls, written, outline

numbers == <<counters, calls, written, outline>>

H == INSTANCE Headings

MCInit ==
    /\ component \in {"sections", "numbers"}
    /\ Init
    /\ H!Init

Assemble == component = "sections" /\ Next /\ UNCHANGED <<component, numbers>>
Enumerate == component = "numbers" /\ H!Next /\ UNCHANGED <<component, vars>>

MCNext == Assemble \/ Enumerate
MCSpec == MCInit /\ [][MCNext]_<<component, vars, numbers>>

-----------------------------------------------------------------------------
(* See Headings.                                                           *)
NumbersTellThePlace == H!NumbersTellThePlace
=============================================================================
