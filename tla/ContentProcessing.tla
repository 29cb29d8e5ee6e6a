------------------------- MODULE ContentProcessing -------------------------
(***************************************************************************)
(* How the statuses of nested content travel up to the document: the loop  *)
(* process_greedy (engine/include/cowel/directive_processing.hpp) runs     *)
(* over the elements of a block, the directives among them splice blocks   *)
(* of their own, and each returns one status to the loop around it.        *)
(*                                                                         *)
(* A document is a sequence of tokens: an element without content, the     *)
(* start of a directive with a block (holding the position of its end),    *)
(* or that end.                                                            *)
(***************************************************************************)
EXTENDS ProcessingStatus, Sequences

CONSTANTS
    Documents,  \* the documents to process
    None        \* no status

(* How a directive treats its arguments and its block:                     *)
(*   through      returns the block's status (macros, policies)            *)
(*   element      \cowel_html_element: arguments that do not match are     *)
(*                handed to the error directive                            *)
(*   passthrough  \b, \i, headings, ...: returns the arguments' status     *)
(*   raw          \style, \script: checks the text of the block            *)
Manners == {"through", "element", "passthrough", "raw"}

(* What attributes are written with: strings, of which some may not be the *)
(* names of attributes; that never breaks.                                 *)
AttributeStatuses == {"ok", "error"}

(* raised: the status of the element, or of matching the directive's       *)
(* arguments; handler: the status of the error directive; tail: that of    *)
(* the check after the block.                                              *)
Leaf == [kind : {"leaf"}, raised : Statuses, handler : Statuses]
Open == [kind : {"open"}, how : Manners, raised : Statuses \ {"brk"},
         handler : Statuses, attr : AttributeStatuses,
         tail : AttributeStatuses, close : Nat \ {0}]
Close == [kind : {"close"}]

WellFormed(d) ==
    /\ d \in Seq(Leaf \cup Open \cup Close)
    /\ \A i \in DOMAIN d :
        d[i].kind = "open" =>
            /\ d[i].how = "through" => d[i].raised = "ok" /\ d[i].attr = "ok"
            /\ d[i].how # "raw" => d[i].tail = "ok"

ASSUME DocumentsAssumption ==
    /\ None \notin Statuses
    /\ \A d \in Documents : WellFormed(d)

VARIABLES
    doc,        \* the document
    pos,        \* the next token
    loops,      \* the active process_greedy calls, outermost first
    returned,   \* what the consumer has just returned to the innermost loop
    seen,       \* history: all statuses so far, concatenated in order
    result      \* the status of the document

vars == <<doc, pos, loops, returned, seen, result>>

Loop == [attr : AttributeStatuses, tail : AttributeStatuses, error : BOOLEAN]

-----------------------------------------------------------------------------

(* try_generate_error: an error is handed to the error directive, and is   *)
(* fatal when that fails.  A break that is no error passes.                *)
Effective(token) ==
    IF IsError(token.raised) /\ token.handler # "ok" THEN "fatal" ELSE token.raised

Inner == loops[Len(loops)]

(* The check of a block's text, which is only done for complete text.      *)
Check(v) == IF IsContinue(v) THEN Inner.tail ELSE "ok"

(* What the directive around the innermost loop returns when the loop      *)
(* returns v.                                                              *)
Outward(v) == Concat(Concat(Inner.attr, v), Check(v))

Processing == result = None /\ returned = None

Token == doc[pos]

(* An element without a block is consumed.                                 *)
ConsumeLeaf ==
    /\ Processing
    /\ pos <= Len(doc)
    /\ Token.kind = "leaf"
    /\ returned' = Effective(Token)
    /\ seen' = Concat(seen, Effective(Token))
    /\ pos' = pos + 1
    /\ UNCHANGED <<doc, loops, result>>

(* A directive writes its attributes and splices its block.                *)
EnterBlock ==
    /\ Processing
    /\ pos <= Len(doc)
    /\ Token.kind = "open"
    /\ Token.raised = "ok"
    /\ loops' = Append(loops,
                    [attr |-> Token.attr, tail |-> Token.tail, error |-> FALSE])
    /\ seen' = Concat(seen, Token.attr)
    /\ pos' = pos + 1
    /\ UNCHANGED <<doc, returned, result>>

(* A directive whose arguments do not match does not splice its block.     *)
SkipBlock ==
    /\ Processing
    /\ pos <= Len(doc)
    /\ Token.kind = "open"
    /\ Token.raised # "ok"
    /\ LET s == IF Token.how = "element" THEN Effective(Token) ELSE Token.raised
       IN  returned' = s /\ seen' = Concat(seen, s)
    /\ pos' = Token.close + 1
    /\ UNCHANGED <<doc, loops, result>>

(* Mutant of Continue: the loop goes on after a fatal error, too.          *)
Continue_AfterFatal ==
    /\ result = None
    /\ returned \in {"ok", "error", "fatal"}
    /\ loops' = [loops EXCEPT ![Len(loops)].error = @ \/ returned = "error"]
    /\ returned' = None
    /\ UNCHANGED <<doc, pos, seen, result>>

(* Mutant of Continue: an error is forgotten by the next element.          *)
Continue_LastOnly ==
    /\ result = None
    /\ returned \in {"ok", "error"}
    /\ loops' = [loops EXCEPT ![Len(loops)].error = returned = "error"]
    /\ returned' = None
    /\ UNCHANGED <<doc, pos, seen, result>>

(* The loop moves on: ok and error are the statuses it continues with.     *)
Continue ==
    /\ result = None
    /\ returned \in {"ok", "error"}
    /\ loops' = [loops EXCEPT ![Len(loops)].error = @ \/ returned = "error"]
    /\ returned' = None
    /\ UNCHANGED <<doc, pos, seen, result>>

(* A loop returns v: to the loop around it, or as the document's status.   *)
Return(v, next) ==
    IF Len(loops) = 1
    THEN /\ result' = v
         /\ UNCHANGED <<pos, loops>>
         /\ returned' = None
    ELSE /\ returned' = Outward(v)
         /\ loops' = SubSeq(loops, 1, Len(loops) - 1)
         /\ pos' = next
         /\ UNCHANGED result

(* The position after the end of the innermost block.                      *)
AfterBlock ==
    LET closes == {i \in pos..Len(doc) :
                    /\ doc[i].kind = "close"
                    /\ \A j \in pos..(i - 1) :
                        doc[j].kind = "open" => doc[j].close < i}
    IN  IF closes = {} THEN Len(doc) + 1
        ELSE (CHOOSE i \in closes : \A j \in closes : i <= j) + 1

(* The loop ends early, remembering whether an error came before.          *)
BreakLoop ==
    /\ result = None
    /\ returned \in {"brk", "error_brk", "fatal"}
    /\ Return(IF returned = "brk" /\ Inner.error THEN "error_brk" ELSE returned,
              AfterBlock)
    /\ UNCHANGED <<doc, seen>>

(* What the innermost loop returns when all elements were consumed.        *)
Finished == IF Inner.error THEN "error" ELSE "ok"

(* The loop has consumed all elements.                                     *)
EndLoop ==
    /\ Processing
    /\ pos <= Len(doc) => Token.kind = "close"
    /\ Return(Finished, pos + 1)
    /\ seen' = Concat(seen, Check(Finished))
    /\ UNCHANGED doc

InitialStatus(document) ==
    /\ doc = document
    /\ pos = 1
    /\ loops = <<[attr |-> "ok", tail |-> "ok", error |-> FALSE]>>
    /\ returned = None
    /\ seen = "ok"
    /\ result = None

Init == \E document \in Documents : InitialStatus(document)

Next ==
    \/ ConsumeLeaf
    \/ EnterBlock
    \/ SkipBlock
    \/ Continue
    \/ BreakLoop
    \/ EndLoop

Spec == Init /\ [][Next]_vars

-----------------------------------------------------------------------------
(* Type invariant.                                                         *)
TypeOK ==
    /\ WellFormed(doc)
    /\ pos \in Nat \ {0}
    /\ loops \in Seq(Loop)
    /\ loops # <<>>
    /\ returned \in Statuses \cup {None}
    /\ seen \in Statuses
    /\ result \in Statuses \cup {None}

(* However deep the blocks are nested, the document's status is the        *)
(* concatenation (status_concat) of all statuses in document order: no     *)
(* error is forgotten and no break is turned into something else on the    *)
(* way up.                                                                 *)
ResultIsConcatenation ==
    /\ TypeOK
    /\ result # None => result = seen

(* cowel.h: a BREAK aborts the generation of content, and after FATAL      *)
(* "generation of the document as a whole has to be abandoned".  So after  *)
(* a break no further element is processed, in any block.                  *)
AbandonedAfterBreak ==
    [][IsBreak(seen) => ~(ConsumeLeaf \/ EnterBlock \/ SkipBlock)]_vars
=============================================================================
