------------------------- MODULE ReferenceResolver -------------------------
(***************************************************************************)
(* Resolution of section references, the last step of document generation  *)
(* (engine/src/document_generation.cpp, Reference_Resolver).               *)
(*                                                                         *)
(* Every section of a document holds HTML in which references to other     *)
(* sections are embedded.  The resolver walks the text of the skeleton     *)
(* section and replaces each reference by the resolved text of the section *)
(* it names, recursively.  A recursive call is a frame of `stack`; the     *)
(* set `visited` is the resolver's only defence against circular           *)
(* references.                                                             *)
(***************************************************************************)
EXTENDS Naturals, Sequences

CONSTANTS
    Names,      \* section names that may occur
    Unnamed,    \* the name of the section a document starts in (m_current)
    Html,       \* std.html, whose text is the skeleton that gets resolved
    Pieces,     \* the pieces of ordinary HTML
    Documents,  \* the texts that generation may leave in the sections
    MaxDepth    \* how many nested calls the native stack can hold

(* The unnamed section cannot be referred to: \here, \ref and headings all *)
(* produce a non-empty name.                                               *)
Targets == Names \ {Unnamed}
Token == Targets \cup Pieces

ASSUME NamesAssumption ==
    /\ Unnamed \in Names
    /\ Html \in Names
    /\ Unnamed # Html
    /\ Pieces \cap Names = {}
    /\ Documents \subseteq [Names -> Seq(Token)]
    /\ MaxDepth \in Nat \ {0}

VARIABLES
    made,       \* names of the sections that exist
    text,       \* the text of each section, a sequence of tokens
    stack,      \* activation records of the resolver, outermost first
    visited,    \* the set the resolver consults before it recurses
    out,        \* the output: <<section, piece>> in the order of writing
    errors,     \* diagnostics raised: <<kind, section>>
    outcome     \* "running", "overflow", or the status that is returned

resolverVars == <<stack, visited, out, errors, outcome>>
vars == <<made, text, stack, visited, out, errors, outcome>>

Frame == [sec : Targets, pos : Nat \ {0}, ok : BOOLEAN]

Entered(s) == [sec |-> s, pos |-> 1, ok |-> TRUE]

Outcomes == {"idle", "running", "overflow", "ok", "error"}

ErrorKinds == {"not_found", "circular"}

-----------------------------------------------------------------------------

Top == stack[Len(stack)]

(* What is left of the text the innermost call was given.                  *)
AtEnd == Top.pos > Len(text[Top.sec])

Next_token == text[Top.sec][Top.pos]

(* The sections being expanded by a recursive call.                        *)
Expanding == {stack[i].sec : i \in 2..Len(stack)}

(* The call advances past its current token ...                            *)
Advance == [stack EXCEPT ![Len(stack)].pos = @ + 1]

(* ... and its local variable `success` becomes false.                     *)
Advance_failing ==
    [stack EXCEPT ![Len(stack)].pos = @ + 1, ![Len(stack)].ok = FALSE]

(* Mutant of Begin: the outermost call starts in front of its text.        *)
Begin_SkipsFirst ==
    /\ outcome = "idle"
    /\ stack' = <<[Entered(Html) EXCEPT !.pos = 0]>>
    /\ visited' = {Unnamed}
    /\ outcome' = "running"
    /\ UNCHANGED <<out, errors>>

(* resolve_references: the section that is current when resolution starts  *)
(* is marked as visited, and the skeleton's text is resolved.              *)
Begin ==
    /\ outcome = "idle"
    /\ stack' = <<Entered(Html)>>
    /\ visited' = {Unnamed}
    /\ outcome' = "running"
    /\ UNCHANGED <<out, errors>>

Running == outcome = "running"

WritePlain ==
    /\ Running
    /\ ~AtEnd
    /\ Next_token \in Pieces
    /\ stack' = Advance
    /\ out' = Append(out, <<Top.sec, Next_token>>)
    /\ UNCHANGED <<visited, errors, outcome>>

(* Mutant of RefNotFound: the reference is not removed from the text.      *)
RefNotFound_KeepsPlace ==
    /\ Running
    /\ ~AtEnd
    /\ Next_token \in Targets \ made
    /\ errors' = errors \cup {<<"not_found", Next_token>>}
    /\ stack' = [stack EXCEPT ![Len(stack)].ok = FALSE]
    /\ UNCHANGED <<visited, out, outcome>>

(* find() returned null: an error, and the reference is dropped.           *)
RefNotFound ==
    /\ Running
    /\ ~AtEnd
    /\ Next_token \in Targets \ made
    /\ errors' = errors \cup {<<"not_found", Next_token>>}
    /\ stack' = Advance_failing
    /\ UNCHANGED <<visited, out, outcome>>

(* The insertion into `visited` failed: an error, the reference is         *)
(* dropped, and `visited.erase(entry)` is executed all the same.           *)
RefCircular ==
    /\ Running
    /\ ~AtEnd
    /\ Next_token \in (Targets \cap made) \cap visited
    /\ errors' = errors \cup {<<"circular", Next_token>>}
    /\ visited' = visited \ {Next_token}
    /\ stack' = Advance_failing
    /\ UNCHANGED <<out, outcome>>

(* Mutant of RefEnter: the reference is not removed from the text before   *)
(* the recursive call.                                                     *)
RefEnter_KeepsPlace ==
    /\ Running
    /\ ~AtEnd
    /\ Next_token \in (Targets \cap made) \ visited
    /\ Len(stack) < MaxDepth
    /\ visited' = visited \cup {Next_token}
    /\ stack' = Append(stack, Entered(Next_token))
    /\ UNCHANGED <<out, errors, outcome>>

(* find() and insert() succeeded: a recursive call for the section's text. *)
RefEnter ==
    /\ Running
    /\ ~AtEnd
    /\ Next_token \in (Targets \cap made) \ visited
    /\ Len(stack) < MaxDepth
    /\ visited' = visited \cup {Next_token}
    /\ stack' = Append(Advance, Entered(Next_token))
    /\ UNCHANGED <<out, errors, outcome>>

(* The recursive call does not fit on the native stack.                    *)
RefOverflow ==
    /\ Running
    /\ ~AtEnd
    /\ Next_token \in (Targets \cap made) \ visited
    /\ Len(stack) >= MaxDepth
    /\ outcome' = "overflow"
    /\ UNCHANGED <<stack, visited, out, errors>>

(* Mutant of RefReturn: the mark is not erased.                            *)
RefReturn_KeepsMark ==
    /\ Running
    /\ AtEnd
    /\ Len(stack) > 1
    /\ stack' = SubSeq(stack, 1, Len(stack) - 1)
    /\ UNCHANGED <<visited, out, errors, outcome>>

(* A recursive call returns.  Its result is discarded by the caller, which *)
(* then erases the section from `visited`.                                 *)
RefReturn ==
    /\ Running
    /\ AtEnd
    /\ Len(stack) > 1
    /\ visited' = visited \ {Top.sec}
    /\ stack' = SubSeq(stack, 1, Len(stack) - 1)
    /\ UNCHANGED <<out, errors, outcome>>

(* The outermost call returns its `success`.                               *)
Finish ==
    /\ Running
    /\ AtEnd
    /\ Len(stack) = 1
    /\ outcome' = IF Top.ok THEN "ok" ELSE "error"
    /\ UNCHANGED <<stack, visited, out, errors>>

Resolve ==
    \/ Begin
    \/ WritePlain
    \/ RefNotFound
    \/ RefCircular
    \/ RefEnter
    \/ RefOverflow
    \/ RefReturn
    \/ Finish

ResolverInit ==
    /\ stack = <<>>
    /\ visited = {}
    /\ out = <<>>
    /\ errors = {}
    /\ outcome = "idle"

Init ==
    /\ made \in {M \in SUBSET Names : {Unnamed, Html} \subseteq M}
    /\ text \in Documents
    /\ ResolverInit

Next == Resolve /\ UNCHANGED <<made, text>>

Spec == Init /\ [][Next]_vars

FairSpec == Spec /\ WF_vars(Next)

-----------------------------------------------------------------------------
(* Type invariant.                                                         *)
TypeOK ==
    /\ made \in SUBSET Names
    /\ text \in [Names -> Seq(Token)]
    /\ stack \in Seq(Frame)
    /\ visited \in SUBSET Names
    /\ out \in Seq(Names \X Pieces)
    /\ errors \in SUBSET (ErrorKinds \X Targets)
    /\ outcome \in Outcomes
    /\ Running => stack # <<>>

(* A section in `visited` is one that a call is expanding right now (or    *)
(* the section the document started in): no stale mark survives a call.    *)
VisitedIsExpanding == visited \subseteq Expanding \cup {Unnamed}

NoCircularYet == \A s \in Targets : <<"circular", s>> \notin errors

(* Until the first circular reference is met, `visited` is exactly the set *)
(* of sections being expanded and no section is being expanded twice: the  *)
(* guard of the recursion is complete.                                     *)
GuardComplete ==
    Running /\ NoCircularYet =>
        /\ visited = Expanding \cup {Unnamed}
        /\ \A i, j \in 2..Len(stack) : stack[i].sec = stack[j].sec => i = j

(* A reference is only ever diagnosed as circular when it is: the section  *)
(* it names is being expanded around it (no false alarm for a section that *)
(* is merely referred to twice).                                           *)
NoFalseCircular ==
    [][\A s \in Targets :
          <<"circular", s>> \in errors' \ errors => s \in Expanding]_vars

(* The guard of the recursion is exact: no step leaves a mark that outlives *)
(* the call that set it, none leaves one missing before the first circle is *)
(* diagnosed, and none diagnoses a circle that is not real.                *)
GuardIsExact ==
    [][/\ VisitedIsExpanding'
       /\ GuardComplete'
       /\ \A s \in Targets :
             <<"circular", s>> \in errors' \ errors => s \in Expanding]_vars

-----------------------------------------------------------------------------
(* What is left to write: the rest of every call's text, innermost first.  *)
LeftOf(frame) ==
    [i \in 1..(Len(text[frame.sec]) - frame.pos + 1) |->
        <<frame.sec, text[frame.sec][frame.pos + i - 1]>>]

Todo ==
    LET rest[i \in 0..Len(stack)] ==
            IF i = 0 THEN <<>> ELSE LeftOf(stack[i]) \o rest[i - 1]
    IN  rest[Len(stack)]

Inlining == INSTANCE SectionInlining WITH todo <- Todo, result <- outcome

(* Resolution inlines references: the output is what textual substitution  *)
(* of the sections produces, minus references that are missing or lie on a *)
(* cycle, and only a cycle can exhaust the stack.                          *)
ImplementsInlining == Inlining!Spec

(* Resolution comes to an end, without exhausting the stack, if no         *)
(* section refers to itself through others.                                *)
Terminates ==
    (\A s \in made : ~Inlining!OnCycle(s)) ~> outcome \in {"ok", "error"}
=============================================================================
