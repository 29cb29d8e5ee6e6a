-------------------------- MODULE DocumentAssembly --------------------------
(***************************************************************************)
(* Generation of a whole document (write_head_body_document in             *)
(* engine/src/document_generation.cpp).  Content is not written where it   *)
(* is going to appear: it goes into named sections (Document_Sections in   *)
(* engine/include/cowel/document_sections.hpp), which refer to each other, *)
(* and once all content has been processed, ReferenceResolver puts the     *)
(* document together.                                                      *)
(*                                                                         *)
(* The elements of the document are chosen freely: element n writes the    *)
(* piece of HTML n.                                                        *)
(***************************************************************************)
EXTENDS ProcessingStatus, Sequences

CONSTANTS
    Names, Unnamed, Html,   \* as in ReferenceResolver
    StdHead, StdBody, StdToc,        \* std.head, std.body, std.toc
    Previews,               \* the sections std.id-preview.<id> for some ids
    Tags,                   \* pieces: tags around head and body,
    Meta,                   \*   the generated contents of <head>,
    MainOpen, MainClose,    \*   <main> and </main>
    Stashes,                \* sections that \there is used with
    References,             \* sections that \here and \ref are used with
    MaxElements,            \* bound: number of elements
    Capacity,               \* pieces that fit into an HTML_Writer_Buffer
    MaxDepth                \* as in ReferenceResolver

Pieces == (1..MaxElements) \cup {Tags, Meta, MainOpen, MainClose}

(* The names are those of document_sections.hpp, distinct literals; a piece *)
(* of HTML is not a name, and the tags are not what an element writes.     *)
ASSUME AssemblyAssumption ==
    /\ Unnamed \in Names
    /\ {Html, StdHead, StdBody, StdToc} \cup Previews \subseteq Names \ {Unnamed}
    /\ StdHead # Html
    /\ StdBody \notin {Html, StdHead, StdToc} \cup Previews
    /\ Stashes \cup References \subseteq Names \ {Unnamed, Html}
    /\ Pieces \cap Names = {}
    /\ MainOpen # MainClose
    /\ {MainOpen, MainClose} \cap (1..MaxElements) = {}
    /\ MaxElements \in Nat
    /\ Capacity \in Nat \ {0}
    /\ MaxDepth \in Nat \ {0}

VARIABLES
    phase,      \* where write_head_body_document is
    current,    \* m_current, the section that directives write to
    scopes,     \* the `old` of every Scoped_Section, outermost first
    held,       \* <main>'s HTML_Writer_Buffer, not yet in std.body
    status,     \* the status of the document
    content,    \* the status of the body's content so far
    ids,        \* the previews of ids that are in use
    elements,   \* the number of elements processed
    inMain,     \* history: the elements written through `held`
    made, text, stack, visited, out, errors, outcome

resolverVars == <<stack, visited, out, errors, outcome>>
vars == <<phase, current, scopes, held, status, content, ids, elements, inMain,
          made, text, stack, visited, out, errors, outcome>>

Resolver == INSTANCE ReferenceResolver WITH Documents <- {}

-----------------------------------------------------------------------------
(* Writing.                                                                *)

(* Mutant of Buffered: what does not fit overtakes what is buffered.       *)
Buffered_Overtaken(token) ==
    IF Len(held) = Capacity
    THEN /\ text' = [text EXCEPT ![StdBody] = Append(@, token)]
         /\ UNCHANGED held
    ELSE /\ held' = Append(held, token)
         /\ UNCHANGED text

(* Buffer: a full buffer is flushed before it takes another piece.         *)
Buffered(token) ==
    /\ held' = IF Len(held) = Capacity THEN <<token>> ELSE Append(held, token)
    /\ text' = IF Len(held) = Capacity
               THEN [text EXCEPT ![StdBody] = @ \o held]
               ELSE text

(* Inside \there, the current section's own policy is written to, directly. *)
Direct(token) ==
    /\ text' = [text EXCEPT ![current] = Append(@, token)]
    /\ UNCHANGED held

InThere == Len(scopes) > 1

Put(token) == IF InThere THEN Direct(token) ELSE Buffered(token)

Element == elements + 1

Counted ==
    /\ elements' = Element
    /\ inMain' = IF InThere THEN inMain ELSE inMain \cup {Element}

-----------------------------------------------------------------------------
(* std.html is written in one go and only refers to the other two.         *)
WriteSkeleton ==
    /\ phase = "start"
    /\ made' = made \cup {Html}
    /\ text' = [text EXCEPT ![Html] = @ \o <<Tags, StdHead, Tags, StdBody, Tags>>]
    /\ phase' = "head"
    /\ UNCHANGED <<current, scopes, held, status, content, ids, elements, inMain>>
    /\ UNCHANGED resolverVars

(* write_wg21_head_contents fails when the theme cannot be converted.      *)
WriteHead ==
    /\ phase = "head"
    /\ made' = made \cup {StdHead}
    /\ text' = [text EXCEPT ![StdHead] = Append(@, Meta)]
    /\ \E s \in {"ok", "error"} : status' = Concat(status, s)
    /\ phase' = "body"
    /\ UNCHANGED <<current, scopes, held, content, ids, elements, inMain>>
    /\ UNCHANGED resolverVars

EnterBody ==
    /\ phase = "body"
    /\ made' = made \cup {StdBody}
    /\ scopes' = Append(scopes, current)
    /\ current' = StdBody
    /\ held' = <<MainOpen>>
    /\ phase' = "main"
    /\ UNCHANGED <<status, content, ids, elements, inMain, text>>
    /\ UNCHANGED resolverVars

(* Content is processed until a status is a break.                         *)
Writing ==
    /\ phase = "main"
    /\ IsContinue(content)
    /\ elements < MaxElements

SpliceText ==
    /\ Writing
    /\ Put(Element)
    /\ Counted
    /\ UNCHANGED <<phase, current, scopes, status, content, ids, made>>
    /\ UNCHANGED resolverVars

(* \here and \ref: a reference is written, whether or not there is such a  *)
(* section.                                                                *)
Here ==
    /\ Writing
    /\ \E s \in References : Put(s)
    /\ elements' = Element
    /\ UNCHANGED <<phase, current, scopes, status, content, ids, inMain, made>>
    /\ UNCHANGED resolverVars

(* \make_section: the section exists from now on.                          *)
MakeSection ==
    /\ Writing
    /\ Put(StdToc)
    /\ made' = made \cup {StdToc}
    /\ elements' = Element
    /\ UNCHANGED <<phase, current, scopes, status, content, ids, inMain>>
    /\ UNCHANGED resolverVars

(* Mutant of EnterThere: make() emplaces the section anew.                 *)
EnterThere_Fresh ==
    /\ Writing
    /\ \E s \in Stashes :
        /\ made' = made \cup {s}
        /\ current' = s
        /\ text' = [text EXCEPT ![s] = <<>>]
    /\ scopes' = Append(scopes, current)
    /\ elements' = Element
    /\ UNCHANGED <<phase, held, status, content, ids, inMain>>
    /\ UNCHANGED resolverVars

(* \there: its block is written to another section (go_to_scoped).         *)
EnterThere ==
    /\ Writing
    /\ \E s \in Stashes :
        /\ made' = made \cup {s}
        /\ current' = s
    /\ scopes' = Append(scopes, current)
    /\ elements' = Element
    /\ UNCHANGED <<phase, held, status, content, ids, inMain, text>>
    /\ UNCHANGED resolverVars

(* The destructor of Scoped_Section, also when a break leaves the block.   *)
LeaveThere ==
    /\ phase = "main"
    /\ InThere
    /\ current' = scopes[Len(scopes)]
    /\ scopes' = SubSeq(scopes, 1, Len(scopes) - 1)
    /\ UNCHANGED <<phase, held, status, content, ids, elements, inMain, made, text>>
    /\ UNCHANGED resolverVars

(* A listed heading: what it contains, text or a reference, is written     *)
(* three times; to the preview only if its id is new.                      *)
Heading ==
    /\ Writing
    /\ \E token \in {Element} \cup References, preview \in Previews :
        LET fresh == preview \notin ids
            written == IF fresh THEN {preview, StdToc} ELSE {StdToc}
            listed == [s \in Names |-> IF s \in written
                                       THEN Append(text[s], token) ELSE text[s]]
        IN  /\ made' = made \cup written
            /\ ids' = ids \cup {preview}
            /\ IF InThere
               THEN /\ text' = [listed EXCEPT ![current] = Append(@, token)]
                    /\ UNCHANGED held
               ELSE /\ held' = IF Len(held) = Capacity
                               THEN <<token>> ELSE Append(held, token)
                    /\ text' = IF Len(held) = Capacity
                               THEN [listed EXCEPT ![StdBody] = @ \o held]
                               ELSE listed
            /\ inMain' = IF InThere \/ token # Element
                         THEN inMain ELSE inMain \cup {token}
    /\ elements' = Element
    /\ UNCHANGED <<phase, current, scopes, status, content>>
    /\ UNCHANGED resolverVars

(* An element returns a status other than ok.                              *)
Raise ==
    /\ phase = "main"
    /\ IsContinue(content)
    /\ \E s \in Statuses \ {"ok"} : content' = Concat(content, s)
    /\ UNCHANGED <<phase, current, scopes, held, status, ids, elements, inMain,
                   made, text>>
    /\ UNCHANGED resolverVars

(* Mutant of LeaveBody: the scope of std.body does not end.                *)
LeaveBody_Stays ==
    /\ phase = "main"
    /\ ~InThere
    /\ text' = [text EXCEPT ![StdBody] = @ \o Append(held, MainClose)]
    /\ held' = <<>>
    /\ scopes' = <<>>
    /\ status' = Concat(status, content)
    /\ phase' = IF IsBreak(Concat(status, content)) THEN "returned" ELSE "resolve"
    /\ UNCHANGED <<current, content, ids, elements, inMain, made>>
    /\ UNCHANGED resolverVars

(* Mutant of LeaveBody: the body's status is not looked at.                *)
LeaveBody_Regardless ==
    /\ phase = "main"
    /\ ~InThere
    /\ text' = [text EXCEPT ![StdBody] = @ \o Append(held, MainClose)]
    /\ held' = <<>>
    /\ current' = scopes[1]
    /\ scopes' = <<>>
    /\ status' = Concat(status, content)
    /\ phase' = "resolve"
    /\ UNCHANGED <<content, ids, elements, inMain, made>>
    /\ UNCHANGED resolverVars

(* </main> is written, the buffer is flushed, the scope of std.body ends.  *)
(* A break means that the document is not put together.                    *)
LeaveBody ==
    /\ phase = "main"
    /\ ~InThere
    /\ text' = [text EXCEPT ![StdBody] = @ \o Append(held, MainClose)]
    /\ held' = <<>>
    /\ current' = scopes[1]
    /\ scopes' = <<>>
    /\ status' = Concat(status, content)
    /\ phase' = IF IsBreak(Concat(status, content)) THEN "returned" ELSE "resolve"
    /\ UNCHANGED <<content, ids, elements, inMain, made>>
    /\ UNCHANGED resolverVars

ResolveReferences ==
    /\ phase = "resolve"
    /\ Resolver!Resolve
    /\ UNCHANGED <<phase, current, scopes, held, status, content, ids, elements,
                   inMain, made, text>>

ReturnStatus ==
    /\ phase = "resolve"
    /\ outcome \in {"ok", "error"}
    /\ status' = Concat(status, outcome)
    /\ phase' = "returned"
    /\ UNCHANGED <<current, scopes, held, content, ids, elements, inMain, made, text>>
    /\ UNCHANGED resolverVars

Init ==
    /\ phase = "start"
    /\ current = Unnamed
    /\ scopes = <<>>
    /\ held = <<>>
    /\ status = "ok"
    /\ content = "ok"
    /\ ids = {}
    /\ elements = 0
    /\ inMain = {}
    /\ made = {Unnamed}
    /\ text = [s \in Names |-> <<>>]
    /\ Resolver!ResolverInit

Next ==
    \/ WriteSkeleton
    \/ WriteHead
    \/ EnterBody
    \/ SpliceText
    \/ Here
    \/ MakeSection
    \/ EnterThere
    \/ LeaveThere
    \/ Heading
    \/ Raise
    \/ LeaveBody
    \/ ResolveReferences
    \/ ReturnStatus

Spec == Init /\ [][Next]_vars

-----------------------------------------------------------------------------
Phases == {"start", "head", "body", "main", "resolve", "returned"}

(* Type invariant.                                                         *)
TypeOK ==
    /\ phase \in Phases
    /\ current \in made
    /\ scopes \in Seq(made)
    /\ held \in Seq(Resolver!Token)
    /\ Len(held) <= Capacity
    /\ status \in Statuses
    /\ content \in Statuses
    /\ ids \subseteq Previews
    /\ elements \in 0..MaxElements
    /\ inMain \subseteq 1..elements
    /\ Resolver!TypeOK

(* The section that is current is restored on every way out of a block:    *)
(* resolution starts where the document did, so that the section it marks  *)
(* as visited is the unnamed one, never one that content refers to.  On    *)
(* the way there, the buffer never holds more than it has room for.        *)
ScopesUnwound ==
    /\ TypeOK
    /\ phase \in {"resolve", "returned"} => current = Unnamed /\ scopes = <<>>

IsPrefixOf(s, t) == Len(s) <= Len(t) /\ SubSeq(t, 1, Len(s)) = s

(* What a section holds is never lost nor rewritten, also when the section *)
(* is made again, and resolution reads texts that do not change any more.  *)
SectionsOnlyGrow ==
    [][/\ \A s \in Names : IsPrefixOf(text[s], text'[s])
       /\ phase \in {"resolve", "returned"} => text' = text]_vars

Occurs(piece) == \E i \in DOMAIN out : out[i][2] = piece

(* When the document was put together without a diagnostic, every piece    *)
(* that was written in <main> is in the output (through buffer, section    *)
(* and reference).                                                         *)
NothingLost ==
    phase = "returned" /\ outcome = "ok" /\ errors = {} =>
        \A piece \in inMain \cup {MainOpen, MainClose, Meta} : Occurs(piece)

(* The first place where a piece occurs in a text.                         *)
Place(seq, piece) == CHOOSE i \in DOMAIN seq :
    seq[i] = piece /\ \A j \in 1..(i - 1) : seq[j] # piece

(* Text of <main> keeps the order of the document, inside of <main>,       *)
(* whatever \there and headings write in between.                          *)
MainInOrder ==
    phase = "resolve" =>
        LET place(piece) == Place(text[StdBody], piece)
        IN  /\ \A i, j \in inMain : i < j => place(i) < place(j)
            /\ \A i \in inMain :
                place(MainOpen) < place(i) /\ place(i) < place(MainClose)

(* What is written in <main> passes through a buffer, a section and a      *)
(* reference, beside writers that use none of them, and arrives whole, in  *)
(* order and inside of <main>.                                             *)
MainArrives == NothingLost /\ MainInOrder

(* A document whose content was abandoned (a fatal error, or a break that  *)
(* reached the top) is not put together: nothing is written, and the       *)
(* status that is returned says so.                                        *)
AbandonedIsSilent ==
    phase = "returned" =>
        /\ IsBreak(content) <=> out = <<>>
        /\ IsBreak(content) => IsBreak(status)

(* docs/directives/sections.cow: \there(std.head) writes "following        *)
(* auto-generated content".                                                *)
AfterHeadContents ==
    text[StdHead] # <<>> => text[StdHead][1] = Meta

(* An abandoned document is silent, and one that failed only in part (the  *)
(* theme could not be converted) still has its head in front of what the   *)
(* document wrote there.                                                   *)
AssembledWhole == AbandonedIsSilent /\ AfterHeadContents
=============================================================================
