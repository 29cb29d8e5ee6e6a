------------------------------ MODULE Headings ------------------------------
(***************************************************************************)
(* Numbers of headings (Heading_Behavior::splice in                        *)
(* engine/src/directives/heading.cpp).  The counters are variables of the  *)
(* thread: they are raised when a heading begins, and read when its        *)
(* content, which may hold headings, is behind it.  A heading without an   *)
(* id is processed twice: once for its text only, to make an id of it.     *)
(* What content does may differ between the two, as it has side effects.   *)
(* DocumentAssembly has the sections that headings are written to.         *)
(***************************************************************************)
EXTENDS Naturals, Sequences, FiniteSets

CONSTANTS
    Levels,         \* the levels of headings in use, of 1..6
    MaxHeadings     \* bound: headings begun in a document

VARIABLES
    counters,   \* h_counters
    calls,      \* the headings being spliced, outermost first
    written,    \* the numbers written for headings
    outline     \* history: the headings begun, in order

vars == <<counters, calls, written, outline>>

Zero == [i \in 1..6 |-> 0]

(* Mutant of Raised: the next level keeps its count.                       *)
Raised_KeepsNext(level) ==
    [i \in 1..6 |-> IF i = level THEN counters[i] + 1
                    ELSE IF i > level + 1 THEN 0 ELSE counters[i]]

Raised(level) ==
    [i \in 1..6 |-> IF i = level THEN counters[i] + 1
                    ELSE IF i > level THEN 0 ELSE counters[i]]

(* write_numbers begins with level 2: an <h1> has none.                    *)
Number(level) == SubSeq(counters, 2, level)

Call == calls[Len(calls)]
Outer == SubSeq(calls, 1, Len(calls) - 1)

(* Counters are raised before anything is processed.                       *)
Begin ==
    /\ Len(outline) < MaxHeadings
    /\ \E level \in Levels, listed, given \in BOOLEAN :
        /\ counters' = IF listed THEN Raised(level) ELSE counters
        /\ calls' = Append(calls,
               [at |-> Len(outline) + 1, level |-> level, listed |-> listed,
                pass |-> IF given THEN "content" ELSE "id"])
        /\ outline' = Append(outline,
               [level |-> level, listed |-> listed,
                around |-> {calls[i].at : i \in DOMAIN calls}])
    /\ UNCHANGED written

(* synthesize_id has gone through the content, which is next spliced for   *)
(* the heading.                                                            *)
MakeId ==
    /\ calls # <<>>
    /\ Call.pass = "id"
    /\ calls' = Append(Outer, [Call EXCEPT !.pass = "content"])
    /\ UNCHANGED <<counters, written, outline>>

(* The number of a listed heading goes into the page, the preview and the  *)
(* contents, with nothing processed in between.  The page has it unless    *)
(* the heading is hidden, or is spliced for the id of another one, where   *)
(* Text_Only_Policy drops it; the contents always have it.                 *)
End ==
    /\ calls # <<>>
    /\ Call.pass = "content"
    /\ written' = IF Call.listed
                  THEN written \cup {[of |-> Call.at, number |-> Number(Call.level)]}
                  ELSE written
    /\ calls' = Outer
    /\ UNCHANGED <<counters, outline>>

(* run_generation, once a document is done or was abandoned by a break,    *)
(* which leaves all headings at once.                                      *)
NextDocument ==
    /\ counters' = Zero
    /\ calls' = <<>>
    /\ written' = {}
    /\ outline' = <<>>

Init ==
    /\ counters = Zero
    /\ calls = <<>>
    /\ written = {}
    /\ outline = <<>>

Next == Begin \/ MakeId \/ End \/ NextDocument

Spec == Init /\ [][Next]_vars

-----------------------------------------------------------------------------
(* Type invariant.                                                         *)
TypeOK ==
    /\ counters \in [1..6 -> 0..MaxHeadings]
    /\ \A i \in DOMAIN calls :
        /\ calls[i].at \in DOMAIN outline
        /\ calls[i].pass \in {"id", "content"}
    /\ \A w \in written : w.of \in DOMAIN outline

(* The listed headings of a level up to the k-th heading that are behind   *)
(* the last one of a higher level.                                         *)
Siblings(level, k) ==
    {j \in 1..k : outline[j].listed /\ outline[j].level = level
        /\ \A i \in (j + 1)..k : outline[i].listed => outline[i].level >= level}

(* The number of the k-th heading, by its place in the document alone.     *)
NumberOf(k) ==
    SubSeq([i \in 1..6 |-> Cardinality(Siblings(i, k))], 2, outline[k].level)

(* A heading that holds none but lower headings, as far as these are listed. *)
Undisturbed(k) ==
    \A j \in DOMAIN outline :
        k \in outline[j].around /\ outline[j].listed => outline[j].level > outline[k].level

Counted == {w \in written : Undisturbed(w.of) /\ outline[w.of].level > 1}

NoListedTitle == \A k \in DOMAIN outline : outline[k].listed => outline[k].level > 1

(* Wherever it is written, the number of a heading is that of its place in *)
(* the outline of this document, so that different headings have different *)
(* numbers: though counters are shared by all documents and all headings,  *)
(* are raised by headings that are processed twice or are abandoned, and   *)
(* are read only after the headings inside.  It is not so for a heading    *)
(* that holds one of its own or of a higher level.                         *)
NumbersTellThePlace ==
    /\ TypeOK
    /\ \A w \in Counted : w.number = NumberOf(w.of)
    /\ NoListedTitle => \A v, w \in Counted : v.of # w.of => v.number # w.number
=============================================================================
