-------------------------- MODULE SectionInlining --------------------------
(***************************************************************************)
(* What resolving the section references of a document means: a reference  *)
(* stands for the text of the section it names, wherever it occurs, and    *)
(* can be left out only for a reason the document gives.  There is no      *)
(* recursion and no bookkeeping here, only the text still to be written.   *)
(***************************************************************************)
EXTENDS Naturals, Sequences

CONSTANTS
    Names,
    Html,
    Pieces

VARIABLES
    made,
    text,
    todo,       \* <<owner, token>> pairs still to be dealt with
    out,
    result      \* "idle", "running", "ok", "error" or "overflow"

vars == <<made, text, todo, out, result>>

(* The text of section s, each token labelled with the section it is from. *)
Labelled(s, from) ==
    [i \in 1..(Len(text[s]) - from + 1) |-> <<s, text[s][from + i - 1]>>]

RefersTo(s, t) == \E i \in DOMAIN text[s] : text[s][i] = t

(* A set of sections that has, with every section, those it refers to.     *)
Closed(C) == \A t \in C, u \in made : RefersTo(t, u) => u \in C

(* Some chain of references leads from s back to s: no closed set can have *)
(* what s refers to and not s.                                             *)
OnCycle(s) ==
    /\ s \in made
    /\ \A C \in SUBSET made :
        Closed(C) /\ (\A t \in made : RefersTo(s, t) => t \in C) => s \in C

Start ==
    /\ result = "idle"
    /\ todo' = Labelled(Html, 1)
    /\ result' = "running"
    /\ UNCHANGED <<made, text, out>>

Pending == result = "running" /\ todo # <<>>
Token_ == Head(todo)[2]

Emit ==
    /\ Pending
    /\ Token_ \in Pieces
    /\ out' = Append(out, Head(todo))
    /\ todo' = Tail(todo)
    /\ UNCHANGED <<made, text, result>>

Inline ==
    /\ Pending
    /\ Token_ \in made
    /\ todo' = Labelled(Token_, 1) \o Tail(todo)
    /\ UNCHANGED <<made, text, out, result>>

(* A reference is left out only if it cannot be inlined at all, or if      *)
(* inlining it could go on forever.                                        *)
Drop ==
    /\ Pending
    /\ Token_ \notin Pieces
    /\ Token_ \notin made \/ OnCycle(Token_)
    /\ todo' = Tail(todo)
    /\ UNCHANGED <<made, text, out, result>>

Unresolvable ==
    \E s \in made : \E t \in Names :
        RefersTo(s, t) /\ (t \notin made \/ OnCycle(t))

(* An error is reported only for a document that has a reference to blame. *)
Stop ==
    /\ result = "running"
    /\ todo = <<>>
    /\ result' \in {"ok"} \cup (IF Unresolvable THEN {"error"} ELSE {})
    /\ UNCHANGED <<made, text, todo, out>>

(* Running out of stack needs references that lead back to themselves.     *)
GiveUp ==
    /\ result = "running"
    /\ \E s \in made : OnCycle(s)
    /\ result' = "overflow"
    /\ UNCHANGED <<made, text, todo, out>>

Init ==
    /\ result = "idle"
    /\ todo = <<>>
    /\ out = <<>>

Next == Start \/ Emit \/ Inline \/ Drop \/ Stop \/ GiveUp

Spec == Init /\ [][Next]_vars
=============================================================================
