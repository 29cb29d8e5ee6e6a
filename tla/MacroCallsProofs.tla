-------------------------- MODULE MacroCallsProofs --------------------------
(***************************************************************************)
(* Frames, and the arguments found through them, for all argument lists,   *)
(* parameters and numbers of calls.                                        *)
(*                                                                         *)
(* Inv: FramesBelow and ExpansionDescends support each other.  A traversal *)
(* descends because parents lie below their calls, and what a traversal    *)
(* finds becomes the frame of the content processed next.  What is missing *)
(* for an inductive invariant is that `...` never stands in the arguments  *)
(* of a call made at the top level (there would be no call to expand), and *)
(* that the arguments bound by match_call belong to calls that exist.      *)
(*                                                                         *)
(* ScopeInv: content that is processed later has to be at home already     *)
(* where it waits, as the arguments of a call, on the stack of what calls  *)
(* return to, or in a variable.                                            *)
(*                                                                         *)
(* Searched and Matched: a traversal has gone through the beginning of the *)
(* flat list of all arguments.  This beginning is not a variable; Reached  *)
(* says what it is, from the activations.  How the flat list unfolds is    *)
(* shown by induction over the call stack.                                 *)
(***************************************************************************)
EXTENDS MacroCalls, SequenceTheorems, FiniteSetTheorems, WellFoundedInduction, TLAPS

Resumption == [frame : Nat, written : Nat, forwarded : BOOLEAN]

FrameTypes ==
    /\ calls \in Seq(Call)
    /\ resume \in Seq(Resumption)
    /\ Len(resume) = Len(calls)
    /\ current \in Nat
    /\ written \in Nat
    /\ serial \in Nat
    /\ forwarded \in BOOLEAN
    /\ stored \in [frame : Nat, id : Nat, forwarded : BOOLEAN] \cup {None}

EllipsisHasParent ==
    \A f \in DOMAIN calls :
        calls[f].parent = 0 => \A i \in DOMAIN calls[f].args :
                                    calls[f].args[i] # Ellipsis

PutHasCall == task \in {"positional", "named"} => current # 0

WalkOK(w) ==
    /\ w \in Seq(Activation)
    /\ \A i \in DOMAIN w : w[i].frame <= Len(calls)
    /\ \A i \in DOMAIN w : i > 1 => w[i].frame < w[i - 1].frame

BoundOK ==
    /\ params \in Seq(Parameter)
    /\ pack \in Nat
    /\ bound \in Seq([param : Nat, arg : Nat \X Nat])
    /\ \A i \in DOMAIN bound : bound[i].arg[1] \in 1..Len(calls)

FrameInv == FrameTypes /\ FramesBelow /\ EllipsisHasParent /\ PutHasCall

Inv == FrameInv /\ WalkOK(walk) /\ BoundOK

-----------------------------------------------------------------------------
(* A sequence without its last element.                                    *)
LEMMA FrontLemma ==
    ASSUME NEW S, NEW s \in Seq(S), Len(s) \in Nat \ {0}
    PROVE  /\ SubSeq(s, 1, Len(s) - 1) \in Seq(S)
           /\ Len(SubSeq(s, 1, Len(s) - 1)) = Len(s) - 1
           /\ \A i \in 1..(Len(s) - 1) : SubSeq(s, 1, Len(s) - 1)[i] = s[i]
<1>1. \A i \in 1..(Len(s) - 1) : s[i] \in S
  OBVIOUS
<1>2. 1 \in Int /\ Len(s) - 1 \in Int
  OBVIOUS
<1>3. /\ SubSeq(s, 1, Len(s) - 1) \in Seq(S)
      /\ Len(SubSeq(s, 1, Len(s) - 1)) =
            IF 1 <= Len(s) - 1 THEN (Len(s) - 1) - 1 + 1 ELSE 0
      /\ \A i \in 1..((Len(s) - 1) - 1 + 1) :
            SubSeq(s, 1, Len(s) - 1)[i] = s[1 + i - 1]
  BY <1>1, <1>2, SubSeqProperties
<1>4. \A n \in Nat \ {0} : (IF 1 <= n - 1 THEN (n - 1) - 1 + 1 ELSE 0) = n - 1
  OBVIOUS
<1>5. ASSUME NEW i \in 1..(Len(s) - 1)
      PROVE  SubSeq(s, 1, Len(s) - 1)[i] = s[i]
  <2>1. i \in 1..((Len(s) - 1) - 1 + 1) /\ 1 + i - 1 = i
    OBVIOUS
  <2> QED
    BY <1>3, <2>1
<1> QED
  BY <1>3, <1>4, <1>5

-----------------------------------------------------------------------------
(* What a call pushes.                                                     *)

LEMMA PushLemma ==
    ASSUME FrameInv, Processing,
           NEW args \in Seq(Members), NEW block \in BOOLEAN,
           Writable(args), Push(args, block)
    PROVE  /\ calls' \in Seq(Call)
           /\ resume' \in Seq(Resumption)
           /\ Len(calls) \in Nat
           /\ Len(calls') = Len(calls) + 1
           /\ Len(resume') = Len(calls')
           /\ serial' \in Nat
           /\ \A f \in DOMAIN calls' :
                calls'[f].parent < f /\ resume'[f].frame < f
           /\ EllipsisHasParent'
           /\ current <= Len(calls)
<1> DEFINE new == [args |-> args, block |-> block, parent |-> current,
                   id |-> serial + 1, home |-> written, forwarded |-> forwarded]
           back == [frame |-> current, written |-> written, forwarded |-> forwarded]
<1>1. new \in Call /\ back \in Resumption
  BY DEF FrameInv, FrameTypes, Call, Resumption
<1>2. calls' = Append(calls, new) /\ resume' = Append(resume, back)
  BY DEF Push
<1>3. new.parent = current /\ new.args = args /\ back.frame = current
  OBVIOUS
<1> HIDE DEF new, back
<1>4. current <= Len(calls) /\ current \in Nat
  BY DEF FrameInv, FrameTypes, FramesBelow, Processing
<1>5. /\ calls \in Seq(Call) /\ resume \in Seq(Resumption)
      /\ Len(resume) = Len(calls) /\ Len(calls) \in Nat
  BY DEF FrameInv, FrameTypes
<1>6. /\ calls' \in Seq(Call)
      /\ Len(calls') = Len(calls) + 1
      /\ \A i \in 1..Len(calls) : calls'[i] = calls[i]
      /\ calls'[Len(calls) + 1] = new
  BY <1>1, <1>2, <1>5, AppendProperties
<1>7. /\ resume' \in Seq(Resumption)
      /\ Len(resume') = Len(calls) + 1
      /\ \A i \in 1..Len(calls) : resume'[i] = resume[i]
      /\ resume'[Len(calls) + 1] = back
  BY <1>1, <1>2, <1>5, AppendProperties
<1>8. /\ DOMAIN calls = 1..Len(calls)
      /\ DOMAIN calls' = 1..(Len(calls) + 1)
  BY <1>5, <1>6
<1>9. ASSUME NEW f \in DOMAIN calls'
      PROVE  /\ calls'[f].parent < f /\ resume'[f].frame < f
             /\ calls'[f].parent = 0 => \A i \in DOMAIN calls'[f].args :
                                            calls'[f].args[i] # Ellipsis
  <2>1. CASE f = Len(calls) + 1
    BY <1>3, <1>4, <1>5, <1>6, <1>7, <2>1 DEF Writable
  <2>2. CASE f \in DOMAIN calls
    BY <1>6, <1>7, <1>8, <2>2 DEF FrameInv, FramesBelow, EllipsisHasParent
  <2> QED
    BY <1>5, <1>8, <2>1, <2>2
<1>10. serial' \in Nat
  BY DEF Push, FrameInv, FrameTypes
<1> QED
  BY <1>4, <1>5, <1>6, <1>7, <1>9, <1>10 DEF EllipsisHasParent

(* Writing no arguments at all is always possible.                         *)
LEMMA NoArguments == <<>> \in Seq(Members) /\ Writable(<<>>)
  BY DEF Writable

-----------------------------------------------------------------------------
(* The moves of a traversal.                                               *)

LEMMA WalkTop ==
    ASSUME WalkOK(walk), walk # <<>>
    PROVE  /\ Len(walk) \in 1..Len(walk)
           /\ Top \in Activation
           /\ Top.frame \in Nat \ {0}
           /\ Top.frame <= Len(calls)
           /\ Top.pos \in Nat \ {0}
<1>1. walk \in Seq(Activation) /\ Len(walk) \in 1..Len(walk)
  BY DEF WalkOK
<1>2. Top \in Activation
  BY <1>1 DEF Top
<1>3. Top.frame <= Len(calls)
  BY <1>1 DEF Top, WalkOK
<1> QED
  BY <1>1, <1>2, <1>3 DEF Activation

LEMMA WalkAdvanced ==
    ASSUME WalkOK(walk), walk # <<>>
    PROVE  /\ WalkOK(Advanced)
           /\ Len(Advanced) = Len(walk)
           /\ Advanced[Len(walk)].frame = Top.frame
<1> DEFINE moved == [Top EXCEPT !.pos = @ + 1]
<1>1. moved \in Activation /\ moved.frame = Top.frame
  BY WalkTop DEF Activation
<1>2. Advanced = [walk EXCEPT ![Len(walk)] = moved]
  BY DEF Advanced, Top
<1> HIDE DEF moved
<1>3. walk \in Seq(Activation) /\ Len(walk) \in 1..Len(walk)
  BY WalkTop DEF WalkOK
<1>4. /\ Advanced \in Seq(Activation)
      /\ Len(Advanced) = Len(walk)
      /\ \A i \in 1..Len(walk) :
            Advanced[i] = IF i = Len(walk) THEN moved ELSE walk[i]
  BY <1>1, <1>2, <1>3, ExceptSeq
<1>5. \A i \in 1..Len(walk) : Advanced[i].frame = walk[i].frame
  BY <1>1, <1>4 DEF Top
<1>6. DOMAIN walk = 1..Len(walk) /\ DOMAIN Advanced = 1..Len(walk)
  BY <1>3, <1>4
<1>7. ASSUME NEW i \in 1..Len(walk)
      PROVE  /\ Advanced[i].frame <= Len(calls)
             /\ i > 1 => Advanced[i].frame < Advanced[i - 1].frame
  <2>1. i > 1 => i - 1 \in 1..Len(walk)
    BY <1>3
  <2> QED
    BY <1>5, <1>6, <2>1 DEF WalkOK
<1> QED
  BY <1>3, <1>4, <1>5, <1>6, <1>7 DEF WalkOK, Top

LEMMA WalkLeft ==
    ASSUME WalkOK(walk), walk # <<>>
    PROVE  WalkOK(Left)
<1>1. walk \in Seq(Activation) /\ Len(walk) \in Nat \ {0}
  BY DEF WalkOK
<1>2. /\ Left \in Seq(Activation)
      /\ Len(Left) = Len(walk) - 1
      /\ \A i \in 1..(Len(walk) - 1) : Left[i] = walk[i]
  BY <1>1, FrontLemma DEF Left
<1>3. DOMAIN walk = 1..Len(walk) /\ DOMAIN Left = 1..(Len(walk) - 1)
  BY <1>1, <1>2
<1> QED
  BY <1>1, <1>2, <1>3 DEF WalkOK

LEMMA WalkExpanded ==
    ASSUME FrameInv, WalkOK(walk), walk # <<>>, ~AtEnd, Member = Ellipsis
    PROVE  WalkOK(Expanded)
<1> DEFINE parent == calls[Top.frame].parent
           new == Started(parent, Top.base + Top.pos - 1)
<1>1. /\ calls \in Seq(Call) /\ Len(calls) \in Nat
      /\ Top.frame \in 1..Len(calls)
      /\ DOMAIN calls = 1..Len(calls)
  BY WalkTop DEF FrameInv, FrameTypes
<1>2. calls[Top.frame] \in Call
  BY <1>1
<1>3. parent \in Nat /\ parent < Top.frame
  BY <1>1, <1>2 DEF Call, FrameInv, FramesBelow
<1>4. parent # 0
  <2>1. Args \in Seq(Members)
    BY <1>2 DEF Args, Call
  <2>2. Top.pos \in DOMAIN Args
    BY <2>1, WalkTop DEF AtEnd
  <2> QED
    BY <1>1, <2>2 DEF FrameInv, EllipsisHasParent, Member, Args
<1>5. Top.base + Top.pos - 1 \in Nat
  BY WalkTop DEF Activation
<1>6. new \in Activation /\ new.frame = parent
  BY <1>3, <1>4, <1>5 DEF Started, Activation
<1>7. Expanded = Append(Advanced, new)
  BY DEF Expanded
<1> HIDE DEF new, parent
<1>8. /\ Advanced \in Seq(Activation)
      /\ Len(Advanced) = Len(walk)
      /\ DOMAIN Advanced = 1..Len(walk)
      /\ Len(walk) \in Nat \ {0}
  BY WalkAdvanced, WalkTop DEF WalkOK
<1>9. /\ Expanded \in Seq(Activation)
      /\ Len(Expanded) = Len(walk) + 1
      /\ DOMAIN Expanded = 1..(Len(walk) + 1)
      /\ \A i \in 1..Len(walk) : Expanded[i] = Advanced[i]
      /\ Expanded[Len(walk) + 1] = new
  BY <1>6, <1>7, <1>8, AppendProperties
<1>10. ASSUME NEW i \in 1..(Len(walk) + 1)
       PROVE  /\ Expanded[i].frame <= Len(calls)
              /\ i > 1 => Expanded[i].frame < Expanded[i - 1].frame
  <2>1. CASE i \in 1..Len(walk)
    <3>1. i > 1 => i - 1 \in 1..Len(walk)
      BY <1>8, <2>1
    <3>2. /\ Advanced[i].frame <= Len(calls)
          /\ i > 1 => Advanced[i].frame < Advanced[i - 1].frame
      BY <1>8, <2>1, WalkAdvanced DEF WalkOK
    <3> QED
      BY <1>9, <2>1, <3>1, <3>2
  <2>2. CASE i = Len(walk) + 1
    <3>1. Expanded[i].frame = parent /\ Expanded[i - 1].frame = Top.frame
      BY <1>6, <1>8, <1>9, <2>2, WalkAdvanced
    <3> QED
      BY <1>1, <1>3, <3>1
  <2> QED
    BY <1>8, <2>1, <2>2
<1> QED
  BY <1>9, <1>10 DEF WalkOK

-----------------------------------------------------------------------------
(* Steps that only traverse arguments.                                     *)

(* What an action may do with the traversal while the call stack stays.    *)
LEMMA TraversalStep ==
    ASSUME Inv, UNCHANGED frames, task # "stale",
           \/ walk' = walk
           \/ walk' = <<>>
           \/ walk # <<>> /\ walk' = Advanced
           \/ walk # <<>> /\ walk' = Left
           \/ walk # <<>> /\ ~AtEnd /\ Member = Ellipsis /\ walk' = Expanded,
           task' \in {"positional", "named"} => task = task',
           task' # "stale"
    PROVE  FrameInv' /\ WalkOK(walk)'
<1>1. FrameInv'
  BY DEF Inv, FrameInv, FrameTypes, FramesBelow, EllipsisHasParent, PutHasCall, frames
<1>2. WalkOK(<<>>)
  BY DEF WalkOK
<1>3. WalkOK(walk')
  BY <1>2, WalkAdvanced, WalkLeft, WalkExpanded DEF Inv
<1> QED
  BY <1>1, <1>3 DEF WalkOK, frames

-----------------------------------------------------------------------------
(* Steps that change frames.                                               *)

(* The frames that a call refers to.                                       *)
LEMMA CallLemma ==
    ASSUME FrameInv, NEW f \in 1..Len(calls)
    PROVE  /\ calls[f].parent \in Nat
           /\ calls[f].parent < f
           /\ calls[f].parent <= Len(calls)
           /\ calls[f].home \in Nat
           /\ calls[f].forwarded \in BOOLEAN
<1>1. calls \in Seq(Call) /\ Len(calls) \in Nat /\ f \in DOMAIN calls
  BY DEF FrameInv, FrameTypes
<1>2. calls[f] \in Call
  BY <1>1
<1>3. calls[f].parent < f
  BY <1>1 DEF FrameInv, FramesBelow
<1> QED
  BY <1>1, <1>2, <1>3 DEF Call

(* A call is pushed and some content is processed next.                    *)
LEMMA PushStep ==
    ASSUME FrameInv, Processing,
           NEW args \in Seq(Members), NEW block \in BOOLEAN,
           Writable(args), Push(args, block),
           stored' = stored, current' \in Nat, written' \in Nat,
           forwarded' \in BOOLEAN,
           task' # "stale" => current' <= Len(calls) + 1,
           PutHasCall'
    PROVE  FrameInv'
<1>1. FrameTypes'
  BY PushLemma DEF FrameTypes, FrameInv
<1>2. FramesBelow'
  BY PushLemma DEF FramesBelow
<1> QED
  BY <1>1, <1>2, PushLemma DEF FrameInv

(* The content processed next changes, and nothing else in the frames.     *)
LEMMA MoveStep ==
    ASSUME FrameInv, UNCHANGED <<calls, resume, stored, serial>>,
           current' \in Nat, written' \in Nat, forwarded' \in BOOLEAN,
           current' <= Len(calls), task' = "none"
    PROVE  FrameInv'
  BY DEF FrameInv, FrameTypes, FramesBelow, EllipsisHasParent, PutHasCall

(* No traversal, no matching.                                              *)
LEMMA IdleLemma == Idle => WalkOK(walk)' /\ BoundOK'
<1> SUFFICES ASSUME Idle PROVE WalkOK(walk)' /\ BoundOK'
  OBVIOUS
<1>1. walk' = <<>> /\ params' = <<>> /\ pack' = 0 /\ bound' = <<>>
  BY DEF Idle
<1> QED
  BY <1>1 DEF WalkOK, BoundOK

(* A traversal starts with the arguments of one call.                      *)
LEMMA StartLemma ==
    ASSUME NEW f \in Nat \ {0}, f <= Len(calls)', walk' = <<Started(f, 0)>>
    PROVE  WalkOK(walk)'
<1>1. Started(f, 0) \in Activation /\ Started(f, 0).frame = f
  BY DEF Started, Activation
<1>2. walk' \in Seq(Activation) /\ DOMAIN walk' = {1} /\ walk'[1] = Started(f, 0)
  BY <1>1
<1> QED
  BY <1>1, <1>2 DEF WalkOK

LEMMA CallMacroInv == Inv /\ CallMacro => Inv'
<1> SUFFICES ASSUME Inv, CallMacro PROVE Inv'
  OBVIOUS
<1>1. PICK args \in ArgLists, block \in BOOLEAN : Writable(args) /\ Push(args, block)
  BY DEF CallMacro
<1>2. args \in Seq(Members)
  BY MacroCallsAssumption
<1>3. /\ FrameInv
      /\ Processing
      /\ stored' = stored
      /\ current' = Len(calls) + 1
      /\ written' = serial + 1
      /\ forwarded' = FALSE
      /\ task' = "none"
      /\ Idle
  BY DEF Inv, CallMacro, Processing
<1>4. Len(calls) \in Nat /\ serial \in Nat
  BY <1>3 DEF FrameInv, FrameTypes
<1>5. current' \in Nat /\ written' \in Nat /\ current' <= Len(calls) + 1
  BY <1>3, <1>4
<1>6. forwarded' \in BOOLEAN /\ PutHasCall'
  BY <1>3 DEF PutHasCall
<1>7. FrameInv'
  BY <1>1, <1>2, <1>3, <1>5, <1>6, PushStep
<1> QED
  BY <1>3, <1>7, IdleLemma DEF Inv

LEMMA PutBlockInv == Inv /\ PutBlock => Inv'
<1> SUFFICES ASSUME Inv, PutBlock PROVE Inv'
  OBVIOUS
<1>1. /\ FrameInv
      /\ Processing
      /\ Push(<<>>, FALSE)
      /\ stored' = stored
      /\ current' = calls[current].parent
      /\ written' = calls[current].home
      /\ forwarded' = calls[current].forwarded
      /\ task' = "none"
      /\ Idle
  BY DEF Inv, PutBlock, Processing
<1>2. current \in 1..Len(calls) /\ Len(calls) \in Nat
  BY <1>1 DEF FrameInv, FrameTypes, FramesBelow, PutBlock, Processing
<1>3. /\ current' \in Nat /\ written' \in Nat /\ forwarded' \in BOOLEAN
      /\ current' <= Len(calls) + 1 /\ PutHasCall'
  BY <1>1, <1>2, CallLemma DEF PutHasCall
<1>4. FrameInv'
  BY <1>1, <1>3, NoArguments, PushStep
<1> QED
  BY <1>1, <1>4, IdleLemma DEF Inv

LEMMA StoreBlockInv == Inv /\ StoreBlock => Inv'
<1> SUFFICES ASSUME Inv, StoreBlock PROVE Inv'
  OBVIOUS
<1>1. /\ UNCHANGED <<calls, resume, current, written, serial, forwarded, task>>
      /\ stored' = [frame |-> current, id |-> written, forwarded |-> forwarded]
      /\ Idle
  BY DEF StoreBlock
<1>2. stored' \in [frame : Nat, id : Nat, forwarded : BOOLEAN]
  BY <1>1 DEF Inv, FrameInv, FrameTypes
<1>3. FrameTypes'
  BY <1>1, <1>2 DEF Inv, FrameInv, FrameTypes
<1>4. FramesBelow' /\ EllipsisHasParent' /\ PutHasCall'
  BY <1>1 DEF Inv, FrameInv, FramesBelow, EllipsisHasParent, PutHasCall
<1> QED
  BY <1>1, <1>3, <1>4, IdleLemma DEF Inv, FrameInv

LEMMA LoadBlockInv == Inv /\ LoadBlock => Inv'
<1> SUFFICES ASSUME Inv, LoadBlock PROVE Inv'
  OBVIOUS
<1>1. /\ FrameInv
      /\ Processing
      /\ Push(<<>>, FALSE)
      /\ stored' = stored
      /\ current' = stored.frame
      /\ written' = stored.id
      /\ forwarded' = stored.forwarded
      /\ task' \in {"none", "stale"}
      /\ task' = "none" => Alive(stored)
      /\ Idle
  BY DEF Inv, LoadBlock
<1>2. /\ stored \in [frame : Nat, id : Nat, forwarded : BOOLEAN]
      /\ Len(calls) \in Nat
  BY <1>1 DEF FrameInv, FrameTypes, LoadBlock
<1>3. /\ current' \in Nat /\ written' \in Nat /\ forwarded' \in BOOLEAN
      /\ task' # "stale" => current' <= Len(calls) + 1
      /\ PutHasCall'
  BY <1>1, <1>2 DEF Alive, PutHasCall
<1>4. FrameInv'
  BY <1>1, <1>3, NoArguments, PushStep
<1> QED
  BY <1>1, <1>4, IdleLemma DEF Inv

LEMMA ReturnInv == Inv /\ Return => Inv'
<1> SUFFICES ASSUME Inv, Return PROVE Inv'
  OBVIOUS
<1> DEFINE n == Len(calls)
           to == resume[Len(resume)]
<1>1. /\ FrameInv
      /\ calls' = SubSeq(calls, 1, Len(calls) - 1)
      /\ resume' = SubSeq(resume, 1, Len(resume) - 1)
      /\ current' = to.frame /\ written' = to.written
      /\ forwarded' = to.forwarded
      /\ task' = "none" /\ stored' = stored /\ serial' = serial
      /\ Idle
  BY DEF Inv, Return
<1>2. /\ calls \in Seq(Call) /\ resume \in Seq(Resumption)
      /\ n \in Nat \ {0} /\ Len(resume) = n
      /\ DOMAIN calls = 1..n
  BY <1>1 DEF FrameInv, FrameTypes, Return
<1>3. to \in Resumption /\ to.frame < n
  <2>1. n \in 1..n
    BY <1>2
  <2> QED
    BY <1>1, <1>2, <2>1 DEF FrameInv, FramesBelow
<1> HIDE DEF to, n
<1>4. /\ calls' \in Seq(Call)
      /\ Len(calls') = n - 1
      /\ \A i \in 1..(n - 1) : calls'[i] = calls[i]
  BY <1>1, <1>2, FrontLemma DEF n
<1>5. /\ resume' \in Seq(Resumption)
      /\ Len(resume') = n - 1
      /\ \A i \in 1..(n - 1) : resume'[i] = resume[i]
  BY <1>1, <1>2, FrontLemma DEF n
<1>6. DOMAIN calls' = 1..(n - 1)
  BY <1>4
<1>7. ASSUME NEW f \in 1..(n - 1)
      PROVE  /\ calls'[f].parent < f /\ resume'[f].frame < f
             /\ calls'[f].parent = 0 => \A i \in DOMAIN calls'[f].args :
                                            calls'[f].args[i] # Ellipsis
  <2>1. f \in DOMAIN calls
    BY <1>2
  <2> QED
    BY <1>1, <1>4, <1>5, <2>1 DEF FrameInv, FramesBelow, EllipsisHasParent
<1>8. FrameTypes'
  BY <1>1, <1>3, <1>4, <1>5 DEF FrameInv, FrameTypes, Resumption
<1>9. FramesBelow'
  <2>1. current' <= n - 1
    BY <1>1, <1>2, <1>3 DEF Resumption
  <2> QED
    BY <1>4, <1>6, <1>7, <2>1 DEF FramesBelow
<1>10. EllipsisHasParent' /\ PutHasCall'
  BY <1>1, <1>6, <1>7 DEF EllipsisHasParent, PutHasCall
<1> QED
  BY <1>1, <1>8, <1>9, <1>10, IdleLemma DEF Inv, FrameInv

LEMMA PutArgumentInv == Inv /\ PutArgument => Inv'
<1> SUFFICES ASSUME Inv, PutArgument PROVE Inv'
  OBVIOUS
<1>1. /\ FrameInv
      /\ Processing
      /\ current # 0
      /\ Push(<<>>, FALSE)
      /\ UNCHANGED <<current, written, stored, forwarded>>
      /\ task' \in {"named", "positional"}
      /\ walk' = <<Started(current, 0)>>
      /\ params' = <<>> /\ pack' = 0 /\ bound' = <<>>
  BY DEF Inv, PutArgument
<1>2. /\ current \in Nat \ {0} /\ current <= Len(calls) /\ Len(calls) \in Nat
      /\ written \in Nat /\ forwarded \in BOOLEAN
  BY <1>1 DEF FrameInv, FrameTypes, FramesBelow, Processing
<1>3. FrameInv'
  <2>1. PutHasCall'
    BY <1>1 DEF PutHasCall
  <2>2. /\ stored' = stored /\ current' = current /\ written' = written
        /\ forwarded' = forwarded
    BY <1>1
  <2>3. /\ current' \in Nat /\ written' \in Nat /\ forwarded' \in BOOLEAN
        /\ current' <= Len(calls) + 1
    BY <1>2, <2>2
  <2> QED
    BY <1>1, <2>1, <2>2, <2>3, NoArguments, PushStep
<1>4. Len(calls') = Len(calls) + 1
  BY <1>1, NoArguments, PushLemma
<1>5. WalkOK(walk)'
  BY <1>1, <1>2, <1>4, StartLemma
<1>6. BoundOK'
  BY <1>1 DEF BoundOK
<1> QED
  BY <1>3, <1>5, <1>6 DEF Inv

LEMMA UseArgumentInv == Inv /\ UseArgument => Inv'
<1> SUFFICES ASSUME Inv, UseArgument PROVE Inv'
  OBVIOUS
<1>1. PICK i \in DOMAIN bound :
         /\ current' = calls[bound[i].arg[1]].parent
         /\ written' = calls[bound[i].arg[1]].home
         /\ forwarded' = calls[bound[i].arg[1]].forwarded
  BY DEF UseArgument
<1>2. bound[i].arg[1] \in 1..Len(calls)
  BY DEF Inv, BoundOK
<1>3. FrameInv /\ task' = "none" /\ Idle
      /\ UNCHANGED <<calls, resume, stored, serial>>
  BY DEF Inv, UseArgument
<1>4. FrameInv'
  BY <1>1, <1>2, <1>3, CallLemma, MoveStep
<1> QED
  BY <1>3, <1>4, IdleLemma DEF Inv

LEMMA CallBuiltinInv == Inv /\ CallBuiltin => Inv'
<1> SUFFICES ASSUME Inv, CallBuiltin PROVE Inv'
  OBVIOUS
<1> DEFINE new == Len(calls) + 1
<1>1. PICK args \in ArgLists, block \in BOOLEAN, list \in ParameterLists :
        /\ Writable(args)
        /\ Push(args, block)
        /\ params' = list
        /\ task' \in {"failed", "matching"}
        /\ \/ bound' = <<>>
           \/ list # <<>> /\ bound' = <<[param |-> Len(list), arg |-> <<new, 0>>]>>
  BY DEF CallBuiltin
<1>2. args \in Seq(Members) /\ list \in Seq(Parameter)
  BY MacroCallsAssumption
<1>3. /\ FrameInv
      /\ Processing
      /\ UNCHANGED <<current, written, stored, forwarded>>
      /\ walk' = <<>> \/ walk' = <<Started(new, 0)>>
      /\ pack' = 0
  BY DEF Inv, CallBuiltin
<1>4. /\ current \in Nat /\ current <= Len(calls) /\ Len(calls) \in Nat
      /\ written \in Nat /\ forwarded \in BOOLEAN
  BY <1>3 DEF FrameInv, FrameTypes, FramesBelow, Processing
<1>5. FrameInv'
  <2>1. PutHasCall'
    BY <1>1 DEF PutHasCall
  <2>2. /\ stored' = stored /\ current' = current /\ written' = written
        /\ forwarded' = forwarded
    BY <1>3
  <2>3. /\ current' \in Nat /\ written' \in Nat /\ forwarded' \in BOOLEAN
        /\ current' <= Len(calls) + 1
    BY <1>4, <2>2
  <2> QED
    BY <1>1, <1>2, <1>3, <2>1, <2>2, <2>3, PushStep
<1>6. Len(calls') = new /\ new \in Nat \ {0}
  BY <1>1, <1>2, <1>3, <1>4, PushLemma
<1> HIDE DEF new
<1>7. WalkOK(walk)'
  <2>1. CASE walk' = <<>>
    BY <2>1 DEF WalkOK
  <2>2. CASE walk' = <<Started(new, 0)>>
    BY <1>6, <2>2, StartLemma
  <2> QED
    BY <1>3, <2>1, <2>2
<1>8. BoundOK'
  <2>1. params' \in Seq(Parameter) /\ pack' \in Nat
    BY <1>1, <1>2, <1>3
  <2>2. CASE bound' = <<>>
    BY <2>1, <2>2 DEF BoundOK
  <2>3. CASE bound' = <<[param |-> Len(list), arg |-> <<new, 0>>]>>
    <3>1. [param |-> Len(list), arg |-> <<new, 0>>] \in [param : Nat, arg : Nat \X Nat]
      BY <1>2, <1>6
    <3>2. /\ bound' \in Seq([param : Nat, arg : Nat \X Nat])
          /\ DOMAIN bound' = {1}
          /\ bound'[1].arg[1] = new
      BY <2>3, <3>1
    <3> QED
      BY <1>6, <2>1, <3>2 DEF BoundOK
  <2> QED
    BY <1>1, <2>2, <2>3
<1> QED
  BY <1>5, <1>7, <1>8 DEF Inv

-----------------------------------------------------------------------------
(* Steps of a search by \cowel_put.                                        *)

LEMMA SearchInv ==
    Inv /\ (CountPositional \/ SkipNamed \/ FindNamed \/ SkipOthers
            \/ PutEllipsis \/ PutLeave \/ PutNothing) => Inv'
<1> SUFFICES ASSUME Inv, CountPositional \/ SkipNamed \/ FindNamed
                         \/ SkipOthers \/ PutEllipsis \/ PutLeave \/ PutNothing
             PROVE  Inv'
  OBVIOUS
<1>1. task \in {"positional", "named"} /\ UNCHANGED matching
  BY DEF CountPositional, SkipNamed, FindNamed, SkipOthers, PutEllipsis,
         PutLeave, PutNothing, Walking, Deliver
<1>2. FrameInv /\ current \in 1..Len(calls)
  BY <1>1 DEF Inv, FrameInv, FrameTypes, FramesBelow, PutHasCall
<1>3. ASSUME calls' = calls PROVE BoundOK'
  BY <1>1, <1>3 DEF Inv, BoundOK, matching
<1>4. ASSUME UNCHANGED frames, task' = task,
             \/ walk' = walk
             \/ walk' = <<>>
             \/ walk # <<>> /\ walk' = Advanced
             \/ walk # <<>> /\ walk' = Left
             \/ walk # <<>> /\ ~AtEnd /\ Member = Ellipsis /\ walk' = Expanded
      PROVE  Inv'
  <2>1. FrameInv' /\ WalkOK(walk)'
    BY <1>1, <1>4, TraversalStep
  <2> QED
    BY <1>3, <1>4, <2>1 DEF Inv, frames
<1>5. ASSUME walk # <<>>, Deliver(Place) PROVE Inv'
  <2>1. /\ current' = calls[current].parent
        /\ written' = calls[Top.frame].home
        /\ forwarded' = (calls[Top.frame].forwarded \/ Top.frame # current)
        /\ task' = "none"
        /\ walk' = <<>>
        /\ UNCHANGED <<calls, resume, stored, serial>>
    BY <1>5 DEF Deliver, Place
  <2>2. Top.frame \in 1..Len(calls)
    BY <1>2, <1>5, WalkTop DEF Inv
  <2>3. /\ current' \in Nat /\ current' <= Len(calls)
        /\ written' \in Nat
    BY <1>2, <2>1, <2>2, CallLemma
  <2>4. forwarded' \in BOOLEAN
    BY <2>1
  <2>5. FrameInv'
    BY <1>2, <2>1, <2>3, <2>4, MoveStep
  <2>6. WalkOK(walk)'
    BY <2>1 DEF WalkOK
  <2> QED
    BY <1>3, <2>1, <2>5, <2>6 DEF Inv
<1>6. CASE CountPositional
  <2>1. walk # <<>>
    BY <1>6 DEF CountPositional, Walking
  <2>2. CASE needle = index
    BY <1>5, <1>6, <2>1, <2>2 DEF CountPositional
  <2>3. CASE needle # index
    BY <1>4, <1>6, <2>1, <2>3 DEF CountPositional
  <2> QED
    BY <2>2, <2>3
<1>7. CASE SkipNamed \/ SkipOthers \/ PutEllipsis
  BY <1>4, <1>7 DEF SkipNamed, SkipOthers, PutEllipsis, Walking
<1>8. CASE PutLeave
  BY <1>4, <1>8 DEF PutLeave, Walking
<1>9. CASE FindNamed
  BY <1>5, <1>9 DEF FindNamed, Walking
<1>10. CASE PutNothing
  <2>1. walk' = <<>> /\ WalkOK(walk)' /\ calls' = calls
    BY <1>10 DEF PutNothing, WalkOK, frames
  <2>2. CASE task' = "not_found" /\ UNCHANGED frames
    BY <1>1, <1>3, <2>1, <2>2, TraversalStep DEF Inv
  <2>3. CASE /\ task' = "none"
             /\ current' = calls[current].parent
             /\ forwarded' = TRUE
             /\ UNCHANGED <<calls, resume, written, stored, serial>>
    <3>1. current' \in Nat /\ current' <= Len(calls)
      BY <1>2, <2>3, CallLemma
    <3>2. written' \in Nat
      BY <1>2, <2>3 DEF FrameInv, FrameTypes
    <3>3. forwarded' \in BOOLEAN
      BY <2>3
    <3>4. FrameInv'
      BY <1>2, <2>3, <3>1, <3>2, <3>3, MoveStep
    <3> QED
      BY <1>3, <2>1, <3>4 DEF Inv
  <2> QED
    BY <1>10, <2>2, <2>3 DEF PutNothing
<1> QED
  BY <1>6, <1>7, <1>8, <1>9, <1>10

-----------------------------------------------------------------------------
(* Steps of match_call.                                                    *)

LEMMA BindLemma ==
    ASSUME Inv, walk # <<>>, UNCHANGED <<calls, params>>, pack' \in Nat,
           NEW p \in Nat, Bind(p)
    PROVE  BoundOK'
<1> DEFINE new == [param |-> p, arg |-> Place]
<1>1. Top.frame \in 1..Len(calls) /\ Top.pos \in Nat /\ Top.frame \in Nat
  BY WalkTop DEF Inv, FrameInv, FrameTypes
<1>2. new \in [param : Nat, arg : Nat \X Nat] /\ new.arg[1] \in 1..Len(calls)
  BY <1>1 DEF Place
<1>3. bound' = Append(bound, new)
  BY DEF Bind
<1>4. bound \in Seq([param : Nat, arg : Nat \X Nat]) /\ Len(bound) \in Nat
  BY DEF Inv, BoundOK
<1> HIDE DEF new
<1>5. /\ bound' \in Seq([param : Nat, arg : Nat \X Nat])
      /\ Len(bound') = Len(bound) + 1
      /\ \A i \in 1..Len(bound) : bound'[i] = bound[i]
      /\ bound'[Len(bound) + 1] = new
  BY <1>2, <1>3, <1>4, AppendProperties
<1>6. \A i \in DOMAIN bound' : bound'[i].arg[1] \in 1..Len(calls)
  <2>1. DOMAIN bound = 1..Len(bound) /\ DOMAIN bound' = 1..(Len(bound) + 1)
    BY <1>4, <1>5
  <2>2. \A i \in 1..Len(bound) : bound[i].arg[1] \in 1..Len(calls)
    BY <2>1 DEF Inv, BoundOK
  <2>3. ASSUME NEW i \in 1..(Len(bound) + 1) PROVE bound'[i].arg[1] \in 1..Len(calls)
    <3>1. CASE i \in 1..Len(bound)
      BY <1>5, <2>2, <3>1
    <3>2. CASE i = Len(bound) + 1
      BY <1>2, <1>5, <3>2
    <3> QED
      BY <1>4, <3>1, <3>2
  <2> QED
    BY <2>1, <2>3
<1> QED
  BY <1>5, <1>6 DEF Inv, BoundOK

LEMMA MatchInv ==
    Inv /\ (MatchPositional \/ MatchAssertion \/ MatchIntoPack \/ MatchNamedPack
            \/ MatchNamed \/ MatchEllipsis \/ MatchLeave \/ MatchRefused
            \/ MatchMismatch \/ MatchEnd) => Inv'
<1> SUFFICES ASSUME Inv, MatchPositional \/ MatchAssertion \/ MatchIntoPack
                         \/ MatchNamedPack \/ MatchNamed \/ MatchEllipsis
                         \/ MatchLeave \/ MatchRefused \/ MatchMismatch \/ MatchEnd
             PROVE  Inv'
  OBVIOUS
<1>1. task = "matching" /\ walk # <<>> /\ UNCHANGED frames /\ params' = params
  BY DEF MatchPositional, MatchAssertion, MatchIntoPack, MatchNamedPack,
         MatchNamed, MatchEllipsis, MatchLeave, MatchRefused, MatchMismatch,
         MatchEnd, Matching, Walking, MatchKeeps, Fail
<1>2. calls' = calls
  BY <1>1 DEF frames
<1>3. task' \in {"matching", "matched", "failed", "assertion"}
  BY <1>1 DEF MatchPositional, MatchAssertion, MatchIntoPack, MatchNamedPack,
         MatchNamed, MatchEllipsis, MatchLeave, MatchRefused, MatchMismatch,
         MatchEnd, Fail
<1>4. \/ walk' = walk
      \/ walk' = <<>>
      \/ walk' = Advanced
      \/ walk' = Left
      \/ ~AtEnd /\ Member = Ellipsis /\ walk' = Expanded
  BY DEF MatchPositional, MatchAssertion, MatchIntoPack, MatchNamedPack,
         MatchNamed, MatchEllipsis, MatchLeave, MatchRefused, MatchMismatch,
         MatchEnd, Fail
<1>5. FrameInv' /\ WalkOK(walk)'
  BY <1>1, <1>3, <1>4, TraversalStep
<1>6. Turn \in Nat /\ pack \in Nat /\ params \in Seq(Parameter)
  <2>1. Top.base \in Nat /\ Top.pos \in Nat
    BY <1>1, WalkTop DEF Inv, Activation
  <2> QED
    BY <2>1 DEF Turn, Inv, BoundOK
<1>7. BoundOK'
  <2>1. CASE MatchPositional
    <3>1. Bind(Turn) /\ pack' \in Nat
      BY <1>6, <2>1 DEF MatchPositional
    <3> QED
      BY <1>1, <1>2, <1>6, <3>1, BindLemma
  <2>2. CASE MatchIntoPack
    <3>1. Bind(pack) /\ pack' \in Nat
      BY <1>6, <2>2 DEF MatchIntoPack
    <3> QED
      BY <1>1, <1>2, <1>6, <3>1, BindLemma
  <2>3. CASE MatchNamedPack
    <3>1. Bind(Turn) /\ pack' \in Nat
      BY <1>6, <2>3 DEF MatchNamedPack
    <3> QED
      BY <1>1, <1>2, <1>6, <3>1, BindLemma
  <2>4. CASE MatchNamed
    <3>1. PICK p \in DOMAIN params : Bind(p)
      BY <2>4 DEF MatchNamed
    <3>2. p \in Nat /\ pack' \in Nat
      BY <1>6, <2>4, <3>1 DEF MatchNamed
    <3> QED
      BY <1>1, <1>2, <3>1, <3>2, BindLemma
  <2>5. CASE MatchAssertion \/ MatchEllipsis \/ MatchLeave \/ MatchRefused
             \/ MatchMismatch \/ MatchEnd
    <3>1. bound' = bound /\ pack' = pack
      BY <2>5 DEF MatchAssertion, MatchEllipsis, MatchLeave, MatchRefused,
                  MatchMismatch, MatchEnd, Fail
    <3> QED
      BY <1>1, <1>2, <3>1 DEF Inv, BoundOK
  <2> QED
    BY <2>1, <2>2, <2>3, <2>4, <2>5
<1> QED
  BY <1>5, <1>7 DEF Inv

-----------------------------------------------------------------------------
(* Content and the invocation it belongs to.                               *)

(* On this call stack, the frame is that of the call with this id, or      *)
(* both are none.                                                          *)
Home(stack, frame, id) ==
    IF frame = 0 THEN id = 0
    ELSE frame <= Len(stack) /\ stack[frame].id = id

ArgumentsAtHome ==
    \A f \in DOMAIN calls :
        ~calls[f].forwarded => Home(calls, calls[f].parent, calls[f].home)

ReturnsHome ==
    \A f \in DOMAIN resume :
        ~resume[f].forwarded => Home(calls, resume[f].frame, resume[f].written)

(* What is stored at the top level stays valid; any other block is looked  *)
(* at again when it is used.                                               *)
StoredAtHome ==
    stored # None => (~stored.forwarded /\ stored.frame = 0 => stored.id = 0)

ScopeInv == LexicalUnlessForwarded /\ ArgumentsAtHome /\ ReturnsHome /\ StoredAtHome

LEMMA LexicalIsHome ==
    LexicalUnlessForwarded <=> (~forwarded /\ task # "stale" => Home(calls, current, written))
  BY DEF LexicalUnlessForwarded, InLexicalFrame, Home

LEMMA LexicalIsHomeNext ==
    LexicalUnlessForwarded' <=>
        (~forwarded' /\ task' # "stale" => Home(calls', current', written'))
  BY DEF LexicalUnlessForwarded, InLexicalFrame, Home

(* Pushing a call moves no other: what was at home stays there, and the    *)
(* call and what it returns to are, unless forwarded, at home themselves.  *)
LEMMA ScopePush ==
    ASSUME Inv, ScopeInv, Processing,
           NEW args \in Seq(Members), NEW block \in BOOLEAN,
           Writable(args), Push(args, block)
    PROVE  /\ \A frame \in Nat, id \in Nat : Home(calls, frame, id) => Home(calls', frame, id)
           /\ Len(calls') = Len(calls) + 1
           /\ calls'[Len(calls) + 1].id = serial + 1
           /\ ArgumentsAtHome'
           /\ ReturnsHome'
<1> DEFINE new == [args |-> args, block |-> block, parent |-> current,
                   id |-> serial + 1, home |-> written, forwarded |-> forwarded]
           back == [frame |-> current, written |-> written, forwarded |-> forwarded]
<1>1. FrameInv
  BY DEF Inv
<1>2. new \in Call /\ back \in Resumption
  BY <1>1 DEF FrameInv, FrameTypes, Call, Resumption
<1>3. calls' = Append(calls, new) /\ resume' = Append(resume, back)
  BY DEF Push
<1>4. /\ new.parent = current /\ new.home = written /\ new.id = serial + 1
      /\ new.forwarded = forwarded
      /\ back.frame = current /\ back.written = written
      /\ back.forwarded = forwarded
  OBVIOUS
<1> HIDE DEF new, back
<1>5. /\ calls \in Seq(Call) /\ resume \in Seq(Resumption)
      /\ Len(resume) = Len(calls) /\ Len(calls) \in Nat
      /\ current \in Nat /\ written \in Nat
  BY <1>1 DEF FrameInv, FrameTypes
<1>6. /\ Len(calls') = Len(calls) + 1
      /\ calls' \in Seq(Call)
      /\ \A i \in 1..Len(calls) : calls'[i] = calls[i]
      /\ calls'[Len(calls) + 1] = new
  BY <1>2, <1>3, <1>5, AppendProperties
<1>7. /\ Len(resume') = Len(calls) + 1
      /\ resume' \in Seq(Resumption)
      /\ \A i \in 1..Len(calls) : resume'[i] = resume[i]
      /\ resume'[Len(calls) + 1] = back
  BY <1>2, <1>3, <1>5, AppendProperties
<1>8. ASSUME NEW frame \in Nat, NEW id \in Nat, Home(calls, frame, id)
      PROVE  Home(calls', frame, id)
  <2>1. frame # 0 => frame \in 1..Len(calls)
    BY <1>5, <1>8 DEF Home
  <2> QED
    BY <1>5, <1>6, <1>8, <2>1 DEF Home
<1>9. ~forwarded => Home(calls', current, written)
  <2>1. task # "stale"
    BY DEF Processing
  <2> QED
    BY <1>5, <1>8, <2>1, LexicalIsHome DEF ScopeInv
<1>10. ArgumentsAtHome'
  <2>1. DOMAIN calls' = 1..(Len(calls) + 1)
    BY <1>6
  <2>2. ASSUME NEW f \in 1..(Len(calls) + 1), ~calls'[f].forwarded
        PROVE  Home(calls', calls'[f].parent, calls'[f].home)
    <3>1. CASE f \in 1..Len(calls)
      <4>1. ~calls[f].forwarded /\ f \in DOMAIN calls
        BY <1>5, <1>6, <2>2, <3>1
      <4>2. /\ calls[f].parent \in Nat /\ calls[f].home \in Nat
            /\ Home(calls, calls[f].parent, calls[f].home)
        BY <1>1, <3>1, <4>1, CallLemma DEF ScopeInv, ArgumentsAtHome
      <4> QED
        BY <1>6, <1>8, <3>1, <4>2
    <3>2. CASE f = Len(calls) + 1
      BY <1>4, <1>6, <1>9, <2>2, <3>2
    <3> QED
      BY <1>5, <2>2, <3>1, <3>2
  <2> QED
    BY <2>1, <2>2 DEF ArgumentsAtHome
<1>11. ReturnsHome'
  <2>1. DOMAIN resume' = 1..(Len(calls) + 1) /\ DOMAIN resume = 1..Len(calls)
    BY <1>5, <1>7
  <2>2. ASSUME NEW f \in 1..(Len(calls) + 1), ~resume'[f].forwarded
        PROVE  Home(calls', resume'[f].frame, resume'[f].written)
    <3>1. CASE f \in 1..Len(calls)
      <4>1. resume[f] \in Resumption /\ ~resume[f].forwarded
        BY <1>5, <1>7, <2>2, <3>1
      <4>2. /\ resume[f].frame \in Nat /\ resume[f].written \in Nat
            /\ Home(calls, resume[f].frame, resume[f].written)
        BY <2>1, <3>1, <4>1 DEF ScopeInv, ReturnsHome, Resumption
      <4> QED
        BY <1>7, <1>8, <3>1, <4>2
    <3>2. CASE f = Len(calls) + 1
      BY <1>4, <1>7, <1>9, <2>2, <3>2
    <3> QED
      BY <1>5, <2>2, <3>1, <3>2
  <2> QED
    BY <2>1, <2>2 DEF ReturnsHome
<1> QED
  BY <1>4, <1>6, <1>8, <1>10, <1>11

(* The content processed next changes, and the call stack does not.        *)
LEMMA ScopeMove ==
    ASSUME ScopeInv, UNCHANGED <<calls, resume, stored>>,
           ~forwarded' /\ task' # "stale" => Home(calls', current', written')
    PROVE  ScopeInv'
<1>1. ArgumentsAtHome' /\ ReturnsHome' /\ StoredAtHome'
  BY DEF ScopeInv, ArgumentsAtHome, ReturnsHome, StoredAtHome, Home
<1>2. LexicalUnlessForwarded'
  BY LexicalIsHomeNext DEF Home
<1> QED
  BY <1>1, <1>2 DEF ScopeInv

(* The arguments of a call that was not forwarded are at home in the frame *)
(* they refer to.                                                          *)
LEMMA ScopeCall ==
    ASSUME Inv, ScopeInv, NEW f \in 1..Len(calls), ~calls[f].forwarded
    PROVE  Home(calls, calls[f].parent, calls[f].home)
<1>1. f \in DOMAIN calls
  BY DEF Inv, FrameInv, FrameTypes
<1> QED
  BY <1>1 DEF ScopeInv, ArgumentsAtHome

LEMMA CallMacroScope == Inv /\ ScopeInv /\ CallMacro => ScopeInv'
<1> SUFFICES ASSUME Inv, ScopeInv, CallMacro PROVE ScopeInv'
  OBVIOUS
<1>1. PICK args \in ArgLists, block \in BOOLEAN : Writable(args) /\ Push(args, block)
  BY DEF CallMacro
<1>2. args \in Seq(Members)
  BY MacroCallsAssumption
<1>3. Processing /\ current' = Len(calls) + 1 /\ written' = serial + 1
      /\ stored' = stored
  BY DEF CallMacro, Processing
<1>4. Len(calls) \in Nat
  BY DEF Inv, FrameInv, FrameTypes
<1>5. /\ Len(calls') = Len(calls) + 1 /\ calls'[Len(calls) + 1].id = serial + 1
      /\ ArgumentsAtHome' /\ ReturnsHome'
  BY <1>1, <1>2, <1>3, ScopePush
<1>6. LexicalUnlessForwarded'
  BY <1>3, <1>4, <1>5, LexicalIsHomeNext DEF Home
<1> QED
  BY <1>3, <1>5, <1>6 DEF ScopeInv, StoredAtHome

(* Content that is processed with the frame of the current call's          *)
(* arguments, or of a stored block.                                        *)
LEMMA PutBlockScope == Inv /\ ScopeInv /\ PutBlock => ScopeInv'
<1> SUFFICES ASSUME Inv, ScopeInv, PutBlock PROVE ScopeInv'
  OBVIOUS
<1>1. /\ Processing /\ Push(<<>>, FALSE) /\ stored' = stored
      /\ current' = calls[current].parent
      /\ written' = calls[current].home
      /\ forwarded' = calls[current].forwarded
      /\ task' = "none"
  BY DEF PutBlock, Processing
<1>2. current \in 1..Len(calls)
  BY <1>1 DEF Inv, FrameInv, FrameTypes, FramesBelow, PutBlock, Processing
<1>3. current' \in Nat /\ written' \in Nat
  BY <1>1, <1>2, CallLemma DEF Inv
<1>4. /\ \A frame \in Nat, id \in Nat : Home(calls, frame, id) => Home(calls', frame, id)
      /\ ArgumentsAtHome' /\ ReturnsHome'
  BY <1>1, NoArguments, ScopePush
<1>5. LexicalUnlessForwarded'
  <2>1. ASSUME ~forwarded' PROVE Home(calls, current', written')
    BY <1>1, <1>2, <2>1, ScopeCall
  <2> QED
    BY <1>3, <1>4, <2>1, LexicalIsHomeNext
<1> QED
  BY <1>1, <1>4, <1>5 DEF ScopeInv, StoredAtHome

LEMMA StoreBlockScope == Inv /\ ScopeInv /\ StoreBlock => ScopeInv'
<1> SUFFICES ASSUME Inv, ScopeInv, StoreBlock PROVE ScopeInv'
  OBVIOUS
<1>1. /\ task # "stale"
      /\ stored' = [frame |-> current, id |-> written, forwarded |-> forwarded]
      /\ UNCHANGED <<calls, resume, current, written, serial, forwarded, task>>
  BY DEF StoreBlock, Processing
<1>2. ~forwarded => Home(calls, current, written)
  BY <1>1, LexicalIsHome DEF ScopeInv
<1>3. LexicalUnlessForwarded' /\ ArgumentsAtHome' /\ ReturnsHome'
  BY <1>1, <1>2, LexicalIsHomeNext DEF ScopeInv, ArgumentsAtHome, ReturnsHome
<1>4. StoredAtHome'
  BY <1>1, <1>2 DEF StoredAtHome, Home
<1> QED
  BY <1>3, <1>4 DEF ScopeInv

LEMMA LoadBlockScope == Inv /\ ScopeInv /\ LoadBlock => ScopeInv'
<1> SUFFICES ASSUME Inv, ScopeInv, LoadBlock PROVE ScopeInv'
  OBVIOUS
<1>1. /\ Processing /\ Push(<<>>, FALSE) /\ stored # None /\ stored' = stored
      /\ current' = stored.frame
      /\ written' = stored.id
      /\ forwarded' = stored.forwarded
      /\ task' = IF Alive(stored) THEN "none" ELSE "stale"
  BY DEF LoadBlock, Processing
<1>2. stored.frame \in Nat /\ stored.id \in Nat
  BY <1>1 DEF Inv, FrameInv, FrameTypes
<1>3. /\ \A frame \in Nat, id \in Nat :
            Home(calls, frame, id) => Home(calls', frame, id)
      /\ ArgumentsAtHome' /\ ReturnsHome'
  BY <1>1, NoArguments, ScopePush
<1>4. LexicalUnlessForwarded'
  <2>1. ASSUME ~forwarded', task' # "stale"
        PROVE  Home(calls, stored.frame, stored.id)
    <3>1. Alive(stored)
      BY <1>1, <2>1
    <3>2. CASE stored.frame = 0
      BY <1>1, <2>1, <3>2 DEF ScopeInv, StoredAtHome, Home
    <3>3. CASE stored.frame # 0
      BY <3>1, <3>3 DEF Alive, Home
    <3> QED
      BY <3>2, <3>3
  <2> QED
    BY <1>1, <1>2, <1>3, <2>1, LexicalIsHomeNext
<1> QED
  BY <1>1, <1>3, <1>4 DEF ScopeInv, StoredAtHome

(* A call that returns is the topmost one: no other refers to it.          *)
LEMMA ReturnScope == Inv /\ ScopeInv /\ Return => ScopeInv'
<1> SUFFICES ASSUME Inv, ScopeInv, Return PROVE ScopeInv'
  OBVIOUS
<1> DEFINE n == Len(calls)
           to == resume[n]
<1>1. /\ FrameInv /\ calls # <<>>
      /\ calls' = SubSeq(calls, 1, Len(calls) - 1)
      /\ resume' = SubSeq(resume, 1, Len(resume) - 1)
      /\ current' = resume[Len(resume)].frame
      /\ written' = resume[Len(resume)].written
      /\ forwarded' = resume[Len(resume)].forwarded
      /\ stored' = stored
  BY DEF Inv, Return
<1>2. /\ calls \in Seq(Call) /\ resume \in Seq(Resumption)
      /\ n \in Nat \ {0} /\ Len(resume) = n
      /\ DOMAIN calls = 1..n /\ DOMAIN resume = 1..n
  BY <1>1 DEF FrameInv, FrameTypes
<1>3. /\ calls' \in Seq(Call)
      /\ Len(calls') = n - 1
      /\ \A i \in 1..(n - 1) : calls'[i] = calls[i]
  BY <1>1, <1>2, FrontLemma
<1>4. /\ resume' \in Seq(Resumption)
      /\ Len(resume') = n - 1
      /\ \A i \in 1..(n - 1) : resume'[i] = resume[i]
  BY <1>1, <1>2, FrontLemma
<1>5. DOMAIN calls' = 1..(n - 1) /\ DOMAIN resume' = 1..(n - 1)
  BY <1>3, <1>4
<1>6. ASSUME NEW frame \in Nat, NEW id \in Nat, frame < n, Home(calls, frame, id)
      PROVE  Home(calls', frame, id)
  <2>1. frame # 0 => frame \in 1..(n - 1)
    BY <1>2, <1>6
  <2> QED
    BY <1>2, <1>3, <1>6, <2>1 DEF Home
<1>7. LexicalUnlessForwarded'
  <2>1. to \in Resumption /\ to.frame < n /\ n \in DOMAIN resume
    BY <1>1, <1>2 DEF FrameInv, FramesBelow
  <2>2. ~to.forwarded => Home(calls, to.frame, to.written)
    BY <2>1 DEF ScopeInv, ReturnsHome
  <2> QED
    BY <1>1, <1>2, <1>6, <2>1, <2>2, LexicalIsHomeNext DEF Resumption
<1>8. ArgumentsAtHome'
  <2>1. ASSUME NEW f \in 1..(n - 1), ~calls[f].forwarded
        PROVE  Home(calls', calls[f].parent, calls[f].home)
    <3>1. f \in 1..n
      BY <1>2
    <3>2. /\ calls[f].parent \in Nat /\ calls[f].home \in Nat
          /\ calls[f].parent < n
      BY <1>1, <1>2, <3>1, CallLemma
    <3> QED
      BY <1>6, <2>1, <3>1, <3>2, ScopeCall
  <2> QED
    BY <1>3, <1>5, <2>1 DEF ArgumentsAtHome
<1>9. ReturnsHome'
  <2>1. ASSUME NEW f \in 1..(n - 1), ~resume[f].forwarded
        PROVE  Home(calls', resume[f].frame, resume[f].written)
    <3>1. f \in 1..n /\ f \in DOMAIN calls
      BY <1>2
    <3>2. resume[f] \in Resumption /\ resume[f].frame < f
      BY <1>1, <1>2, <3>1 DEF FrameInv, FramesBelow
    <3>3. Home(calls, resume[f].frame, resume[f].written)
      BY <1>2, <2>1, <3>1 DEF ScopeInv, ReturnsHome
    <3> QED
      BY <1>2, <1>6, <3>2, <3>3 DEF Resumption
  <2> QED
    BY <1>4, <1>5, <2>1 DEF ReturnsHome
<1>10. StoredAtHome'
  BY <1>1 DEF ScopeInv, StoredAtHome
<1> QED
  BY <1>7, <1>8, <1>9, <1>10 DEF ScopeInv

(* Calls whose own content is not processed, but that of arguments is      *)
(* looked for.                                                             *)
LEMMA BuiltinScope ==
    Inv /\ ScopeInv /\ (PutArgument \/ CallBuiltin) => ScopeInv'
<1> SUFFICES ASSUME Inv, ScopeInv, PutArgument \/ CallBuiltin PROVE ScopeInv'
  OBVIOUS
<1>1. Processing /\ UNCHANGED <<current, written, stored, forwarded>>
  BY DEF PutArgument, CallBuiltin
<1>2. PICK args \in Seq(Members), block \in BOOLEAN : Writable(args) /\ Push(args, block)
  <2>1. CASE PutArgument
    BY <2>1, NoArguments DEF PutArgument
  <2>2. CASE CallBuiltin
    <3>1. PICK args \in ArgLists, block \in BOOLEAN : Writable(args) /\ Push(args, block)
      BY <2>2 DEF CallBuiltin
    <3>2. args \in Seq(Members)
      BY MacroCallsAssumption
    <3> QED
      BY <3>1, <3>2
  <2> QED
    BY <2>1, <2>2
<1>3. /\ \A frame \in Nat, id \in Nat :
            Home(calls, frame, id) => Home(calls', frame, id)
      /\ ArgumentsAtHome' /\ ReturnsHome'
  BY <1>1, <1>2, ScopePush
<1>4. /\ current \in Nat /\ written \in Nat /\ task # "stale"
      /\ ~forwarded => Home(calls, current, written)
  BY <1>1, LexicalIsHome DEF Inv, FrameInv, FrameTypes, ScopeInv, Processing
<1>5. LexicalUnlessForwarded'
  BY <1>1, <1>3, <1>4, LexicalIsHomeNext
<1> QED
  BY <1>1, <1>3, <1>5 DEF ScopeInv, StoredAtHome

LEMMA UseArgumentScope == Inv /\ ScopeInv /\ UseArgument => ScopeInv'
<1> SUFFICES ASSUME Inv, ScopeInv, UseArgument PROVE ScopeInv'
  OBVIOUS
<1>1. PICK i \in DOMAIN bound :
         /\ current' = calls[bound[i].arg[1]].parent
         /\ written' = calls[bound[i].arg[1]].home
         /\ forwarded' = calls[bound[i].arg[1]].forwarded
  BY DEF UseArgument
<1>2. bound[i].arg[1] \in 1..Len(calls)
  BY DEF Inv, BoundOK
<1>3. UNCHANGED <<calls, resume, stored>>
  BY DEF UseArgument
<1>4. ~forwarded' => Home(calls', current', written')
  BY <1>1, <1>2, <1>3, ScopeCall
<1> QED
  BY <1>3, <1>4, ScopeMove

(* What \cowel_put finds in the arguments of the macro's own invocation is *)
(* at home in the frame that the invocation was written in; what it finds  *)
(* further down, and an `else` argument, counts as forwarded.              *)
LEMMA SearchScope ==
    Inv /\ ScopeInv /\ (CountPositional \/ FindNamed \/ PutNothing) => ScopeInv'
<1> SUFFICES ASSUME Inv, ScopeInv, CountPositional \/ FindNamed \/ PutNothing
             PROVE  ScopeInv'
  OBVIOUS
<1>1. task \in {"positional", "named"} /\ task # "stale"
  BY DEF CountPositional, FindNamed, PutNothing, Walking
<1>2. current \in 1..Len(calls)
  BY <1>1 DEF Inv, FrameInv, FrameTypes, FramesBelow, PutHasCall
<1>3. ASSUME UNCHANGED frames PROVE ScopeInv'
  <2>1. ~forwarded => Home(calls, current, written)
    BY <1>1, LexicalIsHome DEF ScopeInv
  <2> QED
    BY <1>3, <2>1, ScopeMove DEF frames
<1>4. ASSUME Deliver(Place) PROVE ScopeInv'
  <2>1. /\ current' = calls[current].parent
        /\ written' = calls[Top.frame].home
        /\ forwarded' = (calls[Top.frame].forwarded \/ Top.frame # current)
        /\ UNCHANGED <<calls, resume, stored>>
    BY <1>4 DEF Deliver, Place
  <2>2. ~forwarded' => Home(calls', current', written')
    BY <1>2, <2>1, ScopeCall
  <2> QED
    BY <2>1, <2>2, ScopeMove
<1>5. CASE CountPositional \/ FindNamed
  BY <1>3, <1>4, <1>5 DEF CountPositional, FindNamed
<1>6. CASE PutNothing
  <2>1. CASE UNCHANGED frames
    BY <1>3, <2>1
  <2>2. CASE forwarded' = TRUE /\ UNCHANGED <<calls, resume, stored>>
    BY <2>2, ScopeMove
  <2> QED
    BY <1>6, <2>1, <2>2 DEF PutNothing
<1> QED
  BY <1>5, <1>6

LEMMA ScopeStep == Inv /\ ScopeInv /\ [Next]_vars => ScopeInv'
<1> SUFFICES ASSUME Inv, ScopeInv, [Next]_vars PROVE ScopeInv'
  OBVIOUS
<1>1. ASSUME UNCHANGED frames, task # "stale" PROVE ScopeInv'
  <2>1. ~forwarded => Home(calls, current, written)
    BY <1>1, LexicalIsHome DEF ScopeInv
  <2> QED
    BY <1>1, <2>1, ScopeMove DEF frames
<1>2. CASE UNCHANGED vars
  BY <1>2 DEF vars, ScopeInv, LexicalUnlessForwarded, InLexicalFrame,
              ArgumentsAtHome, ReturnsHome, StoredAtHome
<1>3. CASE SkipNamed \/ SkipOthers \/ PutEllipsis \/ PutLeave
           \/ MatchPositional \/ MatchAssertion \/ MatchIntoPack
           \/ MatchNamedPack \/ MatchNamed \/ MatchEllipsis \/ MatchLeave
           \/ MatchRefused \/ MatchMismatch \/ MatchEnd
  <2>1. UNCHANGED frames /\ task # "stale"
    BY <1>3 DEF SkipNamed, SkipOthers, PutEllipsis, PutLeave, MatchPositional,
         MatchAssertion, MatchIntoPack, MatchNamedPack, MatchNamed,
         MatchEllipsis, MatchLeave, MatchRefused, MatchMismatch, MatchEnd,
         Matching, Walking, MatchKeeps, Fail
  <2> QED
    BY <1>1, <2>1
<1> QED
  BY <1>2, <1>3, CallMacroScope, ReturnScope, PutBlockScope, StoreBlockScope,
     LoadBlockScope, BuiltinScope, UseArgumentScope, SearchScope
     DEF Next, Traverse

-----------------------------------------------------------------------------
LEMMA InvInit == Init => Inv
<1> SUFFICES ASSUME Init PROVE Inv
  OBVIOUS
<1>1. FrameTypes
  <2>1. forwarded \in BOOLEAN
    BY DEF Init
  <2>2. /\ calls \in Seq(Call) /\ resume \in Seq(Resumption)
        /\ Len(resume) = Len(calls)
    BY DEF Init
  <2> QED
    BY <2>1, <2>2 DEF Init, FrameTypes
<1>2. FramesBelow
  BY DEF Init, FramesBelow
<1>3. EllipsisHasParent /\ PutHasCall
  BY DEF Init, EllipsisHasParent, PutHasCall
<1>4. WalkOK(walk) /\ BoundOK
  BY DEF Init, WalkOK, BoundOK
<1> QED
  BY <1>1, <1>2, <1>3, <1>4 DEF Inv, FrameInv

LEMMA InvStep == Inv /\ [Next]_vars => Inv'
<1>1. Inv /\ UNCHANGED vars => Inv'
  BY DEF vars, Inv, FrameInv, FrameTypes, FramesBelow, EllipsisHasParent,
         PutHasCall, WalkOK, BoundOK
<1> QED
  BY <1>1, CallMacroInv, ReturnInv, PutBlockInv, StoreBlockInv, LoadBlockInv,
     PutArgumentInv, CallBuiltinInv, UseArgumentInv, SearchInv, MatchInv
     DEF Next, Traverse

(* The frame a call's arguments belong to, and the frame to return to, are *)
(* always below the call on the stack, and content is never processed with *)
(* the frame of a call that has ended (unless a stored block is).          *)
THEOREM FramesAreBelow == Spec => []FramesBelow
<1>1. Inv => FramesBelow
  BY DEF Inv, FrameInv
<1> QED
  BY InvInit, InvStep, <1>1, PTL DEF Spec

(* Every expansion of `...` leads to a call further down the stack.        *)
THEOREM ExpansionsDescend == Spec => []ExpansionDescends
<1>1. Inv => ExpansionDescends
  BY DEF Inv, WalkOK, ExpansionDescends
<1> QED
  BY InvInit, InvStep, <1>1, PTL DEF Spec

(* Content that was neither forwarded by `...` nor stored is processed     *)
(* with the frame of the invocation in whose macro it is written, however  *)
(* many calls its way led through: \cowel_put and built-in directives pass *)
(* the right frame along.                                                  *)
THEOREM FramesAreLexical == Spec => []LexicalUnlessForwarded
<1>1. Init => ScopeInv
  BY DEF Init, ScopeInv, LexicalUnlessForwarded, InLexicalFrame,
         ArgumentsAtHome, ReturnsHome, StoredAtHome
<1>2. ScopeInv => LexicalUnlessForwarded
  BY DEF ScopeInv
<1> QED
  BY InvInit, InvStep, ScopeStep, <1>1, <1>2, PTL DEF Spec

-----------------------------------------------------------------------------
(* The arguments that a call has through every `...`, as a recursive       *)
(* function of the call stack: there is one, since parents lie below their *)
(* calls.                                                                  *)

LEMMA SetInduction ==
    ASSUME NEW S, 0 \in S, \A k \in Nat : k \in S => k + 1 \in S
    PROVE  Nat \subseteq S
<1> DEFINE T == Nat \ S
<1>1. SUFFICES ASSUME T # {} PROVE FALSE
  OBVIOUS
<1>2. PICK x \in T : \A y \in T : ~(<<y, x>> \in OpToRel(<, Nat))
  <2>1. T \subseteq Nat
    OBVIOUS
  <2> HIDE DEF T
  <2> QED
    BY <1>1, <2>1, NatLessThanWellFounded, WFMin
<1>3. x # 0 /\ x - 1 \in Nat /\ x - 1 \notin T
  <2>1. x # 0 /\ x - 1 \in Nat
    OBVIOUS
  <2>2. <<x - 1, x>> \in OpToRel(<, Nat)
    BY <2>1 DEF OpToRel
  <2> QED
    BY <1>2, <2>1, <2>2
<1> QED
  BY <1>3

(* What one member of the arguments of call f stands for.                  *)
Stands(args, f, rest, k) == IF args[k] = Ellipsis THEN rest ELSE <<<<f, k>>>>

IsSpread(args, f, rest, m, h) ==
    h = [k \in 0..m |->
            IF k = 0 THEN <<>> ELSE h[k - 1] \o Stands(args, f, rest, k)]

SpreadOf(args, f, rest) == CHOOSE h : IsSpread(args, f, rest, Len(args), h)

IsFlat(c, m, g) ==
    g = [f \in 0..m |->
            IF f = 0 THEN <<>>
            ELSE SpreadOf(c[f].args, f, g[c[f].parent])[Len(c[f].args)]]

FlatOf(c) == CHOOSE g : IsFlat(c, Len(c), g)

LEMMA FlatIs ==
    /\ \A f : Flat(f) = FlatOf(calls)[f]
    /\ \A f : Flat(f)' = FlatOf(calls')[f]
  BY DEF Flat, FlatOf, IsFlat, Spread, SpreadOf, IsSpread, Stands

LEMMA SpreadExists ==
    ASSUME NEW args, NEW f, NEW rest, NEW n \in Nat
    PROVE  \E h : IsSpread(args, f, rest, n, h)
<1> DEFINE S == {m \in Nat : \E h : IsSpread(args, f, rest, m, h)}
<1>1. 0 \in S
  <2>1. IsSpread(args, f, rest, 0, [k \in 0..0 |-> <<>>])
    BY DEF IsSpread
  <2> QED
    BY <2>1
<1>2. ASSUME NEW m \in Nat, m \in S PROVE m + 1 \in S
  <2>1. PICK h : IsSpread(args, f, rest, m, h)
    BY <1>2
  <2> DEFINE last == h[m] \o Stands(args, f, rest, m + 1)
             g == [k \in 0..(m + 1) |-> IF k = m + 1 THEN last ELSE h[k]]
             r == [k \in 0..(m + 1) |->
                    IF k = 0 THEN <<>> ELSE g[k - 1] \o Stands(args, f, rest, k)]
  <2>2. ASSUME NEW k \in 0..(m + 1) PROVE g[k] = r[k]
    <3>1. g[k] = IF k = m + 1 THEN last ELSE h[k]
      OBVIOUS
    <3>2. r[k] = IF k = 0 THEN <<>> ELSE g[k - 1] \o Stands(args, f, rest, k)
      OBVIOUS
    <3>3. CASE k = m + 1
      <4>1. k # 0 /\ k - 1 = m /\ m \in 0..(m + 1) /\ m # m + 1
        BY <3>3
      <4>2. g[m] = h[m]
        BY <4>1
      <4> HIDE DEF g, r
      <4> QED
        BY <3>1, <3>2, <3>3, <4>1, <4>2
    <3>4. CASE k # m + 1
      <4>1. k \in 0..m
        BY <3>4
      <4>2. h[k] = IF k = 0 THEN <<>> ELSE h[k - 1] \o Stands(args, f, rest, k)
        BY <2>1, <4>1 DEF IsSpread
      <4>3. k # 0 => g[k - 1] = h[k - 1]
        <5>1. k # 0 => k - 1 \in 0..(m + 1) /\ k - 1 # m + 1
          BY <4>1
        <5> QED
          BY <5>1
      <4> HIDE DEF g, r
      <4> QED
        BY <3>1, <3>2, <3>4, <4>2, <4>3
    <3> QED
      BY <3>3, <3>4
  <2>3. g = r
    BY <2>2
  <2>4. IsSpread(args, f, rest, m + 1, g)
    BY <2>3 DEF IsSpread
  <2> QED
    BY <2>4
<1> HIDE DEF S
<1>3. n \in S
  BY <1>1, <1>2, SetInduction
<1> QED
  BY <1>3 DEF S

LEMMA SpreadUnfolds ==
    ASSUME NEW args \in Seq(Members), NEW f, NEW rest
    PROVE  /\ SpreadOf(args, f, rest)[0] = <<>>
           /\ \A k \in 1..Len(args) :
                SpreadOf(args, f, rest)[k] =
                    SpreadOf(args, f, rest)[k - 1] \o Stands(args, f, rest, k)
<1> DEFINE h == SpreadOf(args, f, rest)
           n == Len(args)
<1>1. n \in Nat
  OBVIOUS
<1>2. IsSpread(args, f, rest, n, h)
  BY <1>1, SpreadExists DEF SpreadOf
<1> HIDE DEF h, n
<1>3. h = [k \in 0..n |->
            IF k = 0 THEN <<>> ELSE h[k - 1] \o Stands(args, f, rest, k)]
  BY <1>2 DEF IsSpread
<1>4. ASSUME NEW k \in 0..n
      PROVE  h[k] = IF k = 0 THEN <<>> ELSE h[k - 1] \o Stands(args, f, rest, k)
  BY <1>3
<1>5. 0 \in 0..n /\ h[0] = <<>>
  BY <1>1, <1>4
<1>6. \A k \in 1..n : k \in 0..n /\ k # 0
  BY <1>1
<1>7. \A k \in 1..n : h[k] = h[k - 1] \o Stands(args, f, rest, k)
  BY <1>4, <1>6
<1> QED
  BY <1>5, <1>7 DEF h, n

(* Parents lie below their calls, so that `...` has an end.                *)
Descending(c) ==
    /\ c \in Seq(Call)
    /\ \A f \in 1..Len(c) : c[f].parent < f

LEMMA FlatExists ==
    ASSUME NEW c, Descending(c), NEW n \in 0..Len(c)
    PROVE  \E g : IsFlat(c, n, g)
<1> DEFINE S == {m \in Nat : m <= Len(c) => \E g : IsFlat(c, m, g)}
           Part(f, g) == SpreadOf(c[f].args, f, g[c[f].parent])[Len(c[f].args)]
<1>a. Len(c) \in Nat /\ n \in Nat /\ n <= Len(c)
  BY DEF Descending
<1>1. 0 \in S
  <2>1. IsFlat(c, 0, [k \in 0..0 |-> <<>>])
    BY DEF IsFlat
  <2> QED
    BY <2>1
<1>2. ASSUME NEW m \in Nat, m \in S PROVE m + 1 \in S
  <2>a. SUFFICES ASSUME m + 1 <= Len(c) PROVE \E g : IsFlat(c, m + 1, g)
    OBVIOUS
  <2>b. m <= Len(c) /\ m + 1 \in 1..Len(c)
    BY <1>a, <2>a
  <2>1. PICK h : IsFlat(c, m, h)
    BY <1>2, <2>b
  <2>c. ASSUME NEW f \in 1..(m + 1) PROVE c[f].parent \in 0..m
    <3>1. f \in 1..Len(c)
      BY <1>a, <2>a
    <3>2. c[f] \in Call /\ c[f].parent < f
      BY <3>1 DEF Descending
    <3>3. c[f].parent \in Nat
      BY <3>2 DEF Call
    <3> QED
      BY <3>2, <3>3
  <2> DEFINE last == Part(m + 1, h)
             g == [f \in 0..(m + 1) |-> IF f = m + 1 THEN last ELSE h[f]]
             r == [f \in 0..(m + 1) |-> IF f = 0 THEN <<>> ELSE Part(f, g)]
  <2>d. \A f \in 0..m : g[f] = h[f]
    OBVIOUS
  <2>e. ASSUME NEW f \in 1..(m + 1) PROVE Part(f, g) = Part(f, h)
    <3>1. g[c[f].parent] = h[c[f].parent]
      BY <2>c, <2>d
    <3> HIDE DEF g
    <3> QED
      BY <3>1
  <2>2. ASSUME NEW f \in 0..(m + 1) PROVE g[f] = r[f]
    <3>1. g[f] = IF f = m + 1 THEN last ELSE h[f]
      OBVIOUS
    <3>2. r[f] = IF f = 0 THEN <<>> ELSE Part(f, g)
      OBVIOUS
    <3>a. f # 0 => f \in 1..(m + 1)
      OBVIOUS
    <3>b. \A x \in 1..(m + 1) : Part(x, g) = Part(x, h)
      BY <2>e
    <3>3. f # 0 => Part(f, g) = Part(f, h)
      BY <3>a, <3>b, Zenon
    <3>4. f # m + 1 => h[f] = IF f = 0 THEN <<>> ELSE Part(f, h)
      <4>1. f # m + 1 => f \in 0..m
        OBVIOUS
      <4> QED
        BY <2>1, <4>1 DEF IsFlat
    <3>5. f = m + 1 => f # 0 /\ last = Part(f, h)
      OBVIOUS
    <3> HIDE DEF g, r, Part, last
    <3> QED
      BY <3>1, <3>2, <3>3, <3>4, <3>5
  <2>3. g = r
    BY <2>2
  <2>4. IsFlat(c, m + 1, g)
    BY <2>3 DEF IsFlat
  <2> QED
    BY <2>4
<1> HIDE DEF S
<1>3. n \in S
  BY <1>1, <1>2, <1>a, SetInduction
<1> QED
  BY <1>3, <1>a DEF S

(* What the first arguments of call f are, with every `...` replaced.      *)
Upto(c, f) == SpreadOf(c[f].args, f, FlatOf(c)[c[f].parent])

LEMMA FlatUnfolds ==
    ASSUME NEW c, Descending(c)
    PROVE  /\ FlatOf(c)[0] = <<>>
           /\ \A f \in 1..Len(c) : FlatOf(c)[f] = Upto(c, f)[Len(c[f].args)]
<1> DEFINE g == FlatOf(c)
           n == Len(c)
<1>1. n \in Nat /\ n \in 0..n
  BY DEF Descending
<1>2. IsFlat(c, n, g)
  BY <1>1, FlatExists DEF FlatOf
<1> HIDE DEF g, n
<1>3. g = [f \in 0..n |->
            IF f = 0 THEN <<>>
            ELSE SpreadOf(c[f].args, f, g[c[f].parent])[Len(c[f].args)]]
  BY <1>2 DEF IsFlat
<1>4. ASSUME NEW f \in 0..n
      PROVE  g[f] = IF f = 0 THEN <<>>
                    ELSE SpreadOf(c[f].args, f, g[c[f].parent])[Len(c[f].args)]
  BY <1>3
<1>5. 0 \in 0..n /\ g[0] = <<>>
  BY <1>1, <1>4
<1>6. \A f \in 1..n : f \in 0..n /\ f # 0
  BY <1>1
<1>7. \A f \in 1..n :
        g[f] = SpreadOf(c[f].args, f, g[c[f].parent])[Len(c[f].args)]
  BY <1>4, <1>6
<1> QED
  BY <1>5, <1>7 DEF g, n, Upto

(* The places of arguments: the frame of their list and the position.      *)
PlaceSet == Nat \X Nat

(* s is what t begins with.                                                *)
Starts(s, t) == Len(s) <= Len(t) /\ \A i \in 1..Len(s) : t[i] = s[i]

LEMMA ConcatStarts ==
    ASSUME NEW S, NEW s \in Seq(S), NEW t \in Seq(S)
    PROVE  s \o t \in Seq(S) /\ Starts(s, s \o t)
<1>1. /\ s \o t \in Seq(S)
      /\ Len(s \o t) = Len(s) + Len(t)
      /\ \A i \in 1..Len(s) + Len(t) : (s \o t)[i] =
                IF i <= Len(s) THEN s[i] ELSE t[i - Len(s)]
  BY ConcatProperties
<1>2. Len(s) \in Nat /\ Len(t) \in Nat
  OBVIOUS
<1> QED
  BY <1>1, <1>2 DEF Starts

LEMMA StartsIsTransitive ==
    ASSUME NEW S, NEW s \in Seq(S), NEW t \in Seq(S), NEW u \in Seq(S),
           Starts(s, t), Starts(t, u)
    PROVE  Starts(s, u)
<1>1. Len(s) \in Nat /\ Len(t) \in Nat /\ Len(u) \in Nat
  OBVIOUS
<1> QED
  BY <1>1 DEF Starts

LEMMA StartsBehind ==
    ASSUME NEW S, NEW b \in Seq(S), NEW s \in Seq(S), NEW t \in Seq(S), Starts(s, t)
    PROVE  Starts(b \o s, b \o t)
<1>1. /\ Len(b \o s) = Len(b) + Len(s)
      /\ \A i \in 1..Len(b) + Len(s) : (b \o s)[i] =
                IF i <= Len(b) THEN b[i] ELSE s[i - Len(b)]
  BY ConcatProperties
<1>2. /\ Len(b \o t) = Len(b) + Len(t)
      /\ \A i \in 1..Len(b) + Len(t) : (b \o t)[i] =
                IF i <= Len(b) THEN b[i] ELSE t[i - Len(b)]
  BY ConcatProperties
<1>3. Len(b) \in Nat /\ Len(s) \in Nat /\ Len(t) \in Nat /\ Len(s) <= Len(t)
  BY DEF Starts
<1>4. ASSUME NEW i \in 1..Len(b) + Len(s) PROVE (b \o t)[i] = (b \o s)[i]
  <2>1. i \in 1..Len(b) + Len(t) /\ (i > Len(b) => i - Len(b) \in 1..Len(s))
    BY <1>3
  <2>2. i > Len(b) => t[i - Len(b)] = s[i - Len(b)]
    BY <2>1 DEF Starts
  <2> QED
    BY <1>1, <1>2, <1>3, <2>1, <2>2
<1> QED
  BY <1>1, <1>2, <1>3, <1>4 DEF Starts

LEMMA SpreadTyped ==
    ASSUME NEW args \in Seq(Members), NEW f \in Nat, NEW rest \in Seq(PlaceSet)
    PROVE  /\ \A k \in 1..Len(args) : Stands(args, f, rest, k) \in Seq(PlaceSet)
           /\ \A k \in 0..Len(args) : SpreadOf(args, f, rest)[k] \in Seq(PlaceSet)
<1> DEFINE n == Len(args)
           h == SpreadOf(args, f, rest)
           S == {m \in Nat : m <= n => h[m] \in Seq(PlaceSet)}
<1>1. n \in Nat
  OBVIOUS
<1>2. ASSUME NEW k \in 1..n PROVE Stands(args, f, rest, k) \in Seq(PlaceSet)
  <2>1. <<f, k>> \in PlaceSet
    BY <1>1 DEF PlaceSet
  <2> HIDE DEF PlaceSet
  <2>2. <<<<f, k>>>> \in Seq(PlaceSet)
    BY <2>1
  <2> QED
    BY <2>2 DEF Stands
<1>3. 0 \in S
  <2>1. h[0] = <<>>
    BY SpreadUnfolds
  <2> HIDE DEF h
  <2>2. h[0] \in Seq(PlaceSet)
    BY <2>1
  <2> QED
    BY <2>2
<1>4. ASSUME NEW m \in Nat, m \in S PROVE m + 1 \in S
  <2>1. SUFFICES ASSUME m + 1 <= n PROVE h[m + 1] \in Seq(PlaceSet)
    OBVIOUS
  <2>2. m <= n /\ m + 1 \in 1..n /\ (m + 1) - 1 = m
    BY <1>1, <2>1
  <2>3. h[m] \in Seq(PlaceSet)
    BY <1>4, <2>2
  <2>4. \A k \in 1..n : h[k] = h[k - 1] \o Stands(args, f, rest, k)
    BY SpreadUnfolds
  <2>5. h[m + 1] = h[(m + 1) - 1] \o Stands(args, f, rest, m + 1)
    BY <2>2, <2>4, Zenon
  <2>6. Stands(args, f, rest, m + 1) \in Seq(PlaceSet)
    BY <1>2, <2>2
  <2> HIDE DEF h, n
  <2>7. h[m] \o Stands(args, f, rest, m + 1) \in Seq(PlaceSet)
    BY <2>3, <2>6, ConcatStarts
  <2> QED
    BY <2>2, <2>5, <2>7
<1> HIDE DEF S
<1>5. Nat \subseteq S
  BY <1>3, <1>4, SetInduction
<1>6. ASSUME NEW k \in 0..n PROVE h[k] \in Seq(PlaceSet)
  <2>1. k \in S /\ k <= n
    BY <1>1, <1>5
  <2> QED
    BY <2>1 DEF S
<1> QED
  BY <1>2, <1>6

LEMMA SpreadGrows ==
    ASSUME NEW args \in Seq(Members), NEW f \in Nat, NEW rest \in Seq(PlaceSet),
           NEW i \in 0..Len(args)
    PROVE  Starts(SpreadOf(args, f, rest)[i], SpreadOf(args, f, rest)[Len(args)])
<1> DEFINE n == Len(args)
           h == SpreadOf(args, f, rest)
           S == {m \in Nat : i <= m /\ m <= n => Starts(h[i], h[m])}
<1>1. n \in Nat /\ i \in 0..n
  OBVIOUS
<1>2. \A k \in 0..n : h[k] \in Seq(PlaceSet)
  BY SpreadTyped
<1>3. Starts(h[i], h[i])
  BY <1>1, <1>2 DEF Starts
<1>4. 0 \in S
  <2>1. i <= 0 => i = 0
    BY <1>1
  <2> QED
    BY <1>3, <2>1
<1>5. ASSUME NEW m \in Nat, m \in S PROVE m + 1 \in S
  <2>1. SUFFICES ASSUME i <= m + 1, m + 1 <= n PROVE Starts(h[i], h[m + 1])
    OBVIOUS
  <2>2. CASE i = m + 1
    BY <1>3, <2>2
  <2>3. CASE i # m + 1
    <3>1. i <= m /\ m \in 0..n /\ m <= n /\ m + 1 \in 1..n /\ (m + 1) - 1 = m
      BY <1>1, <2>1, <2>3
    <3>2. Starts(h[i], h[m])
      BY <1>5, <3>1
    <3>3. \A k \in 1..n : h[k] = h[k - 1] \o Stands(args, f, rest, k)
      BY SpreadUnfolds
    <3>4. h[m + 1] = h[(m + 1) - 1] \o Stands(args, f, rest, m + 1)
      BY <3>1, <3>3, Zenon
    <3>5. Stands(args, f, rest, m + 1) \in Seq(PlaceSet)
      BY <3>1, SpreadTyped
    <3>6. h[i] \in Seq(PlaceSet) /\ h[m] \in Seq(PlaceSet)
      BY <1>1, <1>2, <3>1
    <3> HIDE DEF h, n, S
    <3>7. /\ h[m] \o Stands(args, f, rest, m + 1) \in Seq(PlaceSet)
          /\ Starts(h[m], h[m] \o Stands(args, f, rest, m + 1))
      BY <3>5, <3>6, ConcatStarts
    <3>8. h[m + 1] = h[m] \o Stands(args, f, rest, m + 1)
      BY <3>1, <3>4
    <3> QED
      BY <3>2, <3>6, <3>7, <3>8, StartsIsTransitive
  <2> QED
    BY <2>2, <2>3
<1> HIDE DEF S
<1>6. n \in S /\ i <= n
  BY <1>1, <1>4, <1>5, SetInduction
<1> QED
  BY <1>1, <1>6 DEF S

LEMMA FlatTyped ==
    ASSUME NEW c, Descending(c)
    PROVE  \A f \in 0..Len(c) : FlatOf(c)[f] \in Seq(PlaceSet)
<1> DEFINE S == {m \in Nat : \A f \in 0..m : f <= Len(c) => FlatOf(c)[f] \in Seq(PlaceSet)}
<1>1. Len(c) \in Nat
  BY DEF Descending
<1>2. 0 \in S
  <2>1. FlatOf(c)[0] = <<>>
    BY FlatUnfolds
  <2>a. FlatOf(c)[0] \in Seq(PlaceSet)
    BY <2>1
  <2>2. \A f \in 0..0 : f = 0
    OBVIOUS
  <2> QED
    BY <2>a, <2>2
<1>3. ASSUME NEW m \in Nat, m \in S PROVE m + 1 \in S
  <2>1. SUFFICES ASSUME NEW f \in 0..(m + 1), f <= Len(c)
                 PROVE  FlatOf(c)[f] \in Seq(PlaceSet)
    OBVIOUS
  <2>2. CASE f \in 0..m
    BY <1>3, <2>1, <2>2
  <2>3. CASE f \notin 0..m
    <3>1. f = m + 1 /\ f \in 1..Len(c) /\ f \in Nat
      BY <1>1, <2>1, <2>3
    <3>2. c[f] \in Call /\ c[f].parent < f
      BY <3>1 DEF Descending
    <3>3. c[f].parent \in Nat /\ c[f].args \in Seq(Members)
      BY <3>2 DEF Call
    <3>4. c[f].parent \in 0..m /\ c[f].parent <= Len(c)
      BY <1>1, <2>1, <3>1, <3>2, <3>3
    <3>5. FlatOf(c)[c[f].parent] \in Seq(PlaceSet)
      BY <1>3, <3>4
    <3>6. Len(c[f].args) \in 0..Len(c[f].args)
      BY <3>3
    <3>7. Upto(c, f)[Len(c[f].args)] \in Seq(PlaceSet)
      BY <3>1, <3>3, <3>5, <3>6, SpreadTyped DEF Upto
    <3>8. FlatOf(c)[f] = Upto(c, f)[Len(c[f].args)]
      BY <3>1, FlatUnfolds
    <3> QED
      BY <3>7, <3>8
  <2> QED
    BY <2>2, <2>3
<1> HIDE DEF S
<1>4. Len(c) \in S
  BY <1>1, <1>2, <1>3, SetInduction
<1> QED
  BY <1>4, <1>1 DEF S

Single(f, k) == <<<<f, k>>>>

(* What is needed of all this below.                                       *)
LEMMA UptoLemma ==
    ASSUME NEW c, Descending(c), NEW f \in 1..Len(c)
    PROVE  /\ Len(c[f].args) \in Nat
           /\ c[f].parent \in 0..Len(c)
           /\ FlatOf(c)[f] \in Seq(PlaceSet)
           /\ FlatOf(c)[c[f].parent] \in Seq(PlaceSet)
           /\ FlatOf(c)[f] = Upto(c, f)[Len(c[f].args)]
           /\ Upto(c, f)[0] = <<>>
           /\ \A k \in 0..Len(c[f].args) :
                Upto(c, f)[k] \in Seq(PlaceSet) /\ Starts(Upto(c, f)[k], FlatOf(c)[f])
<1>1. Len(c) \in Nat /\ f \in Nat /\ c[f] \in Call /\ c[f].parent < f
  BY DEF Descending
<1>2. c[f].parent \in Nat /\ c[f].args \in Seq(Members) /\ Len(c[f].args) \in Nat
  BY <1>1 DEF Call
<1>3. c[f].parent \in 0..Len(c) /\ f \in 0..Len(c)
  BY <1>1, <1>2
<1>4. FlatOf(c)[f] \in Seq(PlaceSet) /\ FlatOf(c)[c[f].parent] \in Seq(PlaceSet)
  BY <1>3, FlatTyped
<1>5. FlatOf(c)[f] = Upto(c, f)[Len(c[f].args)]
  BY FlatUnfolds
<1>6. Upto(c, f)[0] = <<>>
  BY <1>2, SpreadUnfolds DEF Upto
<1>8. \A k \in 0..Len(c[f].args) : Upto(c, f)[k] \in Seq(PlaceSet)
  BY <1>1, <1>2, <1>4, SpreadTyped DEF Upto
<1>9. ASSUME NEW k \in 0..Len(c[f].args) PROVE Starts(Upto(c, f)[k], FlatOf(c)[f])
  <2>1. Starts(Upto(c, f)[k], Upto(c, f)[Len(c[f].args)])
    BY <1>1, <1>2, <1>4, SpreadGrows DEF Upto
  <2> QED
    BY <1>5, <2>1
<1> QED
  BY <1>2, <1>3, <1>4, <1>5, <1>6, <1>8, <1>9

LEMMA UptoNext ==
    ASSUME NEW c, Descending(c), NEW f \in 1..Len(c), NEW k \in 1..Len(c[f].args)
    PROVE  Upto(c, f)[k] =
                Upto(c, f)[k - 1] \o Stands(c[f].args, f, FlatOf(c)[c[f].parent], k)
<1> DEFINE args == c[f].args
           rest == FlatOf(c)[c[f].parent]
<1>1. c[f] \in Call
  BY DEF Descending
<1>2. args \in Seq(Members) /\ k \in 1..Len(args)
  BY <1>1 DEF Call
<1> HIDE DEF args, rest
<1>3. \A j \in 1..Len(args) :
        SpreadOf(args, f, rest)[j] =
            SpreadOf(args, f, rest)[j - 1] \o Stands(args, f, rest, j)
  BY <1>2, SpreadUnfolds
<1> QED
  BY <1>2, <1>3 DEF Upto, args, rest

LEMMA UptoPassed ==
    ASSUME NEW c, Descending(c), NEW f \in 1..Len(c), NEW k \in 1..Len(c[f].args),
           c[f].args[k] # Ellipsis
    PROVE  Upto(c, f)[k] = Upto(c, f)[k - 1] \o Single(f, k)
<1>1. Stands(c[f].args, f, FlatOf(c)[c[f].parent], k) = Single(f, k)
  BY DEF Stands, Single
<1>2. Upto(c, f)[k] = Upto(c, f)[k - 1] \o Stands(c[f].args, f, FlatOf(c)[c[f].parent], k)
  BY UptoNext
<1> QED
  BY <1>1, <1>2, Zenon

LEMMA UptoReplaced ==
    ASSUME NEW c, Descending(c), NEW f \in 1..Len(c), NEW k \in 1..Len(c[f].args),
           c[f].args[k] = Ellipsis
    PROVE  Upto(c, f)[k] = Upto(c, f)[k - 1] \o FlatOf(c)[c[f].parent]
<1>1. Stands(c[f].args, f, FlatOf(c)[c[f].parent], k) = FlatOf(c)[c[f].parent]
  BY DEF Stands
<1>2. Upto(c, f)[k] = Upto(c, f)[k - 1] \o Stands(c[f].args, f, FlatOf(c)[c[f].parent], k)
  BY UptoNext
<1> QED
  BY <1>1, <1>2, Zenon

LEMMA ConcatPlaces ==
    ASSUME NEW x \in Seq(PlaceSet), NEW y \in Seq(PlaceSet), NEW z \in Seq(PlaceSet)
    PROVE  (x \o y) \o z = x \o (y \o z)
  BY ConcatAssociative

-----------------------------------------------------------------------------
(* What a traversal has gone through: the arguments in front of each `...` *)
(* it is inside of, and those it has passed in the innermost list.         *)

(* Behind b, an activation a is in the arguments of its call, which are    *)
(* among those of call root.                                               *)
Within(c, root, a, b) ==
    /\ a.frame \in 1..Len(c)
    /\ a.pos - 1 \in 0..Len(c[a.frame].args)
    /\ Starts(b \o FlatOf(c)[a.frame], FlatOf(c)[root])

(* Activation a has come to `...` and called another one.                  *)
Linked(c, a, called, b, behind) ==
    /\ a.pos - 1 \in 1..Len(c[a.frame].args)
    /\ c[a.frame].args[a.pos - 1] = Ellipsis
    /\ called.frame = c[a.frame].parent
    /\ behind = b \o Upto(c, a.frame)[(a.pos - 1) - 1]

Reached(c, w, root, out) ==
    /\ Len(w) # 0
    /\ \E B \in [1..Len(w) -> Seq(PlaceSet)] :
        /\ w[1].frame = root /\ B[1] = <<>>
        /\ \A i \in 1..Len(w) : Within(c, root, w[i], B[i])
        /\ \A i \in 1..(Len(w) - 1) : Linked(c, w[i], w[i + 1], B[i], B[i + 1])
        /\ out = B[Len(w)] \o Upto(c, w[Len(w)].frame)[w[Len(w)].pos - 1]

LEMMA ReachedStart ==
    ASSUME NEW c, Descending(c), NEW root \in 1..Len(c), NEW base
    PROVE  Reached(c, <<Started(root, base)>>, root, <<>>)
<1> DEFINE w == <<Started(root, base)>>
           B == [i \in 1..1 |-> <<>>]
<1>1. Len(w) = 1 /\ w[1].frame = root /\ w[1].pos = 1
  BY DEF Started
<1>2. B \in [1..1 -> Seq(PlaceSet)] /\ B[1] = <<>>
  <2>1. <<>> \in Seq(PlaceSet)
    OBVIOUS
  <2> QED
    BY <2>1
<1>3. /\ Len(c[root].args) \in Nat /\ FlatOf(c)[root] \in Seq(PlaceSet)
      /\ Upto(c, root)[0] = <<>>
  BY UptoLemma
<1>4. <<>> \o FlatOf(c)[root] = FlatOf(c)[root]
  BY <1>3, ConcatEmptySeq
<1>5. Within(c, root, w[1], <<>>)
  <2>1. Len(FlatOf(c)[root]) \in Nat
    BY <1>3
  <2>2. Starts(FlatOf(c)[root], FlatOf(c)[root])
    BY <2>1 DEF Starts
  <2>3. w[1].pos - 1 \in 0..Len(c[root].args)
    BY <1>1, <1>3
  <2> HIDE DEF w
  <2> QED
    BY <1>1, <1>4, <2>2, <2>3 DEF Within
<1>6. B[1] \o Upto(c, root)[w[1].pos - 1] = <<>>
  <2>1. w[1].pos - 1 = 0
    BY <1>1
  <2>2. <<>> \o <<>> = <<>>
    OBVIOUS
  <2> HIDE DEF w, B
  <2> QED
    BY <1>2, <1>3, <2>1, <2>2
<1> HIDE DEF w, B
<1>7. \A i \in 1..Len(w) : i = 1
  BY <1>1
<1>8. 1..(Len(w) - 1) = {}
  BY <1>1
<1>9. /\ w[1].frame = root /\ B[1] = <<>>
      /\ \A i \in 1..Len(w) : Within(c, root, w[i], B[i])
      /\ \A i \in 1..(Len(w) - 1) : Linked(c, w[i], w[i + 1], B[i], B[i + 1])
      /\ <<>> = B[Len(w)] \o Upto(c, w[Len(w)].frame)[w[Len(w)].pos - 1]
  BY <1>1, <1>2, <1>5, <1>6, <1>7, <1>8
<1>10. Len(w) # 0 /\ B \in [1..Len(w) -> Seq(PlaceSet)]
  BY <1>1, <1>2
<1>11. Reached(c, w, root, <<>>)
  BY <1>9, <1>10, Zenon DEF Reached
<1> QED
  BY <1>11 DEF w

(* The activations of a traversal, with what is known of the innermost.    *)
LEMMA ReachedTop ==
    ASSUME NEW c, Descending(c), NEW root \in 1..Len(c), NEW w \in Seq(Activation), NEW out,
           NEW B \in [1..Len(w) -> Seq(PlaceSet)], Len(w) # 0,
           \A i \in 1..Len(w) : Within(c, root, w[i], B[i])
    PROVE  /\ Len(w) \in Nat \ {0} /\ Len(w) \in 1..Len(w) /\ 1 \in 1..Len(w)
           /\ \A i \in 1..Len(w) :
                /\ w[i] \in Activation /\ w[i].pos \in Nat \ {0}
                /\ B[i] \in Seq(PlaceSet)
                /\ w[i].frame \in 1..Len(c) /\ w[i].pos - 1 \in 0..Len(c[w[i].frame].args)
                /\ Starts(B[i] \o FlatOf(c)[w[i].frame], FlatOf(c)[root])
                /\ Upto(c, w[i].frame)[w[i].pos - 1] \in Seq(PlaceSet)
<1>1. Len(w) \in Nat \ {0} /\ Len(w) \in 1..Len(w) /\ 1 \in 1..Len(w)
  OBVIOUS
<1>2. ASSUME NEW i \in 1..Len(w)
      PROVE  /\ w[i] \in Activation /\ w[i].pos \in Nat \ {0}
             /\ B[i] \in Seq(PlaceSet)
             /\ w[i].frame \in 1..Len(c) /\ w[i].pos - 1 \in 0..Len(c[w[i].frame].args)
             /\ Starts(B[i] \o FlatOf(c)[w[i].frame], FlatOf(c)[root])
             /\ Upto(c, w[i].frame)[w[i].pos - 1] \in Seq(PlaceSet)
  <2>1. w[i] \in Activation
    OBVIOUS
  <2>2. w[i].pos \in Nat \ {0}
    BY <2>1 DEF Activation
  <2>3. B[i] \in Seq(PlaceSet)
    OBVIOUS
  <2>4. /\ w[i].frame \in 1..Len(c) /\ w[i].pos - 1 \in 0..Len(c[w[i].frame].args)
        /\ Starts(B[i] \o FlatOf(c)[w[i].frame], FlatOf(c)[root])
    BY DEF Within
  <2>5. Upto(c, w[i].frame)[w[i].pos - 1] \in Seq(PlaceSet)
    BY <2>4, UptoLemma
  <2> QED
    BY <2>1, <2>2, <2>3, <2>4, <2>5
<1> QED
  BY <1>1, <1>2

(* The lemmas below follow the traversal w from its innermost activation,  *)
(* t, whose arguments are those of call f.                                 *)
LEMMA ReachedAdvanced ==
    ASSUME NEW c, Descending(c), NEW root \in 1..Len(c), NEW w \in Seq(Activation), NEW out,
           Reached(c, w, root, out),
           NEW v \in Seq(Activation), Len(v) = Len(w),
           \A i \in 1..(Len(w) - 1) : v[i] = w[i],
           v[Len(w)].frame = w[Len(w)].frame,
           v[Len(w)].pos = w[Len(w)].pos + 1,
           w[Len(w)].pos <= Len(c[w[Len(w)].frame].args),
           c[w[Len(w)].frame].args[w[Len(w)].pos] # Ellipsis
    PROVE  /\ out \in Seq(PlaceSet)
           /\ <<w[Len(w)].frame, w[Len(w)].pos>> \in PlaceSet
           /\ Reached(c, v, root, Append(out, <<w[Len(w)].frame, w[Len(w)].pos>>))
<1> DEFINE n == Len(w)
           t == w[n]
           f == t.frame
           k == t.pos
           x == <<f, k>>
<1>1. Len(w) # 0
  BY DEF Reached
<1>2. PICK B \in [1..n -> Seq(PlaceSet)] :
        /\ w[1].frame = root /\ B[1] = <<>>
        /\ \A i \in 1..n : Within(c, root, w[i], B[i])
        /\ \A i \in 1..(n - 1) : Linked(c, w[i], w[i + 1], B[i], B[i + 1])
        /\ out = B[n] \o Upto(c, f)[k - 1]
  BY DEF Reached
<1>3. /\ n \in Nat \ {0} /\ n \in 1..n /\ 1 \in 1..n
      /\ B[n] \in Seq(PlaceSet) /\ f \in 1..Len(c) /\ k \in Nat \ {0}
      /\ k - 1 \in 0..Len(c[f].args)
      /\ Upto(c, f)[k - 1] \in Seq(PlaceSet)
  BY <1>1, <1>2, ReachedTop
<1>4. k \in 1..Len(c[f].args) /\ k \in 0..Len(c[f].args)
  BY <1>3, UptoLemma
<1>5. Upto(c, f)[k] = Upto(c, f)[k - 1] \o <<x>>
  <2>a. c[f].args[k] # Ellipsis
    OBVIOUS
  <2> HIDE DEF k, f
  <2>1. Upto(c, f)[k] = Upto(c, f)[k - 1] \o Single(f, k)
    BY <1>3, <1>4, <2>a, UptoPassed
  <2> QED
    BY <2>1 DEF Single
<1>6. x \in PlaceSet /\ out \in Seq(PlaceSet) /\ <<x>> \in Seq(PlaceSet)
  <2>1. f \in Nat
    BY <1>3 DEF Descending
  <2>2. x \in PlaceSet
    BY <1>3, <2>1 DEF PlaceSet
  <2> HIDE DEF x, n, t, k, f
  <2>3. <<x>> \in Seq(PlaceSet)
    BY <2>2
  <2>4. out \in Seq(PlaceSet)
    BY <1>2, <1>3, ConcatStarts
  <2> QED
    BY <2>2, <2>3, <2>4
<1>7. Append(out, x) = B[n] \o Upto(c, f)[k]
  <2> HIDE DEF x, n, t, k, f
  <2>1. Append(out, x) = out \o <<x>>
    BY <1>6, AppendIsConcat
  <2>2. (B[n] \o Upto(c, f)[k - 1]) \o <<x>> = B[n] \o (Upto(c, f)[k - 1] \o <<x>>)
    <3> DEFINE b == B[n]
               u == Upto(c, f)[k - 1]
               s == <<x>>
    <3>1. b \in Seq(PlaceSet) /\ u \in Seq(PlaceSet) /\ s \in Seq(PlaceSet)
      BY <1>3, <1>6
    <3> HIDE DEF b, u, s
    <3>2. (b \o u) \o s = b \o (u \o s)
      BY <3>1, ConcatPlaces
    <3> QED
      BY <3>2 DEF b, u, s
  <2> QED
    BY <1>2, <1>5, <2>1, <2>2
<1>8. v[n].frame = f /\ v[n].pos = k + 1 /\ Len(v) = n
  OBVIOUS
<1>9. Within(c, root, v[n], B[n])
  <2>1. Starts(B[n] \o FlatOf(c)[f], FlatOf(c)[root])
    BY <1>2, <1>3 DEF Within
  <2>2. (k + 1) - 1 = k
    BY <1>3
  <2> QED
    BY <1>3, <1>4, <1>8, <2>1, <2>2 DEF Within
<1>10. \A i \in 1..n : Within(c, root, v[i], B[i])
  <2>1. \A i \in 1..n : i # n => i \in 1..(n - 1)
    BY <1>3
  <2> QED
    BY <1>2, <1>9, <2>1
<1>11. v[1].frame = root
  <2>1. 1 # n => 1 \in 1..(n - 1)
    BY <1>3
  <2> QED
    BY <1>2, <1>8, <2>1
<1>12. ASSUME NEW i \in 1..(n - 1) PROVE Linked(c, v[i], v[i + 1], B[i], B[i + 1])
  <2>1. Linked(c, w[i], w[i + 1], B[i], B[i + 1])
    BY <1>2
  <2>2. v[i] = w[i]
    OBVIOUS
  <2>3. v[i + 1].frame = w[i + 1].frame
    <3>1. i + 1 = n \/ i + 1 \in 1..(n - 1)
      BY <1>3
    <3> QED
      BY <1>8, <3>1
  <2> QED
    BY <2>1, <2>2, <2>3 DEF Linked
<1>13. Append(out, x) = B[n] \o Upto(c, v[n].frame)[v[n].pos - 1]
  <2>1. v[n].pos - 1 = k
    BY <1>3, <1>8
  <2> QED
    BY <1>7, <1>8, <2>1
<1> HIDE DEF n, t, f, k, x
<1>14. Reached(c, v, root, Append(out, x))
  BY <1>2, <1>3, <1>8, <1>10, <1>11, <1>12, <1>13 DEF Reached
<1> QED
  BY <1>6, <1>14 DEF n, t, f, k, x

(* Where the traversal is among all the arguments of the root.             *)
LEMMA ReachedIsStart ==
    ASSUME NEW c, Descending(c), NEW root \in 1..Len(c), NEW w \in Seq(Activation), NEW out,
           Reached(c, w, root, out)
    PROVE  /\ out \in Seq(PlaceSet) /\ FlatOf(c)[root] \in Seq(PlaceSet)
           /\ Starts(out, FlatOf(c)[root])
<1> DEFINE n == Len(w)
           f == w[n].frame
           k == w[n].pos - 1
<1>1. Len(w) # 0
  BY DEF Reached
<1>2. PICK B \in [1..n -> Seq(PlaceSet)] :
        /\ \A i \in 1..n : Within(c, root, w[i], B[i])
        /\ out = B[n] \o Upto(c, f)[k]
  BY DEF Reached
<1>3. /\ B[n] \in Seq(PlaceSet) /\ f \in 1..Len(c) /\ k \in 0..Len(c[f].args)
      /\ Upto(c, f)[k] \in Seq(PlaceSet)
      /\ Starts(B[n] \o FlatOf(c)[f], FlatOf(c)[root])
  BY <1>1, <1>2, ReachedTop
<1> HIDE DEF n, f, k
<1>4. /\ FlatOf(c)[f] \in Seq(PlaceSet) /\ FlatOf(c)[root] \in Seq(PlaceSet)
      /\ Starts(Upto(c, f)[k], FlatOf(c)[f])
  BY <1>3, UptoLemma
<1>5. Starts(B[n] \o Upto(c, f)[k], B[n] \o FlatOf(c)[f])
  BY <1>3, <1>4, StartsBehind
<1>6. B[n] \o Upto(c, f)[k] \in Seq(PlaceSet) /\ B[n] \o FlatOf(c)[f] \in Seq(PlaceSet)
  BY <1>3, <1>4, ConcatStarts
<1>7. Starts(B[n] \o Upto(c, f)[k], FlatOf(c)[root])
  BY <1>3, <1>4, <1>5, <1>6, StartsIsTransitive
<1> QED
  BY <1>2, <1>4, <1>6, <1>7

LEMMA ReachedExpanded ==
    ASSUME NEW c, Descending(c), NEW root \in 1..Len(c), NEW w \in Seq(Activation), NEW out,
           Reached(c, w, root, out),
           NEW v \in Seq(Activation), Len(v) = Len(w) + 1,
           \A i \in 1..(Len(w) - 1) : v[i] = w[i],
           v[Len(w)].frame = w[Len(w)].frame,
           v[Len(w)].pos = w[Len(w)].pos + 1,
           w[Len(w)].pos <= Len(c[w[Len(w)].frame].args),
           c[w[Len(w)].frame].args[w[Len(w)].pos] = Ellipsis,
           v[Len(w) + 1].frame = c[w[Len(w)].frame].parent,
           v[Len(w) + 1].pos = 1,
           c[w[Len(w)].frame].parent # 0
    PROVE  Reached(c, v, root, out)
<1> DEFINE n == Len(w)
           f == w[n].frame
           k == w[n].pos
           p == c[f].parent
<1>1. Len(w) # 0
  BY DEF Reached
<1>2. PICK B \in [1..n -> Seq(PlaceSet)] :
        /\ w[1].frame = root /\ B[1] = <<>>
        /\ \A i \in 1..n : Within(c, root, w[i], B[i])
        /\ \A i \in 1..(n - 1) : Linked(c, w[i], w[i + 1], B[i], B[i + 1])
        /\ out = B[n] \o Upto(c, f)[k - 1]
  BY DEF Reached
<1>3. /\ n \in Nat \ {0} /\ n \in 1..n /\ 1 \in 1..n
      /\ B[n] \in Seq(PlaceSet) /\ f \in 1..Len(c) /\ k \in Nat \ {0}
      /\ k - 1 \in 0..Len(c[f].args)
      /\ Upto(c, f)[k - 1] \in Seq(PlaceSet)
      /\ Starts(B[n] \o FlatOf(c)[f], FlatOf(c)[root])
  BY <1>1, <1>2, ReachedTop
<1>4. /\ k \in 1..Len(c[f].args) /\ k \in 0..Len(c[f].args)
      /\ p \in 1..Len(c)
  <2>1. Len(c[f].args) \in Nat /\ p \in 0..Len(c) /\ p # 0
    BY <1>3, UptoLemma
  <2> QED
    BY <1>3, <2>1
<1>5. v[n].frame = f /\ v[n].pos = k + 1 /\ Len(v) = n + 1
      /\ v[n + 1].frame = p /\ v[n + 1].pos = 1
  OBVIOUS
<1>6. Upto(c, f)[k] = Upto(c, f)[k - 1] \o FlatOf(c)[p]
  <2>1. c[f].args[k] = Ellipsis
    OBVIOUS
  <2> HIDE DEF f, k
  <2> QED
    BY <1>3, <1>4, <2>1, UptoReplaced
<1> DEFINE before == B[n]
           passed == Upto(c, f)[k - 1]
           rest == FlatOf(c)[p]
<1>7. /\ before \in Seq(PlaceSet) /\ passed \in Seq(PlaceSet) /\ rest \in Seq(PlaceSet)
      /\ out = before \o passed /\ out \in Seq(PlaceSet)
      /\ Upto(c, f)[k] = passed \o rest
  <2>1. rest \in Seq(PlaceSet)
    BY <1>3, UptoLemma
  <2> QED
    BY <1>2, <1>3, <1>6, <2>1, ConcatStarts
<1> HIDE DEF n, f, k, p, before, passed, rest
<1>8. Starts(out \o rest, FlatOf(c)[root])
  <2>1. (before \o passed) \o rest = before \o (passed \o rest)
    <3>1. before \in Seq(PlaceSet) /\ passed \in Seq(PlaceSet) /\ rest \in Seq(PlaceSet)
      BY <1>7
    <3> QED
      BY <3>1, ConcatPlaces
  <2>2. /\ FlatOf(c)[f] \in Seq(PlaceSet) /\ FlatOf(c)[root] \in Seq(PlaceSet)
        /\ Upto(c, f)[k] \in Seq(PlaceSet)
        /\ Starts(Upto(c, f)[k], FlatOf(c)[f])
    BY <1>3, <1>4, UptoLemma
  <2>3. Starts(before \o Upto(c, f)[k], before \o FlatOf(c)[f])
    BY <1>7, <2>2, StartsBehind
  <2>4. before \o Upto(c, f)[k] \in Seq(PlaceSet) /\ before \o FlatOf(c)[f] \in Seq(PlaceSet)
    BY <1>7, <2>2, ConcatStarts
  <2>5. Starts(before \o FlatOf(c)[f], FlatOf(c)[root])
    BY <1>3 DEF before
  <2>6. Starts(before \o Upto(c, f)[k], FlatOf(c)[root])
    BY <2>2, <2>3, <2>4, <2>5, StartsIsTransitive
  <2> QED
    BY <1>7, <2>1, <2>6
<1> DEFINE D == [i \in 1..(n + 1) |-> IF i = n + 1 THEN out ELSE B[i]]
<1>9. /\ D \in [1..(n + 1) -> Seq(PlaceSet)]
      /\ D[n + 1] = out /\ \A i \in 1..n : D[i] = B[i]
  <2>1. n + 1 \in 1..(n + 1) /\ \A i \in 1..n : i \in 1..(n + 1) /\ i # n + 1
    BY <1>3
  <2>2. ASSUME NEW i \in 1..(n + 1)
        PROVE  (IF i = n + 1 THEN out ELSE B[i]) \in Seq(PlaceSet)
    <3>1. i # n + 1 => i \in 1..n
      BY <1>3
    <3> QED
      BY <1>2, <1>7, <3>1
  <2> QED
    BY <2>1, <2>2
<1> HIDE DEF D
<1>10. \A i \in 1..(n + 1) : Within(c, root, v[i], D[i])
  <2>1. Within(c, root, v[n], D[n])
    <3>1. (k + 1) - 1 = k
      BY <1>3
    <3>2. Starts(B[n] \o FlatOf(c)[f], FlatOf(c)[root])
      BY <1>3
    <3> QED
      BY <1>3, <1>4, <1>5, <1>9, <3>1, <3>2 DEF Within
  <2>2. Within(c, root, v[n + 1], D[n + 1])
    <3>1. Len(c[p].args) \in Nat
      BY <1>4, UptoLemma
    <3>2. 1 - 1 \in 0..Len(c[p].args)
      BY <3>1
    <3> QED
      BY <1>4, <1>5, <1>8, <1>9, <3>2 DEF Within, rest
  <2>3. ASSUME NEW i \in 1..(n - 1) PROVE Within(c, root, v[i], D[i])
    <3>1. i \in 1..n
      BY <1>3
    <3>2. v[i] = w[i]
      BY DEF n
    <3> QED
      BY <1>2, <1>9, <3>1, <3>2
  <2>4. \A i \in 1..(n + 1) : i = n + 1 \/ i = n \/ i \in 1..(n - 1)
    BY <1>3
  <2> QED
    BY <2>1, <2>2, <2>3, <2>4
<1>11. v[1].frame = root /\ D[1] = <<>>
  <2>1. 1 # n => 1 \in 1..(n - 1)
    BY <1>3
  <2>2. 1 # n => v[1] = w[1]
    BY <2>1 DEF n
  <2>3. 1 = n => v[1].frame = w[1].frame
    BY <1>5 DEF f
  <2> QED
    BY <1>2, <1>3, <1>9, <2>2, <2>3
<1>12. \A i \in 1..n : Linked(c, v[i], v[i + 1], D[i], D[i + 1])
  <2>1. Linked(c, v[n], v[n + 1], D[n], D[n + 1])
    <3>1. v[n].pos - 1 = k
      BY <1>3, <1>5
    <3>2. D[n + 1] = D[n] \o Upto(c, f)[k - 1]
      BY <1>2, <1>3, <1>9
    <3>3. c[f].args[k] = Ellipsis
      BY DEF f, k, n
    <3> QED
      BY <1>4, <1>5, <3>1, <3>2, <3>3 DEF Linked, p
  <2>2. ASSUME NEW i \in 1..(n - 1) PROVE Linked(c, v[i], v[i + 1], D[i], D[i + 1])
    <3>1. i \in 1..n /\ i + 1 \in 1..n /\ (i + 1 = n \/ i + 1 \in 1..(n - 1))
      BY <1>3
    <3>2. v[i] = w[i]
      BY DEF n
    <3>3. v[i + 1].frame = w[i + 1].frame
      BY <1>5, <3>1 DEF n, f
    <3>4. Linked(c, w[i], w[i + 1], B[i], B[i + 1])
      BY <1>2
    <3>5. D[i] = B[i] /\ D[i + 1] = B[i + 1]
      BY <1>9, <3>1
    <3> QED
      BY <3>2, <3>3, <3>4, <3>5 DEF Linked
  <2>3. \A i \in 1..n : i = n \/ i \in 1..(n - 1)
    BY <1>3
  <2> QED
    BY <2>1, <2>2, <2>3
<1>13. out = D[n + 1] \o Upto(c, v[n + 1].frame)[v[n + 1].pos - 1]
  <2>1. v[n + 1].pos - 1 = 0
    BY <1>5
  <2>2. Upto(c, p)[0] = <<>>
    BY <1>4, UptoLemma
  <2>3. out \o <<>> = out
    BY <1>7, ConcatEmptySeq
  <2> QED
    BY <1>5, <1>9, <2>1, <2>2, <2>3
<1>14. (n + 1) - 1 = n /\ n + 1 # 0
  BY <1>3
<1>15. Len(v) = n + 1
  BY <1>5
<1> QED
  BY <1>9, <1>10, <1>11, <1>12, <1>13, <1>14, <1>15 DEF Reached

LEMMA ReachedLeft ==
    ASSUME NEW c, Descending(c), NEW root \in 1..Len(c), NEW w \in Seq(Activation), NEW out,
           Reached(c, w, root, out), Len(w) > 1,
           w[Len(w)].pos > Len(c[w[Len(w)].frame].args),
           NEW v \in Seq(Activation), Len(v) = Len(w) - 1,
           \A i \in 1..(Len(w) - 1) : v[i] = w[i]
    PROVE  Reached(c, v, root, out)
<1> DEFINE n == Len(w)
           m == n - 1
           f == w[n].frame
           g == w[m].frame
           k == w[m].pos - 1
<1>1. n \in Nat /\ n > 1 /\ Len(w) # 0
  OBVIOUS
<1>2. PICK B \in [1..n -> Seq(PlaceSet)] :
        /\ w[1].frame = root /\ B[1] = <<>>
        /\ \A i \in 1..n : Within(c, root, w[i], B[i])
        /\ \A i \in 1..(n - 1) : Linked(c, w[i], w[i + 1], B[i], B[i + 1])
        /\ out = B[n] \o Upto(c, f)[w[n].pos - 1]
  BY DEF Reached
<1>3. m \in 1..n /\ m \in 1..(n - 1) /\ n \in 1..n /\ m + 1 = n /\ m \in Nat \ {0} /\ 1 \in 1..m
  BY <1>1
<1>4. /\ f \in 1..Len(c) /\ w[n].pos \in Nat \ {0} /\ w[n].pos - 1 \in 0..Len(c[f].args)
      /\ g \in 1..Len(c) /\ B[m] \in Seq(PlaceSet)
  BY <1>1, <1>2, <1>3, ReachedTop
<1>5. w[n].pos - 1 = Len(c[f].args)
  <2>1. Len(c[f].args) \in Nat
    BY <1>4, UptoLemma
  <2>2. w[n].pos > Len(c[f].args)
    OBVIOUS
  <2>3. \A x \in Nat \ {0}, l \in Nat : x - 1 \in 0..l /\ x > l => x - 1 = l
    OBVIOUS
  <2> QED
    BY <1>4, <2>1, <2>2, <2>3, Zenon
<1>6. Linked(c, w[m], w[n], B[m], B[n])
  BY <1>2, <1>3
<1>7. /\ k \in 1..Len(c[g].args) /\ c[g].args[k] = Ellipsis
      /\ f = c[g].parent /\ B[n] = B[m] \o Upto(c, g)[k - 1]
  BY <1>6 DEF Linked
<1>8. v[m] = w[m] /\ Len(v) = m
  BY <1>3
<1> HIDE DEF f, g, k
<1>9. out = B[m] \o Upto(c, g)[k]
  <2> DEFINE b == B[m]
             u == Upto(c, g)[k - 1]
             r == FlatOf(c)[f]
  <2>1. Len(c[g].args) \in Nat /\ k - 1 \in 0..Len(c[g].args)
    <3>1. Len(c[g].args) \in Nat
      BY <1>4, UptoLemma
    <3> QED
      BY <1>7, <3>1
  <2>2. b \in Seq(PlaceSet) /\ u \in Seq(PlaceSet) /\ r \in Seq(PlaceSet)
    BY <1>4, <2>1, UptoLemma
  <2>3. Upto(c, g)[k] = u \o r
    BY <1>4, <1>7, UptoReplaced
  <2>4. out = (b \o u) \o r
    <3>1. FlatOf(c)[f] = Upto(c, f)[Len(c[f].args)]
      BY <1>4, UptoLemma
    <3> QED
      BY <1>2, <1>5, <1>7, <3>1
  <2>5. B[m] = b
    OBVIOUS
  <2> HIDE DEF b, u, r
  <2>6. (b \o u) \o r = b \o (u \o r)
    BY <2>2, ConcatPlaces
  <2> QED
    BY <2>3, <2>4, <2>5, <2>6
<1> DEFINE D == [i \in 1..m |-> B[i]]
<1>10. /\ D \in [1..m -> Seq(PlaceSet)]
       /\ \A i \in 1..m : D[i] = B[i] /\ v[i] = w[i] /\ i \in 1..n
  <2>1. \A i \in 1..m : i \in 1..n
    BY <1>3
  <2> QED
    BY <1>2, <2>1
<1> HIDE DEF D
<1>11. v[1].frame = root /\ D[1] = <<>>
  BY <1>2, <1>3, <1>10
<1>12. \A i \in 1..m : Within(c, root, v[i], D[i])
  BY <1>2, <1>10
<1>13. \A i \in 1..(m - 1) : Linked(c, v[i], v[i + 1], D[i], D[i + 1])
  <2>1. \A i \in 1..(m - 1) : i \in 1..m /\ i + 1 \in 1..m /\ i \in 1..(n - 1)
    BY <1>3
  <2> QED
    BY <1>2, <1>10, <2>1
<1>14. out = D[m] \o Upto(c, v[m].frame)[v[m].pos - 1]
  BY <1>3, <1>8, <1>9, <1>10 DEF g, k
<1>15. m # 0
  BY <1>3
<1> HIDE DEF m
<1> QED
  BY <1>8, <1>10, <1>11, <1>12, <1>13, <1>14, <1>15 DEF Reached

(* A traversal at the end of its outermost list has gone through all.      *)
LEMMA ReachedEnd ==
    ASSUME NEW c, Descending(c), NEW root \in 1..Len(c), NEW w \in Seq(Activation), NEW out,
           Reached(c, w, root, out), Len(w) = 1,
           w[1].pos > Len(c[w[1].frame].args)
    PROVE  out = FlatOf(c)[root]
<1>1. PICK B \in [1..Len(w) -> Seq(PlaceSet)] :
        /\ w[1].frame = root /\ B[1] = <<>>
        /\ \A i \in 1..Len(w) : Within(c, root, w[i], B[i])
        /\ out = B[1] \o Upto(c, root)[w[1].pos - 1]
  BY DEF Reached
<1>2. w[1].pos \in Nat \ {0} /\ w[1].pos - 1 \in 0..Len(c[root].args)
  <2>1. Len(w) # 0 /\ 1 \in 1..Len(w)
    OBVIOUS
  <2>2. w[1].pos \in Nat \ {0} /\ w[1].pos - 1 \in 0..Len(c[w[1].frame].args)
    BY <1>1, <2>1, ReachedTop
  <2> QED
    BY <1>1, <2>2
<1>3. /\ Len(c[root].args) \in Nat /\ FlatOf(c)[root] \in Seq(PlaceSet)
      /\ FlatOf(c)[root] = Upto(c, root)[Len(c[root].args)]
  BY UptoLemma
<1>4. w[1].pos - 1 = Len(c[root].args)
  BY <1>1, <1>2, <1>3
<1> QED
  BY <1>1, <1>3, <1>4, ConcatEmptySeq

(* Only `...` makes a traversal go deeper.                                 *)
LEMMA ReachedDeeper ==
    ASSUME NEW c, Descending(c), NEW root \in 1..Len(c), NEW w \in Seq(Activation), NEW out,
           Reached(c, w, root, out)
    PROVE  /\ Len(w) \in Nat \ {0} /\ w[1].frame = root
           /\ Len(w) # 1 => \E k \in 1..Len(c[root].args) : c[root].args[k] = Ellipsis
<1>1. Len(w) \in Nat \ {0}
  BY DEF Reached
<1>2. PICK B \in [1..Len(w) -> Seq(PlaceSet)] :
        /\ w[1].frame = root
        /\ \A i \in 1..(Len(w) - 1) : Linked(c, w[i], w[i + 1], B[i], B[i + 1])
  BY DEF Reached
<1>3. ASSUME Len(w) # 1
      PROVE  \E k \in 1..Len(c[root].args) : c[root].args[k] = Ellipsis
  <2>1. 1 \in 1..(Len(w) - 1)
    <3>1. \A n \in Nat \ {0} : n # 1 => 1 \in 1..(n - 1)
      OBVIOUS
    <3> QED
      BY <1>1, <1>3, <3>1, Zenon
  <2>2. Linked(c, w[1], w[1 + 1], B[1], B[1 + 1])
    BY <1>2, <2>1
  <2> QED
    BY <1>2, <2>2 DEF Linked
<1> QED
  BY <1>1, <1>2, <1>3

-----------------------------------------------------------------------------
(* The moves of a traversal, and what they have gone through.              *)

LEMMA CallsDescend == FrameInv => Descending(calls) /\ Len(calls) \in Nat
  BY DEF FrameInv, FrameTypes, FramesBelow, Descending

LEMMA CallsDescendNext == FrameInv' => Descending(calls') /\ Len(calls') \in Nat
  BY DEF FrameInv, FrameTypes, FramesBelow, Descending

LEMMA AdvancedParts ==
    ASSUME WalkOK(walk), walk # <<>>
    PROVE  /\ walk \in Seq(Activation) /\ Advanced \in Seq(Activation)
           /\ Len(walk) \in Nat \ {0} /\ Len(Advanced) = Len(walk)
           /\ \A i \in 1..(Len(walk) - 1) : Advanced[i] = walk[i]
           /\ Advanced[Len(walk)].frame = walk[Len(walk)].frame
           /\ Advanced[Len(walk)].pos = walk[Len(walk)].pos + 1
           /\ Advanced[Len(walk)].base = walk[Len(walk)].base
<1> DEFINE moved == [Top EXCEPT !.pos = @ + 1]
<1>1. /\ moved \in Activation /\ moved.frame = Top.frame
      /\ moved.pos = Top.pos + 1 /\ moved.base = Top.base
  BY WalkTop DEF Activation
<1>2. Advanced = [walk EXCEPT ![Len(walk)] = moved]
  BY DEF Advanced, Top
<1> HIDE DEF moved
<1>3. walk \in Seq(Activation) /\ Len(walk) \in 1..Len(walk) /\ Len(walk) \in Nat \ {0}
  BY WalkTop DEF WalkOK
<1>4. /\ Advanced \in Seq(Activation)
      /\ Len(Advanced) = Len(walk)
      /\ \A i \in 1..Len(walk) :
            Advanced[i] = IF i = Len(walk) THEN moved ELSE walk[i]
  BY <1>1, <1>2, <1>3, ExceptSeq
<1>5. \A i \in 1..(Len(walk) - 1) : i \in 1..Len(walk) /\ i # Len(walk)
  BY <1>3
<1>6. Advanced[Len(walk)] = moved
  BY <1>3, <1>4
<1> QED
  BY <1>1, <1>3, <1>4, <1>5, <1>6 DEF Top

LEMMA PassStep ==
    ASSUME Inv, walk # <<>>, ~AtEnd, Member # Ellipsis,
           NEW root \in 1..Len(calls), NEW out, Reached(calls, walk, root, out)
    PROVE  /\ out \in Seq(PlaceSet) /\ Place \in PlaceSet
           /\ Reached(calls, Advanced, root, Append(out, Place))
<1>1. Descending(calls) /\ WalkOK(walk)
  BY CallsDescend DEF Inv
<1>2. /\ walk[Len(walk)].frame \in Nat /\ walk[Len(walk)].pos \in Nat
      /\ walk[Len(walk)].frame \in 1..Len(calls)
  BY <1>1, WalkTop, CallsDescend DEF Top, Inv
<1>3. Len(calls[walk[Len(walk)].frame].args) \in Nat
  BY <1>1, <1>2, UptoLemma
<1>4. /\ walk[Len(walk)].pos <= Len(calls[walk[Len(walk)].frame].args)
      /\ calls[walk[Len(walk)].frame].args[walk[Len(walk)].pos] # Ellipsis
  BY <1>2, <1>3 DEF AtEnd, Args, Member, Top
<1>5. /\ walk \in Seq(Activation) /\ Advanced \in Seq(Activation)
      /\ Len(Advanced) = Len(walk)
      /\ \A i \in 1..(Len(walk) - 1) : Advanced[i] = walk[i]
      /\ Advanced[Len(walk)].frame = walk[Len(walk)].frame
      /\ Advanced[Len(walk)].pos = walk[Len(walk)].pos + 1
  BY <1>1, AdvancedParts
<1> DEFINE p == <<walk[Len(walk)].frame, walk[Len(walk)].pos>>
<1>6. /\ out \in Seq(PlaceSet) /\ p \in PlaceSet
      /\ Reached(calls, Advanced, root, Append(out, p))
  BY <1>1, <1>4, <1>5, ReachedAdvanced
<1> QED
  BY <1>6 DEF Place, Top

LEMMA ExpandStep ==
    ASSUME Inv, walk # <<>>, ~AtEnd, Member = Ellipsis,
           NEW root \in 1..Len(calls), NEW out, Reached(calls, walk, root, out)
    PROVE  Reached(calls, Expanded, root, out)
<1>1. Descending(calls) /\ WalkOK(walk)
  BY CallsDescend DEF Inv
<1>2. /\ walk[Len(walk)].frame \in Nat /\ walk[Len(walk)].pos \in Nat \ {0}
      /\ walk[Len(walk)].frame \in 1..Len(calls)
  BY <1>1, WalkTop, CallsDescend DEF Top, Inv
<1>3. Len(calls[walk[Len(walk)].frame].args) \in Nat
  BY <1>1, <1>2, UptoLemma
<1>4. /\ walk[Len(walk)].pos <= Len(calls[walk[Len(walk)].frame].args)
      /\ calls[walk[Len(walk)].frame].args[walk[Len(walk)].pos] = Ellipsis
  BY <1>2, <1>3 DEF AtEnd, Args, Member, Top
<1>5. calls[walk[Len(walk)].frame].parent # 0
  <2>1. walk[Len(walk)].frame \in DOMAIN calls
    BY <1>1, <1>2 DEF Descending
  <2>2. calls[walk[Len(walk)].frame] \in Call
    BY <1>1, <1>2 DEF Descending
  <2>3. calls[walk[Len(walk)].frame].args \in Seq(Members)
    BY <2>2 DEF Call
  <2>4. walk[Len(walk)].pos \in DOMAIN calls[walk[Len(walk)].frame].args
    BY <1>2, <1>4, <2>3
  <2> QED
    BY <1>4, <2>1, <2>4 DEF Inv, FrameInv, EllipsisHasParent
<1>6. /\ walk \in Seq(Activation) /\ Advanced \in Seq(Activation)
      /\ Len(walk) \in Nat \ {0}
      /\ Len(Advanced) = Len(walk)
      /\ \A i \in 1..(Len(walk) - 1) : Advanced[i] = walk[i]
      /\ Advanced[Len(walk)].frame = walk[Len(walk)].frame
      /\ Advanced[Len(walk)].pos = walk[Len(walk)].pos + 1
  BY <1>1, AdvancedParts
<1> DEFINE new == Started(calls[Top.frame].parent, Top.base + Top.pos - 1)
<1>7. /\ Expanded = Append(Advanced, new) /\ new.pos = 1
      /\ new.frame = calls[walk[Len(walk)].frame].parent
  BY DEF Expanded, Started, Top
<1>8. new \in Activation
  <2>1. Top.base \in Nat /\ Top.pos \in Nat \ {0}
    BY <1>1, WalkTop DEF Activation
  <2>2. Top.base + Top.pos - 1 \in Nat
    BY <2>1
  <2>3. calls[Top.frame].parent \in Nat
    BY <1>2, CallLemma DEF Inv, Top
  <2> QED
    BY <1>5, <2>2, <2>3 DEF Started, Activation, Top
<1> HIDE DEF new
<1>9. /\ Expanded \in Seq(Activation) /\ Len(Expanded) = Len(walk) + 1
      /\ \A i \in 1..Len(walk) : Expanded[i] = Advanced[i]
      /\ Expanded[Len(walk) + 1] = new
  BY <1>6, <1>7, <1>8, AppendProperties
<1>10. Len(walk) \in 1..Len(walk) /\ \A i \in 1..(Len(walk) - 1) : i \in 1..Len(walk)
  BY <1>6
<1>11. /\ \A i \in 1..(Len(walk) - 1) : Expanded[i] = walk[i]
       /\ Expanded[Len(walk)].frame = walk[Len(walk)].frame
       /\ Expanded[Len(walk)].pos = walk[Len(walk)].pos + 1
       /\ Expanded[Len(walk) + 1].frame = calls[walk[Len(walk)].frame].parent
       /\ Expanded[Len(walk) + 1].pos = 1
  BY <1>6, <1>7, <1>9, <1>10
<1> QED
  BY <1>1, <1>4, <1>5, <1>6, <1>9, <1>11, ReachedExpanded

LEMMA LeaveStep ==
    ASSUME Inv, walk # <<>>, AtEnd, Len(walk) # 1,
           NEW root \in 1..Len(calls), NEW out, Reached(calls, walk, root, out)
    PROVE  Reached(calls, Left, root, out)
<1>1. Descending(calls) /\ walk \in Seq(Activation)
  BY CallsDescend DEF Inv, WalkOK
<1>2. Len(walk) \in Nat \ {0}
  BY <1>1
<1>3. Len(walk) > 1
  BY <1>2
<1>4. /\ Left \in Seq(Activation) /\ Len(Left) = Len(walk) - 1
      /\ \A i \in 1..(Len(walk) - 1) : Left[i] = walk[i]
  BY <1>1, <1>2, FrontLemma DEF Left
<1>5. walk[Len(walk)].pos > Len(calls[walk[Len(walk)].frame].args)
  BY DEF AtEnd, Args, Top
<1> QED
  BY <1>1, <1>3, <1>4, <1>5, ReachedLeft

LEMMA EndStep ==
    ASSUME Inv, walk # <<>>, AtEnd, Len(walk) = 1,
           NEW root \in 1..Len(calls), NEW out, Reached(calls, walk, root, out)
    PROVE  out = Flat(root)
<1>1. Descending(calls) /\ walk \in Seq(Activation)
  BY CallsDescend DEF Inv, WalkOK
<1>2. walk[1].pos > Len(calls[walk[1].frame].args)
  BY DEF AtEnd, Args, Top
<1>3. out = FlatOf(calls)[root]
  BY <1>1, <1>2, ReachedEnd
<1> QED
  BY <1>3, FlatIs

LEMMA StartStep ==
    ASSUME Inv, NEW root \in 1..Len(calls), NEW out, Reached(calls, walk, root, out)
    PROVE  /\ out \in Seq(PlaceSet) /\ Flat(root) \in Seq(PlaceSet)
           /\ Starts(out, Flat(root))
<1>1. Descending(calls) /\ walk \in Seq(Activation)
  BY CallsDescend DEF Inv, WalkOK
<1>2. /\ out \in Seq(PlaceSet) /\ FlatOf(calls)[root] \in Seq(PlaceSet)
      /\ Starts(out, FlatOf(calls)[root])
  BY <1>1, ReachedIsStart
<1> QED
  BY <1>2, FlatIs

(* What comes next in a traversal comes next in the flat list.             *)
LEMMA NextInFlat ==
    ASSUME Inv, walk # <<>>, ~AtEnd, Member # Ellipsis,
           NEW root \in 1..Len(calls), NEW out, Reached(calls, walk, root, out)
    PROVE  /\ out \in Seq(PlaceSet) /\ Flat(root) \in Seq(PlaceSet)
           /\ Starts(out, Flat(root))
           /\ Len(out) + 1 \in DOMAIN Flat(root)
           /\ Flat(root)[Len(out) + 1] = Place
<1>1. Descending(calls) /\ WalkOK(walk)
  BY CallsDescend DEF Inv
<1>2. /\ out \in Seq(PlaceSet) /\ Place \in PlaceSet
      /\ Reached(calls, Advanced, root, Append(out, Place))
  BY PassStep
<1>3. /\ Flat(root) \in Seq(PlaceSet) /\ Starts(out, Flat(root))
  BY StartStep
<1>4. Advanced \in Seq(Activation)
  BY <1>1, AdvancedParts
<1>5. Starts(Append(out, Place), FlatOf(calls)[root])
  BY <1>1, <1>2, <1>4, ReachedIsStart
<1>6. /\ Len(Append(out, Place)) = Len(out) + 1
      /\ Append(out, Place)[Len(out) + 1] = Place
  BY <1>2, AppendProperties
<1>7. Len(out) + 1 <= Len(Flat(root)) /\ Flat(root)[Len(out) + 1] = Place
  <2>1. Len(out) + 1 \in 1..(Len(out) + 1)
    BY <1>2
  <2> QED
    BY <1>5, <1>6, <2>1, FlatIs DEF Starts
<1>8. Len(out) + 1 \in DOMAIN Flat(root)
  BY <1>2, <1>3, <1>7
<1> QED
  BY <1>2, <1>3, <1>7, <1>8

-----------------------------------------------------------------------------
(* Searching for what \cowel_put asks for.                                 *)

LEMMA PositionalsTyped ==
    ASSUME NEW s \in Seq(PlaceSet)
    PROVE  /\ Positionals(s) \subseteq 1..Len(s) /\ Len(s) \in Nat
           /\ IsFiniteSet(Positionals(s)) /\ Cardinality(Positionals(s)) \in Nat
<1>1. Positionals(s) \subseteq 1..Len(s) /\ Len(s) \in Nat
  BY DEF Positionals
<1>2. IsFiniteSet(1..Len(s))
  BY <1>1, FS_Interval
<1>3. IsFiniteSet(Positionals(s))
  BY <1>1, <1>2, FS_Subset
<1> QED
  BY <1>1, <1>3, FS_CardinalityType

LEMMA CountNext ==
    ASSUME NEW s \in Seq(PlaceSet), NEW x \in PlaceSet
    PROVE  /\ Append(s, x) \in Seq(PlaceSet)
           /\ KindOf(x) = Positional =>
                Cardinality(Positionals(Append(s, x))) = Cardinality(Positionals(s)) + 1
           /\ KindOf(x) # Positional =>
                Positionals(Append(s, x)) = Positionals(s)
<1> HIDE DEF PlaceSet
<1>1. /\ Append(s, x) \in Seq(PlaceSet)
      /\ Len(Append(s, x)) = Len(s) + 1
      /\ \A i \in 1..Len(s) : Append(s, x)[i] = s[i]
      /\ Append(s, x)[Len(s) + 1] = x
  BY AppendProperties
<1>2. /\ Positionals(s) \subseteq 1..Len(s) /\ Len(s) \in Nat
      /\ IsFiniteSet(Positionals(s)) /\ Cardinality(Positionals(s)) \in Nat
  BY PositionalsTyped
<1>3. DOMAIN s = 1..Len(s) /\ DOMAIN Append(s, x) = 1..(Len(s) + 1)
  BY <1>1
<1> DEFINE t == Append(s, x)
<1> HIDE DEF t
<1>4. /\ Len(s) + 1 \notin 1..Len(s)
      /\ \A i \in 1..(Len(s) + 1) : i = Len(s) + 1 \/ i \in 1..Len(s)
      /\ \A i \in 1..Len(s) : i \in 1..(Len(s) + 1)
      /\ Len(s) + 1 \in 1..(Len(s) + 1)
  BY <1>2
<1>5. \A i \in 1..Len(s) : i \in Positionals(t) <=> i \in Positionals(s)
  BY <1>1, <1>3, <1>4 DEF Positionals, t
<1>6. Positionals(t) \subseteq 1..(Len(s) + 1)
  BY <1>3 DEF Positionals, t
<1>7. Len(s) + 1 \in Positionals(t) <=> KindOf(x) = Positional
  BY <1>1, <1>3, <1>4 DEF Positionals, t
<1>8. ASSUME KindOf(x) = Positional
      PROVE  Cardinality(Positionals(t)) = Cardinality(Positionals(s)) + 1
  <2>1. Positionals(t) = Positionals(s) \cup {Len(s) + 1}
    BY <1>2, <1>4, <1>5, <1>6, <1>7, <1>8
  <2>2. Len(s) + 1 \notin Positionals(s)
    BY <1>2, <1>4
  <2> QED
    BY <1>2, <2>1, <2>2, FS_AddElement
<1>9. ASSUME KindOf(x) # Positional PROVE Positionals(t) = Positionals(s)
  BY <1>2, <1>4, <1>5, <1>6, <1>7, <1>9
<1> QED
  BY <1>1, <1>8, <1>9 DEF t

LEMMA CountBefore ==
    ASSUME NEW s \in Seq(PlaceSet), NEW t \in Seq(PlaceSet), Starts(s, t)
    PROVE  Positionals(t) \cap 1..Len(s) = Positionals(s)
<1>1. /\ DOMAIN s = 1..Len(s) /\ DOMAIN t = 1..Len(t) /\ Len(s) \in Nat /\ Len(t) \in Nat
      /\ Len(s) <= Len(t) /\ \A i \in 1..Len(s) : t[i] = s[i]
  BY DEF Starts
<1>2. 1..Len(s) \subseteq 1..Len(t)
  BY <1>1
<1> QED
  BY <1>1, <1>2 DEF Positionals

PositionalSearch ==
    task = "positional" =>
        /\ current \in 1..Len(calls) /\ needle \in Nat /\ index \in Nat
        /\ walk # <<>> =>
            \E out \in Seq(PlaceSet) :
                /\ Reached(calls, walk, current, out)
                /\ Cardinality(Positionals(out)) = index /\ index <= needle
        /\ walk = <<>> => Cardinality(Positionals(Flat(current))) <= needle

HasForward(frame) ==
    \E i \in DOMAIN calls[frame].args : calls[frame].args[i] = Ellipsis

NamedSearch ==
    task = "named" =>
        /\ current \in 1..Len(calls) /\ needle \in ArgNames
        /\ walk # <<>> =>
            \E out \in Seq(PlaceSet) :
                /\ Reached(calls, walk, current, out)
                /\ \A i \in DOMAIN out : KindOf(out[i]) # needle
        /\ walk = <<>> =>
            \/ \A i \in DOMAIN Flat(current) : KindOf(Flat(current)[i]) # needle
            \/ HasForward(current)

(* While the call stack stays, so does all that depends on it.             *)
LEMMA CallsStay ==
    ASSUME calls' = calls
    PROVE  /\ \A s : Positionals(s)' = Positionals(s)
           /\ \A x : KindOf(x)' = KindOf(x)
           /\ \A f : Flat(f)' = Flat(f)
           /\ \A f : HasForward(f)' <=> HasForward(f)
  BY FlatIs DEF Positionals, KindOf, HasForward

LEMMA StartSearch == Inv /\ Inv' /\ PutArgument => PositionalSearch' /\ NamedSearch'
<1> SUFFICES ASSUME Inv, Inv', PutArgument PROVE PositionalSearch' /\ NamedSearch'
  OBVIOUS
<1>1. /\ current' = current /\ walk' = <<Started(current, 0)>> /\ index' = 0
      /\ Processing /\ current # 0 /\ needle' \in Needles
      /\ task' = IF needle' \in ArgNames THEN "named" ELSE "positional"
  BY DEF PutArgument
<1>2. Descending(calls') /\ Len(calls') \in Nat
  BY CallsDescendNext DEF Inv
<1>3. current \in 1..Len(calls')
  <2>1. current' <= Len(calls') /\ current' \in Nat
    BY <1>1 DEF Inv, FrameInv, FramesBelow, FrameTypes, Processing
  <2> QED
    BY <1>1, <1>2, <2>1
<1>4. Reached(calls', walk', current', <<>>)
  BY <1>1, <1>2, <1>3, ReachedStart
<1>5. walk' # <<>>
  BY <1>1
<1>6. <<>> \in Seq(PlaceSet) /\ DOMAIN <<>> = {} /\ Len(<<>>) = 0
  OBVIOUS
<1>7. Positionals(<<>>)' = {} /\ Cardinality({}) = 0
  BY <1>6, FS_EmptySet DEF Positionals
<1>8. needle' \in ArgNames \/ needle' \in Nat
  BY <1>1, MacroCallsAssumption
<1>9. PositionalSearch'
  <2>1. task' = "positional" => needle' \in Nat /\ index' = 0 /\ index' <= needle'
    BY <1>1, <1>8
  <2>2. Cardinality(Positionals(<<>>)') = 0
    BY <1>7
  <2> QED
    BY <1>1, <1>3, <1>4, <1>5, <1>6, <2>1, <2>2 DEF PositionalSearch
<1>10. NamedSearch'
  <2>1. task' = "named" => needle' \in ArgNames
    BY <1>1
  <2> QED
    BY <1>1, <1>3, <1>4, <1>5, <1>6, <2>1 DEF NamedSearch
<1> QED
  BY <1>9, <1>10

(* One step of a search: what it leaves, and what it finds.                *)
PositionalFound ==
    task = "positional" =>
        /\ found' # found =>
            \E i \in Positionals(Flat(current)) :
                /\ found' = Flat(current)[i]
                /\ Cardinality(Positionals(Flat(current)) \cap 1..(i - 1)) = needle
        /\ walk = <<>> => Cardinality(Positionals(Flat(current))) <= needle

NamedFound ==
    task = "named" =>
        /\ found' # found =>
            \E i \in DOMAIN Flat(current) :
                /\ found' = Flat(current)[i]
                /\ KindOf(Flat(current)[i]) = needle
                /\ \A j \in 1..(i - 1) : KindOf(Flat(current)[j]) # needle
        /\ walk = <<>> =>
            \/ \A i \in DOMAIN Flat(current) : KindOf(Flat(current)[i]) # needle
            \/ HasForward(current)

Searched == PositionalSearch /\ NamedSearch

LEMMA KindOfPlace == KindOf(Place) = Member
  BY DEF KindOf, Place, Member, Args

LEMMA PositionalPassed ==
    ASSUME Inv, PositionalSearch, Walking("positional"), ~AtEnd, Member # Ellipsis,
           Member = Positional => needle # index,
           index' = IF Member = Positional THEN index + 1 ELSE index,
           walk' = Advanced, UNCHANGED frames, UNCHANGED <<task, needle>>
    PROVE  Searched'
<1>1. PICK out \in Seq(PlaceSet) :
        /\ Reached(calls, walk, current, out)
        /\ Cardinality(Positionals(out)) = index /\ index <= needle
  BY DEF PositionalSearch, Walking
<1>2. current \in 1..Len(calls) /\ needle \in Nat /\ index \in Nat /\ walk # <<>>
  BY DEF PositionalSearch, Walking
<1>3. /\ Place \in PlaceSet /\ Reached(calls, Advanced, current, Append(out, Place))
  BY <1>1, <1>2, PassStep
<1>4. /\ Append(out, Place) \in Seq(PlaceSet)
      /\ Cardinality(Positionals(Append(out, Place))) = index'
      /\ index' \in Nat /\ index' <= needle
  <2>1. CASE Member = Positional
    <3>1. Cardinality(Positionals(Append(out, Place))) = Cardinality(Positionals(out)) + 1
      BY <1>1, <1>3, <2>1, CountNext, KindOfPlace
    <3>2. index + 1 <= needle
      BY <1>1, <1>2, <2>1
    <3> QED
      BY <1>1, <1>2, <1>3, <2>1, <3>1, <3>2, CountNext
  <2>2. CASE Member # Positional
    <3>1. Positionals(Append(out, Place)) = Positionals(out)
      BY <1>1, <1>3, <2>2, CountNext, KindOfPlace
    <3> QED
      BY <1>1, <1>2, <1>3, <2>2, <3>1, CountNext
  <2> QED
    BY <2>1, <2>2
<1>5. calls' = calls /\ current' = current /\ task' = "positional" /\ needle' = needle
  BY DEF frames, Walking
<1>6. walk' # <<>>
  <2>1. Len(Advanced) \in Nat \ {0}
    BY <1>2, AdvancedParts DEF Inv
  <2> QED
    BY <2>1
<1>7. PICK next : next = Append(out, Place)
  OBVIOUS
<1>8. /\ Reached(calls', walk', current', next) /\ next \in Seq(PlaceSet)
      /\ Cardinality(Positionals(next)') = index'
  BY <1>3, <1>4, <1>5, <1>7, CallsStay
<1>9. PositionalSearch'
  BY <1>2, <1>4, <1>5, <1>6, <1>8 DEF PositionalSearch
<1> QED
  BY <1>5, <1>9 DEF Searched, NamedSearch

LEMMA NamedPassed ==
    ASSUME Inv, NamedSearch, SkipOthers
    PROVE  Searched'
<1>1. /\ task = "named" /\ walk # <<>> /\ ~AtEnd /\ Member # needle /\ Member # Ellipsis
      /\ walk' = Advanced /\ calls' = calls /\ current' = current
      /\ task' = "named" /\ needle' = needle
  BY DEF SkipOthers, Walking, frames
<1>2. current \in 1..Len(calls) /\ needle \in ArgNames
  BY <1>1 DEF NamedSearch
<1>3. PICK out \in Seq(PlaceSet) :
        /\ Reached(calls, walk, current, out)
        /\ \A i \in DOMAIN out : KindOf(out[i]) # needle
  BY <1>1 DEF NamedSearch
<1>4. Place \in PlaceSet /\ Reached(calls, Advanced, current, Append(out, Place))
  BY <1>1, <1>2, <1>3, PassStep
<1>5. PICK next : next = Append(out, Place)
  OBVIOUS
<1>6. /\ next \in Seq(PlaceSet) /\ Len(next) = Len(out) + 1
      /\ \A i \in 1..Len(out) : next[i] = out[i]
      /\ next[Len(out) + 1] = Place
  <2> HIDE DEF PlaceSet
  <2> QED
    BY <1>4, <1>5, AppendProperties
<1>7. ASSUME NEW i \in DOMAIN next PROVE KindOf(next[i]) # needle
  <2>1. Len(out) \in Nat /\ DOMAIN out = 1..Len(out) /\ DOMAIN next = 1..(Len(out) + 1)
    BY <1>6
  <2>2. i = Len(out) + 1 \/ i \in 1..Len(out)
    BY <2>1
  <2> QED
    BY <1>1, <1>3, <1>6, <2>1, <2>2, KindOfPlace
<1>8. walk' # <<>>
  <2>1. Len(Advanced) \in Nat \ {0}
    BY <1>1, AdvancedParts DEF Inv
  <2> QED
    BY <1>1, <2>1
<1>9. Reached(calls', walk', current', next) /\ \A i \in DOMAIN next : KindOf(next[i])' # needle'
  BY <1>1, <1>4, <1>5, <1>7, CallsStay
<1>10. NamedSearch'
  BY <1>1, <1>2, <1>6, <1>8, <1>9 DEF NamedSearch
<1> QED
  BY <1>1, <1>10 DEF Searched, PositionalSearch

LEMMA EllipsisSearched ==
    ASSUME Inv, Searched, PutEllipsis
    PROVE  Searched'
<1>1. /\ task \in {"positional", "named"} /\ walk # <<>> /\ ~AtEnd /\ Member = Ellipsis
      /\ walk' = Expanded /\ calls' = calls /\ current' = current
      /\ task' = task /\ needle' = needle /\ index' = index
  BY DEF PutEllipsis, Walking, frames
<1>2. walk' # <<>>
  <2>1. Advanced \in Seq(Activation)
    BY <1>1, AdvancedParts DEF Inv
  <2> QED
    BY <1>1, <2>1 DEF Expanded
<1>3. PositionalSearch'
  <2>1. SUFFICES ASSUME task = "positional" PROVE PositionalSearch'
    BY <1>1 DEF PositionalSearch
  <2>2. /\ current \in 1..Len(calls) /\ needle \in Nat /\ index \in Nat
    BY <2>1 DEF Searched, PositionalSearch
  <2>3. PICK out \in Seq(PlaceSet) :
          /\ Reached(calls, walk, current, out)
          /\ Cardinality(Positionals(out)) = index /\ index <= needle
    BY <1>1, <2>1 DEF Searched, PositionalSearch
  <2>4. Reached(calls', walk', current', out)
    BY <1>1, <2>2, <2>3, ExpandStep
  <2>5. Cardinality(Positionals(out)') = index' /\ index' <= needle'
    BY <1>1, <2>3, CallsStay
  <2> QED
    BY <1>1, <1>2, <2>2, <2>4, <2>5 DEF PositionalSearch
<1>4. NamedSearch'
  <2>1. SUFFICES ASSUME task = "named" PROVE NamedSearch'
    BY <1>1 DEF NamedSearch
  <2>2. current \in 1..Len(calls) /\ needle \in ArgNames
    BY <2>1 DEF Searched, NamedSearch
  <2>3. PICK out \in Seq(PlaceSet) :
          /\ Reached(calls, walk, current, out)
          /\ \A i \in DOMAIN out : KindOf(out[i]) # needle
    BY <1>1, <2>1 DEF Searched, NamedSearch
  <2>4. Reached(calls', walk', current', out)
    BY <1>1, <2>2, <2>3, ExpandStep
  <2>5. \A i \in DOMAIN out : KindOf(out[i])' # needle'
    BY <1>1, <2>3, CallsStay
  <2> QED
    BY <1>1, <1>2, <2>2, <2>4, <2>5 DEF NamedSearch
<1> QED
  BY <1>3, <1>4 DEF Searched

(* A search for a position goes on behind the `...`, and so comes to the   *)
(* end of everything; one for a name may end before it has.                *)
LEMMA LeaveSearched ==
    ASSUME Inv, Searched, PutLeave
    PROVE  Searched'
<1>1. /\ task \in {"positional", "named"} /\ walk # <<>> /\ AtEnd
      /\ walk' = (IF task = "positional" THEN Left ELSE <<>>)
      /\ calls' = calls /\ current' = current
      /\ task' = task /\ needle' = needle /\ index' = index
  BY DEF PutLeave, Walking, frames
<1>2. walk \in Seq(Activation) /\ Len(walk) \in Nat \ {0}
  BY <1>1 DEF Inv, WalkOK
<1>3. PositionalSearch'
  <2>1. SUFFICES ASSUME task = "positional" PROVE PositionalSearch'
    BY <1>1 DEF PositionalSearch
  <2>2. /\ current \in 1..Len(calls) /\ needle \in Nat /\ index \in Nat
    BY <2>1 DEF Searched, PositionalSearch
  <2>3. PICK out \in Seq(PlaceSet) :
          /\ Reached(calls, walk, current, out)
          /\ Cardinality(Positionals(out)) = index /\ index <= needle
    BY <1>1, <2>1 DEF Searched, PositionalSearch
  <2>4. Cardinality(Positionals(out)') = index' /\ index' <= needle'
    BY <1>1, <2>3, CallsStay
  <2>a. Left \in Seq(Activation) /\ Len(Left) = Len(walk) - 1
    BY <1>2, FrontLemma DEF Left
  <2>5. CASE Len(walk) = 1
    <3>1. out = Flat(current)
      BY <1>1, <2>2, <2>3, <2>5, EndStep
    <3>2. walk' = <<>>
      <4>1. Len(Left) = 0
        BY <2>a, <2>5
      <4> QED
        BY <1>1, <2>1, <2>a, <4>1
    <3>3. Flat(current)' = Flat(current)
      BY <1>1, CallsStay
    <3>4. Positionals(Flat(current))' = Positionals(Flat(current))
      BY <1>1, <3>3 DEF Positionals, KindOf
    <3>5. Cardinality(Positionals(Flat(current)))' <= needle'
      BY <1>1, <2>3, <3>1, <3>4
    <3> QED
      BY <1>1, <2>2, <3>2, <3>5 DEF PositionalSearch
  <2>6. CASE Len(walk) # 1
    <3>1. Reached(calls', walk', current', out)
      BY <1>1, <2>1, <2>2, <2>3, <2>6, LeaveStep
    <3>2. walk' # <<>>
      <4>1. Len(Left) # 0
        BY <1>2, <2>a, <2>6
      <4> QED
        BY <1>1, <2>1, <4>1
    <3> QED
      BY <1>1, <2>2, <2>4, <3>1, <3>2 DEF PositionalSearch
  <2> QED
    BY <2>5, <2>6
<1>4. NamedSearch'
  <2>1. SUFFICES ASSUME task = "named" PROVE NamedSearch'
    BY <1>1 DEF NamedSearch
  <2>2. current \in 1..Len(calls) /\ needle \in ArgNames
    BY <2>1 DEF Searched, NamedSearch
  <2>3. PICK out \in Seq(PlaceSet) :
          /\ Reached(calls, walk, current, out)
          /\ \A i \in DOMAIN out : KindOf(out[i]) # needle
    BY <1>1, <2>1 DEF Searched, NamedSearch
  <2>4. walk' = <<>>
    BY <1>1, <2>1
  <2>5. \/ \A i \in DOMAIN Flat(current) : KindOf(Flat(current)[i]) # needle
        \/ HasForward(current)
    <3>1. CASE Len(walk) = 1
      BY <1>1, <2>2, <2>3, <3>1, EndStep
    <3>2. CASE Len(walk) # 1
      <4>1. Descending(calls)
        BY CallsDescend DEF Inv
      <4>2. PICK k \in 1..Len(calls[current].args) : calls[current].args[k] = Ellipsis
        BY <1>2, <2>2, <2>3, <3>2, <4>1, ReachedDeeper
      <4>3. calls[current].args \in Seq(Members)
        <5>1. calls[current] \in Call
          BY <2>2, <4>1 DEF Descending
        <5> QED
          BY <5>1 DEF Call
      <4>4. k \in DOMAIN calls[current].args
        BY <4>3
      <4> QED
        BY <4>2, <4>4 DEF HasForward
    <3> QED
      BY <3>1, <3>2
  <2> DEFINE Absent == \A i \in DOMAIN Flat(current) : KindOf(Flat(current)[i]) # needle
  <2>6. Absent' <=> Absent
    <3>1. Flat(current)' = Flat(current)
      BY <1>1, CallsStay
    <3>2. \A x : KindOf(x)' = KindOf(x)
      BY <1>1, CallsStay
    <3> QED
      BY <1>1, <3>1, <3>2
  <2>7. HasForward(current)' <=> HasForward(current)
    BY <1>1 DEF HasForward
  <2> QED
    BY <1>1, <2>2, <2>4, <2>5, <2>6, <2>7 DEF NamedSearch
<1> QED
  BY <1>3, <1>4 DEF Searched

LEMMA CountSearched ==
    ASSUME Inv, Searched, CountPositional \/ SkipNamed
    PROVE  Searched'
<1>1. /\ Walking("positional") /\ ~AtEnd /\ Member # Ellipsis
      /\ Member = Positional \/ Member # Positional
  BY MacroCallsAssumption DEF CountPositional, SkipNamed
<1>2. CASE CountPositional /\ needle = index
  <2>1. task' = "none"
    BY <1>2 DEF CountPositional, Deliver
  <2> QED
    BY <2>1 DEF Searched, PositionalSearch, NamedSearch
<1>3. CASE CountPositional /\ needle # index
  <2>1. /\ Member = Positional /\ index' = index + 1 /\ walk' = Advanced
        /\ UNCHANGED frames /\ UNCHANGED <<task, needle>>
    BY <1>3 DEF CountPositional
  <2> QED
    BY <1>1, <1>3, <2>1, PositionalPassed DEF Searched
<1>4. CASE SkipNamed
  <2>1. /\ Member # Positional /\ index' = index /\ walk' = Advanced
        /\ UNCHANGED frames /\ UNCHANGED <<task, needle>>
    BY <1>4, MacroCallsAssumption DEF SkipNamed
  <2> QED
    BY <1>1, <2>1, PositionalPassed DEF Searched
<1> QED
  BY <1>2, <1>3, <1>4

LEMMA SearchStep == Inv /\ Inv' /\ Searched /\ [Next]_vars => Searched'
<1> SUFFICES ASSUME Inv, Inv', Searched, [Next]_vars PROVE Searched'
  OBVIOUS
<1>1. CASE UNCHANGED vars
  <2>1. /\ calls' = calls /\ current' = current /\ task' = task /\ needle' = needle
        /\ index' = index /\ walk' = walk
    BY <1>1 DEF vars
  <2> QED
    BY <2>1, FlatIs DEF Searched, PositionalSearch, NamedSearch, Positionals, KindOf, HasForward
<1>2. CASE PutArgument
  BY <1>2, StartSearch DEF Searched
<1>3. CASE CountPositional \/ SkipNamed
  BY <1>3, CountSearched
<1>4. CASE FindNamed
  <2>1. task' = "none"
    BY <1>4 DEF FindNamed, Deliver
  <2> QED
    BY <2>1 DEF Searched, PositionalSearch, NamedSearch
<1>5. CASE SkipOthers
  BY <1>5, NamedPassed DEF Searched
<1>6. CASE PutEllipsis
  BY <1>6, EllipsisSearched
<1>7. CASE PutLeave
  BY <1>7, LeaveSearched
<1>8. CASE CallMacro \/ Return \/ PutBlock \/ StoreBlock \/ LoadBlock \/ CallBuiltin
           \/ UseArgument \/ PutNothing
  <2>1. task' \notin {"positional", "named"}
    BY <1>8 DEF CallMacro, Return, PutBlock, StoreBlock, LoadBlock, CallBuiltin,
       UseArgument, PutNothing, Processing
  <2> QED
    BY <2>1 DEF Searched, PositionalSearch, NamedSearch
<1>9. CASE MatchPositional \/ MatchAssertion \/ MatchIntoPack \/ MatchNamedPack \/ MatchNamed
           \/ MatchEllipsis \/ MatchLeave \/ MatchRefused \/ MatchMismatch \/ MatchEnd
  <2>1. task' \notin {"positional", "named"}
    BY <1>9 DEF MatchPositional, MatchAssertion, MatchIntoPack, MatchNamedPack, MatchNamed,
       MatchEllipsis, MatchLeave, MatchRefused, MatchMismatch, MatchEnd, Matching, Walking,
       Fail
  <2> QED
    BY <2>1 DEF Searched, PositionalSearch, NamedSearch
<1> QED
  BY <1>1, <1>2, <1>3, <1>4, <1>5, <1>6, <1>7, <1>8, <1>9 DEF Next, Traverse

LEMMA SearchInit == Init => Searched
  BY DEF Init, Searched, PositionalSearch, NamedSearch

LEMMA FoundByPosition == Inv /\ Searched /\ [Next]_vars => [PositionalFound]_vars
<1> SUFFICES ASSUME Inv, Searched, Next, task = "positional"
             PROVE  /\ found' # found =>
                        \E i \in Positionals(Flat(current)) :
                            /\ found' = Flat(current)[i]
                            /\ Cardinality(Positionals(Flat(current)) \cap 1..(i - 1)) = needle
                    /\ walk = <<>> => Cardinality(Positionals(Flat(current))) <= needle
  BY DEF PositionalFound
<1>1. walk = <<>> => Cardinality(Positionals(Flat(current))) <= needle
  BY DEF Searched, PositionalSearch
<1>2. ASSUME found' # found
      PROVE  \E i \in Positionals(Flat(current)) :
                /\ found' = Flat(current)[i]
                /\ Cardinality(Positionals(Flat(current)) \cap 1..(i - 1)) = needle
  <2>1. CountPositional
    BY <1>2 DEF Next, Traverse, CallMacro, Return, PutBlock, StoreBlock, LoadBlock, PutArgument,
       CallBuiltin, UseArgument, SkipNamed, FindNamed, SkipOthers, PutEllipsis, PutLeave,
       PutNothing, MatchPositional, MatchAssertion, MatchIntoPack, MatchNamedPack, MatchNamed,
       MatchEllipsis, MatchLeave, MatchRefused, MatchMismatch, MatchEnd, Matching, Walking,
       Processing
  <2>2. needle = index /\ found' = Place
    BY <1>2, <2>1 DEF CountPositional, Deliver
  <2>3. walk # <<>> /\ ~AtEnd /\ Member = Positional /\ Member # Ellipsis
    BY <2>1, MacroCallsAssumption DEF CountPositional, Walking
  <2>4. current \in 1..Len(calls)
    BY DEF Searched, PositionalSearch
  <2>5. PICK out \in Seq(PlaceSet) :
          /\ Reached(calls, walk, current, out)
          /\ Cardinality(Positionals(out)) = index /\ index <= needle
    BY <2>3 DEF Searched, PositionalSearch
  <2> DEFINE flat == Flat(current)
             i == Len(out) + 1
  <2>6. /\ flat \in Seq(PlaceSet) /\ Starts(out, flat)
        /\ i \in DOMAIN flat /\ flat[i] = Place
    BY <2>3, <2>4, <2>5, NextInFlat
  <2>7. i \in Positionals(flat)
    BY <2>3, <2>6, KindOfPlace DEF Positionals
  <2>8. i - 1 = Len(out)
    OBVIOUS
  <2>9. Positionals(flat) \cap 1..Len(out) = Positionals(out)
    BY <2>5, <2>6, CountBefore
  <2> HIDE DEF flat, i
  <2>10. Cardinality(Positionals(flat) \cap 1..(i - 1)) = needle
    BY <2>2, <2>5, <2>8, <2>9
  <2> QED
    BY <2>2, <2>6, <2>7, <2>10 DEF flat
<1> QED
  BY <1>1, <1>2

LEMMA FoundByName == Inv /\ Searched /\ [Next]_vars => [NamedFound]_vars
<1> SUFFICES ASSUME Inv, Searched, Next, task = "named"
             PROVE  /\ found' # found =>
                        \E i \in DOMAIN Flat(current) :
                            /\ found' = Flat(current)[i]
                            /\ KindOf(Flat(current)[i]) = needle
                            /\ \A j \in 1..(i - 1) : KindOf(Flat(current)[j]) # needle
                    /\ walk = <<>> =>
                        \/ \A i \in DOMAIN Flat(current) : KindOf(Flat(current)[i]) # needle
                        \/ HasForward(current)
  BY DEF NamedFound
<1>1. walk = <<>> =>
        \/ \A i \in DOMAIN Flat(current) : KindOf(Flat(current)[i]) # needle
        \/ HasForward(current)
  BY DEF Searched, NamedSearch
<1>2. ASSUME found' # found
      PROVE  \E i \in DOMAIN Flat(current) :
                /\ found' = Flat(current)[i]
                /\ KindOf(Flat(current)[i]) = needle
                /\ \A j \in 1..(i - 1) : KindOf(Flat(current)[j]) # needle
  <2>1. FindNamed
    BY <1>2 DEF Next, Traverse, CallMacro, Return, PutBlock, StoreBlock, LoadBlock, PutArgument,
       CallBuiltin, UseArgument, SkipNamed, CountPositional, SkipOthers, PutEllipsis, PutLeave,
       PutNothing, MatchPositional, MatchAssertion, MatchIntoPack, MatchNamedPack, MatchNamed,
       MatchEllipsis, MatchLeave, MatchRefused, MatchMismatch, MatchEnd, Matching, Walking,
       Processing
  <2>2. current \in 1..Len(calls) /\ needle \in ArgNames
    BY DEF Searched, NamedSearch
  <2>3. walk # <<>> /\ ~AtEnd /\ Member = needle /\ Member # Ellipsis /\ found' = Place
    BY <2>1, <2>2, MacroCallsAssumption DEF FindNamed, Walking, Deliver
  <2>4. PICK out \in Seq(PlaceSet) :
          /\ Reached(calls, walk, current, out)
          /\ \A i \in DOMAIN out : KindOf(out[i]) # needle
    BY <2>3 DEF Searched, NamedSearch
  <2> DEFINE flat == Flat(current)
             i == Len(out) + 1
  <2>5. /\ flat \in Seq(PlaceSet) /\ Starts(out, flat)
        /\ i \in DOMAIN flat /\ flat[i] = Place
    BY <2>2, <2>3, <2>4, NextInFlat
  <2>6. KindOf(flat[i]) = needle
    BY <2>3, <2>5, KindOfPlace
  <2>7. ASSUME NEW j \in 1..(i - 1) PROVE KindOf(flat[j]) # needle
    <3>1. j \in 1..Len(out) /\ j \in DOMAIN out
      OBVIOUS
    <3>2. flat[j] = out[j]
      BY <2>5, <3>1 DEF Starts
    <3> QED
      BY <2>4, <3>1, <3>2
  <2> HIDE DEF flat, i
  <2> QED
    BY <2>3, <2>5, <2>6, <2>7 DEF flat
<1> QED
  BY <1>1, <1>2

(* \cowel_put{i} finds the argument that is the i-th positional one of the *)
(* invocation's arguments with every `...` replaced, and reports none only *)
(* if there are not that many; \cowel_put{name} finds the first of that    *)
(* name, and reports none only if there is none or the invocation has a    *)
(* `...`: Put_Positional and Put_Named see through `...` in the same way.  *)
THEOREM ArgumentsAreFound == Spec => ArgumentsFound
<1>1. Inv /\ Inv' /\ Searched /\ [Next]_vars =>
        [PositionalFound]_vars /\ [NamedFound]_vars
  BY FoundByPosition, FoundByName
<1>2. Inv /\ Inv' /\ Searched /\ [Next]_vars =>
        /\ [task = "positional" =>
            LET flat == Flat(current)
            IN  /\ found' # found =>
                    \E i \in Positionals(flat) :
                        /\ found' = flat[i]
                        /\ Cardinality(Positionals(flat) \cap 1..(i - 1)) = needle
                /\ walk = <<>> => Cardinality(Positionals(flat)) <= needle]_vars
        /\ [task = "named" =>
            LET flat == Flat(current)
            IN  /\ found' # found =>
                    \E i \in DOMAIN flat :
                        /\ found' = flat[i]
                        /\ KindOf(flat[i]) = needle
                        /\ \A j \in 1..(i - 1) : KindOf(flat[j]) # needle
                /\ walk = <<>> =>
                    \/ \A i \in DOMAIN flat : KindOf(flat[i]) # needle
                    \/ \E i \in DOMAIN calls[current].args :
                            calls[current].args[i] = Ellipsis]_vars
  BY <1>1 DEF PositionalFound, NamedFound, HasForward
<1> QED
  BY InvInit, InvStep, SearchInit, SearchStep, <1>2, PTL
     DEF Spec, ArgumentsFound, PositionalIsFlattened, NamedIsFirst

-----------------------------------------------------------------------------
(* Matching the arguments of a built-in directive.                         *)

MatchTypes ==
    /\ serial \in 0..MaxCalls
    /\ task \in Tasks
    /\ index \in Nat
    /\ needle \in Nat \cup ArgNames \cup {None}
    /\ found \in PlaceSet \cup {None}
    /\ slots \in [DOMAIN params -> {"free", "arg", "block"}]
    /\ mode \in {"normal", "named_only", "pack_positional", "pack_named"}

LEMMA MatchTypesInit == Init => MatchTypes
  BY MacroCallsAssumption DEF Init, MatchTypes, Tasks

LEMMA IdleTypes == Idle => /\ index' \in Nat
                           /\ needle' \in Nat \cup ArgNames \cup {None}
                           /\ found' \in PlaceSet \cup {None}
                           /\ slots' \in [DOMAIN params' -> {"free", "arg", "block"}]
                           /\ mode' \in {"normal", "named_only", "pack_positional", "pack_named"}
<1> SUFFICES ASSUME Idle PROVE /\ index' \in Nat
                           /\ needle' \in Nat \cup ArgNames \cup {None}
                           /\ found' \in PlaceSet \cup {None}
                           /\ slots' \in [DOMAIN params' -> {"free", "arg", "block"}]
                           /\ mode' \in {"normal", "named_only", "pack_positional", "pack_named"}
  OBVIOUS
<1>1. index' = 0 /\ needle' = None /\ found' = None /\ params' = <<>> /\ slots' = <<>>
      /\ mode' = "normal"
  BY DEF Idle
<1>2. <<>> \in [DOMAIN <<>> -> {"free", "arg", "block"}]
  OBVIOUS
<1> QED
  BY <1>1, <1>2

LEMMA SerialNext ==
    ASSUME MatchTypes, Processing, serial' = serial + 1
    PROVE  serial' \in 0..MaxCalls
  BY MacroCallsAssumption DEF MatchTypes, Processing

LEMMA SlotsNext ==
    ASSUME MatchTypes, NEW p, params' = params, slots' = [slots EXCEPT ![p] = "arg"]
    PROVE  slots' \in [DOMAIN params' -> {"free", "arg", "block"}]
  BY DEF MatchTypes

LEMMA MatchTypesStep == Inv /\ MatchTypes /\ [Next]_vars => MatchTypes'
<1> SUFFICES ASSUME Inv, MatchTypes, [Next]_vars PROVE MatchTypes'
  OBVIOUS
<1>1. CASE UNCHANGED vars
  BY <1>1 DEF vars, MatchTypes
<1>2. CASE CallMacro \/ PutBlock \/ LoadBlock
  <2>1. /\ Processing /\ serial' = serial + 1 /\ Idle
        /\ task' = task \/ task' \in {"none", "stale"}
    BY <1>2 DEF CallMacro, PutBlock, LoadBlock, Push
  <2> QED
    BY <2>1, SerialNext, IdleTypes DEF MatchTypes, Tasks
<1>3. CASE Return \/ StoreBlock \/ UseArgument
  <2>1. /\ serial' = serial /\ Idle
        /\ task' = task \/ task' = "none"
    BY <1>3 DEF Return, StoreBlock, UseArgument
  <2> QED
    BY <2>1, IdleTypes DEF MatchTypes, Tasks
<1>4. CASE PutArgument
  <2>1. /\ Processing /\ serial' = serial + 1
        /\ index' = 0 /\ found' = None /\ params' = <<>> /\ slots' = <<>> /\ mode' = "normal"
        /\ task' \in {"named", "positional"} /\ needle' \in Needles
    BY <1>4 DEF PutArgument, Push
  <2>2. <<>> \in [DOMAIN <<>> -> {"free", "arg", "block"}]
    OBVIOUS
  <2> QED
    BY <2>1, <2>2, SerialNext, MacroCallsAssumption DEF MatchTypes, Tasks, Traversals
<1>5. CASE CallBuiltin
  <2>1. /\ Processing /\ serial' = serial + 1
        /\ index' = 0 /\ found' = None /\ mode' = "normal" /\ needle' = None
        /\ task' \in {"failed", "matching"}
    BY <1>5 DEF CallBuiltin, Push
  <2>2. PICK block \in BOOLEAN, list \in ParameterLists :
          /\ params' = list
          /\ slots' = [i \in DOMAIN list |->
                         IF block /\ i = Len(list) THEN "block" ELSE "free"]
    BY <1>5 DEF CallBuiltin
  <2>3. slots' \in [DOMAIN params' -> {"free", "arg", "block"}]
    BY <2>2
  <2> QED
    BY <2>1, <2>3, SerialNext, MacroCallsAssumption DEF MatchTypes, Tasks, Traversals
<1>6. CASE CountPositional \/ SkipNamed \/ FindNamed \/ SkipOthers \/ PutEllipsis \/ PutLeave
           \/ PutNothing
  <2>1. /\ serial' = serial /\ UNCHANGED matching
        /\ task' \in Tasks
    BY <1>6 DEF CountPositional, SkipNamed, FindNamed, SkipOthers, PutEllipsis, PutLeave,
       PutNothing, Deliver, frames, MatchTypes, Tasks
  <2>2. index' = index \/ index' = 0 \/ index' = index + 1
    BY <1>6 DEF CountPositional, SkipNamed, FindNamed, SkipOthers, PutEllipsis, PutLeave,
       PutNothing, Deliver
  <2>3. needle' = needle \/ needle' = None
    BY <1>6 DEF CountPositional, SkipNamed, FindNamed, SkipOthers, PutEllipsis, PutLeave,
       PutNothing, Deliver
  <2>4. found' \in PlaceSet \cup {None}
    <3>1. CASE found' = found
      BY <3>1 DEF MatchTypes
    <3>2. CASE found' # found
      <4>1. walk # <<>> /\ found' = Place
        BY <1>6, <3>2 DEF CountPositional, SkipNamed, FindNamed, SkipOthers, PutEllipsis,
           PutLeave, PutNothing, Deliver, Walking
      <4>2. Place \in PlaceSet
        BY <4>1, WalkTop DEF Inv, Place, Activation, PlaceSet
      <4> QED
        BY <4>1, <4>2
    <3> QED
      BY <3>1, <3>2
  <2> QED
    BY <2>1, <2>2, <2>3, <2>4 DEF MatchTypes, matching
<1>7. CASE MatchPositional \/ MatchAssertion \/ MatchIntoPack \/ MatchNamedPack \/ MatchNamed
           \/ MatchEllipsis \/ MatchLeave \/ MatchRefused \/ MatchMismatch \/ MatchEnd
  <2>1. MatchKeeps
    BY <1>7 DEF MatchPositional, MatchAssertion, MatchIntoPack, MatchNamedPack, MatchNamed,
       MatchEllipsis, MatchLeave, MatchRefused, MatchMismatch, MatchEnd, Fail
  <2>2. serial' = serial /\ index' = index /\ needle' = needle /\ found' = found
        /\ params' = params
    BY <2>1 DEF MatchKeeps, frames
  <2>3. task' \in Tasks
    BY <1>7 DEF MatchPositional, MatchAssertion, MatchIntoPack, MatchNamedPack, MatchNamed,
       MatchEllipsis, MatchLeave, MatchRefused, MatchMismatch, MatchEnd, Fail, MatchTypes, Tasks
  <2>4. slots' = slots \/ \E p : slots' = [slots EXCEPT ![p] = "arg"]
    BY <1>7 DEF MatchPositional, MatchAssertion, MatchIntoPack, MatchNamedPack, MatchNamed,
       MatchEllipsis, MatchLeave, MatchRefused, MatchMismatch, MatchEnd, Fail
  <2>5. mode' = mode \/ mode' \in {"pack_positional", "pack_named", "named_only"}
    BY <1>7 DEF MatchPositional, MatchAssertion, MatchIntoPack, MatchNamedPack, MatchNamed,
       MatchEllipsis, MatchLeave, MatchRefused, MatchMismatch, MatchEnd, Fail
  <2>6. slots' \in [DOMAIN params' -> {"free", "arg", "block"}]
    BY <2>2, <2>4, SlotsNext DEF MatchTypes
  <2> QED
    BY <2>2, <2>3, <2>5, <2>6 DEF MatchTypes
<1> QED
  BY <1>1, <1>2, <1>3, <1>4, <1>5, <1>6, <1>7 DEF Next, Traverse

Binding == [param : Nat, arg : PlaceSet]

(* The places of the arguments that have been bound: the block has none.   *)
ArgumentsIn(b) == IF b # <<>> /\ b[1].arg[2] = 0 THEN Tail(b) ELSE b
PlacesIn(b) == [i \in DOMAIN ArgumentsIn(b) |-> ArgumentsIn(b)[i].arg]

LEMMA ArgumentsAppend ==
    ASSUME NEW b \in Seq(Binding), NEW x \in Binding, x.arg[2] # 0
    PROVE  /\ ArgumentsIn(b) \in Seq(Binding)
           /\ ArgumentsIn(Append(b, x)) = Append(ArgumentsIn(b), x)
<1> HIDE DEF Binding
<1>1. /\ Append(b, x) \in Seq(Binding) /\ Len(Append(b, x)) = Len(b) + 1
      /\ \A i \in 1..Len(b) : Append(b, x)[i] = b[i]
      /\ Append(b, x)[Len(b) + 1] = x
  BY AppendProperties
<1>2. Len(b) \in Nat /\ Append(b, x) # <<>>
  BY <1>1
<1>3. CASE b = <<>>
  <2>1. Append(b, x)[1] = x
    BY <1>1, <1>3
  <2> QED
    BY <1>3, <2>1 DEF ArgumentsIn
<1>4. CASE b # <<>> /\ b[1].arg[2] = 0
  <2>1. Append(b, x)[1] = b[1]
    BY <1>1, <1>2, <1>4
  <2>2. Tail(b) \in Seq(Binding)
    BY <1>4
  <2>3. Tail(Append(b, x)) = Append(Tail(b), x)
    BY <1>4
  <2> QED
    BY <1>2, <1>4, <2>1, <2>2, <2>3 DEF ArgumentsIn
<1>5. CASE b # <<>> /\ b[1].arg[2] # 0
  <2>1. Append(b, x)[1] = b[1]
    BY <1>1, <1>2, <1>5
  <2> QED
    BY <1>2, <1>5, <2>1 DEF ArgumentsIn
<1> QED
  BY <1>3, <1>4, <1>5

LEMMA PlacesAppend ==
    ASSUME NEW b \in Seq(Binding), NEW x \in Binding, x.arg[2] # 0
    PROVE  PlacesIn(Append(b, x)) = Append(PlacesIn(b), x.arg)
<1> DEFINE a == ArgumentsIn(b)
           p == PlacesIn(b)
           q == PlacesIn(Append(b, x))
<1>1. a \in Seq(Binding) /\ ArgumentsIn(Append(b, x)) = Append(a, x)
  BY ArgumentsAppend
<1>2. p = [i \in DOMAIN a |-> a[i].arg]
      /\ q = [i \in DOMAIN Append(a, x) |-> Append(a, x)[i].arg]
  BY <1>1 DEF PlacesIn
<1>3. x.arg \in PlaceSet /\ \A y \in Binding : y.arg \in PlaceSet
  BY DEF Binding
<1> HIDE DEF a, p, q, Binding, PlaceSet
<1>4. /\ DOMAIN a = 1..Len(a) /\ Len(a) \in Nat
      /\ Len(Append(a, x)) = Len(a) + 1 /\ DOMAIN Append(a, x) = 1..(Len(a) + 1)
      /\ \A i \in 1..Len(a) : Append(a, x)[i] = a[i]
      /\ Append(a, x)[Len(a) + 1] = x
  BY <1>1, AppendProperties
<1>5. p \in Seq(PlaceSet) /\ Len(p) = Len(a)
  <2>1. \A i \in 1..Len(a) : a[i] \in Binding
    BY <1>1
  <2>2. p = [i \in 1..Len(a) |-> a[i].arg] /\ \A i \in 1..Len(a) : a[i].arg \in PlaceSet
    BY <1>2, <1>3, <1>4, <2>1
  <2>3. p \in [1..Len(a) -> PlaceSet]
    BY <2>2
  <2> QED
    BY <1>4, <2>3, SeqDef, LenProperties
<1>6. /\ Append(p, x.arg) \in Seq(PlaceSet) /\ Len(Append(p, x.arg)) = Len(a) + 1
      /\ \A i \in 1..Len(a) : Append(p, x.arg)[i] = p[i]
      /\ Append(p, x.arg)[Len(a) + 1] = x.arg
  BY <1>3, <1>5, AppendProperties
<1>7. \A i \in 1..(Len(a) + 1) : i = Len(a) + 1 \/ i \in 1..Len(a)
  BY <1>4
<1>8. \A i \in 1..(Len(a) + 1) : q[i] = Append(p, x.arg)[i]
  BY <1>2, <1>4, <1>6, <1>7
<1>9. q = [i \in 1..(Len(a) + 1) |-> q[i]]
  BY <1>2, <1>4
<1>10. Append(p, x.arg) = [i \in 1..(Len(a) + 1) |-> Append(p, x.arg)[i]]
  BY <1>6
<1>11. q = Append(p, x.arg)
  BY <1>8, <1>9, <1>10
<1> QED
  BY <1>11 DEF q, p

LEMMA PlacesOfBlock ==
    ASSUME NEW p, NEW f
    PROVE  /\ PlacesIn(<<>>) = <<>>
           /\ PlacesIn(<<[param |-> p, arg |-> <<f, 0>>]>>) = <<>>
<1> DEFINE x == [param |-> p, arg |-> <<f, 0>>]
<1>1. x.arg[2] = 0
  OBVIOUS
<1> HIDE DEF x
<1>2. <<x>> # <<>> /\ <<x>>[1] = x /\ Tail(<<x>>) = <<>>
  OBVIOUS
<1>3. ArgumentsIn(<<>>) = <<>> /\ ArgumentsIn(<<x>>) = <<>>
  BY <1>1, <1>2 DEF ArgumentsIn
<1>4. DOMAIN <<>> = {} /\ [i \in {} |-> <<>>[i].arg] = <<>>
  OBVIOUS
<1> QED
  BY <1>3, <1>4 DEF PlacesIn, x

MatchTasks == {"matching", "matched", "assertion"}

(* What has been bound is what the traversal has gone through, in order.   *)
InOrder ==
    task \in MatchTasks =>
        /\ Len(calls) # 0
        /\ \A k \in DOMAIN bound : k # 1 => bound[k].arg[2] # 0
        /\ task = "matching" =>
            /\ Reached(calls, walk, Len(calls), PlacesIn(bound))
            /\ walk[1].base = 0
        /\ task = "matched" => PlacesIn(bound) = Flat(Len(calls))

(* The outermost activation keeps its base.                                *)
LEMMA BaseStays ==
    ASSUME WalkOK(walk), walk # <<>>
    PROVE  /\ Advanced[1].base = walk[1].base
           /\ Expanded[1].base = walk[1].base
           /\ Len(walk) # 1 => Left[1] = walk[1]
           /\ Len(walk) \in Nat \ {0} /\ Len(Advanced) = Len(walk)
<1>1. /\ walk \in Seq(Activation) /\ Advanced \in Seq(Activation)
      /\ Len(walk) \in Nat \ {0} /\ Len(Advanced) = Len(walk)
      /\ \A i \in 1..(Len(walk) - 1) : Advanced[i] = walk[i]
      /\ Advanced[Len(walk)].base = walk[Len(walk)].base
  BY AdvancedParts
<1>2. Advanced[1].base = walk[1].base
  <2>1. Len(walk) # 1 => 1 \in 1..(Len(walk) - 1)
    BY <1>1
  <2> QED
    BY <1>1, <2>1
<1>3. Expanded[1] = Advanced[1]
  <2> DEFINE new == Started(calls[Top.frame].parent, Top.base + Top.pos - 1)
  <2>1. Expanded = Append(Advanced, new)
    BY DEF Expanded
  <2> HIDE DEF new
  <2>2. 1 \in 1..Len(Advanced)
    BY <1>1
  <2> QED
    BY <1>1, <2>1, <2>2
<1>4. Len(walk) # 1 => Left[1] = walk[1]
  <2>1. \A i \in 1..(Len(walk) - 1) : Left[i] = walk[i]
    BY <1>1, FrontLemma DEF Left
  <2>2. Len(walk) # 1 => 1 \in 1..(Len(walk) - 1)
    BY <1>1
  <2> QED
    BY <2>1, <2>2
<1> QED
  BY <1>1, <1>2, <1>3, <1>4

(* Nothing else touches a matching, which ends with its call.              *)
MatchSteps ==
    MatchPositional \/ MatchAssertion \/ MatchIntoPack \/ MatchNamedPack \/ MatchNamed
    \/ MatchEllipsis \/ MatchLeave \/ MatchRefused \/ MatchMismatch \/ MatchEnd

LEMMA OtherSteps ==
    ASSUME Next
    PROVE  MatchSteps \/ CallBuiltin \/ task' \notin MatchTasks
  BY DEF Next, Traverse, CallMacro, Return, PutBlock, StoreBlock, LoadBlock, PutArgument,
     UseArgument, CountPositional, SkipNamed, FindNamed, SkipOthers, PutEllipsis, PutLeave,
     PutNothing, Deliver, Walking, Processing, MatchTasks, MatchSteps

LEMMA MatchStepsKeep ==
    ASSUME MatchSteps
    PROVE  /\ task = "matching" /\ walk # <<>>
           /\ calls' = calls /\ params' = params
  BY DEF MatchSteps, MatchPositional, MatchAssertion, MatchIntoPack, MatchNamedPack, MatchNamed,
     MatchEllipsis, MatchLeave, MatchRefused, MatchMismatch, MatchEnd, Fail, MatchKeeps,
     frames, Matching, Walking

LEMMA StartBuiltin ==
    ASSUME Inv, Inv', CallBuiltin, task' \in MatchTasks
    PROVE  /\ task' = "matching" /\ Len(calls') \in Nat \ {0}
           /\ walk' = <<Started(Len(calls'), 0)>>
           /\ mode' = "normal"
           /\ \/ bound' = <<>>
              \/ /\ Len(params') \in DOMAIN params'
                 /\ bound' = <<[param |-> Len(params'), arg |-> <<Len(calls'), 0>>]>>
                 /\ slots'[Len(params')] = "block"
           /\ \A p \in DOMAIN params' : slots'[p] # "arg"
<1>1. PICK args \in ArgLists, block \in BOOLEAN, list \in ParameterLists :
        /\ Push(args, block)
        /\ params' = list
        /\ slots' = [i \in DOMAIN list |->
                        IF block /\ i = Len(list) THEN "block" ELSE "free"]
        /\ bound' = IF block /\ list # <<>>
                    THEN <<[param |-> Len(list), arg |-> <<Len(calls) + 1, 0>>]>>
                    ELSE <<>>
  BY DEF CallBuiltin
<1>2. task' = "matching"
  BY DEF CallBuiltin, MatchTasks
<1>3. walk' = <<Started(Len(calls) + 1, 0)>> /\ mode' = "normal"
  BY <1>2 DEF CallBuiltin
<1>4. Len(calls') = Len(calls) + 1 /\ Len(calls) \in Nat
  <2>1. calls \in Seq(Call) /\ calls' \in Seq(Call)
    BY DEF Inv, FrameInv, FrameTypes
  <2> HIDE DEF Call
  <2>2. Len(calls) \in Nat
    BY <2>1
  <2>3. PICK new : calls' = Append(calls, new)
    BY <1>1 DEF Push
  <2> QED
    BY <2>1, <2>2, <2>3
<1>5. list \in Seq(Parameter)
  BY MacroCallsAssumption
<1>6. list # <<>> => Len(list) \in DOMAIN list
  BY <1>5
<1>7. block /\ list # <<>> => slots'[Len(list)] = "block"
  BY <1>1, <1>6
<1> QED
  BY <1>1, <1>2, <1>3, <1>4, <1>6, <1>7

LEMMA InOrderStart ==
    ASSUME Inv, Inv', CallBuiltin, task' \in MatchTasks
    PROVE  InOrder'
<1>1. /\ task' = "matching" /\ Len(calls') \in Nat \ {0}
      /\ walk' = <<Started(Len(calls'), 0)>>
      /\ \/ bound' = <<>>
         \/ bound' = <<[param |-> Len(params'), arg |-> <<Len(calls'), 0>>]>>
  BY StartBuiltin
<1>2. PlacesIn(bound') = <<>> /\ \A k \in DOMAIN bound' : k = 1
  <2>1. CASE bound' = <<>>
    <3>1. PlacesIn(bound') = <<>>
      BY <2>1, PlacesOfBlock
    <3>2. DOMAIN bound' = {}
      BY <2>1
    <3> QED
      BY <3>1, <3>2
  <2>2. CASE bound' = <<[param |-> Len(params'), arg |-> <<Len(calls'), 0>>]>>
    <3>1. PlacesIn(bound') = <<>>
      BY <2>2, PlacesOfBlock
    <3> DEFINE x == [param |-> Len(params'), arg |-> <<Len(calls'), 0>>]
    <3>2. bound' = <<x>>
      BY <2>2
    <3> HIDE DEF x
    <3>3. DOMAIN <<x>> = 1..1 /\ \A k \in 1..1 : k = 1
      OBVIOUS
    <3> QED
      BY <3>1, <3>2, <3>3
  <2> QED
    BY <1>1, <2>1, <2>2
<1>3. Reached(calls', walk', Len(calls'), <<>>)
  <2>1. Descending(calls')
    BY CallsDescendNext DEF Inv
  <2>2. Len(calls') \in 1..Len(calls')
    BY <1>1
  <2> QED
    BY <1>1, <2>1, <2>2, ReachedStart
<1>4. walk'[1].base = 0
  BY <1>1 DEF Started
<1> QED
  BY <1>1, <1>2, <1>3, <1>4 DEF InOrder, MatchTasks

(* An argument is bound where the traversal is, which moves on.            *)
LEMMA InOrderBind ==
    ASSUME Inv, InOrder, Matching, ~AtEnd, Member # Ellipsis,
           NEW p \in Nat, Bind(p), walk' = Advanced, calls' = calls, task' = task
    PROVE  InOrder'
<1>1. task = "matching" /\ walk # <<>>
  BY DEF Matching, Walking
<1>2. /\ Len(calls) # 0 /\ \A k \in DOMAIN bound : k # 1 => bound[k].arg[2] # 0
      /\ Reached(calls, walk, Len(calls), PlacesIn(bound)) /\ walk[1].base = 0
  BY <1>1 DEF InOrder, MatchTasks
<1>3. Len(calls) \in 1..Len(calls)
  BY <1>2, CallsDescend DEF Inv
<1>4. /\ Place \in PlaceSet
      /\ Reached(calls, Advanced, Len(calls), Append(PlacesIn(bound), Place))
  BY <1>1, <1>2, <1>3, PassStep
<1>5. Place[2] # 0 /\ Place[2] = Top.pos
  BY <1>1, WalkTop DEF Inv, Place, Activation
<1> DEFINE x == [param |-> p, arg |-> Place]
<1>6. x \in Binding /\ x.arg = Place
  BY <1>4 DEF Binding
<1>7. bound \in Seq(Binding) /\ bound' = Append(bound, x)
  BY DEF Inv, BoundOK, Bind, Binding, PlaceSet
<1> HIDE DEF x
<1>8. PlacesIn(bound') = Append(PlacesIn(bound), Place)
  BY <1>5, <1>6, <1>7, PlacesAppend
<1>9. ASSUME NEW k \in DOMAIN bound', k # 1 PROVE bound'[k].arg[2] # 0
  <2> HIDE DEF Binding
  <2>1. /\ Len(bound') = Len(bound) + 1 /\ Len(bound) \in Nat
        /\ DOMAIN bound' = 1..(Len(bound) + 1) /\ DOMAIN bound = 1..Len(bound)
        /\ \A i \in 1..Len(bound) : bound'[i] = bound[i]
        /\ bound'[Len(bound) + 1] = x
    BY <1>6, <1>7, AppendProperties
  <2>2. k = Len(bound) + 1 \/ k \in 1..Len(bound)
    BY <2>1
  <2> QED
    BY <1>2, <1>5, <1>6, <1>9, <2>1, <2>2
<1>10. walk'[1].base = 0
  BY <1>1, <1>2, BaseStays DEF Inv
<1> QED
  BY <1>1, <1>2, <1>4, <1>8, <1>9, <1>10 DEF InOrder, MatchTasks

LEMMA InOrderMove ==
    ASSUME Inv, InOrder, MatchEllipsis \/ MatchLeave \/ MatchEnd
    PROVE  InOrder'
<1>1. /\ task = "matching" /\ walk # <<>> /\ calls' = calls /\ bound' = bound
  BY DEF MatchEllipsis, MatchLeave, MatchEnd, Matching, Walking, MatchKeeps, frames
<1>2. /\ Len(calls) # 0 /\ \A k \in DOMAIN bound : k # 1 => bound[k].arg[2] # 0
      /\ Reached(calls, walk, Len(calls), PlacesIn(bound)) /\ walk[1].base = 0
  BY <1>1 DEF InOrder, MatchTasks
<1>3. Len(calls) \in 1..Len(calls)
  BY <1>2, CallsDescend DEF Inv
<1>4. WalkOK(walk) /\ Len(walk) \in Nat \ {0}
  BY <1>1, BaseStays DEF Inv
<1>5. CASE MatchEllipsis
  <2>1. ~AtEnd /\ Member = Ellipsis /\ walk' = Expanded /\ task' = task
    BY <1>5 DEF MatchEllipsis
  <2>2. Reached(calls, Expanded, Len(calls), PlacesIn(bound))
    BY <1>1, <1>2, <1>3, <2>1, ExpandStep
  <2>3. walk'[1].base = 0
    BY <1>1, <1>2, <1>4, <2>1, BaseStays
  <2> QED
    BY <1>1, <1>2, <2>1, <2>2, <2>3 DEF InOrder, MatchTasks
<1>6. CASE MatchLeave
  <2>a. AtEnd /\ Len(walk) > 1 /\ walk' = Left /\ task' = task
    BY <1>6 DEF MatchLeave
  <2>b. \A n \in Nat : n > 1 => n # 1
    OBVIOUS
  <2>1. AtEnd /\ Len(walk) # 1 /\ walk' = Left /\ task' = task
    BY <1>4, <2>a, <2>b, Zenon
  <2>2. Reached(calls, Left, Len(calls), PlacesIn(bound))
    BY <1>1, <1>2, <1>3, <2>1, LeaveStep
  <2>3. walk'[1].base = 0
    BY <1>1, <1>2, <1>4, <2>1, BaseStays
  <2> QED
    BY <1>1, <1>2, <2>1, <2>2, <2>3 DEF InOrder, MatchTasks
<1>7. CASE MatchEnd
  <2>1. AtEnd /\ Len(walk) = 1 /\ task' \in {"failed", "matched"}
    BY <1>7 DEF MatchEnd
  <2>2. PlacesIn(bound) = Flat(Len(calls))
    BY <1>1, <1>2, <1>3, <2>1, EndStep
  <2>3. Flat(Len(calls))' = Flat(Len(calls))
    BY <1>1, CallsStay
  <2>4. PlacesIn(bound)' = Flat(Len(calls))'
    BY <1>1, <2>2, <2>3
  <2> QED
    BY <1>1, <1>2, <2>1, <2>4 DEF InOrder, MatchTasks
<1> QED
  BY <1>5, <1>6, <1>7

(* Parameters with an argument are not free, and only packs have several.  *)
SlotsTaken ==
    task \in MatchTasks =>
        /\ \A i \in DOMAIN bound :
            bound[i].param \in DOMAIN params /\ slots[bound[i].param] # "free"
        /\ \A i, j \in DOMAIN bound :
            bound[i].param = bound[j].param /\ params[bound[i].param].kind = "value"
                => i = j
        /\ mode \in {"pack_positional", "pack_named"} =>
            pack \in DOMAIN params /\ params[pack].kind # "value" /\ slots[pack] # "free"

LEMMA TurnTyped ==
    ASSUME Inv, walk # <<>>
    PROVE  /\ Top.pos \in Nat \ {0} /\ Top.base \in Nat /\ Turn \in Nat \ {0}
           /\ DOMAIN params = 1..Len(params) /\ Len(params) \in Nat
           /\ Turn <= Len(params) => Turn \in DOMAIN params
           /\ Place \in PlaceSet
<1>1. Top.pos \in Nat \ {0} /\ Top.base \in Nat /\ Top.frame \in Nat
  BY WalkTop DEF Inv, Activation
<1>2. Turn \in Nat \ {0}
  BY <1>1 DEF Turn
<1>3. DOMAIN params = 1..Len(params) /\ Len(params) \in Nat
  BY DEF Inv, BoundOK
<1>4. Place \in PlaceSet
  BY <1>1 DEF Place, PlaceSet
<1> QED
  BY <1>1, <1>2, <1>3, <1>4

LEMMA BindParts ==
    ASSUME Inv, walk # <<>>, NEW p \in Nat, Bind(p)
    PROVE  /\ Len(bound) \in Nat /\ DOMAIN bound = 1..Len(bound)
           /\ DOMAIN bound' = 1..(Len(bound) + 1)
           /\ \A i \in DOMAIN bound : i \in DOMAIN bound' /\ bound'[i] = bound[i]
           /\ \A i \in DOMAIN bound' : i = Len(bound) + 1 \/ i \in DOMAIN bound
           /\ Len(bound) + 1 \in DOMAIN bound'
           /\ bound'[Len(bound) + 1].param = p
           /\ bound'[Len(bound) + 1].arg = Place
<1> DEFINE x == [param |-> p, arg |-> Place]
<1>1. x \in Binding /\ x.arg = Place /\ x.param = p
  BY TurnTyped DEF Binding
<1>2. bound \in Seq(Binding) /\ bound' = Append(bound, x)
  BY DEF Inv, BoundOK, Bind, Binding, PlaceSet
<1> HIDE DEF x, Binding
<1>3. /\ Len(bound') = Len(bound) + 1 /\ Len(bound) \in Nat
      /\ DOMAIN bound' = 1..(Len(bound) + 1) /\ DOMAIN bound = 1..Len(bound)
      /\ \A i \in 1..Len(bound) : bound'[i] = bound[i]
      /\ bound'[Len(bound) + 1] = x
  BY <1>1, <1>2, AppendProperties
<1>4. \A n \in Nat : /\ \A i \in 1..n : i \in 1..(n + 1)
                     /\ \A i \in 1..(n + 1) : i = n + 1 \/ i \in 1..n
                     /\ n + 1 \in 1..(n + 1)
  OBVIOUS
<1>5. /\ \A i \in DOMAIN bound : i \in DOMAIN bound' /\ bound'[i] = bound[i]
      /\ \A i \in DOMAIN bound' : i = Len(bound) + 1 \/ i \in DOMAIN bound
      /\ Len(bound) + 1 \in DOMAIN bound'
  BY <1>3, <1>4, Zenon
<1> QED
  BY <1>1, <1>3, <1>5

(* A parameter is bound that is free, or a pack.                           *)
LEMMA BindTakes ==
    ASSUME Inv, SlotsTaken, Matching, NEW p \in DOMAIN params, Bind(p),
           slots[p] = "free" \/ params[p].kind # "value",
           slots' = slots \/ slots' = [slots EXCEPT ![p] = "arg"],
           slots \in [DOMAIN params -> {"free", "arg", "block"}],
           slots'[p] # "free", params' = params
    PROVE  /\ \A i \in DOMAIN bound' :
                bound'[i].param \in DOMAIN params' /\ slots'[bound'[i].param] # "free"
           /\ \A i, j \in DOMAIN bound' :
                bound'[i].param = bound'[j].param /\ params'[bound'[i].param].kind = "value"
                    => i = j
<1>1. task = "matching" /\ walk # <<>> /\ task \in MatchTasks
  BY DEF Matching, Walking, MatchTasks
<1>2. p \in Nat
  BY <1>1, TurnTyped
<1>3. /\ \A i \in DOMAIN bound : i \in DOMAIN bound' /\ bound'[i] = bound[i]
      /\ \A i \in DOMAIN bound' : i = Len(bound) + 1 \/ i \in DOMAIN bound
      /\ bound'[Len(bound) + 1].param = p
  BY <1>1, <1>2, BindParts
<1>4. /\ \A i \in DOMAIN bound :
            bound[i].param \in DOMAIN params /\ slots[bound[i].param] # "free"
      /\ \A i, j \in DOMAIN bound :
            bound[i].param = bound[j].param /\ params[bound[i].param].kind = "value"
                => i = j
  BY <1>1 DEF SlotsTaken
<1>5. \A q \in DOMAIN params : slots[q] # "free" => slots'[q] # "free"
  OBVIOUS
<1>6. ASSUME NEW i \in DOMAIN bound'
      PROVE  bound'[i].param \in DOMAIN params' /\ slots'[bound'[i].param] # "free"
  BY <1>3, <1>4, <1>5
<1>7. ASSUME NEW j \in DOMAIN bound, bound[j].param = p, params[p].kind = "value"
      PROVE  FALSE
  BY <1>4, <1>7
<1>8. ASSUME NEW i \in DOMAIN bound', NEW j \in DOMAIN bound',
             bound'[i].param = bound'[j].param, params'[bound'[i].param].kind = "value"
      PROVE  i = j
  <2>1. CASE i \in DOMAIN bound /\ j \in DOMAIN bound
    <3>1. bound'[i] = bound[i] /\ bound'[j] = bound[j]
      BY <1>3, <2>1
    <3> QED
      BY <1>4, <1>8, <2>1, <3>1
  <2>2. CASE i = Len(bound) + 1 /\ j \in DOMAIN bound
    BY <1>3, <1>7, <1>8, <2>2
  <2>3. CASE j = Len(bound) + 1 /\ i \in DOMAIN bound
    BY <1>3, <1>7, <1>8, <2>3
  <2>4. CASE i = Len(bound) + 1 /\ j = Len(bound) + 1
    BY <2>4
  <2> QED
    BY <1>3, <2>1, <2>2, <2>3, <2>4
<1> QED
  BY <1>6, <1>8

LEMMA SlotsTakenStep ==
    ASSUME Inv, Inv', MatchTypes, SlotsTaken, Next
    PROVE  SlotsTaken'
<1> USE DEF MatchTypes
<1>1. CASE CallBuiltin
  <2>1. SUFFICES ASSUME task' \in MatchTasks PROVE SlotsTaken'
    BY DEF SlotsTaken
  <2>2. /\ mode' = "normal"
        /\ \/ bound' = <<>>
           \/ /\ Len(params') \in DOMAIN params'
              /\ bound' = <<[param |-> Len(params'), arg |-> <<Len(calls'), 0>>]>>
              /\ slots'[Len(params')] = "block"
    BY <1>1, <2>1, StartBuiltin
  <2>3. CASE bound' = <<>>
    <3>1. DOMAIN bound' = {}
      BY <2>3
    <3> QED
      BY <2>2, <3>1 DEF SlotsTaken
  <2>4. CASE bound' # <<>>
    <3> DEFINE x == [param |-> Len(params'), arg |-> <<Len(calls'), 0>>]
    <3>1. bound' = <<x>> /\ x.param = Len(params')
      BY <2>2, <2>4
    <3> HIDE DEF x
    <3>2. DOMAIN bound' = 1..1 /\ bound'[1] = x /\ \A k \in 1..1 : k = 1
      BY <3>1
    <3>3. \A k \in DOMAIN bound' : k = 1 /\ bound'[k].param = Len(params')
      BY <3>1, <3>2
    <3>4. Len(params') \in DOMAIN params' /\ slots'[Len(params')] # "free"
      BY <2>2, <2>4
    <3> QED
      BY <2>2, <3>3, <3>4 DEF SlotsTaken
  <2> QED
    BY <2>3, <2>4
<1>2. CASE MatchPositional \/ MatchIntoPack \/ MatchNamedPack \/ MatchNamed
  <2>1. /\ task = "matching" /\ walk # <<>> /\ params' = params /\ Matching
        /\ task \in MatchTasks
    BY <1>2 DEF MatchPositional, MatchIntoPack, MatchNamedPack, MatchNamed, Matching, Walking,
       MatchKeeps, MatchTasks
  <2>2. slots \in [DOMAIN params -> {"free", "arg", "block"}]
    OBVIOUS
  <2>3. Turn <= Len(params) => Turn \in DOMAIN params
    BY <2>1, TurnTyped
  <2>4. mode \in {"pack_positional", "pack_named"} =>
            pack \in DOMAIN params /\ params[pack].kind # "value" /\ slots[pack] # "free"
    BY <2>1 DEF SlotsTaken
  <2>5. CASE MatchPositional
    <3>1. /\ Turn \in DOMAIN params /\ slots[Turn] = "free" /\ Bind(Turn)
          /\ slots' = [slots EXCEPT ![Turn] = "arg"]
          /\ \/ params[Turn].kind # "value" /\ mode' = "pack_positional" /\ pack' = Turn
             \/ mode' = "normal"
      BY <2>3, <2>5 DEF MatchPositional
    <3>2. slots'[Turn] = "arg"
      BY <2>2, <3>1
    <3>3. /\ \A i \in DOMAIN bound' :
                bound'[i].param \in DOMAIN params' /\ slots'[bound'[i].param] # "free"
          /\ \A i, j \in DOMAIN bound' :
                bound'[i].param = bound'[j].param /\ params'[bound'[i].param].kind = "value"
                    => i = j
      BY <2>1, <2>2, <3>1, <3>2, BindTakes
    <3> QED
      BY <2>1, <3>1, <3>2, <3>3 DEF SlotsTaken
  <2>6. CASE MatchIntoPack
    <3>1. /\ mode \in {"pack_positional", "pack_named"} /\ Bind(pack)
          /\ slots' = slots /\ mode' = mode /\ pack' = pack
      BY <2>6 DEF MatchIntoPack
    <3>2. pack \in DOMAIN params /\ params[pack].kind # "value" /\ slots'[pack] # "free"
      BY <2>4, <3>1
    <3>3. /\ \A i \in DOMAIN bound' :
                bound'[i].param \in DOMAIN params' /\ slots'[bound'[i].param] # "free"
          /\ \A i, j \in DOMAIN bound' :
                bound'[i].param = bound'[j].param /\ params'[bound'[i].param].kind = "value"
                    => i = j
      BY <2>1, <2>2, <3>1, <3>2, BindTakes
    <3> QED
      BY <2>1, <3>1, <3>2, <3>3 DEF SlotsTaken
  <2>7. CASE MatchNamedPack
    <3>1. /\ Turn \in DOMAIN params /\ params[Turn].kind # "value" /\ Bind(Turn)
          /\ slots' = [slots EXCEPT ![Turn] = "arg"]
          /\ mode' = "pack_named" /\ pack' = Turn
      BY <2>3, <2>7 DEF MatchNamedPack, StartsNamedPack
    <3>2. slots'[Turn] = "arg"
      BY <2>2, <3>1
    <3>3. /\ \A i \in DOMAIN bound' :
                bound'[i].param \in DOMAIN params' /\ slots'[bound'[i].param] # "free"
          /\ \A i, j \in DOMAIN bound' :
                bound'[i].param = bound'[j].param /\ params'[bound'[i].param].kind = "value"
                    => i = j
      BY <2>1, <2>2, <3>1, <3>2, BindTakes
    <3> QED
      BY <2>1, <3>1, <3>2, <3>3 DEF SlotsTaken
  <2>8. CASE MatchNamed
    <3>1. PICK p \in DOMAIN params :
            slots[p] = "free" /\ Bind(p) /\ slots' = [slots EXCEPT ![p] = "arg"]
      BY <2>8 DEF MatchNamed
    <3>2. slots'[p] = "arg" /\ mode' = "named_only"
      BY <2>2, <2>8, <3>1 DEF MatchNamed
    <3>3. /\ \A i \in DOMAIN bound' :
                bound'[i].param \in DOMAIN params' /\ slots'[bound'[i].param] # "free"
          /\ \A i, j \in DOMAIN bound' :
                bound'[i].param = bound'[j].param /\ params'[bound'[i].param].kind = "value"
                    => i = j
      BY <2>1, <2>2, <3>1, <3>2, BindTakes
    <3> QED
      BY <2>1, <3>1, <3>2, <3>3 DEF SlotsTaken
  <2> QED
    BY <1>2, <2>5, <2>6, <2>7, <2>8
<1>3. CASE MatchAssertion \/ MatchEllipsis \/ MatchLeave \/ MatchRefused \/ MatchMismatch
           \/ MatchEnd
  <2>1. task = "matching" /\ UNCHANGED <<slots, mode, pack, bound, params>>
    BY <1>3 DEF MatchAssertion, MatchEllipsis, MatchLeave, MatchRefused, MatchMismatch,
       MatchEnd, Fail, MatchKeeps, Matching, Walking
  <2> QED
    BY <2>1 DEF SlotsTaken, MatchTasks
<1> QED
  BY <1>1, <1>2, <1>3, OtherSteps DEF SlotsTaken, MatchSteps

KindIn(stack, place) == stack[place[1]].args[place[2]]

BoundTo(b, p) == \E j \in DOMAIN b : b[j].param = p

(* Without `...`, the argument at a position has the parameter there, and  *)
(* so those in front of it have been bound.                                *)
NoGaps ==
    task \in MatchTasks /\ ~HasEllipsis =>
        /\ task # "assertion"
        /\ task = "matching" /\ mode = "normal" =>
            /\ \A p \in 1..(Top.pos - 1) : BoundTo(bound, p)
            /\ \A p \in DOMAIN params : slots[p] = "arg" => p < Top.pos
        /\ mode = "pack_positional" => \A p \in 1..pack : BoundTo(bound, p)
        /\ \A i \in DOMAIN bound :
            bound[i].arg[2] # 0 /\ KindIn(calls, bound[i].arg) = Positional =>
                \A p \in 1..(bound[i].param - 1) : BoundTo(bound, p)

LEMMA OneActivation ==
    ASSUME Inv, InOrder, task = "matching", ~HasEllipsis
    PROVE  /\ Len(walk) = 1 /\ walk # <<>> /\ Top.base = 0 /\ Turn = Top.pos
           /\ ~AtEnd => Member # Ellipsis
<1>1. /\ Len(calls) # 0
      /\ Reached(calls, walk, Len(calls), PlacesIn(bound)) /\ walk[1].base = 0
  BY DEF InOrder, MatchTasks
<1>2. Descending(calls) /\ Len(calls) \in 1..Len(calls)
  BY <1>1, CallsDescend DEF Inv
<1>3. walk \in Seq(Activation)
  BY DEF Inv, WalkOK
<1>4. calls[Len(calls)].args \in Seq(Members)
  <2>1. calls[Len(calls)] \in Call
    BY <1>2 DEF Descending
  <2> QED
    BY <2>1 DEF Call
<1>5. ASSUME NEW k \in 1..Len(calls[Len(calls)].args) PROVE calls[Len(calls)].args[k] # Ellipsis
  BY <1>4 DEF HasEllipsis
<1>6. Len(walk) = 1 /\ walk[1].frame = Len(calls)
  BY <1>1, <1>2, <1>3, <1>5, ReachedDeeper
<1>7. walk # <<>> /\ Top = walk[1]
  BY <1>6 DEF Top
<1>8. Top.pos \in Nat \ {0} /\ Turn = Top.pos
  <2>1. Top.pos \in Nat \ {0}
    BY <1>7, TurnTyped
  <2> QED
    BY <1>1, <1>7, <2>1 DEF Turn
<1>9. ASSUME ~AtEnd PROVE Member # Ellipsis
  <2>1. Top.frame = Len(calls)
    BY <1>6, <1>7
  <2>2. Top.pos \in 1..Len(calls[Len(calls)].args)
    BY <1>4, <1>8, <1>9, <2>1 DEF AtEnd, Args
  <2> QED
    BY <1>5, <2>1, <2>2 DEF Member, Args
<1> QED
  BY <1>1, <1>6, <1>7, <1>8, <1>9

LEMMA TopAdvances ==
    ASSUME Inv, walk # <<>>, walk' = Advanced
    PROVE  Top'.pos = Top.pos + 1
<1>1. Advanced[Len(walk)].pos = walk[Len(walk)].pos + 1 /\ Len(Advanced) = Len(walk)
  BY AdvancedParts DEF Inv
<1>2. Top' = walk'[Len(walk')]
  BY DEF Top
<1> QED
  BY <1>1, <1>2 DEF Top

(* What has been bound stays, and p is added.                              *)
LEMMA BoundGrows ==
    ASSUME Inv, walk # <<>>, NEW p \in Nat, Bind(p)
    PROVE  /\ \A q : BoundTo(bound, q) => BoundTo(bound', q)
           /\ BoundTo(bound', p)
           /\ \A i \in DOMAIN bound' :
                \/ i \in DOMAIN bound /\ bound'[i] = bound[i]
                \/ bound'[i].param = p /\ KindIn(calls, bound'[i].arg) = Member
<1>1. /\ \A i \in DOMAIN bound : i \in DOMAIN bound' /\ bound'[i] = bound[i]
      /\ \A i \in DOMAIN bound' : i = Len(bound) + 1 \/ i \in DOMAIN bound
      /\ Len(bound) + 1 \in DOMAIN bound'
      /\ bound'[Len(bound) + 1].param = p
      /\ bound'[Len(bound) + 1].arg = Place
  BY BindParts
<1>2. KindIn(calls, Place) = Member
  BY DEF KindIn, Place, Member, Args
<1>3. ASSUME NEW q, BoundTo(bound, q) PROVE BoundTo(bound', q)
  BY <1>1, <1>3 DEF BoundTo
<1>4. BoundTo(bound', p)
  BY <1>1 DEF BoundTo
<1> QED
  BY <1>1, <1>2, <1>3, <1>4

LEMMA NoGapsStep ==
    ASSUME Inv, Inv', MatchTypes, InOrder, NoGaps, Next
    PROVE  NoGaps'
<1>1. CASE CallBuiltin
  <2>1. SUFFICES ASSUME task' \in MatchTasks PROVE NoGaps'
    BY DEF NoGaps
  <2>2. /\ task' = "matching" /\ mode' = "normal"
        /\ walk' = <<Started(Len(calls'), 0)>>
        /\ \/ bound' = <<>>
           \/ bound' = <<[param |-> Len(params'), arg |-> <<Len(calls'), 0>>]>>
        /\ \A p \in DOMAIN params' : slots'[p] # "arg"
    BY <1>1, <2>1, StartBuiltin
  <2>3. Top'.pos = 1
    BY <2>2 DEF Top, Started
  <2>4. \A i \in DOMAIN bound' : bound'[i].arg[2] = 0
    <3>1. CASE bound' = <<>>
      BY <3>1
    <3>2. CASE bound' # <<>>
      <4> DEFINE x == [param |-> Len(params'), arg |-> <<Len(calls'), 0>>]
      <4>1. bound' = <<x>> /\ x.arg[2] = 0
        BY <2>2, <3>2
      <4> HIDE DEF x
      <4> QED
        BY <4>1
    <3> QED
      BY <3>1, <3>2
  <2>5. 1..(Top'.pos - 1) = {}
    BY <2>3
  <2> QED
    BY <2>2, <2>4, <2>5 DEF NoGaps
<1>2. CASE MatchSteps /\ HasEllipsis
  <2>1. calls' = calls
    BY <1>2, MatchStepsKeep
  <2> QED
    BY <1>2, <2>1 DEF NoGaps, HasEllipsis
<1>3. CASE MatchSteps /\ ~HasEllipsis
  <2>1. task = "matching" /\ walk # <<>> /\ calls' = calls /\ params' = params
    BY <1>3, MatchStepsKeep
  <2>2. /\ Len(walk) = 1 /\ Turn = Top.pos /\ Top.pos \in Nat \ {0}
        /\ ~AtEnd => Member # Ellipsis
    BY <1>3, <2>1, OneActivation, TurnTyped
  <2>3. /\ mode = "normal" =>
            /\ \A p \in 1..(Top.pos - 1) : BoundTo(bound, p)
            /\ \A p \in DOMAIN params : slots[p] = "arg" => p < Top.pos
        /\ mode = "pack_positional" => \A p \in 1..pack : BoundTo(bound, p)
        /\ \A i \in DOMAIN bound :
            bound[i].arg[2] # 0 /\ KindIn(calls, bound[i].arg) = Positional =>
                \A p \in 1..(bound[i].param - 1) : BoundTo(bound, p)
    BY <1>3, <2>1 DEF NoGaps, MatchTasks
  <2>4. /\ Turn <= Len(params) => Turn \in DOMAIN params
        /\ DOMAIN params \subseteq Nat
        /\ slots \in [DOMAIN params -> {"free", "arg", "block"}]
    BY <2>1, TurnTyped DEF MatchTypes
  <2>5. CASE MatchPositional
    <3>1. /\ Turn \in DOMAIN params /\ Bind(Turn) /\ walk' = Advanced
          /\ slots' = [slots EXCEPT ![Turn] = "arg"] /\ task' = task /\ mode = "normal"
          /\ Member = Positional
          /\ \/ mode' = "pack_positional" /\ pack' = Turn
             \/ mode' = "normal"
      BY <2>4, <2>5 DEF MatchPositional
    <3>2. /\ \A q : BoundTo(bound, q) => BoundTo(bound', q)
          /\ BoundTo(bound', Turn)
          /\ \A i \in DOMAIN bound' :
                \/ i \in DOMAIN bound /\ bound'[i] = bound[i]
                \/ bound'[i].param = Turn /\ KindIn(calls, bound'[i].arg) = Member
      BY <2>1, <2>2, <3>1, BoundGrows
    <3>3. Top'.pos = Top.pos + 1
      BY <2>1, <3>1, TopAdvances
    <3>4. \A p \in 1..(Turn - 1) : BoundTo(bound', p)
      BY <2>2, <2>3, <3>1, <3>2
    <3>5. \A p \in 1..Turn : BoundTo(bound', p)
      <4>1. \A p \in 1..Turn : p = Turn \/ p \in 1..(Turn - 1)
        BY <2>2
      <4> QED
        BY <3>2, <3>4, <4>1
    <3>6. \A p \in 1..(Top'.pos - 1) : BoundTo(bound', p)
      <4>1. Top'.pos - 1 = Turn
        BY <2>2, <3>3
      <4> QED
        BY <3>5, <4>1
    <3>7. ASSUME NEW p \in DOMAIN params', slots'[p] = "arg" PROVE p < Top'.pos
      <4>1. p = Turn \/ slots[p] = "arg"
        BY <2>1, <2>4, <3>1, <3>7
      <4>2. p \in Nat
        BY <2>1, <2>4
      <4> QED
        BY <2>1, <2>2, <2>3, <3>1, <3>3, <4>1, <4>2
    <3>8. ASSUME NEW i \in DOMAIN bound', bound'[i].arg[2] # 0,
                 KindIn(calls, bound'[i].arg) = Positional
          PROVE  \A p \in 1..(bound'[i].param - 1) : BoundTo(bound', p)
      BY <2>3, <3>2, <3>4, <3>8
    <3> QED
      BY <2>1, <3>1, <3>5, <3>6, <3>7, <3>8 DEF NoGaps
  <2>6. CASE MatchIntoPack
    <3>1. /\ Bind(pack) /\ walk' = Advanced /\ task' = task /\ mode' = mode /\ pack' = pack
          /\ slots' = slots /\ mode \in {"pack_positional", "pack_named"}
          /\ Member = Positional => mode = "pack_positional"
      BY <2>6, MacroCallsAssumption DEF MatchIntoPack
    <3>2. /\ \A q : BoundTo(bound, q) => BoundTo(bound', q)
          /\ \A i \in DOMAIN bound' :
                \/ i \in DOMAIN bound /\ bound'[i] = bound[i]
                \/ bound'[i].param = pack /\ KindIn(calls, bound'[i].arg) = Member
      BY <2>1, <3>1, BoundGrows DEF Inv, BoundOK
    <3>3. pack \in Nat
      BY DEF Inv, BoundOK
    <3>4. mode = "pack_positional" => \A p \in 1..pack : BoundTo(bound', p)
      BY <2>3, <3>2
    <3>5. mode = "pack_positional" => \A p \in 1..(pack - 1) : BoundTo(bound', p)
      BY <3>3, <3>4
    <3>6. ASSUME NEW i \in DOMAIN bound', bound'[i].arg[2] # 0,
                 KindIn(calls, bound'[i].arg) = Positional
          PROVE  \A p \in 1..(bound'[i].param - 1) : BoundTo(bound', p)
      BY <2>3, <3>1, <3>2, <3>5, <3>6
    <3> QED
      BY <2>1, <3>1, <3>4, <3>6 DEF NoGaps
  <2>7. CASE MatchNamedPack \/ MatchNamed
    <3>1. PICK q \in DOMAIN params : Bind(q)
      BY <2>4, <2>7 DEF MatchNamedPack, MatchNamed, StartsNamedPack
    <3>2. /\ task' = task /\ mode' \in {"pack_named", "named_only"} /\ Member \in ArgNames
      BY <2>7 DEF MatchNamedPack, MatchNamed
    <3>3. /\ \A p : BoundTo(bound, p) => BoundTo(bound', p)
          /\ \A i \in DOMAIN bound' :
                \/ i \in DOMAIN bound /\ bound'[i] = bound[i]
                \/ KindIn(calls, bound'[i].arg) = Member
      BY <2>1, <2>4, <3>1, BoundGrows
    <3>4. ASSUME NEW i \in DOMAIN bound', bound'[i].arg[2] # 0,
                 KindIn(calls, bound'[i].arg) = Positional
          PROVE  \A p \in 1..(bound'[i].param - 1) : BoundTo(bound', p)
      BY <2>3, <3>2, <3>3, <3>4, MacroCallsAssumption
    <3> QED
      BY <2>1, <3>2, <3>4 DEF NoGaps
  <2>8. CASE MatchAssertion
    <3>1. mode = "normal" /\ Turn \in DOMAIN params /\ slots[Turn] = "arg"
      BY <2>4, <2>8 DEF MatchAssertion
    <3>2. Turn < Top.pos
      BY <2>3, <3>1
    <3> QED
      BY <2>2, <3>2
  <2>9. CASE MatchEllipsis
    BY <2>2, <2>9 DEF MatchEllipsis
  <2>10. CASE MatchLeave
    BY <2>2, <2>10 DEF MatchLeave
  <2>11. CASE MatchRefused \/ MatchMismatch \/ MatchEnd
    <3>1. /\ task' \in {"failed", "matched"}
          /\ UNCHANGED <<slots, mode, pack, bound>>
      BY <2>11 DEF MatchRefused, MatchMismatch, MatchEnd, Fail
    <3>2. \A p : BoundTo(bound', p) <=> BoundTo(bound, p)
      BY <3>1 DEF BoundTo
    <3> QED
      BY <2>1, <2>3, <3>1, <3>2 DEF NoGaps
  <2> QED
    BY <1>3, <2>5, <2>6, <2>7, <2>8, <2>9, <2>10, <2>11 DEF MatchSteps
<1>4. CASE task' \notin MatchTasks
  BY <1>4 DEF NoGaps
<1> QED
  BY <1>1, <1>2, <1>3, <1>4, OtherSteps

LEMMA InOrderStep ==
    ASSUME Inv, Inv', MatchTypes, SlotsTaken, InOrder, Next
    PROVE  InOrder'
<1>1. CASE CallBuiltin
  BY <1>1, InOrderStart DEF InOrder
<1>2. CASE MatchPositional \/ MatchIntoPack \/ MatchNamedPack \/ MatchNamed
  <2>1. task = "matching" /\ walk # <<>> /\ calls' = calls /\ Matching
    BY <1>2, MatchStepsKeep DEF MatchSteps, Matching, Walking
  <2>2. ~AtEnd /\ walk' = Advanced /\ task' = task /\ Member # Ellipsis
    BY <1>2, MacroCallsAssumption DEF MatchPositional, MatchIntoPack, MatchNamedPack, MatchNamed
  <2>3. PICK p \in Nat : Bind(p)
    <3>1. Turn \in Nat /\ pack \in Nat /\ DOMAIN params \subseteq Nat
      BY <2>1, TurnTyped DEF Inv, BoundOK
    <3> QED
      BY <1>2, <3>1 DEF MatchPositional, MatchIntoPack, MatchNamedPack, MatchNamed
  <2> QED
    BY <2>1, <2>2, <2>3, InOrderBind
<1>3. CASE MatchEllipsis \/ MatchLeave \/ MatchEnd
  BY <1>3, InOrderMove
<1>4. CASE MatchAssertion
  <2>1. task = "matching" /\ calls' = calls /\ bound' = bound /\ task' = "assertion"
    BY <1>4 DEF MatchAssertion, MatchKeeps, frames, Matching, Walking
  <2> QED
    BY <2>1 DEF InOrder, MatchTasks
<1>5. CASE MatchRefused \/ MatchMismatch
  <2>1. task' = "failed"
    BY <1>5 DEF MatchRefused, MatchMismatch, Fail
  <2> QED
    BY <2>1 DEF InOrder, MatchTasks
<1> QED
  BY <1>1, <1>2, <1>3, <1>4, <1>5, OtherSteps DEF InOrder, MatchSteps

Matched == MatchTypes /\ InOrder /\ SlotsTaken /\ NoGaps

LEMMA MatchedInit == Init => Matched
<1> SUFFICES ASSUME Init PROVE Matched
  OBVIOUS
<1>1. task = "none"
  BY DEF Init
<1> QED
  BY <1>1, MatchTypesInit DEF Matched, InOrder, SlotsTaken, NoGaps, MatchTasks

LEMMA MatchedStep == Inv /\ Inv' /\ Matched /\ [Next]_vars => Matched'
<1> SUFFICES ASSUME Inv, Inv', Matched, [Next]_vars PROVE Matched'
  OBVIOUS
<1>1. MatchTypes'
  BY MatchTypesStep DEF Matched
<1>2. CASE Next
  BY <1>1, <1>2, InOrderStep, SlotsTakenStep, NoGapsStep DEF Matched
<1>3. CASE UNCHANGED vars
  <2>1. Flat(Len(calls))' = Flat(Len(calls))
    BY <1>3, CallsStay DEF vars
  <2>2. InOrder'
    BY <1>3, <2>1 DEF vars, Matched, InOrder
  <2>3. SlotsTaken'
    BY <1>3 DEF vars, Matched, SlotsTaken
  <2>4. NoGaps'
    BY <1>3 DEF vars, Matched, NoGaps, HasEllipsis, Top
  <2> QED
    BY <1>1, <2>2, <2>3, <2>4 DEF Matched
<1> QED
  BY <1>2, <1>3

(* The arguments that have been bound, and the block's place.              *)
LEMMA ArgumentsBound ==
    ASSUME Inv, InOrder, task \in MatchTasks
    PROVE  /\ Arguments = ArgumentsIn(bound)
           /\ \A i \in DOMAIN Arguments :
                \E j \in DOMAIN bound : Arguments[i] = bound[j] /\ bound[j].arg[2] # 0
<1>1. bound \in Seq(Binding) /\ \A k \in DOMAIN bound : k # 1 => bound[k].arg[2] # 0
  BY DEF Inv, BoundOK, InOrder, Binding, PlaceSet
<1>2. Arguments = ArgumentsIn(bound)
  BY DEF Arguments, ArgumentsIn
<1> HIDE DEF Binding
<1>3. DOMAIN bound = 1..Len(bound) /\ Len(bound) \in Nat
  BY <1>1
<1>4. CASE bound # <<>> /\ bound[1].arg[2] = 0
  <2>1. /\ Arguments = Tail(bound) /\ Len(Tail(bound)) = Len(bound) - 1
        /\ DOMAIN Tail(bound) = 1..(Len(bound) - 1)
        /\ \A i \in 1..(Len(bound) - 1) : Tail(bound)[i] = bound[i + 1]
    BY <1>1, <1>4 DEF Arguments
  <2>2. \A i \in 1..(Len(bound) - 1) : i + 1 \in DOMAIN bound /\ i + 1 # 1
    BY <1>3
  <2> QED
    BY <1>1, <1>2, <2>1, <2>2
<1>5. CASE ~(bound # <<>> /\ bound[1].arg[2] = 0)
  <2>1. Arguments = bound
    BY <1>5 DEF Arguments
  <2>2. \A i \in DOMAIN bound : bound[i].arg[2] # 0
    <3>1. bound # <<>> => bound[1].arg[2] # 0
      BY <1>5
    <3>2. \A i \in DOMAIN bound : bound # <<>>
      BY <1>3
    <3> QED
      BY <1>1, <3>1, <3>2
  <2> QED
    BY <1>2, <2>1, <2>2
<1> QED
  BY <1>4, <1>5

LEMMA MatchedImplies == Inv /\ Matched => MatchedExactly
<1> SUFFICES ASSUME Inv, Matched PROVE MatchedExactly
  OBVIOUS
<1>1. TypeOK
  BY DEF TypeOK, Inv, FrameInv, FrameTypes, Resumption, WalkOK, BoundOK, Matched, MatchTypes,
     PlaceSet
<1>2. MatchedOnce
  <2>1. SUFFICES ASSUME task = "matched"
                 PROVE  /\ [i \in DOMAIN Arguments |-> Arguments[i].arg] = Flat(Len(calls))
                        /\ \A i, j \in DOMAIN bound :
                            bound[i].param = bound[j].param
                            /\ params[bound[i].param].kind = "value" => i = j
    BY DEF MatchedOnce
  <2>2. PlacesIn(bound) = Flat(Len(calls)) /\ Arguments = ArgumentsIn(bound)
    BY <2>1, ArgumentsBound DEF Matched, InOrder, MatchTasks
  <2>3. [i \in DOMAIN Arguments |-> Arguments[i].arg] = PlacesIn(bound)
    BY <2>2 DEF PlacesIn
  <2> QED
    BY <2>1, <2>2, <2>3 DEF Matched, SlotsTaken, MatchTasks
<1>3. DirectMatch
  <2>1. SUFFICES ASSUME task \in MatchTasks, ~HasEllipsis
                 PROVE  /\ task # "assertion"
                        /\ \A i \in DOMAIN Arguments :
                            KindOf(Arguments[i].arg) = Positional =>
                                \A p \in 1..(Arguments[i].param - 1) :
                                    \E j \in DOMAIN bound : bound[j].param = p
    BY DEF DirectMatch, MatchTasks
  <2>2. /\ task # "assertion"
        /\ \A i \in DOMAIN bound :
            bound[i].arg[2] # 0 /\ KindIn(calls, bound[i].arg) = Positional =>
                \A p \in 1..(bound[i].param - 1) : BoundTo(bound, p)
    BY <2>1 DEF Matched, NoGaps
  <2>3. ASSUME NEW i \in DOMAIN Arguments, KindOf(Arguments[i].arg) = Positional,
               NEW p \in 1..(Arguments[i].param - 1)
        PROVE  \E j \in DOMAIN bound : bound[j].param = p
    <3>1. PICK j \in DOMAIN bound : Arguments[i] = bound[j] /\ bound[j].arg[2] # 0
      BY <2>1, ArgumentsBound DEF Matched
    <3>2. KindIn(calls, bound[j].arg) = Positional
      BY <2>3, <3>1 DEF KindIn, KindOf
    <3>3. BoundTo(bound, p)
      BY <2>2, <3>1, <3>2
    <3> QED
      BY <3>3 DEF BoundTo
  <2> QED
    BY <2>2, <2>3
<1> QED
  BY <1>1, <1>2, <1>3 DEF MatchedExactly

(* A call of a built-in directive that is accepted has used each of its    *)
(* arguments once, in order and through every `...`; no parameter but a    *)
(* pack has got more than one; and without `...` match_call's assertion    *)
(* that the parameter is free holds, and no parameter is left out.         *)
THEOREM MatchesAreExact == Spec => []MatchedExactly
<1>1. Inv /\ Inv' /\ Matched /\ [Next]_vars => Matched'
  BY MatchedStep
<1> QED
  BY InvInit, InvStep, MatchedInit, <1>1, MatchedImplies, PTL DEF Spec

=============================================================================
