---------------------- MODULE ReferenceResolverProofs ----------------------
(***************************************************************************)
(* What ReferenceResolver guarantees for every set of names, every         *)
(* document and every stack limit.                                         *)
(*                                                                         *)
(* The inductive invariant is TypeOK /\ VisitedIsExpanding /\              *)
(* GuardComplete: `visited` needs the typing of the frames (a frame never  *)
(* expands the unnamed section), and the completeness of the guard is      *)
(* inductive only because it ends at the first circular reference, whose   *)
(* handling erases the mark of a section that is still being expanded.     *)
(*                                                                         *)
(* That the resolver implements SectionInlining needs ReasonInv besides:   *)
(* every call stands for a reference in the text of the call around it, so *)
(* that a reference to a section being expanded lies on a cycle.  The      *)
(* value of the recursive function in Todo is obtained by induction over   *)
(* the number of calls (SetInduction).                                     *)
(***************************************************************************)
EXTENDS ReferenceResolver, FiniteSetTheorems, SequenceTheorems,
        WellFoundedInduction, TLAPS

Inv == TypeOK /\ VisitedIsExpanding /\ GuardComplete

-----------------------------------------------------------------------------
(* Replacing the innermost frame by one for the same section keeps the     *)
(* shape of the stack.                                                     *)
LEMMA ReplaceTop ==
    ASSUME stack \in Seq(Frame), stack # <<>>,
           NEW f \in Frame, f.sec = stack[Len(stack)].sec,
           NEW s, s = [stack EXCEPT ![Len(stack)] = f]
    PROVE  /\ s \in Seq(Frame)
           /\ Len(s) = Len(stack)
           /\ \A i \in 1..Len(stack) : s[i].sec = stack[i].sec
<1>1. Len(stack) \in 1..Len(stack)
  OBVIOUS
<1> HIDE DEF Frame
<1> QED
  BY <1>1, ExceptSeq

(* Advancing within a call keeps the shape of the stack.                   *)
LEMMA AdvanceLemma ==
    ASSUME TypeOK, stack # <<>>,
           NEW s, s = Advance \/ s = Advance_failing
    PROVE  /\ s \in Seq(Frame)
           /\ Len(s) = Len(stack)
           /\ \A i \in 1..Len(stack) : s[i].sec = stack[i].sec
<1> DEFINE last == stack[Len(stack)]
           moved == [last EXCEPT !.pos = @ + 1]
           failed == [last EXCEPT !.pos = @ + 1, !.ok = FALSE]
<1>1. stack \in Seq(Frame)
  BY DEF TypeOK
<1>2. last \in Frame
  BY <1>1
<1>3. moved \in Frame /\ moved.sec = last.sec
  BY <1>2 DEF Frame
<1>4. failed \in Frame /\ failed.sec = last.sec
  <2>1. failed = [moved EXCEPT !.ok = FALSE]
    BY <1>2 DEF Frame
  <2> HIDE DEF moved, failed
  <2> QED
    BY <1>3, <2>1 DEF Frame
<1>5. s = [stack EXCEPT ![Len(stack)] = moved]
      \/ s = [stack EXCEPT ![Len(stack)] = failed]
  BY DEF Advance, Advance_failing
<1> HIDE DEF Frame, moved, failed
<1>6. CASE s = [stack EXCEPT ![Len(stack)] = moved]
  BY <1>1, <1>3, <1>6, ReplaceTop
<1>7. CASE s = [stack EXCEPT ![Len(stack)] = failed]
  BY <1>1, <1>4, <1>7, ReplaceTop
<1> QED
  BY <1>5, <1>6, <1>7

(* The innermost frame and the token it stands before.                     *)
LEMMA TopLemma ==
    ASSUME TypeOK, Running
    PROVE  /\ Len(stack) \in Nat \ {0}
           /\ stack # <<>>
           /\ Top \in Frame
           /\ Top.sec \in Targets
           /\ ~AtEnd => Next_token \in Token
<1>1. stack \in Seq(Frame) /\ stack # <<>> /\ Len(stack) \in Nat \ {0}
  BY DEF TypeOK
<1>2. Top \in Frame
  BY <1>1 DEF Top
<1>3. Top.sec \in Targets /\ Top.pos \in Nat \ {0}
  BY <1>2 DEF Frame
<1>4. text[Top.sec] \in Seq(Token)
  BY <1>3 DEF TypeOK, Targets
<1>5. ASSUME ~AtEnd PROVE Next_token \in Token
  BY <1>3, <1>4, <1>5 DEF AtEnd, Next_token
<1> QED
  BY <1>1, <1>2, <1>3, <1>5

(* If only the place within the innermost text changes, the same sections  *)
(* are being expanded.                                                     *)
LEMMA SameExpanding ==
    ASSUME TypeOK, Running, stack' = Advance \/ stack' = Advance_failing
    PROVE  Expanding' = Expanding
<1>1. stack # <<>> /\ Len(stack) \in Nat
  BY TopLemma
<1> QED
  BY <1>1, AdvanceLemma DEF Expanding

(* Entering a section puts a frame for it on top of the others.            *)
LEMMA EnterLemma ==
    ASSUME TypeOK, RefEnter
    PROVE  /\ Len(stack) \in Nat \ {0}
           /\ stack' \in Seq(Frame)
           /\ stack' # <<>>
           /\ Len(stack') = Len(stack) + 1
           /\ \A i \in 1..Len(stack) : stack'[i].sec = stack[i].sec
           /\ stack'[Len(stack) + 1].sec = Next_token
<1>1. /\ Advance \in Seq(Frame)
      /\ Len(Advance) = Len(stack)
      /\ Len(stack) \in Nat \ {0}
      /\ \A i \in 1..Len(stack) : Advance[i].sec = stack[i].sec
  BY AdvanceLemma, TopLemma DEF RefEnter
<1>2. /\ Entered(Next_token) \in Frame
      /\ Entered(Next_token).sec = Next_token
  BY DEF RefEnter, Entered, Frame
<1>3. stack' = Append(Advance, Entered(Next_token))
  BY DEF RefEnter
<1> QED
  BY <1>1, <1>2, <1>3, AppendProperties

LEMMA EnterExpands ==
    ASSUME TypeOK, RefEnter
    PROVE  Expanding \cup {Next_token} \subseteq Expanding'
<1>1. ASSUME NEW x \in Expanding PROVE x \in Expanding'
  <2>1. PICK i \in 2..Len(stack) : stack[i].sec = x
    BY <1>1 DEF Expanding
  <2>2. i \in 2..Len(stack') /\ stack'[i].sec = x
    BY <2>1, EnterLemma
  <2> QED
    BY <2>2 DEF Expanding
<1>2. Next_token \in Expanding'
  <2>1. Len(stack) + 1 \in 2..Len(stack')
    BY EnterLemma
  <2> QED
    BY <2>1, EnterLemma DEF Expanding
<1> QED
  BY <1>1, <1>2

(* Returning removes the innermost frame.                                  *)
LEMMA ReturnLemma ==
    ASSUME TypeOK, RefReturn
    PROVE  /\ Len(stack) \in Nat /\ Len(stack) > 1
           /\ stack' \in Seq(Frame)
           /\ stack' # <<>>
           /\ Len(stack') = Len(stack) - 1
           /\ \A i \in 1..(Len(stack) - 1) : stack'[i] = stack[i]
<1>1. /\ stack \in Seq(Frame)
      /\ Len(stack) \in Nat
      /\ Len(stack) > 1
      /\ stack' = SubSeq(stack, 1, Len(stack) - 1)
  BY TopLemma DEF RefReturn, TypeOK
<1>2. \A i \in 1..(Len(stack) - 1) : stack[i] \in Frame
  BY <1>1
<1>3. /\ stack' \in Seq(Frame)
      /\ Len(stack') = Len(stack) - 1
      /\ \A i \in 1..(Len(stack) - 1) : stack'[i] = stack[i]
  BY <1>1, <1>2, SubSeqProperties
<1>4. Len(stack') # Len(<<>>)
  BY <1>1, <1>3
<1> QED
  BY <1>1, <1>3, <1>4

LEMMA ReturnExpands ==
    ASSUME TypeOK, RefReturn
    PROVE  Expanding \ {Top.sec} \subseteq Expanding'
  BY ReturnLemma DEF Expanding, Top

-----------------------------------------------------------------------------
LEMMA InitTypeOK == Init => TypeOK
  BY NamesAssumption DEF Init, ResolverInit, TypeOK, Outcomes, Running

LEMMA StepTypeOK == TypeOK /\ [Next]_vars => TypeOK'
<1> SUFFICES ASSUME TypeOK, [Next]_vars PROVE TypeOK'
  OBVIOUS
<1>0. Unnamed \in Names /\ Html \in Targets
  BY NamesAssumption DEF Targets
<1>1. CASE Next
  <2>1. CASE Begin
    <3>1. Entered(Html) \in Frame
      BY <1>0 DEF Entered, Frame
    <3> QED
      BY <1>0, <1>1, <2>1, <3>1 DEF Next, Begin, TypeOK, Outcomes, Running
  <2>2. CASE WritePlain
    <3>1. stack' \in Seq(Frame) /\ stack' # <<>>
      BY <2>2, AdvanceLemma, TopLemma DEF WritePlain
    <3>2. out' \in Seq(Names \X Pieces)
      BY <2>2, TopLemma DEF WritePlain, TypeOK, Targets
    <3> QED
      BY <1>1, <2>2, <3>1, <3>2 DEF Next, WritePlain, TypeOK, Running
  <2>3. CASE RefNotFound
    <3>1. stack' \in Seq(Frame) /\ stack' # <<>>
      BY <2>3, AdvanceLemma, TopLemma DEF RefNotFound
    <3>2. errors' \in SUBSET (ErrorKinds \X Targets)
      BY <2>3 DEF RefNotFound, TypeOK, ErrorKinds
    <3> QED
      BY <1>1, <2>3, <3>1, <3>2 DEF Next, RefNotFound, TypeOK, Running
  <2>4. CASE RefCircular
    <3>1. stack' \in Seq(Frame) /\ stack' # <<>>
      BY <2>4, AdvanceLemma, TopLemma DEF RefCircular
    <3>2. errors' \in SUBSET (ErrorKinds \X Targets)
      BY <2>4 DEF RefCircular, TypeOK, ErrorKinds
    <3> QED
      BY <1>1, <2>4, <3>1, <3>2 DEF Next, RefCircular, TypeOK, Running
  <2>5. CASE RefEnter
    <3>1. visited' \in SUBSET Names
      BY <2>5 DEF RefEnter, TypeOK, Targets
    <3> QED
      BY <1>1, <2>5, <3>1, EnterLemma DEF Next, RefEnter, TypeOK, Running
  <2>6. CASE RefOverflow
    BY <1>1, <2>6 DEF Next, RefOverflow, TypeOK, Outcomes, Running
  <2>7. CASE RefReturn
    BY <1>1, <2>7, ReturnLemma DEF Next, RefReturn, TypeOK, Running
  <2>8. CASE Finish
    BY <1>1, <2>8 DEF Next, Finish, TypeOK, Outcomes, Running
  <2> QED
    BY <1>1, <2>1, <2>2, <2>3, <2>4, <2>5, <2>6, <2>7, <2>8 DEF Next, Resolve
<1>2. CASE UNCHANGED vars
  BY <1>2 DEF vars, TypeOK, Running
<1> QED
  BY <1>1, <1>2

-----------------------------------------------------------------------------
LEMMA InitVisited == Init => VisitedIsExpanding
  BY DEF Init, ResolverInit, VisitedIsExpanding

LEMMA StepVisited ==
    TypeOK /\ VisitedIsExpanding /\ [Next]_vars => VisitedIsExpanding'
<1> SUFFICES ASSUME TypeOK, VisitedIsExpanding, [Next]_vars
             PROVE  VisitedIsExpanding'
  OBVIOUS
<1>1. CASE Begin
  BY <1>1 DEF Begin, VisitedIsExpanding
<1>2. CASE WritePlain \/ RefNotFound \/ RefCircular
  <2>1. Expanding' = Expanding
    BY <1>2, SameExpanding DEF WritePlain, RefNotFound, RefCircular
  <2>2. visited' \subseteq visited
    BY <1>2 DEF WritePlain, RefNotFound, RefCircular
  <2> QED
    BY <2>1, <2>2 DEF VisitedIsExpanding
<1>3. CASE RefEnter
  BY <1>3, EnterExpands DEF RefEnter, VisitedIsExpanding
<1>4. CASE RefReturn
  BY <1>4, ReturnExpands DEF RefReturn, VisitedIsExpanding
<1>5. CASE RefOverflow \/ Finish \/ UNCHANGED vars
  BY <1>5 DEF RefOverflow, Finish, vars, VisitedIsExpanding, Expanding
<1> QED
  BY <1>1, <1>2, <1>3, <1>4, <1>5 DEF Next, Resolve

-----------------------------------------------------------------------------
LEMMA InitGuard == Init => GuardComplete
  BY DEF Init, ResolverInit, GuardComplete, Running

LEMMA StepGuard ==
    TypeOK /\ GuardComplete /\ [Next]_vars => GuardComplete'
<1> SUFFICES ASSUME TypeOK, GuardComplete, [Next]_vars, Running', NoCircularYet'
             PROVE  /\ visited' = Expanding' \cup {Unnamed}
                    /\ \A i, j \in 2..Len(stack') :
                         stack'[i].sec = stack'[j].sec => i = j
  BY DEF GuardComplete
<1>1. CASE Begin
  <2>1. Len(stack') = 1
    BY <1>1 DEF Begin
  <2> QED
    BY <1>1, <2>1 DEF Begin, Expanding
<1>2. CASE RefCircular
  BY <1>2 DEF RefCircular, NoCircularYet
<1>3. CASE RefOverflow \/ Finish
  BY <1>3 DEF RefOverflow, Finish, Running
<1>4. CASE UNCHANGED vars
  BY <1>4 DEF vars, GuardComplete, Running, NoCircularYet, Expanding
<1>5. ASSUME Running, NoCircularYet
      PROVE  /\ visited = Expanding \cup {Unnamed}
             /\ \A i, j \in 2..Len(stack) : stack[i].sec = stack[j].sec => i = j
  BY <1>5 DEF GuardComplete
<1>6. CASE WritePlain \/ RefNotFound
  <2>1. Running /\ NoCircularYet
    BY <1>6 DEF WritePlain, RefNotFound, NoCircularYet
  <2>2. /\ Len(stack') = Len(stack)
        /\ Len(stack) \in Nat
        /\ \A i \in 1..Len(stack) : stack'[i].sec = stack[i].sec
    BY <1>6, <2>1, AdvanceLemma, TopLemma DEF WritePlain, RefNotFound
  <2>3. Expanding' = Expanding /\ visited' = visited
    BY <1>6, <2>1, SameExpanding DEF WritePlain, RefNotFound
  <2> QED
    BY <1>5, <2>1, <2>2, <2>3
<1>7. CASE RefEnter
  <2>1. Running /\ NoCircularYet
    BY <1>7 DEF RefEnter, NoCircularYet
  <2>2. /\ Len(stack) \in Nat \ {0}
        /\ Len(stack') = Len(stack) + 1
        /\ \A i \in 1..Len(stack) : stack'[i].sec = stack[i].sec
        /\ stack'[Len(stack) + 1].sec = Next_token
    BY <1>7, <2>1, EnterLemma
  <2>3. Next_token \notin Expanding
    BY <1>5, <1>7, <2>1 DEF RefEnter
  <2>4. Expanding' = Expanding \cup {Next_token}
    <3>1. \A x \in Expanding' : x \in Expanding \/ x = Next_token
      BY <2>2 DEF Expanding
    <3>2. \A x \in Expanding : x \in Expanding'
      BY <2>2, EnterExpands, <1>7
    <3>3. Next_token \in Expanding'
      BY <1>7, EnterExpands
    <3> QED
      BY <3>1, <3>2, <3>3
  <2>5. ASSUME NEW i \in 2..Len(stack'), NEW j \in 2..Len(stack'),
               stack'[i].sec = stack'[j].sec
        PROVE  i = j
    <3>1. \A k \in 2..Len(stack) : stack'[k].sec # Next_token
      BY <2>2, <2>3 DEF Expanding
    <3>2. \A k \in 2..Len(stack') : k \in 2..Len(stack) \/ k = Len(stack) + 1
      BY <2>2
    <3> QED
      BY <1>5, <2>1, <2>2, <2>5, <3>1, <3>2
  <2> QED
    BY <1>5, <1>7, <2>1, <2>4, <2>5 DEF RefEnter
<1>8. CASE RefReturn
  <2>1. Running /\ NoCircularYet
    BY <1>8 DEF RefReturn, NoCircularYet
  <2>2. /\ Len(stack) \in Nat /\ Len(stack) > 1
        /\ Len(stack') = Len(stack) - 1
        /\ \A i \in 1..(Len(stack) - 1) : stack'[i] = stack[i]
    BY <1>8, ReturnLemma
  <2>3. Top.sec # Unnamed
    BY <2>1, TopLemma DEF Targets
  <2>4. Expanding' = Expanding \ {Top.sec}
    <3>1. \A x \in Expanding' : x \in Expanding
      BY <2>2 DEF Expanding
    <3>2. Top.sec \notin Expanding'
      BY <1>5, <2>1, <2>2 DEF Expanding, Top
    <3>3. Expanding \ {Top.sec} \subseteq Expanding'
      BY <1>8, ReturnExpands
    <3> QED
      BY <3>1, <3>2, <3>3
  <2> QED
    BY <1>5, <1>8, <2>1, <2>2, <2>3, <2>4 DEF RefReturn
<1> QED
  BY <1>1, <1>2, <1>3, <1>4, <1>6, <1>7, <1>8 DEF Next, Resolve

-----------------------------------------------------------------------------
LEMMA InvInit == Init => Inv
  BY InitTypeOK, InitVisited, InitGuard DEF Inv

LEMMA InvStep == Inv /\ [Next]_vars => Inv'
  BY StepTypeOK, StepVisited, StepGuard DEF Inv

(* Every variable keeps its type.                                          *)
THEOREM TypeCorrect == Spec => []TypeOK
<1>1. Inv => TypeOK
  BY DEF Inv
<1> QED
  BY InvInit, InvStep, <1>1, PTL DEF Spec

(* Every mark in `visited` belongs to a section that a call of the         *)
(* resolver is expanding, or to the unnamed section.                       *)
THEOREM NoStaleMark == Spec => []VisitedIsExpanding
<1>1. Inv => VisitedIsExpanding
  BY DEF Inv
<1> QED
  BY InvInit, InvStep, <1>1, PTL DEF Spec

(* As long as no reference has been diagnosed as circular, `visited` holds *)
(* all the sections being expanded, and none is being expanded twice.      *)
THEOREM GuardIsComplete == Spec => []GuardComplete
<1>1. Inv => GuardComplete
  BY DEF Inv
<1> QED
  BY InvInit, InvStep, <1>1, PTL DEF Spec

(* A circle that a step diagnoses is real: every mark is that of a section *)
(* being expanded.                                                         *)
LEMMA CirclesAreReal ==
    Inv /\ [Next]_vars =>
        [\A s \in Targets :
            <<"circular", s>> \in errors' \ errors => s \in Expanding]_vars
<1> SUFFICES ASSUME Inv, Next, NEW s \in Targets,
                    <<"circular", s>> \in errors' \ errors
             PROVE  s \in Expanding
  BY DEF vars
<1>1. CASE RefCircular
  <2>1. s = Next_token
    BY <1>1 DEF RefCircular
  <2>2. s \in visited /\ s # Unnamed
    BY <1>1, <2>1 DEF RefCircular, Targets
  <2> QED
    BY <2>2 DEF Inv, VisitedIsExpanding
<1>2. CASE RefNotFound
  BY <1>2 DEF RefNotFound
<1>3. CASE Begin \/ WritePlain \/ RefEnter \/ RefOverflow \/ RefReturn \/ Finish
  BY <1>3 DEF Begin, WritePlain, RefEnter, RefOverflow, RefReturn, Finish
<1> QED
  BY <1>1, <1>2, <1>3 DEF Next, Resolve

(* The resolver never diagnoses a reference as circular unless the section *)
(* it names is being expanded around the reference.                        *)
THEOREM CircularMeansCircular == Spec => NoFalseCircular
  BY InvInit, InvStep, CirclesAreReal, PTL DEF Spec, NoFalseCircular

(* The guard of the resolver's recursion is exact.                         *)
THEOREM GuardExact == Spec => GuardIsExact
<1>1. Inv /\ Inv' /\ [Next]_vars =>
        [/\ VisitedIsExpanding'
         /\ GuardComplete'
         /\ \A s \in Targets :
               <<"circular", s>> \in errors' \ errors => s \in Expanding]_vars
  <2>1. Inv' => VisitedIsExpanding' /\ GuardComplete'
    BY DEF Inv
  <2> QED
    BY <2>1, CirclesAreReal
<1> QED
  BY InvInit, InvStep, <1>1, PTL DEF Spec, GuardIsExact

-----------------------------------------------------------------------------
(* What is left to write, as a recursive function: there is one, and it    *)
(* depends only on the frames it is about.                                 *)

LEMMA SetInduction ==
    ASSUME NEW S, 0 \in S, \A n \in Nat : n \in S => n + 1 \in S
    PROVE  Nat \subseteq S
<1> DEFINE T == Nat \ S
<1>1. SUFFICES ASSUME T # {} PROVE FALSE
  OBVIOUS
<1>2. PICK x \in T : \A y \in T : ~(<<y, x>> \in OpToRel(<, Nat))
  <2>1. T \subseteq Nat
    OBVIOUS
  <2> HIDE DEF T
  <2> QED
    BY <1>1, <2>1, NatLessThanWellFounded, WFMin
<1>3. x # 0 /\ x - 1 \in Nat /\ x - 1 \notin T
  <2>1. x # 0 /\ x - 1 \in Nat
    OBVIOUS
  <2>2. <<x - 1, x>> \in OpToRel(<, Nat)
    BY <2>1 DEF OpToRel
  <2> QED
    BY <1>2, <2>1, <2>2
<1> QED
  BY <1>3

(* What a call has left of its text, in a document x.                      *)
Left(x, frame) ==
    [i \in 1..(Len(x[frame.sec]) - frame.pos + 1) |->
        <<frame.sec, x[frame.sec][frame.pos + i - 1]>>]

(* h is what the calls up to the n-th have left, for each of them.         *)
IsRest(x, frames, n, h) ==
    h = [i \in 0..n |-> IF i = 0 THEN <<>> ELSE Left(x, frames[i]) \o h[i - 1]]

RestOf(x, frames, n) == CHOOSE h : IsRest(x, frames, n, h)

LEMMA TodoIs ==
    /\ Todo = RestOf(text, stack, Len(stack))[Len(stack)]
    /\ Todo' = RestOf(text', stack', Len(stack'))[Len(stack')]
  BY DEF Todo, RestOf, IsRest, Left, LeftOf

LEMMA RestExists ==
    ASSUME NEW x, NEW frames, NEW n \in Nat
    PROVE  \E h : IsRest(x, frames, n, h)
<1> DEFINE S == {m \in Nat : \E h : IsRest(x, frames, m, h)}
<1>1. 0 \in S
  <2>1. IsRest(x, frames, 0, [i \in 0..0 |-> <<>>])
    BY DEF IsRest
  <2> QED
    BY <2>1
<1>2. ASSUME NEW m \in Nat, m \in S PROVE m + 1 \in S
  <2>1. PICK h : IsRest(x, frames, m, h)
    BY <1>2
  <2> DEFINE k == [i \in 0..(m + 1) |->
                    IF i = m + 1 THEN Left(x, frames[m + 1]) \o h[m] ELSE h[i]]
             r == [i \in 0..(m + 1) |->
                    IF i = 0 THEN <<>> ELSE Left(x, frames[i]) \o k[i - 1]]
  <2>2. ASSUME NEW i \in 0..(m + 1) PROVE k[i] = r[i]
    <3>1. k[i] = IF i = m + 1 THEN Left(x, frames[m + 1]) \o h[m] ELSE h[i]
      OBVIOUS
    <3>2. r[i] = IF i = 0 THEN <<>> ELSE Left(x, frames[i]) \o k[i - 1]
      OBVIOUS
    <3>3. CASE i = m + 1
      <4>1. i # 0 /\ i - 1 = m /\ m \in 0..(m + 1) /\ m # m + 1
        BY <3>3
      <4>2. k[m] = h[m]
        BY <4>1
      <4> HIDE DEF k, r
      <4> QED
        BY <3>1, <3>2, <3>3, <4>1, <4>2
    <3>4. CASE i # m + 1
      <4>1. i \in 0..m
        BY <3>4
      <4>2. h[i] = IF i = 0 THEN <<>> ELSE Left(x, frames[i]) \o h[i - 1]
        BY <2>1, <4>1 DEF IsRest
      <4>3. i # 0 => k[i - 1] = h[i - 1]
        <5>1. i # 0 => i - 1 \in 0..(m + 1) /\ i - 1 # m + 1
          BY <4>1
        <5> QED
          BY <5>1
      <4> HIDE DEF k, r
      <4> QED
        BY <3>1, <3>2, <3>4, <4>2, <4>3
    <3> QED
      BY <3>3, <3>4
  <2>3. k = r
    BY <2>2
  <2>4. IsRest(x, frames, m + 1, k)
    BY <2>3 DEF IsRest
  <2> QED
    BY <2>4
<1> HIDE DEF S
<1>3. n \in S
  BY <1>1, <1>2, SetInduction
<1> QED
  BY <1>3 DEF S

LEMMA RestUnfolds ==
    ASSUME NEW x, NEW frames, NEW n \in Nat
    PROVE  /\ RestOf(x, frames, n)[0] = <<>>
           /\ \A i \in 1..n : RestOf(x, frames, n)[i] =
                                Left(x, frames[i]) \o RestOf(x, frames, n)[i - 1]
<1> DEFINE h == RestOf(x, frames, n)
<1>1. IsRest(x, frames, n, h)
  BY RestExists DEF RestOf
<1> HIDE DEF h
<1>2. h = [i \in 0..n |-> IF i = 0 THEN <<>> ELSE Left(x, frames[i]) \o h[i - 1]]
  BY <1>1 DEF IsRest
<1>3. ASSUME NEW i \in 0..n
      PROVE  h[i] = IF i = 0 THEN <<>> ELSE Left(x, frames[i]) \o h[i - 1]
  BY <1>2
<1>4. 0 \in 0..n /\ h[0] = <<>>
  BY <1>3
<1>5. \A i \in 1..n : i \in 0..n /\ i # 0
  OBVIOUS
<1>6. \A i \in 1..n : h[i] = Left(x, frames[i]) \o h[i - 1]
  BY <1>3, <1>5
<1> QED
  BY <1>4, <1>6 DEF h

LEMMA RestAgrees ==
    ASSUME NEW x, NEW f, NEW g, NEW m \in Nat, NEW n \in Nat, NEW k \in Nat,
           k <= m, k <= n, \A i \in 1..k : f[i] = g[i]
    PROVE  RestOf(x, f, m)[k] = RestOf(x, g, n)[k]
<1> DEFINE S == {j \in Nat : j <= k => RestOf(x, f, m)[j] = RestOf(x, g, n)[j]}
<1>1. 0 \in S
  BY RestUnfolds
<1>2. ASSUME NEW j \in Nat, j \in S PROVE j + 1 \in S
  <2>1. SUFFICES ASSUME j + 1 <= k
                 PROVE  RestOf(x, f, m)[j + 1] = RestOf(x, g, n)[j + 1]
    OBVIOUS
  <2>2. /\ j + 1 \in 1..k /\ j + 1 \in 1..m /\ j + 1 \in 1..n
        /\ (j + 1) - 1 = j /\ j <= k
    BY <2>1
  <2>3. f[j + 1] = g[j + 1] /\ RestOf(x, f, m)[j] = RestOf(x, g, n)[j]
    BY <1>2, <2>2
  <2>4. /\ RestOf(x, f, m)[j + 1] = Left(x, f[j + 1]) \o RestOf(x, f, m)[(j + 1) - 1]
        /\ RestOf(x, g, n)[j + 1] = Left(x, g[j + 1]) \o RestOf(x, g, n)[(j + 1) - 1]
    <3>1. \A i \in 1..m : RestOf(x, f, m)[i] = Left(x, f[i]) \o RestOf(x, f, m)[i - 1]
      BY RestUnfolds, Zenon
    <3>2. \A i \in 1..n : RestOf(x, g, n)[i] = Left(x, g[i]) \o RestOf(x, g, n)[i - 1]
      BY RestUnfolds, Zenon
    <3> QED
      BY <2>2, <3>1, <3>2, Zenon
  <2> QED
    BY <2>2, <2>3, <2>4
<1> HIDE DEF S
<1>3. k \in S
  BY <1>1, <1>2, SetInduction
<1> QED
  BY <1>3 DEF S

LEMMA RestTyped ==
    ASSUME NEW x, NEW f, NEW n \in Nat, NEW L,
           \A i \in 1..n : Left(x, f[i]) \in Seq(L)
    PROVE  \A k \in 0..n : RestOf(x, f, n)[k] \in Seq(L)
<1> DEFINE S == {j \in Nat : j <= n => RestOf(x, f, n)[j] \in Seq(L)}
<1>1. 0 \in S
  <2>1. <<>> \in Seq(L)
    OBVIOUS
  <2>2. RestOf(x, f, n)[0] \in Seq(L)
    BY <2>1, RestUnfolds
  <2> QED
    BY <2>2
<1>2. ASSUME NEW j \in Nat, j \in S PROVE j + 1 \in S
  <2>1. SUFFICES ASSUME j + 1 <= n PROVE RestOf(x, f, n)[j + 1] \in Seq(L)
    OBVIOUS
  <2>2. j + 1 \in 1..n /\ (j + 1) - 1 = j /\ j <= n
    BY <2>1
  <2>3. RestOf(x, f, n)[j + 1] = Left(x, f[j + 1]) \o RestOf(x, f, n)[j]
    <3>1. \A i \in 1..n : RestOf(x, f, n)[i] = Left(x, f[i]) \o RestOf(x, f, n)[i - 1]
      BY RestUnfolds, Zenon
    <3>2. RestOf(x, f, n)[j + 1] = Left(x, f[j + 1]) \o RestOf(x, f, n)[(j + 1) - 1]
      BY <2>2, <3>1, Zenon
    <3> QED
      BY <2>2, <3>2
  <2>4. RestOf(x, f, n)[j] \in Seq(L) /\ Left(x, f[j + 1]) \in Seq(L)
    BY <1>2, <2>2
  <2> QED
    BY <2>3, <2>4, ConcatProperties
<1> HIDE DEF S
<1>3. Nat \subseteq S
  BY <1>1, <1>2, SetInduction
<1> QED
  BY <1>3 DEF S

(* The frames below stay: what is left is the topmost call's text, in      *)
(* front of what was left below.                                           *)
LEMMA RestOnTop ==
    ASSUME NEW x, NEW f, NEW g, NEW m \in Nat, NEW n \in Nat,
           m + 1 <= n, \A i \in 1..m : f[i] = g[i]
    PROVE  RestOf(x, g, n)[m + 1] = Left(x, g[m + 1]) \o RestOf(x, f, m)[m]
<1>1. m + 1 \in 1..n /\ (m + 1) - 1 = m /\ m <= n
  OBVIOUS
<1>2. RestOf(x, g, n)[m + 1] = Left(x, g[m + 1]) \o RestOf(x, g, n)[(m + 1) - 1]
  BY <1>1, RestUnfolds
<1>3. RestOf(x, f, m)[m] = RestOf(x, g, n)[m]
  BY <1>1, RestAgrees
<1> QED
  BY <1>1, <1>2, <1>3

(* Sequences.                                                              *)
LEMMA ConcatParts ==
    ASSUME NEW S, NEW s \in Seq(S), NEW t \in Seq(S), s # <<>>
    PROVE  /\ s \o t # <<>>
           /\ Head(s \o t) = Head(s)
           /\ Tail(s \o t) = Tail(s) \o t
<1>1. /\ s \o t \in Seq(S)
      /\ Len(s \o t) = Len(s) + Len(t)
      /\ \A i \in 1..Len(s) + Len(t) : (s \o t)[i] =
                IF i <= Len(s) THEN s[i] ELSE t[i - Len(s)]
  BY ConcatProperties
<1>2. Len(s) \in Nat \ {0} /\ Len(t) \in Nat
  OBVIOUS
<1> DEFINE c == s \o t
<1>3. c # <<>> /\ c \in Seq(S)
  BY <1>1, <1>2
<1>4. /\ Tail(c) \in Seq(S) /\ Len(Tail(c)) = Len(c) - 1
      /\ \A i \in 1..Len(Tail(c)) : Tail(c)[i] = c[i + 1]
      /\ Head(c) = c[1]
  BY <1>3, HeadTailProperties
<1>5. /\ Tail(s) \in Seq(S) /\ Len(Tail(s)) = Len(s) - 1
      /\ \A i \in 1..Len(Tail(s)) : Tail(s)[i] = s[i + 1]
      /\ Head(s) = s[1]
  BY HeadTailProperties
<1>6. /\ Tail(s) \o t \in Seq(S)
      /\ Len(Tail(s) \o t) = Len(Tail(s)) + Len(t)
      /\ \A i \in 1..Len(Tail(s)) + Len(t) : (Tail(s) \o t)[i] =
                IF i <= Len(Tail(s)) THEN Tail(s)[i] ELSE t[i - Len(Tail(s))]
  BY <1>5, ConcatProperties
<1>7. c[1] = s[1]
  BY <1>1, <1>2
<1>8. Len(Tail(c)) = Len(Tail(s) \o t)
  BY <1>1, <1>2, <1>4, <1>5, <1>6
<1>9. ASSUME NEW i \in 1..Len(Tail(c)) PROVE Tail(c)[i] = (Tail(s) \o t)[i]
  <2>1. i + 1 \in 1..Len(s) + Len(t) /\ i \in 1..Len(Tail(s)) + Len(t)
    BY <1>1, <1>2, <1>4, <1>5
  <2>2. Tail(c)[i] = IF i + 1 <= Len(s) THEN s[i + 1] ELSE t[(i + 1) - Len(s)]
    BY <1>1, <1>4, <2>1
  <2>3. (Tail(s) \o t)[i] = IF i <= Len(s) - 1 THEN Tail(s)[i] ELSE t[i - (Len(s) - 1)]
    BY <1>5, <1>6, <2>1
  <2>4. CASE i + 1 <= Len(s)
    BY <1>2, <1>5, <2>2, <2>3, <2>4
  <2>5. CASE ~(i + 1 <= Len(s))
    <3>1. ~(i <= Len(s) - 1) /\ (i + 1) - Len(s) = i - (Len(s) - 1)
      BY <1>2, <2>5
    <3> QED
      BY <2>2, <2>3, <2>5, <3>1
  <2> QED
    BY <2>4, <2>5
<1>10. Tail(c) = Tail(s) \o t
  <2> HIDE DEF c
  <2> QED
    BY <1>4, <1>6, <1>8, <1>9, SeqEqual
<1> QED
  BY <1>3, <1>4, <1>5, <1>7, <1>10

LEMMA FunctionIsSeq ==
    ASSUME NEW S, NEW n \in Nat, NEW h \in [1..n -> S]
    PROVE  h \in Seq(S) /\ Len(h) = n
<1>1. h \in Seq(S)
  BY SeqDef
<1> QED
  BY <1>1, LenProperties

(* What one call has left.                                                 *)
Labels == Names \X Token

LEMMA LeftLemma ==
    ASSUME NEW x \in [Names -> Seq(Token)], NEW f \in Frame
    PROVE  /\ Len(x[f.sec]) \in Nat /\ f.pos \in Nat \ {0}
           /\ Left(x, f) \in Seq(Labels)
           /\ f.pos > Len(x[f.sec]) => Left(x, f) = <<>>
           /\ f.pos <= Len(x[f.sec]) =>
                /\ Len(Left(x, f)) = Len(x[f.sec]) - f.pos + 1
                /\ \A i \in 1..(Len(x[f.sec]) - f.pos + 1) :
                        Left(x, f)[i] = <<f.sec, x[f.sec][f.pos + i - 1]>>
<1> DEFINE n == Len(x[f.sec]) - f.pos + 1
<1>1. f.sec \in Names /\ f.pos \in Nat \ {0}
  BY DEF Frame, Targets
<1>2. x[f.sec] \in Seq(Token) /\ Len(x[f.sec]) \in Nat
  BY <1>1
<1>3. n \in Int /\ (f.pos <= Len(x[f.sec]) => n \in Nat)
      /\ (f.pos > Len(x[f.sec]) => 1..n = {})
  BY <1>1, <1>2
<1>4. ASSUME NEW i \in 1..n PROVE <<f.sec, x[f.sec][f.pos + i - 1]>> \in Labels
  <2>1. f.pos + i - 1 \in 1..Len(x[f.sec])
    BY <1>1, <1>2
  <2> QED
    BY <1>1, <1>2, <2>1 DEF Labels
<1>5. Left(x, f) = [i \in 1..n |-> <<f.sec, x[f.sec][f.pos + i - 1]>>]
  BY DEF Left
<1> HIDE DEF n
<1>6. CASE f.pos > Len(x[f.sec])
  <2>0. 1..0 = {}
    OBVIOUS
  <2>1. 1..n = 1..0
    BY <1>3, <1>6, <2>0
  <2>2. Left(x, f) \in [1..0 -> Labels]
    BY <1>4, <1>5, <2>1
  <2>3. Left(x, f) \in Seq(Labels) /\ Len(Left(x, f)) = 0
    BY <2>2, FunctionIsSeq
  <2>4. Left(x, f) = <<>>
    BY <2>3, EmptySeq
  <2> QED
    BY <1>1, <1>2, <1>6, <2>3, <2>4
<1>7. CASE f.pos <= Len(x[f.sec])
  <2>1. n \in Nat
    BY <1>3, <1>7
  <2>2. Left(x, f) \in Seq(Labels) /\ Len(Left(x, f)) = n
    <3>1. Left(x, f) \in [1..n -> Labels]
      BY <1>4, <1>5
    <3> QED
      BY <2>1, <3>1, FunctionIsSeq
  <2>3. \A i \in 1..n : Left(x, f)[i] = <<f.sec, x[f.sec][f.pos + i - 1]>>
    BY <1>5
  <2> QED
    BY <1>1, <1>2, <1>7, <2>2, <2>3 DEF n
<1> QED
  BY <1>1, <1>2, <1>6, <1>7

LEMMA LeftParts ==
    ASSUME NEW x \in [Names -> Seq(Token)], NEW f \in Frame, NEW g \in Frame,
           g.sec = f.sec, g.pos = f.pos + 1, f.pos <= Len(x[f.sec])
    PROVE  /\ Left(x, f) # <<>>
           /\ Head(Left(x, f)) = <<f.sec, x[f.sec][f.pos]>>
           /\ Tail(Left(x, f)) = Left(x, g)
<1> DEFINE n == Len(x[f.sec])
<1>1. /\ n \in Nat /\ f.pos \in Nat \ {0}
      /\ Left(x, f) \in Seq(Labels) /\ Left(x, g) \in Seq(Labels)
      /\ Len(Left(x, f)) = n - f.pos + 1
      /\ \A i \in 1..(n - f.pos + 1) : Left(x, f)[i] = <<f.sec, x[f.sec][f.pos + i - 1]>>
  BY LeftLemma
<1>2. /\ g.pos > n => Left(x, g) = <<>>
      /\ g.pos <= n =>
            /\ Len(Left(x, g)) = n - g.pos + 1
            /\ \A i \in 1..(n - g.pos + 1) :
                    Left(x, g)[i] = <<g.sec, x[g.sec][g.pos + i - 1]>>
  BY LeftLemma
<1> HIDE DEF n
<1>3. Left(x, f) # <<>>
  BY <1>1 DEF n
<1>4. /\ Head(Left(x, f)) = Left(x, f)[1]
      /\ Tail(Left(x, f)) \in Seq(Labels)
      /\ Len(Tail(Left(x, f))) = Len(Left(x, f)) - 1
      /\ \A i \in 1..Len(Tail(Left(x, f))) : Tail(Left(x, f))[i] = Left(x, f)[i + 1]
  BY <1>1, <1>3, HeadTailProperties
<1>5. f.pos + 1 - 1 = f.pos /\ 1 \in 1..(n - f.pos + 1)
  BY <1>1 DEF n
<1>6. Head(Left(x, f)) = <<f.sec, x[f.sec][f.pos]>>
  BY <1>1, <1>4, <1>5
<1>7. Len(Tail(Left(x, f))) = n - f.pos
  BY <1>1, <1>4
<1>8. Len(Left(x, g)) = n - f.pos
  <2>1. CASE g.pos > n
    BY <1>1, <1>2, <2>1 DEF n
  <2>2. CASE g.pos <= n
    BY <1>1, <1>2, <2>2 DEF n
  <2> QED
    BY <1>1, <2>1, <2>2
<1>9. ASSUME NEW i \in 1..(n - f.pos) PROVE Tail(Left(x, f))[i] = Left(x, g)[i]
  <2>1. /\ i + 1 \in 1..(n - f.pos + 1) /\ i \in 1..(n - g.pos + 1) /\ g.pos <= n
        /\ f.pos + (i + 1) - 1 = g.pos + i - 1
    <3>1. \A l, k \in Nat : \A j \in 1..(l - k) :
            /\ j + 1 \in 1..(l - k + 1)
            /\ j \in 1..(l - (k + 1) + 1)
            /\ k + 1 <= l
            /\ k + (j + 1) - 1 = (k + 1) + j - 1
      OBVIOUS
    <3>2. n \in Nat /\ f.pos \in Nat /\ i \in 1..(n - f.pos) /\ g.pos = f.pos + 1
      BY <1>1
    <3> QED
      BY <3>1, <3>2, Zenon
  <2>2. Tail(Left(x, f))[i] = Left(x, f)[i + 1]
    BY <1>4, <1>7
  <2>3. Left(x, f)[i + 1] = <<f.sec, x[f.sec][f.pos + (i + 1) - 1]>>
    BY <1>1, <2>1, Zenon
  <2>4. Left(x, g)[i] = <<g.sec, x[g.sec][g.pos + i - 1]>>
    BY <1>2, <2>1, Zenon
  <2> QED
    BY <1>1, <2>1, <2>2, <2>3, <2>4, Zenon
<1>10. Tail(Left(x, f)) = Left(x, g)
  BY <1>1, <1>4, <1>7, <1>8, <1>9, SeqEqual
<1> QED
  BY <1>3, <1>6, <1>10

(* What all the calls have left, innermost first.                          *)
Rest(x, frames) == RestOf(x, frames, Len(frames))[Len(frames)]

LEMMA AdvancePlace ==
    ASSUME TypeOK, Running, NEW s, s = Advance \/ s = Advance_failing
    PROVE  /\ s \in Seq(Frame) /\ Len(s) = Len(stack)
           /\ s[Len(stack)].sec = Top.sec
           /\ s[Len(stack)].pos = Top.pos + 1
           /\ s = Advance => s[Len(stack)].ok = Top.ok
           /\ \A i \in 1..(Len(stack) - 1) : s[i] = stack[i]
<1>1. /\ s \in Seq(Frame) /\ Len(s) = Len(stack)
      /\ \A i \in 1..Len(stack) : s[i].sec = stack[i].sec
      /\ stack \in Seq(Frame) /\ Len(stack) \in Nat \ {0}
      /\ Top \in Frame /\ Top = stack[Len(stack)]
  BY AdvanceLemma, TopLemma DEF TypeOK, Top
<1> DEFINE n == Len(stack)
           moved == [Top EXCEPT !.pos = @ + 1]
           failed == [Top EXCEPT !.pos = @ + 1, !.ok = FALSE]
<1>2. moved.pos = Top.pos + 1 /\ moved.ok = Top.ok /\ failed.pos = Top.pos + 1
  BY <1>1 DEF Frame
<1>3. \/ s = Advance /\ s = [stack EXCEPT ![n] = moved]
      \/ s = [stack EXCEPT ![n] = failed] /\ (s = Advance => failed = moved)
  <2>1. Advance = [stack EXCEPT ![n] = moved]
    BY DEF Advance, Top
  <2>2. Advance_failing = [stack EXCEPT ![n] = failed]
    BY DEF Advance_failing, Top
  <2>3. stack = [i \in 1..n |-> stack[i]] /\ n \in 1..n
    BY <1>1
  <2>4. s = Advance => s[n] = moved
    BY <2>1, <2>3
  <2>5. s = Advance_failing => s[n] = failed
    BY <2>2, <2>3
  <2> HIDE DEF n, moved, failed
  <2> QED
    BY <2>1, <2>2, <2>4, <2>5
<1>4. stack = [i \in 1..n |-> stack[i]] /\ n \in 1..n /\ n \in Nat \ {0}
  BY <1>1
<1>5. \/ s[n] = moved
      \/ s[n] = failed /\ (s = Advance => failed = moved)
  <2> HIDE DEF moved, failed
  <2> QED
    BY <1>3, <1>4
<1>6. \A i \in 1..(n - 1) : s[i] = stack[i]
  <2>1. \A i \in 1..(n - 1) : i \in 1..n /\ i # n
    BY <1>4
  <2> HIDE DEF moved, failed, n
  <2> QED
    BY <1>3, <1>4, <2>1
<1> HIDE DEF moved, failed
<1> QED
  BY <1>1, <1>2, <1>4, <1>5, <1>6

(* What is left, taken apart at the innermost call.                        *)
LEMMA RestSplit ==
    ASSUME NEW x \in [Names -> Seq(Token)], NEW f \in Seq(Frame), f # <<>>
    PROVE  /\ Rest(x, f) =
                Left(x, f[Len(f)]) \o RestOf(x, f, Len(f) - 1)[Len(f) - 1]
           /\ Left(x, f[Len(f)]) \in Seq(Labels)
           /\ RestOf(x, f, Len(f) - 1)[Len(f) - 1] \in Seq(Labels)
<1> DEFINE n == Len(f)
<1>1. n \in Nat \ {0} /\ n - 1 \in Nat /\ (n - 1) + 1 = n /\ n - 1 \in 0..(n - 1)
  OBVIOUS
<1>2. \A i \in 1..n : f[i] \in Frame
  OBVIOUS
<1> HIDE DEF n
<1>3. \A i \in 1..n : Left(x, f[i]) \in Seq(Labels)
  BY <1>2, LeftLemma
<1>4. \A i \in 1..(n - 1) : Left(x, f[i]) \in Seq(Labels)
  BY <1>1, <1>3
<1>5. RestOf(x, f, n - 1)[n - 1] \in Seq(Labels)
  BY <1>1, <1>4, RestTyped
<1>6. RestOf(x, f, n)[(n - 1) + 1] =
            Left(x, f[(n - 1) + 1]) \o RestOf(x, f, n - 1)[n - 1]
  <2>1. n - 1 \in Nat /\ n \in Nat /\ (n - 1) + 1 <= n
    BY <1>1
  <2>2. \A i \in 1..(n - 1) : f[i] = f[i]
    OBVIOUS
  <2> QED
    BY <2>1, <2>2, RestOnTop
<1> QED
  BY <1>1, <1>3, <1>5, <1>6 DEF n, Rest

LEMMA SameRest ==
    ASSUME NEW x, NEW f, NEW g, NEW n \in Nat, \A i \in 1..n : f[i] = g[i]
    PROVE  RestOf(x, f, n)[n] = RestOf(x, g, n)[n]
<1>1. n <= n
  OBVIOUS
<1> QED
  BY <1>1, RestAgrees

LEMMA TodoRest == Todo = Rest(text, stack) /\ Todo' = Rest(text', stack')
  BY TodoIs DEF Rest

(* Passing a token removes it from the front of what is left.              *)
LEMMA AdvanceLeaves ==
    ASSUME TypeOK, Running, ~AtEnd, NEW s, s = Advance \/ s = Advance_failing
    PROVE  /\ Todo # <<>>
           /\ Head(Todo) = <<Top.sec, Next_token>>
           /\ Rest(text, s) = Tail(Todo)
<1> DEFINE n == Len(stack)
           r == RestOf(text, stack, n - 1)[n - 1]
<1>1. /\ text \in [Names -> Seq(Token)] /\ stack \in Seq(Frame) /\ stack # <<>>
      /\ n \in Nat \ {0} /\ Top \in Frame /\ Top = stack[n]
  BY TopLemma DEF TypeOK, Top
<1>2. /\ s \in Seq(Frame) /\ Len(s) = n /\ s # <<>>
      /\ s[n].sec = Top.sec /\ s[n].pos = Top.pos + 1 /\ s[n] \in Frame
      /\ \A i \in 1..(n - 1) : stack[i] = s[i]
  <2>1. /\ s \in Seq(Frame) /\ Len(s) = n
        /\ s[n].sec = Top.sec /\ s[n].pos = Top.pos + 1
        /\ \A i \in 1..(n - 1) : stack[i] = s[i]
    BY AdvancePlace
  <2> QED
    BY <1>1, <2>1
<1>3. Top.pos <= Len(text[Top.sec])
  <2>1. Len(text[Top.sec]) \in Nat /\ Top.pos \in Nat \ {0}
    BY <1>1, LeftLemma
  <2> QED
    BY <2>1 DEF AtEnd
<1>4. /\ Left(text, Top) # <<>>
      /\ Head(Left(text, Top)) = <<Top.sec, text[Top.sec][Top.pos]>>
      /\ Tail(Left(text, Top)) = Left(text, s[n])
  <2> HIDE DEF n
  <2> QED
    BY <1>1, <1>2, <1>3, LeftParts
<1>5. /\ Todo = Left(text, Top) \o r
      /\ Left(text, Top) \in Seq(Labels) /\ r \in Seq(Labels)
  BY <1>1, RestSplit, TodoRest
<1>6. Rest(text, s) = Left(text, s[n]) \o RestOf(text, s, n - 1)[n - 1]
  BY <1>1, <1>2, RestSplit
<1>7. RestOf(text, stack, n - 1)[n - 1] = RestOf(text, s, n - 1)[n - 1]
  <2>1. n - 1 \in Nat
    BY <1>1
  <2>2. \A i \in 1..(n - 1) : stack[i] = s[i]
    BY <1>2
  <2> HIDE DEF n
  <2> QED
    BY <2>1, <2>2, SameRest
<1> HIDE DEF r
<1>8. /\ Left(text, Top) \o r # <<>>
      /\ Head(Left(text, Top) \o r) = Head(Left(text, Top))
      /\ Tail(Left(text, Top) \o r) = Tail(Left(text, Top)) \o r
  BY <1>4, <1>5, ConcatParts
<1>9. Rest(text, s) = Tail(Left(text, Top)) \o r
  BY <1>4, <1>6, <1>7 DEF r
<1> QED
  BY <1>4, <1>5, <1>8, <1>9 DEF Next_token

(* Entering a section puts its text in front of what is left.              *)
LEMMA EnterLeaves ==
    ASSUME TypeOK, RefEnter, text' = text
    PROVE  Todo' = Inlining!Labelled(Next_token, 1) \o Tail(Todo)
<1> DEFINE n == Len(stack)
           e == Entered(Next_token)
<1>1. /\ Advance \in Seq(Frame) /\ Len(Advance) = n /\ n \in Nat \ {0}
      /\ Rest(text, Advance) = Tail(Todo)
  BY AdvancePlace, AdvanceLeaves, TopLemma DEF RefEnter
<1>2. e \in Frame
  BY DEF RefEnter, Entered, Frame
<1>3. stack' = Append(Advance, e)
  BY DEF RefEnter
<1>4. /\ Len(stack') = n + 1 /\ stack'[n + 1] = e
      /\ \A i \in 1..n : stack'[i] = Advance[i]
  <2> HIDE DEF e, n
  <2> QED
    BY <1>1, <1>2, <1>3, AppendProperties
<1>5. Left(text, e) = Inlining!Labelled(Next_token, 1)
  BY DEF Left, Entered, Inlining!Labelled
<1> HIDE DEF e, n
<1>6. RestOf(text, stack', n + 1)[n + 1] =
            Left(text, stack'[n + 1]) \o RestOf(text, Advance, n)[n]
  <2>1. n \in Nat /\ n + 1 \in Nat /\ n + 1 <= n + 1
    BY <1>1
  <2>2. \A i \in 1..n : Advance[i] = stack'[i]
    BY <1>4
  <2> QED
    BY <2>1, <2>2, RestOnTop
<1> QED
  BY <1>1, <1>4, <1>5, <1>6, TodoRest DEF Rest

(* A call that returns has nothing left.                                   *)
LEMMA ReturnLeaves ==
    ASSUME TypeOK, RefReturn, text' = text
    PROVE  Todo' = Todo
<1> DEFINE n == Len(stack)
           r == RestOf(text, stack, n - 1)[n - 1]
<1>1. /\ text \in [Names -> Seq(Token)] /\ stack \in Seq(Frame) /\ stack # <<>>
      /\ Top \in Frame /\ Top = stack[n]
  BY TopLemma DEF TypeOK, RefReturn, Top
<1>2. /\ n \in Nat /\ n > 1 /\ Len(stack') = n - 1
      /\ \A i \in 1..(n - 1) : stack'[i] = stack[i]
  BY ReturnLemma
<1>3. Left(text, Top) = <<>>
  BY <1>1, LeftLemma DEF RefReturn, AtEnd
<1>4. Todo = Left(text, Top) \o r /\ r \in Seq(Labels)
  BY <1>1, RestSplit, TodoRest
<1>5. Todo = r
  <2> HIDE DEF r
  <2> QED
    BY <1>3, <1>4, ConcatEmptySeq
<1>6. RestOf(text, stack, n - 1)[n - 1] = RestOf(text, stack', n - 1)[n - 1]
  <2>1. n - 1 \in Nat
    BY <1>2
  <2> HIDE DEF n
  <2> QED
    BY <1>2, <2>1, RestAgrees
<1> QED
  BY <1>2, <1>5, <1>6, TodoRest DEF Rest

LEMMA BeginLeaves ==
    ASSUME TypeOK, Begin, text' = text
    PROVE  Todo' = Inlining!Labelled(Html, 1)
<1> DEFINE e == Entered(Html)
<1>1. e \in Frame /\ stack' = <<e>>
  BY NamesAssumption DEF Begin, Entered, Frame, Targets
<1>2. Left(text, e) = Inlining!Labelled(Html, 1)
  BY DEF Left, Entered, Inlining!Labelled
<1> HIDE DEF e
<1>3. /\ stack' \in Seq(Frame) /\ stack' # <<>> /\ Len(stack') = 1
      /\ stack'[1] = e
  BY <1>1
<1>4. text \in [Names -> Seq(Token)]
  BY DEF TypeOK
<1>5. Rest(text, stack') = Left(text, e) \o RestOf(text, stack', 0)[0]
      /\ Left(text, e) \in Seq(Labels)
  <2>1. Len(stack') - 1 = 0
    BY <1>3
  <2> QED
    BY <1>3, <1>4, <2>1, RestSplit
<1>6. RestOf(text, stack', 0)[0] = <<>>
  BY RestUnfolds
<1> QED
  BY <1>2, <1>5, <1>6, ConcatEmptySeq, TodoRest

LEMMA FinishLeaves ==
    ASSUME TypeOK, Finish
    PROVE  Todo = <<>>
<1>1. /\ text \in [Names -> Seq(Token)] /\ stack \in Seq(Frame) /\ stack # <<>>
      /\ Top \in Frame /\ Top = stack[1] /\ Len(stack) = 1
  BY TopLemma DEF TypeOK, Finish, Top
<1>2. Left(text, Top) = <<>>
  BY <1>1, LeftLemma DEF Finish, AtEnd
<1>3. Todo = Left(text, Top) \o RestOf(text, stack, 0)[0]
  <2>1. Len(stack) - 1 = 0
    BY <1>1
  <2> QED
    BY <1>1, <2>1, RestSplit, TodoRest
<1>4. RestOf(text, stack, 0)[0] = <<>>
  BY RestUnfolds
<1>5. <<>> \in Seq(Labels)
  BY EmptySeq
<1> QED
  BY <1>2, <1>3, <1>4, <1>5, ConcatEmptySeq

-----------------------------------------------------------------------------
(* Why a reference may be left out: each call stands for a reference in    *)
(* the text of the one around it, so a section that refers to one being    *)
(* expanded lies on a cycle.                                               *)
Chained(x, m, f) ==
    /\ \A i \in 1..Len(f) : f[i].sec \in m
    /\ \A i \in 1..(Len(f) - 1) :
         \E k \in DOMAIN x[f[i].sec] : x[f[i].sec][k] = f[i + 1].sec

FramesAreChained == Chained(text, made, stack)

CirclesAreCycles ==
    \A s \in Targets : <<"circular", s>> \in errors => Inlining!OnCycle(s)

FailuresAreReal ==
    \A i \in 1..Len(stack) : ~stack[i].ok => Inlining!Unresolvable

ReasonInv ==
    /\ made \subseteq Names
    /\ Html \in made
    /\ FramesAreChained
    /\ CirclesAreCycles
    /\ FailuresAreReal

LEMMA SameDocument ==
    ASSUME made' = made, text' = text
    PROVE  /\ Inlining!Unresolvable' <=> Inlining!Unresolvable
           /\ \A s : Inlining!OnCycle(s)' <=> Inlining!OnCycle(s)
<1>1. \A s : Inlining!OnCycle(s)' <=> Inlining!OnCycle(s)
  BY DEF Inlining!OnCycle, Inlining!Closed, Inlining!RefersTo
<1> QED
  BY <1>1 DEF Inlining!Unresolvable, Inlining!RefersTo

(* The section of the innermost call refers to the token it stands before. *)
LEMMA TopRefers ==
    ASSUME TypeOK, Running, ~AtEnd
    PROVE  /\ Top.pos \in DOMAIN text[Top.sec]
           /\ Inlining!RefersTo(Top.sec, Next_token)
<1>1. text \in [Names -> Seq(Token)] /\ Top \in Frame
  BY TopLemma DEF TypeOK
<1>2. Len(text[Top.sec]) \in Nat /\ Top.pos \in Nat \ {0}
  BY <1>1, LeftLemma
<1>3. Top.pos \in 1..Len(text[Top.sec])
  BY <1>2 DEF AtEnd
<1>4. text[Top.sec] \in Seq(Token)
  BY <1>1 DEF Frame, Targets
<1>5. Top.pos \in DOMAIN text[Top.sec]
  BY <1>3, <1>4
<1> QED
  BY <1>5 DEF Inlining!RefersTo, Next_token

(* A reference to a section that is being expanded closes a cycle.         *)
LEMMA ExpandedIsOnCycle ==
    ASSUME TypeOK, ReasonInv, Running, ~AtEnd, Next_token \in Expanding
    PROVE  Inlining!OnCycle(Next_token)
<1> DEFINE t == Next_token
           n == Len(stack)
<1>1. PICK i \in 2..n : stack[i].sec = t
  BY DEF Expanding
<1>2. n \in Nat /\ i \in Nat /\ 2 <= i /\ i <= n /\ i \in 1..n
  BY <1>1, TopLemma
<1>3. /\ \A j \in 1..n : stack[j].sec \in made
      /\ \A j \in 1..(n - 1) : Inlining!RefersTo(stack[j].sec, stack[j + 1].sec)
  BY DEF ReasonInv, FramesAreChained, Chained, Inlining!RefersTo
<1>4. t \in made
  BY <1>1, <1>2, <1>3
<1>5. Inlining!RefersTo(stack[n].sec, t)
  BY TopRefers DEF Top
<1>6. ASSUME NEW C \in SUBSET made, Inlining!Closed(C),
             \A u \in made : Inlining!RefersTo(t, u) => u \in C
      PROVE  t \in C
  <2> DEFINE S == {m \in Nat : i + 1 + m <= n => stack[i + 1 + m].sec \in C}
  <2> HIDE DEF t, n
  <2>1. 0 \in S
    <3>1. SUFFICES ASSUME i + 1 <= n PROVE stack[i + 1].sec \in C
      <4>1. i + 1 + 0 = i + 1
        BY <1>2
      <4> QED
        BY <4>1
    <3>2. i \in 1..(n - 1) /\ i + 1 \in 1..n
      BY <1>2, <3>1
    <3> QED
      BY <1>1, <1>3, <1>6, <3>2
  <2>2. ASSUME NEW m \in Nat, m \in S PROVE m + 1 \in S
    <3>1. SUFFICES ASSUME i + 1 + (m + 1) <= n
                   PROVE  stack[i + 1 + (m + 1)].sec \in C
      OBVIOUS
    <3>2. /\ i + 1 + m \in 1..(n - 1) /\ i + 1 + (m + 1) = (i + 1 + m) + 1
          /\ (i + 1 + m) + 1 \in 1..n /\ i + 1 + m <= n
      BY <1>2, <3>1
    <3>3. stack[i + 1 + m].sec \in C
      BY <2>2, <3>2
    <3>4. /\ Inlining!RefersTo(stack[i + 1 + m].sec, stack[(i + 1 + m) + 1].sec)
          /\ stack[(i + 1 + m) + 1].sec \in made
      BY <1>3, <3>2
    <3> QED
      BY <1>6, <3>2, <3>3, <3>4 DEF Inlining!Closed
  <2> HIDE DEF S
  <2>3. Nat \subseteq S
    BY <2>1, <2>2, SetInduction
  <2>4. CASE i = n
    BY <1>1, <1>4, <1>5, <1>6, <2>4
  <2>5. CASE i # n
    <3>1. n - (i + 1) \in Nat /\ i + 1 + (n - (i + 1)) = n /\ n <= n
      BY <1>2, <2>5
    <3>2. n - (i + 1) \in S
      BY <2>3, <3>1
    <3>3. stack[n].sec \in C
      BY <3>1, <3>2 DEF S
    <3> QED
      BY <1>4, <1>5, <1>6, <3>3 DEF Inlining!Closed
  <2> QED
    BY <2>4, <2>5
<1> HIDE DEF t
<1>7. Inlining!OnCycle(t)
  BY <1>4, <1>6 DEF Inlining!OnCycle
<1> QED
  BY <1>7 DEF t

LEMMA CircularIsOnCycle ==
    ASSUME TypeOK, VisitedIsExpanding, ReasonInv, RefCircular
    PROVE  Inlining!OnCycle(Next_token) /\ Inlining!Unresolvable
<1>1. Running /\ ~AtEnd /\ Next_token \in Targets /\ Next_token \in Expanding
  BY DEF RefCircular, VisitedIsExpanding, Targets
<1>2. Inlining!OnCycle(Next_token)
  BY <1>1, ExpandedIsOnCycle
<1>3. Inlining!RefersTo(Top.sec, Next_token) /\ Top.sec \in made
  BY <1>1, TopRefers, TopLemma DEF ReasonInv, FramesAreChained, Chained, Top
<1>4. Next_token \in Names
  BY <1>1 DEF Targets
<1> QED
  BY <1>2, <1>3, <1>4 DEF Inlining!Unresolvable

LEMMA NotFoundIsUnresolvable ==
    ASSUME TypeOK, ReasonInv, RefNotFound
    PROVE  Inlining!Unresolvable
<1>1. Running /\ ~AtEnd /\ Next_token \in Names /\ Next_token \notin made
  BY DEF RefNotFound, Targets
<1>2. Inlining!RefersTo(Top.sec, Next_token) /\ Top.sec \in made
  BY <1>1, TopRefers, TopLemma DEF ReasonInv, FramesAreChained, Chained, Top
<1> QED
  BY <1>1, <1>2 DEF Inlining!Unresolvable

-----------------------------------------------------------------------------
LEMMA InitReason == Init => ReasonInv
  BY DEF Init, ResolverInit, ReasonInv, FramesAreChained, Chained,
         CirclesAreCycles, FailuresAreReal

LEMMA StepReason ==
    TypeOK /\ VisitedIsExpanding /\ ReasonInv /\ [Next]_vars => ReasonInv'
<1> SUFFICES ASSUME TypeOK, VisitedIsExpanding, ReasonInv, [Next]_vars
             PROVE  ReasonInv'
  OBVIOUS
<1>1. made' = made /\ text' = text
  BY DEF Next, vars
<1>2. made' \subseteq Names /\ Html \in made'
  BY <1>1 DEF ReasonInv
<1>3. FramesAreChained'
  <2>1. SUFFICES Chained(text, made, stack')
    BY <1>1 DEF FramesAreChained
  <2>2. Chained(text, made, stack)
    BY DEF ReasonInv, FramesAreChained
  <2>3. CASE Begin
    <3>1. Len(stack') = 1 /\ stack'[1].sec = Html
      BY <2>3 DEF Begin, Entered
    <3> QED
      BY <3>1 DEF Chained, ReasonInv
  <2>4. CASE WritePlain \/ RefNotFound \/ RefCircular
    <3>1. /\ Len(stack') = Len(stack) /\ Len(stack) \in Nat
          /\ \A i \in 1..Len(stack) : stack'[i].sec = stack[i].sec
      BY <2>4, AdvanceLemma, TopLemma DEF WritePlain, RefNotFound, RefCircular
    <3>2. \A i \in 1..(Len(stack) - 1) : i \in 1..Len(stack) /\ i + 1 \in 1..Len(stack)
      BY <3>1
    <3> QED
      BY <2>2, <3>1, <3>2 DEF Chained
  <2>5. CASE RefEnter
    <3> DEFINE n == Len(stack)
    <3>1. /\ n \in Nat \ {0} /\ Len(stack') = n + 1
          /\ \A i \in 1..n : stack'[i].sec = stack[i].sec
          /\ stack'[n + 1].sec = Next_token /\ Next_token \in made
      BY <2>5, EnterLemma DEF RefEnter
    <3>2. /\ Top.pos \in DOMAIN text[stack[n].sec]
          /\ text[stack[n].sec][Top.pos] = Next_token
      BY <2>5, TopRefers DEF RefEnter, Top, Next_token
    <3> HIDE DEF n
    <3>3. ASSUME NEW i \in 1..Len(stack') PROVE stack'[i].sec \in made
      <4>1. CASE i = n + 1
        BY <3>1, <4>1
      <4>2. CASE i # n + 1
        <5>1. i \in 1..n
          BY <3>1, <4>2
        <5> QED
          BY <2>2, <3>1, <5>1 DEF Chained, n
      <4> QED
        BY <4>1, <4>2
    <3>4. ASSUME NEW i \in 1..(Len(stack') - 1)
          PROVE  \E k \in DOMAIN text[stack'[i].sec] :
                    text[stack'[i].sec][k] = stack'[i + 1].sec
      <4>1. i \in 1..n /\ (i # n => i \in 1..(n - 1) /\ i + 1 \in 1..n)
        BY <3>1
      <4>2. CASE i = n
        BY <3>1, <3>2, <4>1, <4>2
      <4>3. CASE i # n
        <5>1. \E k \in DOMAIN text[stack[i].sec] : text[stack[i].sec][k] = stack[i + 1].sec
          BY <2>2, <4>1, <4>3 DEF Chained, n
        <5> QED
          BY <3>1, <4>1, <4>3, <5>1
      <4> QED
        BY <4>2, <4>3
    <3> QED
      BY <3>3, <3>4 DEF Chained
  <2>6. CASE RefReturn
    <3>1. /\ Len(stack) \in Nat /\ Len(stack) > 1 /\ Len(stack') = Len(stack) - 1
          /\ \A i \in 1..(Len(stack) - 1) : stack'[i] = stack[i]
      BY <2>6, ReturnLemma DEF RefReturn
    <3>2. /\ \A i \in 1..(Len(stack) - 1) : i \in 1..Len(stack)
          /\ \A i \in 1..(Len(stack) - 1 - 1) : i \in 1..(Len(stack) - 1) /\ i + 1 \in 1..(Len(stack) - 1)
      BY <3>1
    <3> QED
      BY <2>2, <3>1, <3>2 DEF Chained
  <2>7. CASE RefOverflow \/ Finish \/ UNCHANGED vars
    BY <2>2, <2>7 DEF RefOverflow, Finish, vars
  <2> QED
    BY <2>3, <2>4, <2>5, <2>6, <2>7 DEF Next, Resolve
<1>4. CirclesAreCycles'
  <2>1. SUFFICES ASSUME NEW s \in Targets, <<"circular", s>> \in errors'
                 PROVE  Inlining!OnCycle(s)
    BY <1>1, SameDocument DEF CirclesAreCycles
  <2>2. CASE <<"circular", s>> \in errors
    BY <2>2 DEF ReasonInv, CirclesAreCycles
  <2>3. CASE <<"circular", s>> \notin errors
    <3>1. RefCircular /\ s = Next_token
      BY <2>1, <2>3 DEF Next, Resolve, vars, Begin, WritePlain, RefNotFound,
            RefCircular, RefEnter, RefOverflow, RefReturn, Finish
    <3> QED
      BY <3>1, CircularIsOnCycle
  <2> QED
    BY <2>2, <2>3
<1>5. FailuresAreReal'
  <2>1. SUFFICES ASSUME ~Inlining!Unresolvable, NEW i \in 1..Len(stack')
                 PROVE  stack'[i].ok
    BY <1>1, SameDocument DEF FailuresAreReal
  <2>2. \A j \in 1..Len(stack) : stack[j].ok
    BY <2>1 DEF ReasonInv, FailuresAreReal
  <2>3. ~RefCircular /\ ~RefNotFound
    BY <2>1, CircularIsOnCycle, NotFoundIsUnresolvable
  <2>4. ASSUME Running
        PROVE  /\ Len(stack) \in Nat \ {0} /\ Len(Advance) = Len(stack)
               /\ \A j \in 1..Len(stack) : Advance[j].ok
    <3>1. /\ Len(stack) \in Nat \ {0} /\ Len(Advance) = Len(stack)
          /\ Advance[Len(stack)].ok = stack[Len(stack)].ok
          /\ \A j \in 1..(Len(stack) - 1) : Advance[j] = stack[j]
      BY <2>4, AdvancePlace, TopLemma DEF Top
    <3>2. \A j \in 1..Len(stack) : j = Len(stack) \/ j \in 1..(Len(stack) - 1)
      BY <3>1
    <3> QED
      BY <2>2, <3>1, <3>2
  <2>5. CASE Begin
    BY <2>5 DEF Begin, Entered
  <2>6. CASE WritePlain
    BY <2>4, <2>6 DEF WritePlain
  <2>7. CASE RefEnter
    <3> DEFINE e == Entered(Next_token)
    <3>1. e.ok /\ stack' = Append(Advance, e) /\ Advance \in Seq(Frame) /\ e \in Frame
      <4>1. Running /\ Next_token \in Targets /\ stack' = Append(Advance, e)
        BY <2>7 DEF RefEnter
      <4>2. e.ok /\ e \in Frame
        BY <4>1 DEF Entered, Frame
      <4> QED
        BY <4>1, <4>2, AdvancePlace
    <3>2. Running
      BY <2>7 DEF RefEnter
    <3> HIDE DEF e
    <3>3. /\ Len(stack') = Len(stack) + 1 /\ stack'[Len(stack) + 1] = e
          /\ \A j \in 1..Len(stack) : stack'[j] = Advance[j]
      BY <2>4, <3>1, <3>2, AppendProperties
    <3>4. i = Len(stack) + 1 \/ i \in 1..Len(stack)
      BY <2>4, <3>2, <3>3
    <3> QED
      BY <2>4, <3>1, <3>2, <3>3, <3>4
  <2>8. CASE RefReturn
    <3>1. /\ Len(stack) \in Nat /\ Len(stack') = Len(stack) - 1
          /\ \A j \in 1..(Len(stack) - 1) : stack'[j] = stack[j]
      BY <2>8, ReturnLemma DEF RefReturn
    <3>2. i \in 1..(Len(stack) - 1) /\ i \in 1..Len(stack)
      BY <3>1
    <3> QED
      BY <2>2, <3>1, <3>2
  <2>9. CASE RefOverflow \/ Finish \/ UNCHANGED vars
    BY <2>2, <2>9 DEF RefOverflow, Finish, vars
  <2> QED
    BY <2>3, <2>5, <2>6, <2>7, <2>8, <2>9 DEF Next, Resolve
<1> QED
  BY <1>2, <1>3, <1>4, <1>5 DEF ReasonInv

-----------------------------------------------------------------------------
(* More calls than there are sections: two of them expand the same one, so *)
(* a circular reference has been met, and it lies on a cycle.              *)
LEMMA OverflowNeedsCycle ==
    ASSUME IsFiniteSet(Names), MaxDepth >= Cardinality(Names),
           Inv, ReasonInv, RefOverflow
    PROVE  \E s \in made : Inlining!OnCycle(s)
<1>1. TypeOK /\ GuardComplete /\ Running /\ ~AtEnd
      /\ Next_token \in Targets /\ Next_token \notin visited
      /\ Len(stack) >= MaxDepth
  BY DEF Inv, RefOverflow
<1>2. CASE ~NoCircularYet
  <2>1. PICK s \in Targets : <<"circular", s>> \in errors
    BY <1>2 DEF NoCircularYet
  <2>2. Inlining!OnCycle(s)
    BY <2>1 DEF ReasonInv, CirclesAreCycles
  <2> QED
    BY <2>2 DEF Inlining!OnCycle
<1>3. CASE NoCircularYet
  <2> DEFINE n == Len(stack)
             h == [i \in 1..n |-> IF i = n THEN Next_token ELSE stack[i + 1].sec]
  <2>1. /\ visited = Expanding \cup {Unnamed}
        /\ \A i, j \in 2..n : stack[i].sec = stack[j].sec => i = j
    BY <1>1, <1>3 DEF GuardComplete
  <2>2. n \in Nat \ {0} /\ \A i \in 1..n : stack[i].sec \in Targets
    <3>1. n \in Nat \ {0} /\ \A i \in 1..n : stack[i] \in Frame
      BY <1>1, TopLemma DEF TypeOK
    <3> QED
      BY <3>1 DEF Frame
  <2>3. \A i \in 2..n : stack[i].sec # Next_token
    BY <1>1, <2>1 DEF Expanding
  <2> HIDE DEF n
  <2>4. ASSUME NEW i \in 1..n PROVE h[i] \in Targets
    <3>1. i # n => i + 1 \in 1..n
      BY <2>2
    <3> QED
      BY <1>1, <2>2, <3>1
  <2>5. ASSUME NEW i \in 1..n, NEW j \in 1..n, h[i] = h[j] PROVE i = j
    <3>1. /\ i # n => i + 1 \in 2..n
          /\ j # n => j + 1 \in 2..n
          /\ i + 1 = j + 1 => i = j
      BY <2>2
    <3>2. /\ i = n => h[i] = Next_token
          /\ i # n => h[i] = stack[i + 1].sec
          /\ j = n => h[j] = Next_token
          /\ j # n => h[j] = stack[j + 1].sec
      OBVIOUS
    <3> HIDE DEF h
    <3> QED
      BY <2>1, <2>3, <2>5, <3>1, <3>2 DEF n
  <2>6. h \in Injection(1..n, Targets)
    <3>1. h \in [1..n -> Targets]
      BY <2>4
    <3> HIDE DEF h
    <3> QED
      BY <2>5, <3>1 DEF Injection, IsInjective
  <2> HIDE DEF h
  <2>7. /\ IsFiniteSet(Targets)
        /\ Cardinality(Targets) = Cardinality(Names) - 1
        /\ Cardinality(Names) \in Nat
    BY NamesAssumption, FS_RemoveElement, FS_CardinalityType DEF Targets
  <2>8. Cardinality(1..n) <= Cardinality(Targets)
    BY <2>6, <2>7, FS_Injection
  <2>9. Cardinality(1..n) = n
    BY <2>2, FS_Interval
  <2> QED
    BY <1>1, <2>2, <2>7, <2>8, <2>9, NamesAssumption DEF n
<1> QED
  BY <1>2, <1>3

-----------------------------------------------------------------------------
LEMMA InlinesStep ==
    ASSUME IsFiniteSet(Names), MaxDepth >= Cardinality(Names),
           Inv, ReasonInv, [Next]_vars
    PROVE  [Inlining!Next]_(Inlining!vars)
<1>0. TypeOK /\ VisitedIsExpanding
  BY DEF Inv
<1>1. made' = made /\ text' = text
  BY DEF Next, vars
<1>2. CASE Begin
  <2>1. Todo' = Inlining!Labelled(Html, 1)
    BY <1>0, <1>1, <1>2, BeginLeaves
  <2>2. Inlining!Start
    BY <1>1, <1>2, <2>1 DEF Begin, Inlining!Start
  <2> QED
    BY <2>2 DEF Inlining!Next
<1>3. CASE WritePlain
  <2>1. /\ Todo # <<>> /\ Head(Todo) = <<Top.sec, Next_token>>
        /\ Todo' = Tail(Todo)
    BY <1>0, <1>1, <1>3, AdvanceLeaves, TodoRest DEF WritePlain
  <2>2. Inlining!Token_ = Next_token /\ Inlining!Pending
    BY <1>3, <2>1 DEF WritePlain, Running, Inlining!Pending, Inlining!Token_
  <2>3. Inlining!Emit
    BY <1>1, <1>3, <2>1, <2>2 DEF WritePlain, Inlining!Emit
  <2> QED
    BY <2>3 DEF Inlining!Next
<1>4. CASE RefNotFound \/ RefCircular
  <2>1. Running /\ ~AtEnd /\ Next_token \in Targets /\ stack' = Advance_failing
    BY <1>4 DEF RefNotFound, RefCircular
  <2>2. /\ Todo # <<>> /\ Head(Todo) = <<Top.sec, Next_token>>
        /\ Todo' = Tail(Todo)
    BY <1>0, <1>1, <2>1, AdvanceLeaves, TodoRest
  <2>3. Next_token \notin made \/ Inlining!OnCycle(Next_token)
    BY <1>0, <1>4, CircularIsOnCycle DEF RefNotFound
  <2>4. Next_token \notin Pieces
    BY <2>1, NamesAssumption DEF Targets
  <2>5. out' = out /\ outcome' = outcome
    BY <1>4 DEF RefNotFound, RefCircular
  <2>6. Inlining!Token_ = Next_token /\ Inlining!Pending
    BY <2>1, <2>2 DEF Running, Inlining!Pending, Inlining!Token_
  <2>7. Inlining!Drop
    BY <1>1, <2>2, <2>3, <2>4, <2>5, <2>6 DEF Inlining!Drop
  <2> QED
    BY <2>7 DEF Inlining!Next
<1>5. CASE RefEnter
  <2>1. Running /\ ~AtEnd /\ Next_token \in made
    BY <1>5 DEF RefEnter
  <2>2. Todo # <<>> /\ Head(Todo) = <<Top.sec, Next_token>>
    BY <1>0, <2>1, AdvanceLeaves
  <2>3. Todo' = Inlining!Labelled(Next_token, 1) \o Tail(Todo)
    BY <1>0, <1>1, <1>5, EnterLeaves
  <2>4. Inlining!Token_ = Next_token /\ Inlining!Pending
    BY <2>1, <2>2 DEF Running, Inlining!Pending, Inlining!Token_
  <2>5. Inlining!Inline
    BY <1>1, <1>5, <2>1, <2>3, <2>4 DEF RefEnter, Inlining!Inline
  <2> QED
    BY <2>5 DEF Inlining!Next
<1>6. CASE RefOverflow
  <2>1. \E s \in made : Inlining!OnCycle(s)
    BY <1>6, OverflowNeedsCycle
  <2>2. Todo' = Todo
    BY <1>1, <1>6, TodoRest DEF RefOverflow
  <2>3. Inlining!GiveUp
    BY <1>1, <1>6, <2>1, <2>2 DEF RefOverflow, Running, Inlining!GiveUp
  <2> QED
    BY <2>3 DEF Inlining!Next
<1>7. CASE RefReturn
  <2>1. Todo' = Todo
    BY <1>0, <1>1, <1>7, ReturnLeaves
  <2> QED
    BY <1>1, <1>7, <2>1 DEF RefReturn, Inlining!vars
<1>8. CASE Finish
  <2>1. Todo = <<>> /\ Todo' = Todo
    BY <1>0, <1>1, <1>8, FinishLeaves, TodoRest DEF Finish
  <2>2. outcome' \in {"ok"} \cup (IF Inlining!Unresolvable THEN {"error"} ELSE {})
    <3>1. Top.ok \in BOOLEAN /\ (~Top.ok => Inlining!Unresolvable)
      <4>1. Top \in Frame /\ Top = stack[Len(stack)] /\ Len(stack) \in 1..Len(stack)
        BY <1>0, <1>8, TopLemma DEF Finish, Top
      <4> QED
        BY <4>1 DEF Frame, ReasonInv, FailuresAreReal
    <3> QED
      BY <1>8, <3>1 DEF Finish
  <2>3. Inlining!Stop
    BY <1>1, <1>8, <2>1, <2>2 DEF Finish, Running, Inlining!Stop
  <2> QED
    BY <2>3 DEF Inlining!Next
<1>9. CASE UNCHANGED vars
  <2>1. Todo' = Todo
    BY <1>9, TodoRest DEF vars
  <2> QED
    BY <1>9, <2>1 DEF vars, Inlining!vars
<1> QED
  BY <1>2, <1>3, <1>4, <1>5, <1>6, <1>7, <1>8, <1>9 DEF Next, Resolve

LEMMA InlinesInit == Init => Inlining!Init
<1> SUFFICES ASSUME Init PROVE Inlining!Init
  OBVIOUS
<1>1. stack = <<>> /\ Len(stack) = 0
  BY DEF Init, ResolverInit
<1>2. Todo = RestOf(text, stack, 0)[0]
  BY <1>1, TodoIs
<1>3. Todo = <<>>
  BY <1>2, RestUnfolds
<1> QED
  BY <1>3 DEF Init, ResolverInit, Inlining!Init

(* Resolution implements the inlining of references: what it writes is the *)
(* text with every reference replaced by the text of its section, except   *)
(* for references to sections that do not exist or lie on a cycle; it      *)
(* fails only for a document with such a reference.  If the native stack   *)
(* has room for as many calls as there are sections, only a cycle exhausts *)
(* it: sections that refer to each other without a cycle are never nested  *)
(* any deeper.                                                             *)
THEOREM InliningIsImplemented ==
    ASSUME IsFiniteSet(Names), MaxDepth >= Cardinality(Names)
    PROVE  Spec => ImplementsInlining
<1>1. Inv /\ ReasonInv /\ [Next]_vars => [Inlining!Next]_(Inlining!vars)
  BY InlinesStep
<1>2. Inv /\ ReasonInv /\ [Next]_vars => ReasonInv'
  BY StepReason DEF Inv
<1> QED
  BY InvInit, InvStep, InitReason, <1>1, <1>2, InlinesInit, PTL
     DEF Spec, ImplementsInlining, Inlining!Spec

-----------------------------------------------------------------------------
(* Nothing is lost without a diagnostic: what a call has passed is in the  *)
(* output, a reference with all the pieces of the section it names.        *)

Written(o, piece) == \E i \in DOMAIN o : o[i][2] = piece

PiecesWritten(s) ==
    \A k \in DOMAIN text[s] :
        text[s][k] \in Pieces => Written(out, text[s][k])

(* The k-th token of the i-th call's text has been dealt with, or is the   *)
(* reference that the call is waiting for.                                 *)
Passed(i, k) ==
    LET token == text[stack[i].sec][k]
    IN  /\ token \in Pieces => Written(out, token)
        /\ token \in Targets =>
              \/ PiecesWritten(token)
              \/ /\ i < Len(stack)
                 /\ k = stack[i].pos - 1
                 /\ stack[i + 1].sec = token

PassedIsWritten ==
    /\ outcome = "running" /\ errors = {} =>
          /\ stack[1].sec = Html
          /\ \A i \in 1..Len(stack) : \A k \in 1..(stack[i].pos - 1) : Passed(i, k)
    /\ outcome = "ok" /\ errors = {} =>
          \A k \in DOMAIN text[Html] :
              text[Html][k] \in Targets => PiecesWritten(text[Html][k])

LEMMA StaysWritten ==
    ASSUME TypeOK, NEW x \in Names \X Pieces, out' = Append(out, x) \/ out' = out
    PROVE  /\ \A p : Written(out, p) => Written(out', p)
           /\ out' = Append(out, x) => Written(out', x[2])
<1>1. out \in Seq(Names \X Pieces)
  BY DEF TypeOK
<1>2. CASE out' = out
  <2>1. Append(out, x) # out
    <3>1. Len(Append(out, x)) = Len(out) + 1 /\ Len(out) \in Nat
      BY <1>1
    <3> QED
      BY <3>1
  <2> QED
    BY <1>2, <2>1
<1>3. CASE out' = Append(out, x)
  <2>1. /\ DOMAIN out = 1..Len(out) /\ DOMAIN out' = 1..(Len(out) + 1)
        /\ Len(out) \in Nat /\ out'[Len(out) + 1] = x
        /\ \A i \in 1..Len(out) : out'[i] = out[i]
    BY <1>1, <1>3
  <2>2. Len(out) + 1 \in DOMAIN out' /\ \A i \in DOMAIN out : i \in DOMAIN out'
    BY <2>1
  <2> QED
    BY <2>1, <2>2 DEF Written
<1> QED
  BY <1>2, <1>3

LEMMA InitPassed == Init => PassedIsWritten
  BY DEF Init, ResolverInit, PassedIsWritten

LEMMA StepPassed ==
    TypeOK /\ PassedIsWritten /\ [Next]_vars => PassedIsWritten'
<1> SUFFICES ASSUME TypeOK, PassedIsWritten, [Next]_vars
             PROVE  PassedIsWritten'
  OBVIOUS
<1>1. made' = made /\ text' = text
  BY DEF Next, vars
<1>2. CASE Begin
  <2>1. Len(stack') = 1 /\ stack'[1].sec = Html /\ stack'[1].pos = 1 /\ outcome' = "running"
    BY <1>2 DEF Begin, Entered
  <2>2. \A i \in 1..1 : i = 1
    OBVIOUS
  <2> QED
    BY <2>1, <2>2 DEF PassedIsWritten
<1>3. CASE RefNotFound \/ RefCircular
  <2>1. errors' # {}
    BY <1>3 DEF RefNotFound, RefCircular
  <2> QED
    BY <2>1 DEF PassedIsWritten
<1>4. CASE RefOverflow
  <2>1. outcome' = "overflow"
    BY <1>4 DEF RefOverflow
  <2> QED
    BY <2>1 DEF PassedIsWritten
<1>5. CASE UNCHANGED vars
  <2>1. stack' = stack /\ out' = out /\ errors' = errors /\ outcome' = outcome
    BY <1>5 DEF vars
  <2>2. \A s : PiecesWritten(s)' <=> PiecesWritten(s)
    BY <1>1, <2>1 DEF PiecesWritten
  <2>3. \A i, k : Passed(i, k)' <=> Passed(i, k)
    BY <1>1, <2>1, <2>2 DEF Passed
  <2> QED
    BY <1>1, <2>1, <2>2, <2>3 DEF PassedIsWritten
<1>6. CASE /\ Running /\ outcome' = "running"
           /\ WritePlain \/ RefEnter \/ RefReturn
  <2>1. SUFFICES ASSUME errors' = {}
                 PROVE  /\ stack'[1].sec = Html
                        /\ \A i \in 1..Len(stack') :
                             \A k \in 1..(stack'[i].pos - 1) : Passed(i, k)'
    BY <1>6 DEF PassedIsWritten
  <2> DEFINE n == Len(stack)
  <2>2. errors = {}
    BY <1>6, <2>1 DEF WritePlain, RefEnter, RefReturn
  <2>3. /\ stack[1].sec = Html
        /\ \A i \in 1..n : \A k \in 1..(stack[i].pos - 1) : Passed(i, k)
    BY <1>6, <2>2 DEF PassedIsWritten, Running
  <2>4. n \in Nat \ {0} /\ Top \in Frame /\ Top = stack[n] /\ Top.pos \in Nat \ {0}
    BY <1>6, TopLemma DEF Top, Frame
  <2> HIDE DEF n
  <2>5. CASE WritePlain
    <3> DEFINE x == <<Top.sec, Next_token>>
    <3>1. /\ Len(stack') = n /\ stack'[n].sec = Top.sec /\ stack'[n].pos = Top.pos + 1
          /\ \A i \in 1..(n - 1) : stack'[i] = stack[i]
      BY <1>6, <2>5, AdvancePlace DEF WritePlain, n
    <3>2. x \in Names \X Pieces /\ x[2] = Next_token /\ out' = Append(out, x)
      BY <2>5, TopLemma DEF WritePlain, Targets
    <3>3. (\A p : Written(out, p) => Written(out', p)) /\ Written(out', Next_token)
      BY <3>2, StaysWritten
    <3>4. \A s : PiecesWritten(s) => PiecesWritten(s)'
      BY <1>1, <3>3 DEF PiecesWritten
    <3>5. \A i \in 1..n : stack'[i].sec = stack[i].sec
      <4>1. \A i \in 1..n : i = n \/ i \in 1..(n - 1)
        BY <2>4
      <4> QED
        BY <2>4, <3>1, <4>1
    <3>6. stack'[1].sec = Html
      <4>1. 1 \in 1..n
        BY <2>4
      <4> QED
        BY <2>3, <3>5, <4>1
    <3>7. ASSUME NEW i \in 1..n, NEW k \in 1..(stack'[i].pos - 1)
          PROVE  Passed(i, k)'
      <4>1. CASE i \in 1..(n - 1)
        <5>1. Passed(i, k) /\ stack'[i] = stack[i] /\ i + 1 \in 1..n
          BY <2>3, <2>4, <3>1, <4>1
        <5> QED
          BY <1>1, <3>1, <3>3, <3>4, <3>5, <5>1 DEF Passed, n
      <4>2. CASE i = n /\ k = Top.pos
        <5>1. text[stack'[n].sec][k] = Next_token /\ Next_token \in Pieces
          BY <2>5, <3>1, <4>2 DEF Next_token, WritePlain
        <5>2. Next_token \notin Targets
          BY <5>1, NamesAssumption DEF Targets
        <5> QED
          BY <1>1, <3>3, <4>2, <5>1, <5>2 DEF Passed
      <4>3. CASE i = n /\ k # Top.pos
        <5>1. k \in 1..(stack[n].pos - 1)
          BY <2>4, <3>1, <4>3
        <5>2. Passed(n, k) /\ ~(n < n)
          BY <2>3, <2>4, <5>1
        <5> QED
          BY <1>1, <2>4, <3>1, <3>3, <3>4, <3>5, <4>3, <5>2 DEF Passed, n
      <4> QED
        BY <2>4, <4>1, <4>2, <4>3
    <3> QED
      BY <3>1, <3>6, <3>7
  <2>6. CASE RefEnter
    <3>1. /\ Len(Advance) = n /\ Advance \in Seq(Frame)
          /\ Advance[n].sec = Top.sec /\ Advance[n].pos = Top.pos + 1
          /\ \A i \in 1..(n - 1) : Advance[i] = stack[i]
      BY <1>6, AdvancePlace DEF n
    <3> DEFINE e == Entered(Next_token)
    <3>2. /\ e \in Frame /\ e.sec = Next_token /\ e.pos = 1
          /\ stack' = Append(Advance, e)
          /\ out' = out
      BY <2>6 DEF RefEnter, Entered, Frame
    <3> HIDE DEF e
    <3>3. /\ Len(stack') = n + 1 /\ stack'[n + 1] = e
          /\ \A i \in 1..n : stack'[i] = Advance[i]
      BY <2>4, <3>1, <3>2, AppendProperties
    <3>4. \A i \in 1..n : stack'[i].sec = stack[i].sec
      <4>1. \A i \in 1..n : i = n \/ i \in 1..(n - 1)
        BY <2>4
      <4> QED
        BY <2>4, <3>1, <3>3, <4>1
    <3>5. stack'[1].sec = Html
      <4>1. 1 \in 1..n
        BY <2>4
      <4> QED
        BY <2>3, <3>4, <4>1
    <3>6. \A s : PiecesWritten(s) => PiecesWritten(s)'
      BY <1>1, <3>2 DEF PiecesWritten
    <3>7. ASSUME NEW i \in 1..(n + 1), NEW k \in 1..(stack'[i].pos - 1)
          PROVE  Passed(i, k)'
      <4>1. CASE i \in 1..(n - 1)
        <5>1. /\ i \in 1..n /\ i + 1 \in 1..n /\ i < n /\ i < n + 1
          BY <2>4, <4>1
        <5>2. stack'[i] = stack[i] /\ stack'[i + 1].sec = stack[i + 1].sec
          BY <3>1, <3>3, <3>4, <4>1, <5>1
        <5>3. Passed(i, k)
          BY <2>3, <5>1, <5>2
        <5> QED
          BY <1>1, <3>2, <3>3, <3>6, <5>1, <5>2, <5>3 DEF Passed
      <4>2. CASE i = n
        <5>1. /\ n \in 1..n /\ n < n + 1
              /\ stack'[n].sec = Top.sec /\ stack'[n].pos = Top.pos + 1
              /\ stack'[n + 1].sec = Next_token
          BY <2>4, <3>1, <3>2, <3>3
        <5>2. CASE k = Top.pos
          <6>1. k = stack'[n].pos - 1
            BY <2>4, <5>1, <5>2
          <6>2. text[Top.sec][k] = Next_token /\ Next_token \notin Pieces
            BY <2>6, <5>2, NamesAssumption DEF Next_token, RefEnter, Targets
          <6> QED
            BY <1>1, <3>3, <4>2, <5>1, <6>1, <6>2 DEF Passed
        <5>3. CASE k # Top.pos
          <6>1. k \in 1..(stack[n].pos - 1)
            BY <2>4, <4>2, <5>1, <5>3
          <6>2. Passed(n, k)
            BY <2>3, <5>1, <6>1
          <6>3. ~(n < Len(stack))
            BY <2>4 DEF n
          <6> QED
            BY <1>1, <2>4, <3>2, <3>6, <4>2, <5>1, <6>2, <6>3 DEF Passed
        <5> QED
          BY <5>2, <5>3
      <4>3. CASE i = n + 1
        <5>1. stack'[i].pos = 1
          BY <3>2, <3>3, <4>3
        <5> QED
          BY <5>1
      <4> QED
        BY <2>4, <4>1, <4>2, <4>3
    <3> QED
      BY <3>3, <3>5, <3>7
  <2>7. CASE RefReturn
    <3>1. /\ n > 1 /\ Len(stack') = n - 1 /\ out' = out
          /\ \A i \in 1..(n - 1) : stack'[i] = stack[i]
      BY <2>7, ReturnLemma DEF RefReturn, n
    <3>2. stack'[1].sec = Html
      <4>1. 1 \in 1..(n - 1)
        BY <2>4, <3>1
      <4> QED
        BY <2>3, <3>1, <4>1
    <3>3. \A s : PiecesWritten(s)' <=> PiecesWritten(s)
      BY <1>1, <3>1 DEF PiecesWritten
    <3>4. PiecesWritten(Top.sec)
      <4>1. SUFFICES ASSUME NEW k \in DOMAIN text[Top.sec], text[Top.sec][k] \in Pieces
                     PROVE  Written(out, text[Top.sec][k])
        BY DEF PiecesWritten
      <4>2. DOMAIN text[Top.sec] = 1..Len(text[Top.sec]) /\ Len(text[Top.sec]) \in Nat
        BY <2>4 DEF TypeOK, Frame, Targets
      <4>3. k \in 1..(stack[n].pos - 1)
        BY <2>4, <2>7, <4>2 DEF RefReturn, AtEnd
      <4>4. Passed(n, k)
        BY <2>3, <2>4, <4>3
      <4> QED
        BY <2>4, <4>1, <4>4 DEF Passed
    <3>5. ASSUME NEW i \in 1..(n - 1), NEW k \in 1..(stack'[i].pos - 1)
          PROVE  Passed(i, k)'
      <4>1. i \in 1..n /\ stack'[i] = stack[i] /\ i + 1 \in 1..n
        BY <2>4, <3>1
      <4>2. Passed(i, k)
        BY <2>3, <4>1
      <4>3. CASE i = n - 1
        <5>1. i + 1 = n
          BY <2>4, <4>3
        <5> QED
          BY <1>1, <2>4, <3>1, <3>3, <3>4, <4>1, <4>2, <5>1 DEF Passed
      <4>4. CASE i # n - 1
        <5>1. i < n - 1 /\ i + 1 \in 1..(n - 1)
          BY <2>4, <4>4
        <5>2. stack'[i + 1] = stack[i + 1]
          BY <3>1, <5>1
        <5> QED
          BY <1>1, <3>1, <3>3, <4>1, <4>2, <5>1, <5>2 DEF Passed
      <4> QED
        BY <4>3, <4>4
    <3> QED
      BY <3>1, <3>2, <3>5
  <2> QED
    BY <1>6, <2>5, <2>6, <2>7
<1>7. CASE Finish
  <2>1. outcome' # "running" /\ errors' = errors /\ out' = out
    BY <1>7 DEF Finish
  <2>2. SUFFICES ASSUME errors = {}, NEW k \in DOMAIN text[Html],
                        text[Html][k] \in Targets
                 PROVE  PiecesWritten(text[Html][k])
    BY <1>1, <2>1 DEF PassedIsWritten, PiecesWritten
  <2>3. /\ Len(stack) = 1 /\ stack[1].sec = Html
        /\ \A j \in 1..(stack[1].pos - 1) : Passed(1, j)
        /\ Top = stack[1] /\ Top \in Frame
    BY <1>7, <2>2, TopLemma DEF PassedIsWritten, Finish, Running, Top
  <2>4. /\ DOMAIN text[Html] = 1..Len(text[Html]) /\ Len(text[Html]) \in Nat
        /\ stack[1].pos \in Nat
    BY <2>3, NamesAssumption DEF TypeOK, Frame
  <2>5. k \in 1..(stack[1].pos - 1)
    BY <1>7, <2>3, <2>4 DEF Finish, AtEnd
  <2>6. Passed(1, k) /\ ~(1 < Len(stack))
    BY <2>3, <2>5
  <2> QED
    BY <2>2, <2>3, <2>6 DEF Passed
<1>8. WritePlain \/ RefEnter \/ RefReturn => Running /\ outcome' = "running"
  BY DEF WritePlain, RefEnter, RefReturn, Running
<1> QED
  BY <1>2, <1>3, <1>4, <1>5, <1>6, <1>7, <1>8 DEF Next, Resolve
=============================================================================
