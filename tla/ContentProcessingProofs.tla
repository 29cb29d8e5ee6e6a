---------------------- MODULE ContentProcessingProofs ----------------------
(***************************************************************************)
(* For every document, however deep its blocks are nested: its status is   *)
(* the concatenation of all statuses in document order, and nothing is     *)
(* processed behind a break.                                               *)
(*                                                                         *)
(* While the loops run, what has been seen is split: errors are remembered *)
(* by the loops (or by the attributes of the directives around them), and  *)
(* what is returned to the innermost loop has yet to be dealt with.        *)
(***************************************************************************)
EXTENDS ContentProcessing, SequenceTheorems, WellFoundedInduction, TLAPS

(* An error that a loop is going to add when it returns.                   *)
Remembered(i) == loops[i].error \/ loops[i].attr = "error"

Before == IF \E i \in 1..Len(loops) : Remembered(i) THEN "error" ELSE "ok"

Pending == IF returned = None THEN "ok" ELSE returned

(* The loop of the document itself has no directive around it.             *)
OutermostIsPlain == loops[1].attr = "ok" /\ loops[1].tail = "ok"

SeenIsAccounted ==
    seen = IF result = None THEN Concat(Before, Pending) ELSE result

Inv == TypeOK /\ OutermostIsPlain /\ SeenIsAccounted

-----------------------------------------------------------------------------
(* The algebra of statuses that the processing loops rely on.              *)

(* status_concat is associative: it does not matter how the elements of a  *)
(* document are grouped into blocks when their statuses are combined.      *)
THEOREM StatusConcatAssociative ==
    ASSUME NEW a \in Statuses, NEW b \in Statuses, NEW c \in Statuses
    PROVE  Concat(Concat(a, b), c) = Concat(a, Concat(b, c))
  BY DEF Statuses, Concat, IsBreak

(* ok is the neutral element of status_concat.                             *)
THEOREM ConcatNeutral ==
    ASSUME NEW a \in Statuses
    PROVE  Concat("ok", a) = a /\ Concat(a, "ok") = a
  BY DEF Statuses, Concat, IsBreak

(* No error is lost by concatenation, and concatenation stops at a break.  *)
THEOREM ConcatKeeps ==
    ASSUME NEW a \in Statuses, NEW b \in Statuses
    PROVE  /\ Concat(a, b) \in Statuses
           /\ IsError(a) => IsError(Concat(a, b))
           /\ IsContinue(a) /\ IsError(b) => IsError(Concat(a, b))
           /\ IsBreak(a) => Concat(a, b) = a
           /\ IsBreak(Concat(a, b)) <=> IsBreak(a) \/ IsBreak(b)
<1>1. Rank \in [{"ok", "brk", "error", "error_brk", "fatal"} -> 0..4]
  BY DEF Rank
<1>2. /\ Rank["ok"] = 0 /\ Rank["brk"] = 1 /\ Rank["error"] = 2
      /\ Rank["error_brk"] = 3 /\ Rank["fatal"] = 4
  BY DEF Rank
<1>3. \A s \in Statuses : IsError(s) <=> s \in {"error", "error_brk", "fatal"}
  BY <1>2 DEF IsError, Statuses
<1>4. /\ Concat(a, b) \in Statuses
      /\ IsBreak(a) => Concat(a, b) = a
      /\ IsBreak(Concat(a, b)) <=> IsBreak(a) \/ IsBreak(b)
  BY DEF Concat, IsBreak, Statuses
<1>5. IsError(a) => IsError(Concat(a, b))
  BY <1>3, <1>4 DEF Concat, IsBreak, Statuses
<1>6. IsContinue(a) /\ IsError(b) => IsError(Concat(a, b))
  BY <1>3, <1>4 DEF Concat, IsBreak, IsContinue, Statuses
<1> QED
  BY <1>4, <1>5, <1>6

-----------------------------------------------------------------------------
LEMMA Smallest ==
    ASSUME NEW T, T \subseteq Nat, T # {}
    PROVE  \E x \in T : \A y \in T : x <= y
<1> DEFINE R == {ss \in Nat \X Nat : ss[1] < ss[2]}
<1>1. IsWellFoundedOn(R, Nat)
  BY NatLessThanWellFounded DEF OpToRel
<1>2. PICK x \in T : \A y \in T : <<y, x>> \notin R
  BY <1>1, WFMin
<1>3. x \in Nat /\ T \subseteq Nat
  OBVIOUS
<1>4. \A y \in T : ~(y < x)
  BY <1>2, <1>3
<1> QED
  BY <1>3, <1>4

LEMMA AfterBlockTyped ==
    ASSUME TypeOK
    PROVE  AfterBlock \in Nat \ {0}
<1> DEFINE closes == {i \in pos..Len(doc) :
                        /\ doc[i].kind = "close"
                        /\ \A j \in pos..(i - 1) :
                            doc[j].kind = "open" => doc[j].close < i}
<1>1. pos \in Nat \ {0} /\ Len(doc) \in Nat
  BY DEF TypeOK, WellFormed
<1>2. closes \subseteq Nat
  BY <1>1
<1>3. CASE closes = {}
  <2>1. AfterBlock = Len(doc) + 1
    BY <1>3 DEF AfterBlock
  <2> QED
    BY <1>1, <2>1
<1>4. CASE closes # {}
  <2> DEFINE first == CHOOSE i \in closes : \A j \in closes : i <= j
  <2>1. \E i \in closes : \A j \in closes : i <= j
    BY <1>2, <1>4, Smallest
  <2>2. first \in closes
    BY <2>1
  <2>3. AfterBlock = first + 1
    BY <1>4 DEF AfterBlock
  <2> HIDE DEF first
  <2> QED
    BY <1>2, <2>2, <2>3
<1> QED
  BY <1>3, <1>4

(* A token is one of the three kinds.                                      *)
LEMMA TokenTyped ==
    ASSUME TypeOK, pos <= Len(doc)
    PROVE  Token \in Leaf \cup Open \cup Close
<1>1. doc \in Seq(Leaf \cup Open \cup Close) /\ pos \in 1..Len(doc)
  BY DEF TypeOK, WellFormed
<1> QED
  BY <1>1 DEF Token

LEMMA EffectiveTyped ==
    ASSUME NEW token, token.raised \in Statuses
    PROVE  Effective(token) \in Statuses
  BY DEF Effective, Statuses

LEMMA InnerTyped ==
    ASSUME TypeOK
    PROVE  /\ Len(loops) \in Nat \ {0}
           /\ Inner \in Loop
           /\ \A i \in 1..Len(loops) : loops[i] \in Loop
<1>1. loops \in Seq(Loop) /\ loops # <<>>
  BY DEF TypeOK
<1>2. Len(loops) \in Nat \ {0} /\ \A i \in 1..Len(loops) : loops[i] \in Loop
  BY <1>1
<1> QED
  BY <1>2 DEF Inner

LEMMA BeforeTyped == Before \in {"ok", "error"}
  BY DEF Before

-----------------------------------------------------------------------------
LEMMA InitInv == Init => Inv
<1> SUFFICES ASSUME NEW document \in Documents, InitialStatus(document) PROVE Inv
  BY DEF Init
<1> DEFINE loop == [attr |-> "ok", tail |-> "ok", error |-> FALSE]
<1>1. loop \in Loop
  BY DEF Loop, AttributeStatuses
<1>2. loops = <<loop>> /\ Len(loops) = 1 /\ loops[1] = loop
  BY DEF InitialStatus
<1>3. loops \in Seq(Loop) /\ loops # <<>>
  BY <1>1, <1>2
<1>4. TypeOK
  BY <1>3, DocumentsAssumption DEF InitialStatus, TypeOK, Statuses
<1>5. Before = "ok"
  BY <1>2 DEF Before, Remembered
<1>6. SeenIsAccounted
  BY <1>5 DEF InitialStatus, SeenIsAccounted, Pending, Concat, IsBreak
<1>7. OutermostIsPlain
  BY <1>2 DEF OutermostIsPlain
<1> QED
  BY <1>4, <1>6, <1>7 DEF Inv

(* A consumed element: its status is seen and returned.                    *)
LEMMA ConsumedInv ==
    ASSUME Inv, Processing, NEW s \in Statuses,
           returned' = s, seen' = Concat(seen, s), pos' \in Nat \ {0},
           UNCHANGED <<doc, loops, result>>
    PROVE  Inv'
<1>1. Before' = Before
  BY DEF Before, Remembered
<1>2. seen = Before
  BY BeforeTyped DEF Inv, SeenIsAccounted, Pending, Processing, Concat, IsBreak
<1>3. Pending' = s
  BY DocumentsAssumption DEF Pending
<1>4. SeenIsAccounted'
  BY <1>1, <1>2, <1>3 DEF SeenIsAccounted, Processing
<1>5. seen' \in Statuses
  BY ConcatKeeps DEF Inv, TypeOK
<1>6. TypeOK'
  BY <1>5 DEF Inv, TypeOK
<1> QED
  BY <1>4, <1>6 DEF Inv, OutermostIsPlain

LEMMA ConsumeLeafInv == Inv /\ ConsumeLeaf => Inv'
<1> SUFFICES ASSUME Inv, ConsumeLeaf PROVE Inv'
  OBVIOUS
<1>1. Token \in Leaf
  BY TokenTyped DEF Inv, ConsumeLeaf, Leaf, Open, Close
<1>2. Effective(Token) \in Statuses
  BY <1>1, EffectiveTyped DEF Leaf
<1>3. pos' \in Nat \ {0}
  BY DEF Inv, TypeOK, ConsumeLeaf
<1> QED
  BY <1>2, <1>3, ConsumedInv DEF ConsumeLeaf

LEMMA SkipBlockInv == Inv /\ SkipBlock => Inv'
<1> SUFFICES ASSUME Inv, SkipBlock PROVE Inv'
  OBVIOUS
<1>1. Token \in Open
  BY TokenTyped DEF Inv, SkipBlock, Leaf, Open, Close
<1> DEFINE s == IF Token.how = "element" THEN Effective(Token) ELSE Token.raised
<1>2. s \in Statuses
  BY <1>1, EffectiveTyped DEF Open
<1>3. pos' \in Nat \ {0}
  BY <1>1 DEF SkipBlock, Open
<1> QED
  BY <1>2, <1>3, ConsumedInv DEF SkipBlock

LEMMA EnterBlockInv == Inv /\ EnterBlock => Inv'
<1> SUFFICES ASSUME Inv, EnterBlock PROVE Inv'
  OBVIOUS
<1> DEFINE n == Len(loops)
           loop == [attr |-> Token.attr, tail |-> Token.tail, error |-> FALSE]
<1>1. Token \in Open
  BY TokenTyped DEF Inv, EnterBlock, Leaf, Open, Close
<1>2. loop \in Loop
  BY <1>1 DEF Loop, Open
<1>3. loops \in Seq(Loop) /\ n \in Nat \ {0}
  BY InnerTyped DEF Inv, TypeOK
<1>4. /\ loops' \in Seq(Loop) /\ loops' # <<>>
      /\ Len(loops') = n + 1
      /\ \A i \in 1..n : loops'[i] = loops[i]
      /\ loops'[n + 1] = loop
  BY <1>2, <1>3, AppendProperties DEF EnterBlock
<1>5. Before' = Concat(Before, Token.attr)
  <2>1. loop.attr = Token.attr /\ ~loop.error /\ Token.attr \in {"ok", "error"}
    BY <1>1 DEF Open, AttributeStatuses
  <2>2. 1..(n + 1) = (1..n) \cup {n + 1}
    BY <1>3
  <2> HIDE DEF n, loop
  <2>3. (\E i \in 1..Len(loops') : Remembered(i)')
          <=> (\E i \in 1..n : Remembered(i)) \/ Token.attr = "error"
    BY <1>4, <2>1, <2>2 DEF Remembered
  <2> QED
    BY <2>1, <2>3 DEF Before, Concat, IsBreak, n
<1>6. seen = Before
  BY BeforeTyped DEF Inv, SeenIsAccounted, Pending, EnterBlock, Processing, Concat, IsBreak
<1>7. SeenIsAccounted'
  <2>1. seen' = Before' /\ result' = None /\ Pending' = "ok"
    BY <1>5, <1>6 DEF EnterBlock, Processing, Pending
  <2>2. Before' = Concat(Before', "ok")
    BY DEF Before, Concat, IsBreak
  <2> QED
    BY <2>1, <2>2 DEF SeenIsAccounted
<1>8. seen' \in Statuses
  BY <1>1, ConcatKeeps DEF Inv, TypeOK, EnterBlock, Open, AttributeStatuses, Statuses
<1>9. TypeOK'
  BY <1>4, <1>8 DEF Inv, TypeOK, EnterBlock
<1>10. OutermostIsPlain'
  BY <1>3, <1>4 DEF Inv, OutermostIsPlain
<1> QED
  BY <1>7, <1>9, <1>10 DEF Inv

(* The loop remembers an error.                                            *)
LEMMA ContinueInv == Inv /\ Continue => Inv'
<1> SUFFICES ASSUME Inv, Continue PROVE Inv'
  OBVIOUS
<1> DEFINE n == Len(loops)
           loop == [Inner EXCEPT !.error = @ \/ returned = "error"]
<1>1. loops \in Seq(Loop) /\ n \in Nat \ {0} /\ Inner \in Loop
  BY InnerTyped DEF Inv, TypeOK
<1>2. /\ loop \in Loop /\ loop.attr = Inner.attr /\ loop.tail = Inner.tail
      /\ loop.error <=> Inner.error \/ returned = "error"
  BY <1>1 DEF Loop
<1>3. loops' = [loops EXCEPT ![n] = loop]
  BY DEF Continue, Inner
<1> HIDE DEF loop
<1>4. /\ loops' \in Seq(Loop) /\ Len(loops') = n
      /\ \A i \in 1..n : loops'[i] = IF i = n THEN loop ELSE loops[i]
  BY <1>1, <1>2, <1>3, ExceptSeq
<1>5. ASSUME NEW i \in 1..n
      PROVE  Remembered(i)' <=> Remembered(i) \/ (i = n /\ returned = "error")
  <2>1. CASE i = n
    BY <1>2, <1>4, <2>1 DEF Remembered, Inner
  <2>2. CASE i # n
    BY <1>4, <2>2 DEF Remembered
  <2> QED
    BY <2>1, <2>2
<1>6. Before' = IF returned = "error" THEN "error" ELSE Before
  <2>1. n \in 1..n
    BY <1>1
  <2>2. CASE returned = "error"
    BY <1>4, <1>5, <2>1, <2>2 DEF Before
  <2>3. CASE returned # "error"
    BY <1>4, <1>5, <2>3 DEF Before
  <2> QED
    BY <2>2, <2>3
<1>7. returned # None
  BY DocumentsAssumption DEF Continue, Statuses
<1>8. SeenIsAccounted'
  BY <1>6, <1>7, BeforeTyped DEF Inv, SeenIsAccounted, Continue, Pending, Concat, IsBreak
<1>9. TypeOK'
  BY <1>1, <1>4 DEF Inv, TypeOK, Continue
<1>10. OutermostIsPlain'
  BY <1>1, <1>2, <1>4 DEF Inv, OutermostIsPlain, Inner
<1> QED
  BY <1>8, <1>9, <1>10 DEF Inv

-----------------------------------------------------------------------------
(* Loops that return.                                                      *)

(* What a loop returns is what it and its directive remembered, then the   *)
(* rest.                                                                   *)
LEMMA DroppedLoop ==
    ASSUME TypeOK, Len(loops) # 1, loops' = SubSeq(loops, 1, Len(loops) - 1)
    PROVE  /\ loops' \in Seq(Loop) /\ loops' # <<>> /\ loops'[1] = loops[1]
           /\ Before = IF Inner.error \/ Inner.attr = "error" THEN "error" ELSE Before'
<1> DEFINE n == Len(loops)
<1>1. /\ n \in Nat \ {0} /\ n # 1
      /\ \A i \in 1..n : loops[i] \in Loop
  BY InnerTyped
<1>0. \A k \in Nat \ {0, 1} : /\ 1 \in Int /\ k - 1 \in Int /\ 1 <= k - 1
                             /\ 1..(k - 1) \subseteq 1..k
                             /\ 1..k = (1..(k - 1)) \cup {k} /\ 1 \in 1..(k - 1)
  OBVIOUS
<1>2. 1 \in Int /\ n - 1 \in Int /\ 1 <= n - 1 /\ \A i \in 1..(n - 1) : loops[i] \in Loop
  BY <1>1, <1>0
<1>3. /\ loops' \in Seq(Loop)
      /\ Len(loops') = (n - 1) - 1 + 1
      /\ \A i \in 1..((n - 1) - 1 + 1) : loops'[i] = loops[1 + i - 1]
  BY <1>2, SubSeqProperties
<1>4. Len(loops') = n - 1 /\ \A i \in 1..(n - 1) : loops'[i] = loops[i]
  <2>1. (n - 1) - 1 + 1 = n - 1 /\ \A i \in 1..(n - 1) : 1 + i - 1 = i
    BY <1>1
  <2> QED
    BY <1>3, <2>1
<1>5. 1..n = (1..(n - 1)) \cup {n} /\ 1 \in 1..(n - 1)
  BY <1>1, <1>0
<1>6. loops'[1] = loops[1] /\ loops' # <<>>
  BY <1>1, <1>4, <1>5
<1>7. \A i \in 1..(n - 1) : Remembered(i)' <=> Remembered(i)
  BY <1>4 DEF Remembered
<1>8. Remembered(n) <=> Inner.error \/ Inner.attr = "error"
  BY DEF Remembered, Inner
<1> HIDE DEF n
<1>9. (\E i \in 1..n : Remembered(i))
        <=> (\E i \in 1..(n - 1) : Remembered(i)') \/ Inner.error \/ Inner.attr = "error"
  BY <1>5, <1>7, <1>8
<1>10. Len(loops) = n /\ Len(loops') = n - 1
  BY <1>4 DEF n
<1> QED
  BY <1>3, <1>6, <1>9, <1>10 DEF Before

(* The outermost loop is the only one that remembers.                      *)
LEMMA LastLoop ==
    ASSUME TypeOK, OutermostIsPlain, Len(loops) = 1
    PROVE  /\ Before = IF Inner.error THEN "error" ELSE "ok"
           /\ Inner.attr = "ok" /\ Inner.tail = "ok"
<1>1. 1..1 = {1}
  OBVIOUS
<1> QED
  BY <1>1 DEF Before, Remembered, OutermostIsPlain, Inner

LEMMA ReturnInv ==
    ASSUME Inv, result = None, NEW v \in Statuses, NEW next \in Nat \ {0},
           Return(v, next), doc' = doc, seen' \in Statuses,
           Len(loops) = 1 => seen' = v,
           Len(loops) # 1 => seen' = Concat(Before', Outward(v))
    PROVE  Inv'
<1>1. Inner \in Loop
  BY InnerTyped DEF Inv
<1>2. Outward(v) \in Statuses
  <2>1. Inner.attr \in Statuses /\ Check(v) \in Statuses
    BY <1>1 DEF Loop, AttributeStatuses, Statuses, Check
  <2> QED
    BY <2>1, ConcatKeeps DEF Outward
<1>3. CASE Len(loops) = 1
  <2>1. result' = v /\ UNCHANGED <<pos, loops>> /\ returned' = None
    BY <1>3 DEF Return
  <2>2. v # None
    BY DocumentsAssumption
  <2> QED
    BY <1>3, <2>1, <2>2 DEF Inv, TypeOK, OutermostIsPlain, SeenIsAccounted
<1>4. CASE Len(loops) # 1
  <2>1. /\ returned' = Outward(v)
        /\ loops' = SubSeq(loops, 1, Len(loops) - 1)
        /\ pos' = next /\ result' = None
    BY <1>4 DEF Return
  <2>2. loops' \in Seq(Loop) /\ loops' # <<>> /\ loops'[1] = loops[1]
    BY <1>4, <2>1, DroppedLoop DEF Inv
  <2>3. Pending' = Outward(v)
    BY <1>2, <2>1, DocumentsAssumption DEF Pending
  <2> QED
    BY <1>2, <1>4, <2>1, <2>2, <2>3 DEF Inv, TypeOK, OutermostIsPlain, SeenIsAccounted
<1> QED
  BY <1>3, <1>4

LEMMA BreakLoopInv == Inv /\ BreakLoop => Inv'
<1> SUFFICES ASSUME Inv, BreakLoop PROVE Inv'
  OBVIOUS
<1> DEFINE v == IF returned = "brk" /\ Inner.error THEN "error_brk" ELSE returned
<1>1. /\ result = None /\ returned \in {"brk", "error_brk", "fatal"}
      /\ Return(v, AfterBlock) /\ UNCHANGED <<doc, seen>>
  BY DEF BreakLoop
<1>2. Inner \in Loop /\ v \in {"brk", "error_brk", "fatal"}
  BY <1>1, InnerTyped DEF Inv
<1>3. returned # None /\ seen = Concat(Before, returned)
  BY <1>1, DocumentsAssumption DEF Inv, SeenIsAccounted, Pending, Statuses
<1>4. AfterBlock \in Nat \ {0}
  BY AfterBlockTyped DEF Inv
<1>5. ASSUME Len(loops) = 1 PROVE seen' = v
  BY <1>1, <1>3, <1>5, LastLoop DEF Inv, Concat, IsBreak
<1>6. ASSUME Len(loops) # 1 PROVE seen' = Concat(Before', Outward(v))
  <2>1. loops' = SubSeq(loops, 1, Len(loops) - 1)
    BY <1>1, <1>6 DEF Return
  <2>2. Before = IF Inner.error \/ Inner.attr = "error" THEN "error" ELSE Before'
    BY <1>6, <2>1, DroppedLoop DEF Inv
  <2>3. Outward(v) = Concat(Inner.attr, v)
    BY <1>2, ConcatNeutral, ConcatKeeps
       DEF Outward, Check, IsContinue, Statuses, Loop, AttributeStatuses
  <2>4. Before' \in {"ok", "error"} /\ Inner.attr \in {"ok", "error"}
    BY <1>2 DEF Before, Loop, AttributeStatuses
  <2> QED
    BY <1>1, <1>3, <2>2, <2>3, <2>4 DEF Concat, IsBreak
<1>7. v \in Statuses /\ seen' \in Statuses /\ doc' = doc
  BY <1>1, <1>2 DEF Inv, TypeOK, Statuses
<1> HIDE DEF v
<1> QED
  BY <1>1, <1>4, <1>5, <1>6, <1>7, ReturnInv

LEMMA EndLoopInv == Inv /\ EndLoop => Inv'
<1> SUFFICES ASSUME Inv, EndLoop PROVE Inv'
  OBVIOUS
<1>1. /\ result = None /\ returned = None /\ Return(Finished, pos + 1)
      /\ seen' = Concat(seen, Check(Finished)) /\ doc' = doc
  BY DEF EndLoop, Processing
<1>2. Inner \in Loop /\ Finished \in {"ok", "error"}
  BY InnerTyped DEF Inv, Finished
<1>3. seen = Before
  BY <1>1, BeforeTyped DEF Inv, SeenIsAccounted, Pending, Concat, IsBreak
<1>4. Check(Finished) = Inner.tail /\ Inner.tail \in {"ok", "error"}
  BY <1>2 DEF Check, IsContinue, Loop, AttributeStatuses
<1>5. ASSUME Len(loops) = 1 PROVE seen' = Finished
  BY <1>1, <1>3, <1>4, <1>5, LastLoop DEF Inv, Finished, Concat, IsBreak
<1>6. ASSUME Len(loops) # 1 PROVE seen' = Concat(Before', Outward(Finished))
  <2>1. loops' = SubSeq(loops, 1, Len(loops) - 1)
    BY <1>1, <1>6 DEF Return
  <2>2. Before = IF Inner.error \/ Inner.attr = "error" THEN "error" ELSE Before'
    BY <1>6, <2>1, DroppedLoop DEF Inv
  <2>3. Before' \in {"ok", "error"} /\ Inner.attr \in {"ok", "error"}
    BY <1>2 DEF Before, Loop, AttributeStatuses
  <2> QED
    BY <1>1, <1>2, <1>3, <1>4, <2>2, <2>3 DEF Outward, Finished, Concat, IsBreak
<1>7. Finished \in Statuses /\ pos + 1 \in Nat \ {0} /\ seen' \in Statuses
  BY <1>1, <1>2, <1>4, ConcatKeeps DEF Inv, TypeOK, Statuses
<1> QED
  BY <1>1, <1>5, <1>6, <1>7, ReturnInv

LEMMA StepInv == Inv /\ [Next]_vars => Inv'
<1> SUFFICES ASSUME Inv, [Next]_vars PROVE Inv'
  OBVIOUS
<1>1. CASE UNCHANGED vars
  BY <1>1 DEF vars, Inv, TypeOK, OutermostIsPlain, SeenIsAccounted, Before, Remembered,
     Pending
<1> QED
  BY <1>1, ConsumeLeafInv, EnterBlockInv, SkipBlockInv, ContinueInv, BreakLoopInv,
     EndLoopInv DEF Next

-----------------------------------------------------------------------------
(* process_greedy, nested to any depth: the status of the document is that *)
(* of all its elements, attributes and checks concatenated in their order. *)
THEOREM StatusIsConcatenation == Spec => []ResultIsConcatenation
<1>1. Inv => ResultIsConcatenation
  BY DEF Inv, SeenIsAccounted, ResultIsConcatenation
<1> QED
  BY <1>1, InitInv, StepInv, PTL DEF Spec

(* Once anything breaks, no element is processed any more, in any block.   *)
THEOREM NothingAfterBreak == Spec => AbandonedAfterBreak
<1>1. Inv /\ [Next]_vars
        => [IsBreak(seen) => ~(ConsumeLeaf \/ EnterBlock \/ SkipBlock)]_vars
  <2> SUFFICES ASSUME Inv, IsBreak(seen), Processing PROVE FALSE
    BY DEF ConsumeLeaf, EnterBlock, SkipBlock
  <2> QED
    BY BeforeTyped DEF Inv, SeenIsAccounted, Pending, Processing, Concat, IsBreak
<1> QED
  BY <1>1, InitInv, StepInv, PTL DEF Spec, AbandonedAfterBreak
=============================================================================
