---------------------------- MODULE WatchProofs ----------------------------
(***************************************************************************)
(* For any files and any number of changes: the files watched between      *)
(* callbacks are those of the page, and a change that a watcher has seen   *)
(* is not forgotten.                                                       *)
(*                                                                         *)
(* While nothing is compiled both are about what the last compilation has  *)
(* done; the invariant says what holds before it is complete.              *)
(***************************************************************************)
EXTENDS Watch, TLAPS

(* A compilation leaves the watchers alone until it has succeeded; then    *)
(* those that are not needed are closed before any is made.                *)
WatchedSoFar ==
    /\ phase = "compile" /\ page # None => watchers = DOMAIN page
    /\ phase = "watch" => page = got /\ watchers \subseteq DOMAIN got
    /\ phase = "idle" => watchers = DOMAIN page

(* A file that was changed after it was loaded has a watcher that is about *)
(* to report it, or the timer is running already.                          *)
ChangesPending ==
    /\ \A f \in DOMAIN got \ unnoticed : got[f] = disk[f] \/ f \in events \/ timer
    /\ phase = "idle" => page = got \/ bad

Inv == TypeOK /\ WatchedSoFar /\ ChangesPending

-----------------------------------------------------------------------------
LEMMA InitInv == Init => Inv
<1> SUFFICES ASSUME Init PROVE Inv
  OBVIOUS
<1>1. DOMAIN got = {}
  BY DEF Init
<1>2. disk \in [Files -> Text \cup {Missing}]
  BY WatchAssumption DEF Init
<1>3. todo \in Seq(Files)
  BY WatchAssumption DEF Init
<1>4. edits \in 0..MaxEdits
  BY WatchAssumption, SMT DEF Init
<1>5. TypeOK
  BY <1>1, <1>2, <1>3, <1>4, Zenon DEF Init, TypeOK, Phases
<1>6. WatchedSoFar /\ ChangesPending
  BY <1>1 DEF Init, WatchedSoFar, ChangesPending
<1> QED
  BY <1>5, <1>6 DEF Inv

(* A file changes, whether or not its watcher survives.                    *)
LEMMA ChangeInv ==
    ASSUME Inv, NEW f \in Files, NEW t \in Texts[f] \cup {Missing}, Change(f, t),
           live' = live \/ live' = live \ {f}
    PROVE  Inv'
<1>1. t \in Text \cup {Missing}
  BY WatchAssumption
<1>2. disk' \in [Files -> Text \cup {Missing}]
  BY <1>1 DEF Inv, TypeOK, Change
<1>3. edits' \in 0..MaxEdits
  BY WatchAssumption, SMT DEF Inv, TypeOK, Change
<1>4. live' \subseteq watchers' /\ events' \subseteq watchers' /\ unnoticed' \subseteq Files
  BY DEF Inv, TypeOK, Change
<1>5. TypeOK'
  BY <1>2, <1>3, <1>4 DEF Inv, TypeOK, Change
<1>6. WatchedSoFar'
  BY DEF Inv, WatchedSoFar, Change
<1>7. ASSUME NEW g \in DOMAIN got \ unnoticed'
      PROVE  got[g] = disk'[g] \/ g \in events' \/ timer
  <2>1. CASE g = f
    BY <1>7, <2>1 DEF Change
  <2>2. CASE g # f
    <3>1. g \in DOMAIN got \ unnoticed /\ events \subseteq events'
      BY <1>7, <2>2 DEF Change
    <3>2. disk'[g] = disk[g]
      BY <2>2 DEF Inv, TypeOK, Change
    <3> QED
      BY <3>1, <3>2 DEF Inv, ChangesPending
  <2> QED
    BY <2>1, <2>2
<1>8. ChangesPending'
  BY <1>7 DEF Inv, ChangesPending, Change
<1> QED
  BY <1>5, <1>6, <1>8 DEF Inv

LEMMA LoadFileInv == Inv /\ LoadFile => Inv'
<1> SUFFICES ASSUME Inv, LoadFile PROVE Inv'
  OBVIOUS
<1> DEFINE f == Head(todo)
           t == disk[f]
<1>1. f \in Files /\ Tail(todo) \in Seq(Files)
  BY DEF Inv, TypeOK, LoadFile
<1>2. t \in Text
  BY <1>1 DEF Inv, TypeOK, LoadFile
<1>3. t.inc \o Tail(todo) \in Seq(Files)
  BY <1>1, <1>2 DEF Text
<1>4. todo' \in Seq(Files)
  BY <1>3 DEF LoadFile
<1>5. got' = [g \in DOMAIN got \cup {f} |-> IF g = f THEN t ELSE got[g]]
  BY DEF LoadFile
<1>6. TypeOK'
  BY <1>1, <1>4, <1>5 DEF Inv, TypeOK, LoadFile, watching
<1>7. WatchedSoFar'
  BY DEF Inv, WatchedSoFar, LoadFile, Compiling, watching
<1>8. ASSUME NEW g \in DOMAIN got' \ unnoticed'
      PROVE  got'[g] = disk[g] \/ g \in events \/ timer
  <2>1. CASE g = f
    BY <1>5, <2>1
  <2>2. CASE g # f
    BY <1>5, <1>8, <2>2 DEF Inv, ChangesPending, LoadFile
  <2> QED
    BY <2>1, <2>2
<1>9. ChangesPending'
  BY <1>8 DEF ChangesPending, LoadFile, Compiling, watching
<1> QED
  BY <1>6, <1>7, <1>9 DEF Inv

LEMMA FailureInv == Inv /\ (LoadFails \/ Failed) => Inv'
<1> SUFFICES ASSUME Inv, LoadFails \/ Failed PROVE Inv'
  OBVIOUS
<1>1. TypeOK'
  <2>1. CASE LoadFails
    BY <2>1 DEF Inv, TypeOK, LoadFails, watching
  <2>2. CASE Failed
    BY <2>2 DEF Inv, TypeOK, Failed, Phases, watching
  <2> QED
    BY <2>1, <2>2
<1>2. WatchedSoFar'
  BY DEF Inv, WatchedSoFar, LoadFails, Failed, Compiling, watching
<1>3. ChangesPending'
  BY DEF Inv, ChangesPending, LoadFails, Failed, Compiling, watching
<1> QED
  BY <1>1, <1>2, <1>3 DEF Inv

LEMMA SuccessInv == Inv /\ (Succeeded \/ AddWatcher \/ Watching) => Inv'
<1> SUFFICES ASSUME Inv, Succeeded \/ AddWatcher \/ Watching PROVE Inv'
  OBVIOUS
<1>1. TypeOK'
  BY DEF Inv, TypeOK, Succeeded, AddWatcher, Watching, Phases, watching
<1>2. WatchedSoFar'
  BY DEF Inv, WatchedSoFar, Succeeded, AddWatcher, Watching, Compiling, watching
<1>3. ChangesPending'
  BY DEF Inv, WatchedSoFar, ChangesPending, Succeeded, AddWatcher, Watching,
         Compiling, watching
<1> QED
  BY <1>1, <1>2, <1>3 DEF Inv

LEMMA CallbackInv == Inv /\ (OnChange \/ TimerFires) => Inv'
<1>1. Inv /\ OnChange => Inv'
  BY DEF Inv, TypeOK, WatchedSoFar, ChangesPending, OnChange, Phases
<1>2. ASSUME Inv, TimerFires PROVE Inv'
  <2>1. DOMAIN got' = {}
    BY <1>2 DEF TimerFires
  <2>2. todo' \in Seq(Files)
    BY <1>2, WatchAssumption DEF TimerFires
  <2> QED
    BY <1>2, <2>1, <2>2 DEF Inv, TypeOK, WatchedSoFar, ChangesPending, TimerFires, Phases
<1> QED
  BY <1>1, <1>2

LEMMA StepInv == Inv /\ [Next]_vars => Inv'
<1> SUFFICES ASSUME Inv, [Next]_vars PROVE Inv'
  OBVIOUS
<1>1. CASE Edit
  BY <1>1, ChangeInv DEF Edit
<1>2. CASE Replace
  BY <1>2, ChangeInv DEF Replace
<1>3. CASE Program
  BY <1>3, LoadFileInv, FailureInv, SuccessInv, CallbackInv DEF Program
<1>4. CASE UNCHANGED vars
  BY <1>4 DEF vars, Inv, TypeOK, WatchedSoFar, ChangesPending
<1> QED
  BY <1>1, <1>2, <1>3, <1>4 DEF Next

-----------------------------------------------------------------------------
(* Between callbacks, exactly the files of the page are watched            *)
(* (updateWatchers), however many compilations have failed since.          *)
THEOREM WatchedIsThePage == Spec => []WatchesThePage
<1>1. Inv => WatchesThePage
  BY DEF Inv, WatchedSoFar, WatchesThePage
<1> QED
  BY InitInv, StepInv, <1>1, PTL DEF Spec

(* At rest, what the last compilation has loaded is what is on disk, up to *)
(* changes that no watcher saw, and the page is made of it unless it       *)
(* failed (onChange and its timer).                                        *)
THEOREM NoChangeForgotten == Spec => []NothingForgotten
<1>1. Inv => NothingForgotten
  BY DEF Inv, ChangesPending, NothingForgotten, AtRest
<1> QED
  BY InitInv, StepInv, <1>1, PTL DEF Spec
=============================================================================
