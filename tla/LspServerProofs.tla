-------------------------- MODULE LspServerProofs --------------------------
(***************************************************************************)
(* For any documents, texts and settings and any number of messages and    *)
(* changes on disk: the server's documents are those of the editor, a      *)
(* validation works on one snapshot, and what is published without a       *)
(* configuration is up to date.                                            *)
(*                                                                         *)
(* The first two rest on the life of transient documents (Inv): they are   *)
(* open only while a validation runs, and messages wait until it has       *)
(* ended.  The third needs Current besides: what a validation has found in *)
(* the documents that it has come to are the faults of the editor's texts. *)
(***************************************************************************)
EXTENDS LspServer, SequenceTheorems, TLAPS

JobOK == job \in Jobs \cup {None}

EditorOK == editor \in [Docs -> Text \cup {NotOpen}]

(* What is open in the editor is open in the server, and what is not is    *)
(* open for the time of a validation only.                                 *)
Synced ==
    \A d \in Docs :
        /\ editor[d] # NotOpen =>
              open[d] # NotOpen /\ open[d].text = editor[d] /\ ~open[d].transient
        /\ editor[d] = NotOpen /\ open[d] # NotOpen => run # None /\ open[d].transient

Inv == TypeOK /\ JobOK /\ EditorOK /\ Synced /\ OneSnapshot

-----------------------------------------------------------------------------
(* Sequences.                                                              *)

LEMMA FrontLemma ==
    ASSUME NEW S, NEW s \in Seq(S), s # <<>>
    PROVE  /\ Front(s) \in Seq(S)
           /\ Len(Front(s)) = Len(s) - 1
           /\ \A i \in 1..(Len(s) - 1) : Front(s)[i] = s[i]
<1>1. Len(s) \in Nat \ {0}
  OBVIOUS
<1>2. \A i \in 1..(Len(s) - 1) : s[i] \in S
  BY <1>1
<1>3. 1 \in Int /\ Len(s) - 1 \in Int
  BY <1>1
<1>4. /\ Front(s) \in Seq(S)
      /\ Len(Front(s)) = IF 1 <= Len(s) - 1 THEN (Len(s) - 1) - 1 + 1 ELSE 0
      /\ \A i \in 1..((Len(s) - 1) - 1 + 1) : Front(s)[i] = s[1 + i - 1]
  BY <1>2, <1>3, SubSeqProperties DEF Front
<1>5. \A n \in Nat \ {0} : (IF 1 <= n - 1 THEN (n - 1) - 1 + 1 ELSE 0) = n - 1
  OBVIOUS
<1>6. ASSUME NEW i \in 1..(Len(s) - 1)
      PROVE  Front(s)[i] = s[i]
  <2>1. i \in 1..((Len(s) - 1) - 1 + 1) /\ 1 + i - 1 = i
    BY <1>1
  <2> QED
    BY <1>4, <2>1
<1> QED
  BY <1>1, <1>4, <1>5, <1>6

LEMMA RangeOfAppend ==
    ASSUME NEW S, NEW s \in Seq(S), NEW x \in S
    PROVE  Range(Append(s, x)) = Range(s) \cup {x}
<1>1. /\ DOMAIN Append(s, x) = 1..(Len(s) + 1)
      /\ DOMAIN s = 1..Len(s)
      /\ Len(s) \in Nat
      /\ \A i \in 1..Len(s) : Append(s, x)[i] = s[i]
      /\ Append(s, x)[Len(s) + 1] = x
  OBVIOUS
<1>2. 1..(Len(s) + 1) = (1..Len(s)) \cup {Len(s) + 1}
  BY <1>1
<1> QED
  BY <1>1, <1>2 DEF Range

-----------------------------------------------------------------------------
LEMMA InitInv == Init => Inv
<1> SUFFICES ASSUME Init PROVE Inv
  OBVIOUS
<1>1. disk \in [Docs -> Text \cup {Missing}]
  BY LspAssumption DEF Init
<1>2. TypeOK
  BY <1>1 DEF Init, TypeOK
<1>3. JobOK /\ EditorOK /\ Synced /\ OneSnapshot
  BY DEF Init, JobOK, EditorOK, Synced, OneSnapshot
<1> QED
  BY <1>2, <1>3 DEF Inv

(* No validation is running when a message is dealt with, so that nothing  *)
(* transient is open.                                                      *)
LEMMA OpenOrChangeInv ==
    ASSUME Inv, NEW d \in Docs, NEW t \in Texts[d], OpenOrChange(d, t)
    PROVE  Inv'
<1>1. job = None /\ run = None /\ job' = None /\ run' = None
  BY DEF Inv, TypeOK, OpenOrChange, Idle
<1>2. t \in Text
  BY LspAssumption
<1>3. Opened(t) \in Document
  BY <1>2 DEF Opened, Document
<1>4. open' \in [Docs -> Document \cup {NotOpen}]
  BY <1>3 DEF Inv, TypeOK, OpenOrChange, Insert
<1>5. queue' \subseteq Docs
  BY DEF OpenOrChange, Dependent_roots
<1>6. TypeOK'
  BY <1>1, <1>4, <1>5 DEF Inv, TypeOK, OpenOrChange
<1>7. EditorOK'
  BY <1>2 DEF Inv, EditorOK, OpenOrChange
<1>8. ASSUME NEW e \in Docs
      PROVE  /\ editor'[e] # NotOpen =>
                   open'[e] # NotOpen /\ open'[e].text = editor'[e] /\ ~open'[e].transient
             /\ editor'[e] = NotOpen /\ open'[e] # NotOpen =>
                   run' # None /\ open'[e].transient
  <2>1. CASE e = d
    <3>1. open'[e] = Opened(t) /\ editor'[e] = t
      BY <2>1 DEF Inv, TypeOK, EditorOK, OpenOrChange, Insert
    <3>2. t # NotOpen /\ Opened(t) # NotOpen
      BY <1>2, <1>3, AbsenceAssumption
    <3> QED
      BY <3>1, <3>2 DEF Opened
  <2>2. CASE e # d
    <3>1. open'[e] = open[e] /\ editor'[e] = editor[e]
      BY <2>2 DEF Inv, TypeOK, EditorOK, OpenOrChange, Insert
    <3> QED
      BY <3>1, <1>1 DEF Inv, Synced
  <2> QED
    BY <2>1, <2>2
<1>9. JobOK' /\ OneSnapshot'
  BY <1>1 DEF JobOK, OneSnapshot
<1> QED
  BY <1>6, <1>7, <1>8, <1>9 DEF Inv, Synced

LEMMA DidCloseInv == Inv /\ DidClose => Inv'
<1> SUFFICES ASSUME Inv, DidClose PROVE Inv'
  OBVIOUS
<1>1. run = None /\ run' = None /\ job' = None /\ queue' = queue
  BY DEF Inv, TypeOK, DidClose, Idle
<1>2. PICK d \in Docs : /\ editor' = [editor EXCEPT ![d] = NotOpen]
                        /\ open' = [open EXCEPT ![d] = NotOpen]
                        /\ shown' = [shown EXCEPT ![d] = {}]
  BY DEF DidClose
<1>3. disk' = disk /\ config' = config
  BY DEF DidClose
<1>4. TypeOK'
  BY <1>1, <1>2, <1>3 DEF Inv, TypeOK
<1>5. EditorOK' /\ Synced'
  BY <1>1, <1>2 DEF Inv, TypeOK, EditorOK, Synced
<1>6. JobOK' /\ OneSnapshot'
  BY <1>1 DEF JobOK, OneSnapshot
<1> QED
  BY <1>4, <1>5, <1>6 DEF Inv

LEMMA DiskWriteInv == Inv /\ DiskWrite => Inv'
<1> SUFFICES ASSUME Inv, DiskWrite PROVE Inv'
  OBVIOUS
<1>1. disk' \in [Docs -> Text \cup {Missing}]
  BY LspAssumption DEF Inv, TypeOK, DiskWrite
<1> QED
  BY <1>1 DEF Inv, TypeOK, JobOK, EditorOK, Synced, OneSnapshot, DiskWrite

-----------------------------------------------------------------------------
(* Steps that change neither documents nor a validation.                   *)

LEMMA TakeRootInv == Inv /\ TakeRoot => Inv'
<1> SUFFICES ASSUME Inv, TakeRoot PROVE Inv'
  OBVIOUS
<1>1. run = None /\ run' = None
  BY DEF Inv, TypeOK, TakeRoot
<1>2. PICK r \in Docs : job' = IF Standalone THEN Job(r, {r}, <<>>)
                               ELSE Job(r, Entry_points, [d \in {r} |-> {}])
  BY DEF Inv, TypeOK, TakeRoot
<1>3. DOMAIN <<>> = {}
  OBVIOUS
<1>4. <<>> \in [{} -> SUBSET Diagnostic]
  OBVIOUS
<1>5. [d \in {r} |-> {}] \in [{r} -> SUBSET Diagnostic]
  OBVIOUS
<1>6. ASSUME ~Standalone PROVE Entry_points \subseteq Docs
  BY <1>6, LspAssumption DEF Inv, TypeOK, Standalone, Entry_points
<1>7. job' \in Jobs
  <2>1. CASE Standalone
    BY <1>2, <1>4, <2>1 DEF Job, Jobs
  <2>2. CASE ~Standalone
    BY <1>2, <1>5, <1>6, <2>2 DEF Job, Jobs
  <2> QED
    BY <2>1, <2>2
<1>8. TypeOK'
  <2>1. PICK uris \in SUBSET Docs : job'.by \in [uris -> SUBSET Diagnostic]
    BY <1>7 DEF Jobs
  <2>2. \A d \in DOMAIN job'.by : d \in Docs /\ job'.by[d] \subseteq Diagnostic
    BY <2>1
  <2>3. job'.root \in Docs /\ job'.entries \subseteq Docs
    BY <1>7 DEF Jobs
  <2> QED
    BY <1>1, <2>2, <2>3 DEF Inv, TypeOK, TakeRoot
<1>9. JobOK' /\ EditorOK' /\ Synced' /\ OneSnapshot'
  BY <1>1, <1>7 DEF Inv, JobOK, EditorOK, Synced, OneSnapshot, TakeRoot
<1> QED
  BY <1>8, <1>9 DEF Inv

LEMMA PublishInv == Inv /\ Publish => Inv'
<1> SUFFICES ASSUME Inv, Publish PROVE Inv'
  OBVIOUS
<1>1. DOMAIN shown' = Docs /\ \A d \in Docs : shown'[d] \subseteq Diagnostic
  BY DEF Inv, TypeOK, Publish
<1> QED
  BY <1>1 DEF Inv, TypeOK, JobOK, EditorOK, Synced, OneSnapshot, Publish

-----------------------------------------------------------------------------
(* Validations.                                                            *)

LEMMA OwnTyped ==
    ASSUME NEW d \in Docs, NEW t \in Text
    PROVE  OwnDiagnostics(d, t) \subseteq Diagnostic
  BY DEF OwnDiagnostics, Diagnostic, Kinds, Text, Faults

(* A validation that has begun is a validation, and its job goes on.       *)
LEMMA StartRunInv == Inv /\ StartRun => Inv'
<1> SUFFICES ASSUME Inv, StartRun PROVE Inv'
  OBVIOUS
<1>1. PICK e \in job.entries :
          /\ job' = [job EXCEPT !.entries = @ \ {e}]
          /\ run' = IF Entry_text(e) = Missing THEN None ELSE Started(e, Entry_text(e))
  BY DEF StartRun
<1>2. job \in Jobs
  BY DEF Inv, JobOK, StartRun
<1>3. e \in Docs
  BY <1>1, <1>2 DEF Jobs
<1>4. job' \in Jobs /\ job' # None
  <2>1. job' \in Jobs
    BY <1>1, <1>2 DEF Jobs
  <2> QED
    BY <2>1, AbsenceAssumption
<1>5. ASSUME run' # None
      PROVE  run' \in Runs /\ run'.includes = <<>> /\ Len(run'.stack) \in {0, 1}
  <2> DEFINE t == Entry_text(e)
  <2>1. t \in Text /\ run' = Started(e, t)
    BY <1>1, <1>3, <1>5 DEF Inv, TypeOK, Entry_text, Document
  <2>2. Place(e, t) \in Places
    BY <1>3, <2>1 DEF Place, Places
  <2>3. {<<e, x>> : x \in OwnDiagnostics(e, t)} \subseteq Docs \X Diagnostic
    BY <1>3, <2>1, OwnTyped
  <2>4. CASE t.fault = "syntax"
    BY <1>3, <2>1, <2>3, <2>4 DEF Started, Runs
  <2>5. CASE t.fault # "syntax"
    BY <1>3, <2>1, <2>2, <2>3, <2>5 DEF Started, Runs
  <2> QED
    BY <2>4, <2>5
<1>6. TypeOK'
  <2>1. PICK uris \in SUBSET Docs : job'.by \in [uris -> SUBSET Diagnostic]
    BY <1>4 DEF Jobs
  <2>2. \A d \in DOMAIN job'.by : d \in Docs /\ job'.by[d] \subseteq Diagnostic
    BY <2>1
  <2>3. job'.root \in Docs /\ job'.entries \subseteq Docs
    BY <1>4 DEF Jobs
  <2> QED
    BY <1>4, <1>5, <2>2, <2>3 DEF Inv, TypeOK, StartRun
<1>7. OneSnapshot'
  <2>1. ASSUME run' # None PROVE Range(run'.includes) = {}
    <3>1. DOMAIN <<>> = {}
      OBVIOUS
    <3> QED
      BY <1>5, <2>1, <3>1 DEF Range
  <2>2. ASSUME run' # None PROVE 2..Len(run'.stack) = {}
    <3>1. \A n \in {0, 1} : 2..n = {}
      OBVIOUS
    <3> QED
      BY <1>5, <2>2, <3>1
  <2> QED
    BY <2>1, <2>2 DEF OneSnapshot
<1>8. Synced'
  BY DEF Inv, Synced, StartRun
<1> QED
  BY <1>4, <1>6, <1>7, <1>8 DEF Inv, JobOK, EditorOK, StartRun

LEMMA AtIncludeTyped ==
    ASSUME Inv, AtInclude
    PROVE  /\ run \in Runs /\ job # None
           /\ Len(run.stack) \in Nat \ {0} /\ Here \in Places
           /\ Next_include \in Docs
<1>1. run \in Runs /\ job # None /\ run.stack # <<>>
  BY DEF Inv, TypeOK, AtInclude, Running
<1>2. run.stack \in Seq(Places)
  BY <1>1 DEF Runs
<1>3. Len(run.stack) \in Nat \ {0} /\ Here \in Places
  BY <1>1, <1>2 DEF Here
<1>4. Here.text.inc \in Seq(Docs) /\ Here.pos \in 1..Len(Here.text.inc)
  BY <1>3 DEF AtInclude, Places, Text
<1>5. Next_include \in Docs
  BY <1>4 DEF Next_include
<1> QED
  BY <1>1, <1>3, <1>5

(* What a validation has loaded, and what it is in, after an include.      *)
LEMMA IncludedLemma ==
    ASSUME Inv, AtInclude, NEW t \in Text, NEW r, r = Included(Next_include, t)
    PROVE  /\ r \in Runs
           /\ Range(r.includes) = Range(run.includes) \cup {Next_include}
           /\ \A i \in 2..Len(r.stack) :
                 \/ /\ i \in 2..Len(run.stack)
                    /\ r.stack[i].doc = run.stack[i].doc
                    /\ r.stack[i].text = run.stack[i].text
                 \/ r.stack[i].doc = Next_include /\ r.stack[i].text = t
<1> DEFINE d == Next_include
           n == Len(run.stack)
           parse == IF t.fault = "syntax" THEN {<<Here.doc, <<"parse", d>>>>} ELSE {}
           found == {<<d, x>> : x \in OwnDiagnostics(d, t)}
<1>1. /\ run \in Runs /\ d \in Docs
      /\ n \in Nat \ {0} /\ Here \in Places
  BY AtIncludeTyped
<1>2. run.stack \in Seq(Places) /\ run.includes \in Seq(Docs)
  BY <1>1 DEF Runs
<1>3. /\ r.includes = Append(run.includes, d)
      /\ r.diagnostics = (run.diagnostics \cup found) \cup parse
      /\ r.stack = IF t.fault = "syntax" THEN <<>> ELSE Append(Advanced, Place(d, t))
  BY <1>1 DEF Included, Runs
<1>4. r = [run EXCEPT !.includes = r.includes, !.diagnostics = r.diagnostics,
                      !.stack = r.stack]
  BY <1>1 DEF Included, Runs
<1>5. found \subseteq Docs \X Diagnostic
  BY <1>1, OwnTyped
<1>6. parse \subseteq Docs \X Diagnostic
  BY <1>1 DEF Places, Diagnostic, Kinds
<1>7. r.diagnostics \in SUBSET (Docs \X Diagnostic)
  BY <1>1, <1>3, <1>5, <1>6 DEF Runs
<1>8. ASSUME NEW i \in 1..n
      PROVE  /\ Advanced[i] \in Places
             /\ Advanced[i].doc = run.stack[i].doc
             /\ Advanced[i].text = run.stack[i].text
  <2>1. run.stack[i] \in Places
    BY <1>1, <1>2
  <2>2. CASE i = n
    <3>1. Advanced[i] = [run.stack[n] EXCEPT !.pos = @ + 1]
      BY <1>1, <1>2, <2>2 DEF Advanced
    <3> QED
      BY <2>1, <2>2, <3>1 DEF Places
  <2>3. CASE i # n
    <3>1. Advanced[i] = run.stack[i]
      BY <1>1, <1>2, <2>3 DEF Advanced
    <3> QED
      BY <2>1, <3>1
  <2> QED
    BY <2>2, <2>3
<1>9. Advanced \in Seq(Places) /\ Len(Advanced) = n
  <2>1. Advanced \in [1..n -> Places]
    <3>1. DOMAIN Advanced = DOMAIN run.stack
      BY Zenon DEF Advanced
    <3>2. Advanced = [i \in DOMAIN Advanced |-> Advanced[i]]
      BY Zenon DEF Advanced
    <3>3. DOMAIN Advanced = 1..n
      BY <1>2, <3>1
    <3> QED
      BY <1>8, <3>2, <3>3
  <2> QED
    BY <1>1, <2>1, SeqDef
<1> DEFINE place == Place(d, t)
<1>10. place \in Places /\ place.doc = d /\ place.text = t
  BY <1>1 DEF Place, Places
<1> HIDE DEF d, n, found, parse, place
<1>11. \/ r.stack = <<>>
       \/ r.stack = Append(Advanced, place)
  BY <1>3 DEF place
<1>12. r.stack \in Seq(Places)
  <2>1. Append(Advanced, place) \in Seq(Places)
    BY <1>9, <1>10, AppendProperties
  <2>2. <<>> \in Seq(Places)
    OBVIOUS
  <2> QED
    BY <1>11, <2>1, <2>2
<1>13. r.includes \in Seq(Docs)
  BY <1>1, <1>2, <1>3
<1>14. r \in Runs
  BY <1>1, <1>4, <1>7, <1>12, <1>13 DEF Runs
<1>15. Range(r.includes) = Range(run.includes) \cup {d}
  BY <1>1, <1>2, <1>3, RangeOfAppend
<1>16. ASSUME NEW i \in 2..Len(r.stack)
       PROVE  \/ /\ i \in 2..n
                 /\ r.stack[i].doc = run.stack[i].doc
                 /\ r.stack[i].text = run.stack[i].text
              \/ r.stack[i].doc = d /\ r.stack[i].text = t
  <2>1. r.stack = Append(Advanced, place)
    BY <1>11, <1>16
  <2>2. Len(r.stack) = n + 1 /\ r.stack[n + 1] = place
    BY <1>1, <1>9, <1>10, <2>1
  <2>3. CASE i = n + 1
    BY <1>10, <2>2, <2>3
  <2>4. CASE i # n + 1
    <3>1. i \in 2..n /\ i \in 1..n
      BY <1>1, <1>16, <2>2, <2>4
    <3>2. r.stack[i] = Advanced[i]
      BY <1>9, <1>10, <2>1, <3>1
    <3> QED
      BY <1>8, <3>1, <3>2
  <2> QED
    BY <2>3, <2>4
<1> QED
  BY <1>14, <1>15, <1>16 DEF d, n

LEMMA LoadOpenInv == Inv /\ LoadOpen => Inv'
<1> SUFFICES ASSUME Inv, LoadOpen PROVE Inv'
  OBVIOUS
<1> DEFINE d == Next_include
           t == open[d].text
<1>1. /\ AtInclude /\ open[d] # NotOpen
      /\ run' = Included(d, t)
      /\ UNCHANGED <<disk, config, open, shown, queue, job, editor, edited, budget>>
  BY DEF LoadOpen
<1>2. run \in Runs /\ job # None /\ d \in Docs
  BY <1>1, AtIncludeTyped
<1>3. t \in Text
  BY <1>1, <1>2 DEF Inv, TypeOK, Document
<1>4. /\ run' \in Runs
      /\ Range(run'.includes) = Range(run.includes) \cup {d}
      /\ \A i \in 2..Len(run'.stack) :
            \/ /\ i \in 2..Len(run.stack)
               /\ run'.stack[i].doc = run.stack[i].doc
               /\ run'.stack[i].text = run.stack[i].text
            \/ run'.stack[i].doc = d /\ run'.stack[i].text = t
  BY <1>1, <1>3, IncludedLemma
<1> HIDE DEF d, t
<1>5. run # None /\ run' # None
  BY <1>2, <1>4, AbsenceAssumption
<1>6. TypeOK'
  BY <1>1, <1>2, <1>4 DEF Inv, TypeOK
<1>7. JobOK' /\ EditorOK' /\ Synced'
  BY <1>1, <1>5 DEF Inv, JobOK, EditorOK, Synced
<1>8. OneSnapshot'
  BY <1>1, <1>4, <1>5 DEF Inv, OneSnapshot, t
<1> QED
  BY <1>6, <1>7, <1>8 DEF Inv

(* What is loaded was not open, so that nothing a validation has loaded    *)
(* before is replaced.                                                     *)
LEMMA LoadDiskInv == Inv /\ LoadDisk => Inv'
<1> SUFFICES ASSUME Inv, LoadDisk PROVE Inv'
  OBVIOUS
<1> DEFINE d == Next_include
           t == disk[d]
<1>1. /\ AtInclude /\ open[d] = NotOpen /\ t # Missing
      /\ open' = [open EXCEPT ![d] = Transient(t)]
      /\ run' = Included(d, t)
      /\ UNCHANGED <<disk, config, shown, queue, job, editor, edited, budget>>
  BY DEF LoadDisk
<1>2. run \in Runs /\ job # None /\ d \in Docs
  BY <1>1, AtIncludeTyped
<1>3. t \in Text
  BY <1>1, <1>2 DEF Inv, TypeOK
<1>4. /\ run' \in Runs
      /\ Range(run'.includes) = Range(run.includes) \cup {d}
      /\ \A i \in 2..Len(run'.stack) :
            \/ /\ i \in 2..Len(run.stack)
               /\ run'.stack[i].doc = run.stack[i].doc
               /\ run'.stack[i].text = run.stack[i].text
            \/ run'.stack[i].doc = d /\ run'.stack[i].text = t
  BY <1>1, <1>3, IncludedLemma
<1> HIDE DEF d, t
<1>5. Transient(t) \in Document /\ Transient(t).text = t /\ Transient(t).transient
  BY <1>3 DEF Transient, Document
<1>6. run # None /\ run' # None /\ Transient(t) # NotOpen
  BY <1>2, <1>4, <1>5, AbsenceAssumption
<1>7. /\ open' \in [Docs -> Document \cup {NotOpen}]
      /\ open'[d] = Transient(t)
      /\ \A e \in Docs \ {d} : open'[e] = open[e]
  BY <1>1, <1>2, <1>5 DEF Inv, TypeOK
<1>8. TypeOK'
  BY <1>1, <1>2, <1>4, <1>7 DEF Inv, TypeOK
<1>9. JobOK' /\ EditorOK'
  BY <1>1 DEF Inv, JobOK, EditorOK
<1>10. Synced'
  <2>1. ASSUME NEW e \in Docs
        PROVE  /\ editor[e] # NotOpen =>
                     open'[e] # NotOpen /\ open'[e].text = editor[e] /\ ~open'[e].transient
               /\ editor[e] = NotOpen /\ open'[e] # NotOpen =>
                     run' # None /\ open'[e].transient
    <3>1. CASE e = d
      BY <1>1, <1>5, <1>6, <1>7, <3>1 DEF Inv, Synced
    <3>2. CASE e # d
      <4>1. open'[e] = open[e]
        BY <1>7, <3>2
      <4> QED
        BY <1>6, <4>1 DEF Inv, Synced
    <3> QED
      BY <3>1, <3>2
  <2> QED
    BY <1>1, <2>1 DEF Synced
<1>11. OneSnapshot'
  <2>1. ASSUME NEW e \in Range(run'.includes)
        PROVE  open'[e] # NotOpen
    <3>1. CASE e = d
      BY <1>6, <1>7, <3>1
    <3>2. CASE e # d
      <4>1. e \in Range(run.includes) /\ open[e] # NotOpen
        BY <1>4, <1>6, <3>2 DEF Inv, OneSnapshot
      <4>2. e \in Docs
        BY <1>2, <4>1 DEF Runs, Range
      <4> QED
        BY <1>7, <3>2, <4>1, <4>2
    <3> QED
      BY <3>1, <3>2
  <2>2. ASSUME NEW i \in 2..Len(run'.stack)
        PROVE  /\ open'[run'.stack[i].doc] # NotOpen
               /\ open'[run'.stack[i].doc].text = run'.stack[i].text
    <3>1. CASE run'.stack[i].doc = d /\ run'.stack[i].text = t
      BY <1>5, <1>6, <1>7, <3>1
    <3>2. CASE /\ i \in 2..Len(run.stack)
               /\ run'.stack[i].doc = run.stack[i].doc
               /\ run'.stack[i].text = run.stack[i].text
      <4> DEFINE e == run.stack[i].doc
      <4>1. open[e] # NotOpen /\ open[e].text = run.stack[i].text
        BY <1>6, <3>2 DEF Inv, OneSnapshot
      <4>2. e \in Docs
        <5>1. run.stack \in Seq(Places) /\ i \in 1..Len(run.stack)
          BY <1>2, <3>2 DEF Runs
        <5>2. run.stack[i] \in Places
          BY <5>1
        <5> QED
          BY <5>2 DEF Places
      <4>3. open'[e] = open[e]
        BY <1>1, <1>7, <4>1, <4>2
      <4> QED
        BY <3>2, <4>1, <4>3
    <3> QED
      BY <1>4, <3>1, <3>2
  <2> QED
    BY <2>1, <2>2 DEF OneSnapshot
<1> QED
  BY <1>8, <1>9, <1>10, <1>11 DEF Inv

LEMMA LoadFailsInv == Inv /\ LoadFails => Inv'
<1> SUFFICES ASSUME Inv, LoadFails PROVE Inv'
  OBVIOUS
<1>1. /\ AtInclude
      /\ run' = [run EXCEPT
                 !.diagnostics =
                     @ \cup {<<Here.doc, <<"file_io", Next_include>>>>},
                 !.stack = <<>>]
      /\ UNCHANGED <<disk, config, open, shown, queue, job, editor, edited, budget>>
  BY DEF LoadFails
<1>2. run \in Runs /\ job # None /\ Here \in Places /\ Next_include \in Docs
  BY <1>1, AtIncludeTyped
<1>3. {<<Here.doc, <<"file_io", Next_include>>>>} \subseteq Docs \X Diagnostic
  BY <1>2 DEF Places, Diagnostic, Kinds
<1>4. run' \in Runs /\ run'.includes = run.includes /\ run'.stack = <<>>
  <2> DEFINE found == run.diagnostics \cup {<<Here.doc, <<"file_io", Next_include>>>>}
  <2>1. found \in SUBSET (Docs \X Diagnostic)
    BY <1>2, <1>3 DEF Runs
  <2>2. run' = [run EXCEPT !.diagnostics = found, !.stack = <<>>]
    BY <1>1, <1>2 DEF Runs
  <2>3. <<>> \in Seq(Places)
    OBVIOUS
  <2> HIDE DEF found
  <2> QED
    BY <1>2, <2>1, <2>2, <2>3 DEF Runs
<1>5. run # None /\ run' # None
  BY <1>2, <1>4, AbsenceAssumption
<1>6. TypeOK'
  BY <1>1, <1>2, <1>4 DEF Inv, TypeOK
<1>7. JobOK' /\ EditorOK' /\ Synced'
  BY <1>1, <1>5 DEF Inv, JobOK, EditorOK, Synced
<1>8. OneSnapshot'
  <2>1. 2..Len(run'.stack) = {}
    BY <1>4
  <2> QED
    BY <1>1, <1>4, <1>5, <2>1 DEF Inv, OneSnapshot
<1> QED
  BY <1>6, <1>7, <1>8 DEF Inv

LEMMA EndOfTextInv == Inv /\ EndOfText => Inv'
<1> SUFFICES ASSUME Inv, EndOfText PROVE Inv'
  OBVIOUS
<1>1. /\ run # None /\ run.stack # <<>>
      /\ run' = [run EXCEPT !.stack = Front(@)]
      /\ UNCHANGED <<disk, config, open, shown, queue, job, editor, edited, budget>>
  BY DEF EndOfText, Running
<1>2. run \in Runs /\ job # None
  BY <1>1 DEF Inv, TypeOK
<1>3. run.stack \in Seq(Places)
  BY <1>2 DEF Runs
<1>4. /\ Front(run.stack) \in Seq(Places)
      /\ Len(Front(run.stack)) = Len(run.stack) - 1
      /\ \A i \in 1..(Len(run.stack) - 1) : Front(run.stack)[i] = run.stack[i]
  BY <1>1, <1>3, FrontLemma
<1>5. /\ run' \in Runs
      /\ run'.includes = run.includes
      /\ run'.stack = Front(run.stack)
  BY <1>1, <1>2, <1>4 DEF Runs
<1>6. run' # None
  BY <1>5, AbsenceAssumption
<1>7. TypeOK'
  BY <1>1, <1>2, <1>5 DEF Inv, TypeOK
<1>8. JobOK' /\ EditorOK' /\ Synced'
  BY <1>1, <1>6 DEF Inv, JobOK, EditorOK, Synced
<1>9. OneSnapshot'
  <2>1. ASSUME NEW i \in 2..Len(run'.stack)
        PROVE  i \in 2..Len(run.stack) /\ run'.stack[i] = run.stack[i]
    <3>1. Len(run.stack) \in Nat
      BY <1>3
    <3>2. i \in 2..(Len(run.stack) - 1)
      BY <1>4, <1>5, <2>1
    <3>3. i \in 1..(Len(run.stack) - 1) /\ i \in 2..Len(run.stack)
      BY <3>1, <3>2
    <3> QED
      BY <1>4, <1>5, <3>3
  <2> QED
    BY <1>1, <1>5, <2>1 DEF Inv, OneSnapshot
<1> QED
  BY <1>7, <1>8, <1>9 DEF Inv

-----------------------------------------------------------------------------
(* The end of a validation.                                                *)

LEMMA MergedTyped ==
    ASSUME NEW A \in SUBSET Docs, NEW B \in SUBSET Docs,
           NEW f \in [A -> SUBSET Diagnostic], NEW g \in [B -> SUBSET Diagnostic]
    PROVE  Merged(f, g) \in [A \cup B -> SUBSET Diagnostic]
  BY DEF Merged

LEMMA By_uriTyped ==
    ASSUME run \in Runs
    PROVE  \E A \in SUBSET Docs : By_uri \in [A -> SUBSET Diagnostic]
<1> DEFINE A == {run.main} \cup {x[1] : x \in run.diagnostics}
<1>1. run.main \in Docs /\ run.diagnostics \subseteq Docs \X Diagnostic
  BY DEF Runs
<1>2. A \in SUBSET Docs
  BY <1>1
<1>3. ASSUME NEW u \in A
      PROVE  {x[2] : x \in {y \in run.diagnostics : y[1] = u}} \subseteq Diagnostic
  BY <1>1
<1>4. By_uri \in [A -> SUBSET Diagnostic]
  BY <1>3 DEF By_uri
<1> QED
  BY <1>2, <1>4

LEMMA ClearedTyped ==
    ASSUME run \in Runs
    PROVE  \E B \in SUBSET Docs : Cleared \in [B -> SUBSET Diagnostic]
<1> DEFINE B == {d \in Range(run.includes) : open[d] # NotOpen /\ ~open[d].transient}
<1>1. Range(run.includes) \subseteq Docs
  BY DEF Runs, Range
<1>2. B \in SUBSET Docs
  BY <1>1
<1>3. CASE Standalone
  <2>1. Cleared = [u \in B |-> {}]
    BY <1>3 DEF Cleared
  <2> QED
    BY <1>2, <2>1
<1>4. CASE ~Standalone
  <2>1. Cleared = <<>> /\ <<>> \in [{} -> SUBSET Diagnostic]
    BY <1>4 DEF Cleared
  <2> QED
    BY <2>1
<1> QED
  BY <1>3, <1>4

LEMMA FinishRunInv == Inv /\ FinishRun => Inv'
<1> SUFFICES ASSUME Inv, FinishRun PROVE Inv'
  OBVIOUS
<1>1. /\ run # None
      /\ job' = [job EXCEPT !.by = Merged(@, Merged(By_uri, Cleared))]
      /\ open' = Settled
      /\ run' = None
      /\ UNCHANGED <<disk, config, shown, queue, editor, edited, budget>>
  BY DEF FinishRun
<1>2. run \in Runs /\ job \in Jobs
  BY <1>1 DEF Inv, TypeOK, JobOK
<1>3. PICK A \in SUBSET Docs : job.by \in [A -> SUBSET Diagnostic]
  BY <1>2 DEF Jobs
<1>4. PICK B \in SUBSET Docs : By_uri \in [B -> SUBSET Diagnostic]
  BY <1>2, By_uriTyped
<1>5. PICK C \in SUBSET Docs : Cleared \in [C -> SUBSET Diagnostic]
  BY <1>2, ClearedTyped
<1>6. \E uris \in SUBSET Docs : job'.by \in [uris -> SUBSET Diagnostic]
  <2>1. Merged(By_uri, Cleared) \in [B \cup C -> SUBSET Diagnostic]
    BY <1>4, <1>5, MergedTyped
  <2>2. Merged(job.by, Merged(By_uri, Cleared)) \in [A \cup (B \cup C) -> SUBSET Diagnostic]
    BY <1>3, <2>1, MergedTyped
  <2>3. job'.by = Merged(job.by, Merged(By_uri, Cleared))
    BY <1>1, <1>2 DEF Jobs
  <2>4. A \cup (B \cup C) \in SUBSET Docs
    OBVIOUS
  <2> QED
    BY <2>2, <2>3, <2>4
<1>7. job'.root \in Docs /\ job'.entries \subseteq Docs /\ job' \in Jobs
  <2>1. job' = [root |-> job.root, entries |-> job.entries, by |-> job'.by]
    BY <1>1, <1>2 DEF Jobs
  <2> QED
    BY <1>2, <1>6, <2>1 DEF Jobs
<1>8. ASSUME NEW d \in Docs
      PROVE  /\ open'[d] \in Document \cup {NotOpen}
             /\ open[d] = NotOpen => open'[d] = NotOpen
             /\ open[d] # NotOpen /\ open[d].transient => open'[d] = NotOpen
             /\ open[d] # NotOpen /\ ~open[d].transient =>
                   /\ open'[d] # NotOpen
                   /\ open'[d].text = open[d].text
                   /\ open'[d].transient = open[d].transient
  <2>1. open'[d] = CASE open[d] = NotOpen -> NotOpen
                     [] open[d] # NotOpen /\ open[d].transient -> NotOpen
                     [] OTHER -> IF d = run.main
                                 THEN [open[d] EXCEPT !.includes = run.includes]
                                 ELSE open[d]
    BY <1>1 DEF Settled
  <2>2. CASE open[d] = NotOpen
    BY <2>1, <2>2
  <2>3. CASE open[d] # NotOpen /\ open[d].transient
    BY <2>1, <2>3
  <2>4. CASE open[d] # NotOpen /\ ~open[d].transient
    <3>1. open[d] \in Document /\ run.includes \in Seq(Docs)
      BY <1>2, <2>4 DEF Inv, TypeOK, Runs
    <3> DEFINE settled == [open[d] EXCEPT !.includes = run.includes]
    <3>2. /\ settled \in Document /\ settled.text = open[d].text
          /\ settled.transient = open[d].transient
      BY <3>1 DEF Document
    <3>3. open'[d] = settled \/ open'[d] = open[d]
      BY <2>1, <2>4
    <3>4. settled # NotOpen
      BY <3>2, AbsenceAssumption
    <3> HIDE DEF settled
    <3> QED
      BY <2>4, <3>1, <3>2, <3>3, <3>4
  <2> QED
    BY <2>2, <2>3, <2>4
<1>9. open' \in [Docs -> Document \cup {NotOpen}]
  BY <1>1, <1>8 DEF Settled
<1>10. TypeOK'
  <2>1. \A d \in DOMAIN job'.by : d \in Docs /\ job'.by[d] \subseteq Diagnostic
    BY <1>6
  <2> QED
    BY <1>1, <1>7, <1>9, <2>1 DEF Inv, TypeOK
<1>11. JobOK' /\ EditorOK' /\ OneSnapshot'
  BY <1>1, <1>7 DEF Inv, JobOK, EditorOK, OneSnapshot
<1>12. Synced'
  BY <1>1, <1>8 DEF Inv, Synced
<1> QED
  BY <1>10, <1>11, <1>12 DEF Inv

-----------------------------------------------------------------------------
LEMMA StepInv == Inv /\ [Next]_vars => Inv'
<1> SUFFICES ASSUME Inv, [Next]_vars PROVE Inv'
  OBVIOUS
<1>1. CASE DidOpen
  BY <1>1, OpenOrChangeInv DEF DidOpen
<1>2. CASE DidChange
  BY <1>2, OpenOrChangeInv DEF DidChange
<1>3. CASE Server
  BY <1>3, TakeRootInv, StartRunInv, LoadOpenInv, LoadDiskInv, LoadFailsInv,
     EndOfTextInv, FinishRunInv, PublishInv DEF Server
<1>4. CASE UNCHANGED vars
  BY <1>4 DEF vars, Inv, TypeOK, JobOK, EditorOK, Synced, OneSnapshot
<1> QED
  BY <1>1, <1>2, <1>3, <1>4, DidCloseInv, DiskWriteInv DEF Next

(* Whatever the order of messages and of changes on disk: the server's     *)
(* documents are those of the editor, with the editor's text, and what a   *)
(* validation has loaded from disk is gone when it ends.                   *)
THEOREM ServerIsSynced == Spec => []SyncedWithEditor
<1>1. Inv => SyncedWithEditor
  BY DEF Inv, Synced, SyncedWithEditor
<1> QED
  BY <1>1, InitInv, StepInv, PTL DEF Spec

(* However files change on disk while it runs, a validation finds every    *)
(* document it has loaded where it left it, with the same text.            *)
THEOREM ValidationSeesOneSnapshot == Spec => []OneSnapshot
<1>1. Inv => OneSnapshot
  BY DEF Inv
<1> QED
  BY <1>1, InitInv, StepInv, PTL DEF Spec

-----------------------------------------------------------------------------
(* What is published is up to date: from the first diagnostic of a         *)
(* validation to its publication, what has been collected are the faults   *)
(* of the texts in the editor, and messages wait until it is published.    *)

OwnKinds == {"directive", "syntax"}

(* A validation has collected a fault of an open document's text, if it    *)
(* has come to the document, and no other.                                 *)
FaultsAreOwn(r) ==
    \A x \in r.diagnostics :
        x[2][1] \in OwnKinds /\ editor[x[1]] # NotOpen =>
            x[2] \in OwnDiagnostics(x[1], editor[x[1]])

FaultsAreFound(r) ==
    \A d \in {r.main} \cup Range(r.includes) :
        editor[d] # NotOpen =>
            \A x \in OwnDiagnostics(d, editor[d]) : <<d, x>> \in r.diagnostics

(* What a job is about to publish for the documents of its root.           *)
Gathered(by, docs) ==
    \A d \in docs :
        editor[d] # NotOpen =>
            /\ d \in DOMAIN by
            /\ {x \in by[d] : x[1] \in OwnKinds} = OwnDiagnostics(d, editor[d])

Family == {job.root} \cup Range(open[job.root].includes)

RootsAreOpen ==
    /\ \A r \in queue : editor[r] # NotOpen
    /\ job # None => editor[job.root] # NotOpen

(* Without a configuration a job has three phases.                         *)
JobPhases ==
    job # None /\ Standalone =>
        \/ run = None /\ job.entries = {job.root} /\ DOMAIN job.by = {}
        \/ /\ run # None /\ run.main = job.root
           /\ job.entries = {} /\ DOMAIN job.by = {}
        \/ run = None /\ job.entries = {} /\ Gathered(job.by, Family)

RunIsCurrent == run # None => FaultsAreOwn(run) /\ FaultsAreFound(run)

Current == RootsAreOpen /\ JobPhases /\ RunIsCurrent

LEMMA InitCurrent == Init => Current
  BY DEF Init, Current, RootsAreOpen, JobPhases, RunIsCurrent

(* Messages are dealt with between jobs.                                   *)
LEMMA OpenOrChangeCurrent ==
    ASSUME Inv, Current, NEW d \in Docs, NEW t \in Texts[d], OpenOrChange(d, t)
    PROVE  Current'
<1>1. job = None /\ run = None /\ job' = None /\ run' = None
  BY DEF Inv, TypeOK, OpenOrChange, Idle
<1>2. t # NotOpen
  BY LspAssumption, AbsenceAssumption
<1>3. ASSUME NEW r \in queue' PROVE editor'[r] # NotOpen
  <2>1. r \in Docs /\ Insert(d, t)[r] # NotOpen
    BY DEF OpenOrChange, Dependent_roots
  <2>2. CASE r = d
    BY <1>2, <2>2 DEF Inv, EditorOK, OpenOrChange
  <2>3. CASE r # d
    <3>1. open[r] # NotOpen
      BY <2>1, <2>3 DEF Insert, Inv, TypeOK
    <3>2. editor[r] # NotOpen
      BY <1>1, <2>1, <3>1 DEF Inv, Synced
    <3> QED
      BY <2>1, <2>3, <3>2 DEF Inv, EditorOK, OpenOrChange
  <2> QED
    BY <2>2, <2>3
<1> QED
  BY <1>1, <1>3 DEF Current, RootsAreOpen, JobPhases, RunIsCurrent

LEMMA DidCloseCurrent == Inv /\ DidClose => Current'
<1> SUFFICES ASSUME Inv, DidClose PROVE Current'
  OBVIOUS
<1>1. run' = None /\ job' = None /\ queue' = {}
  BY DEF Inv, TypeOK, DidClose, Idle
<1> QED
  BY <1>1 DEF Current, RootsAreOpen, JobPhases, RunIsCurrent

LEMMA TakeRootCurrent == Inv /\ Current /\ TakeRoot => Current'
<1> SUFFICES ASSUME Inv, Current, TakeRoot PROVE Current'
  OBVIOUS
<1>1. run = None /\ run' = None /\ editor' = editor /\ config' = config
  BY DEF Inv, TypeOK, TakeRoot
<1>2. PICK r \in queue :
        /\ queue' = queue \ {r}
        /\ job' = IF Standalone THEN Job(r, {r}, <<>>)
                  ELSE Job(r, Entry_points, [d \in {r} |-> {}])
  BY DEF TakeRoot
<1>3. job'.root = r
  BY <1>2 DEF Job
<1>4. RootsAreOpen'
  BY <1>1, <1>2, <1>3 DEF Current, RootsAreOpen
<1>5. JobPhases'
  <2>1. SUFFICES ASSUME Standalone
                 PROVE  job'.entries = {job'.root} /\ DOMAIN job'.by = {}
    BY <1>1 DEF JobPhases, Standalone
  <2>2. job'.entries = {r} /\ job'.by = <<>>
    BY <1>2, <2>1 DEF Job
  <2>3. DOMAIN <<>> = {}
    OBVIOUS
  <2> QED
    BY <1>3, <2>2, <2>3
<1> QED
  BY <1>1, <1>4, <1>5 DEF Current, RunIsCurrent

LEMMA StartRunCurrent == Inv /\ Current /\ StartRun => Current'
<1> SUFFICES ASSUME Inv, Current, StartRun PROVE Current'
  OBVIOUS
<1>1. PICK e \in job.entries :
          /\ job' = [job EXCEPT !.entries = @ \ {e}]
          /\ run' = IF Entry_text(e) = Missing THEN None ELSE Started(e, Entry_text(e))
  BY DEF StartRun
<1>2. /\ job # None /\ run = None
      /\ UNCHANGED <<disk, config, open, shown, queue, editor, edited, budget>>
  BY DEF StartRun
<1>3. job \in Jobs /\ e \in Docs
  BY <1>1, <1>2 DEF Inv, JobOK, Jobs
<1>4. /\ job'.root = job.root /\ job'.by = job.by
      /\ job'.entries = job.entries \ {e}
  BY <1>1, <1>3 DEF Jobs
<1>5. ASSUME editor[e] # NotOpen
      PROVE  Entry_text(e) = editor[e] /\ Entry_text(e) # Missing
  BY <1>3, <1>5, AbsenceAssumption DEF Inv, Synced, EditorOK, Entry_text
<1>6. RootsAreOpen'
  BY <1>2, <1>4 DEF Current, RootsAreOpen
<1>7. ASSUME run' # None
      PROVE  run'.main = e /\ FaultsAreOwn(run') /\ FaultsAreFound(run')
  <2>1. /\ run'.main = e /\ run'.includes = <<>>
        /\ run'.diagnostics = {<<e, x>> : x \in OwnDiagnostics(e, Entry_text(e))}
    BY <1>1, <1>7 DEF Started
  <2>2. Range(<<>>) = {}
    <3>1. DOMAIN <<>> = {}
      OBVIOUS
    <3> QED
      BY <3>1 DEF Range
  <2>3. FaultsAreOwn(run')
    BY <1>2, <1>5, <2>1 DEF FaultsAreOwn
  <2>4. FaultsAreFound(run')
    BY <1>2, <1>5, <2>1, <2>2 DEF FaultsAreFound
  <2> QED
    BY <2>1, <2>3, <2>4
<1>8. JobPhases'
  <2>1. SUFFICES ASSUME Standalone
                 PROVE  /\ run' # None /\ run'.main = job'.root
                        /\ job'.entries = {} /\ DOMAIN job'.by = {}
    BY <1>2 DEF JobPhases, Standalone
  <2>2. job.entries = {job.root} /\ DOMAIN job.by = {} /\ e = job.root
    BY <1>1, <1>2, <2>1 DEF Current, JobPhases
  <2>3. editor[e] # NotOpen
    BY <1>2, <2>2 DEF Current, RootsAreOpen
  <2>4. Entry_text(e) # Missing /\ Entry_text(e) \in Text
    BY <1>3, <1>5, <2>3 DEF Inv, EditorOK
  <2>5. run' # None
    <3>1. run' \in Runs
      <4>2. run' = Started(e, Entry_text(e))
        BY <1>1, <2>4
      <4>3. run'.main = e /\ run'.includes = <<>>
        BY <4>2 DEF Started
      <4>4. Place(e, Entry_text(e)) \in Places
        BY <1>3, <2>4 DEF Place, Places
      <4>5. {<<e, x>> : x \in OwnDiagnostics(e, Entry_text(e))} \in SUBSET (Docs \X Diagnostic)
        BY <1>3, <2>4, OwnTyped
      <4>6. /\ (IF Entry_text(e).fault = "syntax" THEN <<>>
                ELSE <<Place(e, Entry_text(e))>>) \in Seq(Places)
            /\ <<>> \in Seq(Docs)
        BY <4>4
      <4> QED
        BY <1>3, <4>2, <4>5, <4>6 DEF Started, Runs
    <3> QED
      BY <3>1, AbsenceAssumption
  <2> QED
    BY <1>4, <1>7, <2>2, <2>5
<1>9. RunIsCurrent'
  BY <1>2, <1>7 DEF RunIsCurrent, FaultsAreOwn, FaultsAreFound
<1> QED
  BY <1>6, <1>8, <1>9 DEF Current

-----------------------------------------------------------------------------
(* A step of a validation keeps what the job has found so far.             *)
LEMMA ValidatingCurrent ==
    ASSUME Inv, Current, run # None, run' # None, run'.main = run.main,
           UNCHANGED <<config, queue, job, editor>>,
           FaultsAreOwn(run'), FaultsAreFound(run')
    PROVE  Current'
<1>1. RootsAreOpen'
  BY DEF Current, RootsAreOpen
<1>2. JobPhases'
  <2>1. SUFFICES ASSUME job # None, Standalone
                 PROVE  run'.main = job.root /\ job.entries = {} /\ DOMAIN job.by = {}
    BY DEF JobPhases, Standalone
  <2> QED
    BY <2>1 DEF Current, JobPhases
<1>3. RunIsCurrent'
  BY DEF RunIsCurrent, FaultsAreOwn, FaultsAreFound
<1> QED
  BY <1>1, <1>2, <1>3 DEF Current

(* An include adds the faults of the included text, and a report about it  *)
(* to the including document if it cannot be parsed.                       *)
LEMMA IncludedCurrent ==
    ASSUME Inv, Current, AtInclude, NEW t \in Text,
           editor[Next_include] # NotOpen => t = editor[Next_include],
           run' = Included(Next_include, t),
           UNCHANGED <<config, queue, job, editor>>
    PROVE  Current'
<1> DEFINE d == Next_include
           parse == IF t.fault = "syntax" THEN {<<Here.doc, <<"parse", d>>>>} ELSE {}
           found == {<<d, x>> : x \in OwnDiagnostics(d, t)}
<1>1. run \in Runs /\ d \in Docs
  BY AtIncludeTyped
<1>2. run' \in Runs /\ Range(run'.includes) = Range(run.includes) \cup {d}
  BY IncludedLemma
<1>3. run # None /\ run' # None
  BY <1>1, <1>2, AbsenceAssumption
<1>4. /\ run'.main = run.main
      /\ run'.diagnostics = (run.diagnostics \cup found) \cup parse
  BY <1>1 DEF Included, Runs
<1>5. FaultsAreOwn(run) /\ FaultsAreFound(run)
  BY <1>3 DEF Current, RunIsCurrent
<1>6. \A x \in parse : x[2][1] \notin OwnKinds
  BY DEF OwnKinds
<1>7. \A x \in found : x[1] = d /\ x[2] \in OwnDiagnostics(d, t)
  OBVIOUS
<1>8. \A x \in OwnDiagnostics(d, t) : <<d, x>> \in found
  OBVIOUS
<1> HIDE DEF d, parse, found
<1>9. FaultsAreOwn(run')
  <2>1. SUFFICES ASSUME NEW x \in run'.diagnostics,
                        x[2][1] \in OwnKinds, editor[x[1]] # NotOpen
                 PROVE  x[2] \in OwnDiagnostics(x[1], editor[x[1]])
    BY DEF FaultsAreOwn
  <2>2. CASE x \in run.diagnostics
    BY <1>5, <2>1, <2>2 DEF FaultsAreOwn
  <2>3. CASE x \in found
    BY <1>7, <2>1, <2>3 DEF d
  <2> QED
    BY <1>4, <1>6, <2>1, <2>2, <2>3
<1>10. FaultsAreFound(run')
  <2>1. SUFFICES ASSUME NEW e \in {run'.main} \cup Range(run'.includes),
                        editor[e] # NotOpen, NEW x \in OwnDiagnostics(e, editor[e])
                 PROVE  <<e, x>> \in run'.diagnostics
    BY DEF FaultsAreFound
  <2>2. CASE e = d
    BY <1>4, <1>8, <2>1, <2>2 DEF d
  <2>3. CASE e # d
    <3>1. e \in {run.main} \cup Range(run.includes)
      BY <1>2, <1>4, <2>3
    <3> QED
      BY <1>4, <1>5, <2>1, <3>1 DEF FaultsAreFound
  <2> QED
    BY <2>2, <2>3
<1> QED
  BY <1>3, <1>4, <1>9, <1>10, ValidatingCurrent

LEMMA LoadOpenCurrent == Inv /\ Current /\ LoadOpen => Current'
<1> SUFFICES ASSUME Inv, Current, LoadOpen PROVE Current'
  OBVIOUS
<1>1. AtInclude /\ open[Next_include] # NotOpen /\ Next_include \in Docs
  BY AtIncludeTyped DEF LoadOpen
<1>2. /\ open[Next_include].text \in Text
      /\ editor[Next_include] # NotOpen =>
            open[Next_include].text = editor[Next_include]
  BY <1>1 DEF Inv, TypeOK, Document, Synced
<1> QED
  BY <1>1, <1>2, IncludedCurrent DEF LoadOpen

(* A document that is read from disk is not open in the editor.            *)
LEMMA LoadDiskCurrent == Inv /\ Current /\ LoadDisk => Current'
<1> SUFFICES ASSUME Inv, Current, LoadDisk PROVE Current'
  OBVIOUS
<1>1. /\ AtInclude /\ Next_include \in Docs
      /\ open[Next_include] = NotOpen /\ disk[Next_include] # Missing
  BY AtIncludeTyped DEF LoadDisk
<1>2. disk[Next_include] \in Text /\ editor[Next_include] = NotOpen
  BY <1>1 DEF Inv, TypeOK, Synced
<1> QED
  BY <1>1, <1>2, IncludedCurrent DEF LoadDisk

LEMMA LoadFailsCurrent == Inv /\ Current /\ LoadFails => Current'
<1> SUFFICES ASSUME Inv, Current, LoadFails PROVE Current'
  OBVIOUS
<1>1. /\ AtInclude /\ run \in Runs
      /\ UNCHANGED <<config, queue, job, editor>>
  BY AtIncludeTyped DEF LoadFails
<1> DEFINE report == <<Here.doc, <<"file_io", Next_include>>>>
<1>2. /\ run'.main = run.main /\ run'.includes = run.includes
      /\ run'.diagnostics = run.diagnostics \cup {report}
  BY <1>1 DEF LoadFails, Runs
<1>3. report[2][1] \notin OwnKinds
  BY DEF OwnKinds
<1>4. run # None /\ run' # None
  <2>1. run' = [run EXCEPT !.diagnostics = @ \cup {report}, !.stack = <<>>]
    BY DEF LoadFails
  <2>2. report \in Docs \X Diagnostic
    BY <1>1, AtIncludeTyped DEF Places, Diagnostic, Kinds
  <2> HIDE DEF report
  <2>3. run.diagnostics \cup {report} \in SUBSET (Docs \X Diagnostic) /\ <<>> \in Seq(Places)
    BY <1>1, <2>2 DEF Runs
  <2>4. run' \in Runs
    BY <1>1, <2>1, <2>3 DEF Runs
  <2> QED
    BY <1>1, <2>4, AbsenceAssumption
<1>5. FaultsAreOwn(run) /\ FaultsAreFound(run)
  BY <1>4 DEF Current, RunIsCurrent
<1> HIDE DEF report
<1>6. FaultsAreOwn(run')
  BY <1>2, <1>3, <1>5 DEF FaultsAreOwn
<1>7. FaultsAreFound(run')
  BY <1>2, <1>5 DEF FaultsAreFound
<1> QED
  BY <1>1, <1>2, <1>4, <1>6, <1>7, ValidatingCurrent

LEMMA EndOfTextCurrent == Inv /\ Current /\ EndOfText => Current'
<1> SUFFICES ASSUME Inv, Current, EndOfText PROVE Current'
  OBVIOUS
<1>1. /\ run # None /\ run.stack # <<>>
      /\ run' = [run EXCEPT !.stack = Front(@)]
      /\ UNCHANGED <<config, queue, job, editor>>
  BY DEF EndOfText, Running
<1>2. run \in Runs /\ run.stack \in Seq(Places)
  BY <1>1 DEF Inv, TypeOK, Runs
<1>3. /\ run'.main = run.main /\ run'.includes = run.includes
      /\ run'.diagnostics = run.diagnostics
  BY <1>1, <1>2 DEF Runs
<1>4. run' # None
  <2>1. Front(run.stack) \in Seq(Places)
    BY <1>1, <1>2, FrontLemma
  <2>2. run' \in Runs
    BY <1>1, <1>2, <2>1 DEF Runs
  <2> QED
    BY <2>2, AbsenceAssumption
<1>5. FaultsAreOwn(run) /\ FaultsAreFound(run)
  BY <1>1 DEF Current, RunIsCurrent
<1>6. FaultsAreOwn(run') /\ FaultsAreFound(run')
  BY <1>3, <1>5 DEF FaultsAreOwn, FaultsAreFound
<1> QED
  BY <1>1, <1>3, <1>4, <1>6, ValidatingCurrent

-----------------------------------------------------------------------------
(* A validation that ends hands over the faults it has found, and an empty *)
(* list for every open document it has included without finding one.       *)
LEMMA FinishRunCurrent == Inv /\ Current /\ FinishRun => Current'
<1> SUFFICES ASSUME Inv, Current, FinishRun PROVE Current'
  OBVIOUS
<1> DEFINE by == Merged(job.by, Merged(By_uri, Cleared))
<1>1. /\ run # None /\ run' = None
      /\ job' = [job EXCEPT !.by = by]
      /\ open' = Settled
      /\ UNCHANGED <<disk, config, shown, queue, editor, edited, budget>>
  BY DEF FinishRun
<1>2. run \in Runs /\ job \in Jobs /\ job # None
  BY <1>1 DEF Inv, TypeOK, JobOK
<1>3. job'.root = job.root /\ job'.entries = job.entries /\ job'.by = by
  BY <1>1, <1>2 DEF Jobs
<1>4. RootsAreOpen'
  BY <1>1, <1>2, <1>3 DEF Current, RootsAreOpen
<1>5. JobPhases'
  <2>1. SUFFICES ASSUME Standalone
                 PROVE  job'.entries = {} /\ Gathered(job'.by, Family')
    BY <1>1 DEF JobPhases, Standalone, Gathered
  <2>2. run.main = job.root /\ job.entries = {} /\ DOMAIN job.by = {}
    BY <1>1, <1>2, <2>1 DEF Current, JobPhases
  <2>3. FaultsAreOwn(run) /\ FaultsAreFound(run)
    BY <1>1 DEF Current, RunIsCurrent
  <2>4. Family' = {run.main} \cup Range(run.includes)
    <3>1. job.root \in Docs /\ editor[job.root] # NotOpen
      BY <1>2 DEF Current, RootsAreOpen, Jobs
    <3>2. /\ open[job.root] \in Document /\ open[job.root] # NotOpen
          /\ ~open[job.root].transient
      BY <3>1 DEF Inv, Synced, TypeOK
    <3>3. open'[job.root] = [open[job.root] EXCEPT !.includes = run.includes]
      BY <1>1, <2>2, <3>1, <3>2 DEF Settled
    <3>4. open'[job.root].includes = run.includes
      BY <3>2, <3>3 DEF Document
    <3> QED
      BY <1>3, <2>2, <3>4 DEF Family
  <2>5. ASSUME NEW d \in {run.main} \cup Range(run.includes), editor[d] # NotOpen
        PROVE  /\ d \in DOMAIN by
               /\ {x \in by[d] : x[1] \in OwnKinds} = OwnDiagnostics(d, editor[d])
    <3> DEFINE uris == {run.main} \cup {x[1] : x \in run.diagnostics}
               lists == {x[2] : x \in {y \in run.diagnostics : y[1] = d}}
    <3>1. d \in Docs
      BY <1>2 DEF Runs, Range
    <3>2. open[d] # NotOpen /\ ~open[d].transient
      BY <2>5, <3>1 DEF Inv, Synced
    <3>3. DOMAIN By_uri = uris /\ (d \in uris => By_uri[d] = lists)
      BY DEF By_uri
    <3>4. /\ d \in Range(run.includes) => d \in DOMAIN Cleared
          /\ d \in DOMAIN Cleared => Cleared[d] = {}
      BY <2>1, <3>2 DEF Cleared
    <3>5. d \notin uris => lists = {}
      OBVIOUS
    <3>6. d \in uris \/ d \in DOMAIN Cleared
      BY <3>4
    <3> HIDE DEF uris, lists
    <3>7. DOMAIN by = DOMAIN job.by \cup (DOMAIN By_uri \cup DOMAIN Cleared)
      BY DEF Merged
    <3>8. d \in DOMAIN by
      BY <3>3, <3>6, <3>7
    <3>9. by[d] = lists
      <4> DEFINE m == Merged(By_uri, Cleared)
      <4>1. d \in DOMAIN m /\ m[d] = lists
        BY <3>3, <3>4, <3>5, <3>6 DEF Merged
      <4> HIDE DEF m
      <4>2. Merged(job.by, m)[d] = m[d]
        BY <2>2, <4>1 DEF Merged
      <4> QED
        BY <4>1, <4>2 DEF m
    <3>10. OwnDiagnostics(d, editor[d]) \subseteq lists
      <4>1. ASSUME NEW x \in OwnDiagnostics(d, editor[d]) PROVE x \in lists
        <5>1. <<d, x>> \in {y \in run.diagnostics : y[1] = d}
          BY <2>3, <2>5, <4>1 DEF FaultsAreFound
        <5>2. <<d, x>>[2] = x
          OBVIOUS
        <5> QED
          BY <5>1, <5>2 DEF lists
      <4> QED
        BY <4>1
    <3>11. \A x \in lists : x[1] \in OwnKinds => x \in OwnDiagnostics(d, editor[d])
      BY <2>3, <2>5 DEF FaultsAreOwn, lists
    <3>12. \A x \in OwnDiagnostics(d, editor[d]) : x[1] \in OwnKinds
      <4>1. editor[d] \in Text
        BY <2>5, <3>1 DEF Inv, EditorOK
      <4> QED
        BY <4>1 DEF OwnDiagnostics, OwnKinds, Text, Faults
    <3> HIDE DEF by
    <3> QED
      BY <3>8, <3>9, <3>10, <3>11, <3>12
  <2> HIDE DEF by
  <2> QED
    BY <1>3, <2>2, <2>4, <2>5 DEF Gathered
<1> QED
  BY <1>1, <1>4, <1>5 DEF Current, RunIsCurrent

LEMMA StepCurrent == Inv /\ Current /\ [Next]_vars => Current'
<1> SUFFICES ASSUME Inv, Current, [Next]_vars PROVE Current'
  OBVIOUS
<1>1. CASE DidOpen \/ DidChange
  BY <1>1, OpenOrChangeCurrent DEF DidOpen, DidChange
<1>2. CASE Publish
  BY <1>2 DEF Publish, Current, RootsAreOpen, JobPhases, RunIsCurrent
<1>3. CASE Server /\ ~Publish
  BY <1>3, TakeRootCurrent, StartRunCurrent, LoadOpenCurrent, LoadDiskCurrent,
     LoadFailsCurrent, EndOfTextCurrent, FinishRunCurrent DEF Server
<1>4. CASE DiskWrite \/ UNCHANGED vars
  BY <1>4 DEF DiskWrite, vars, Current, RootsAreOpen, JobPhases, RunIsCurrent,
              FaultsAreOwn, FaultsAreFound, Gathered, Family, Standalone
<1> QED
  BY <1>1, <1>2, <1>3, <1>4, DidCloseCurrent DEF Next

(* Only a publication ends a job.                                          *)
LEMMA OnlyPublishEnds ==
    Inv /\ [Next]_vars /\ job # None /\ job' = None => Publish
<1> SUFFICES ASSUME Inv, [Next]_vars, job # None, job' = None, ~Publish
             PROVE  FALSE
  OBVIOUS
<1>1. ~StartRun /\ ~FinishRun
  <2>1. job \in Jobs
    BY DEF Inv, JobOK
  <2>2. ASSUME StartRun \/ FinishRun PROVE job' \in Jobs
    <3>1. CASE StartRun
      BY <2>1, <3>1 DEF StartRun, Jobs
    <3>2. CASE FinishRun
      <4>2. job'.root = job.root /\ job' = [job EXCEPT !.by = job'.by]
        BY <2>1, <3>2 DEF FinishRun, Jobs
      <4>3. \E A \in SUBSET Docs : job.by \in [A -> SUBSET Diagnostic]
        BY <2>1 DEF Jobs
      <4>4. run \in Runs
        BY <3>2 DEF FinishRun, Inv, TypeOK
      <4>5. PICK A \in SUBSET Docs, B \in SUBSET Docs, C \in SUBSET Docs :
                /\ job.by \in [A -> SUBSET Diagnostic]
                /\ By_uri \in [B -> SUBSET Diagnostic]
                /\ Cleared \in [C -> SUBSET Diagnostic]
        BY <4>3, <4>4, By_uriTyped, ClearedTyped
      <4>6. Merged(job.by, Merged(By_uri, Cleared)) \in [A \cup (B \cup C) -> SUBSET Diagnostic]
        BY <4>5, MergedTyped
      <4>7. job'.by = Merged(job.by, Merged(By_uri, Cleared))
        BY <2>1, <3>2 DEF FinishRun, Jobs
      <4> QED
        BY <2>1, <4>2, <4>6, <4>7 DEF Jobs
    <3> QED
      BY <2>2, <3>1, <3>2
  <2> QED
    BY <2>2, AbsenceAssumption
<1> QED
  BY <1>1 DEF Next, Server, vars, DidOpen, DidChange, OpenOrChange, Idle,
     DidClose, DiskWrite, TakeRoot, LoadOpen, LoadDisk, LoadFails, EndOfText

(* Without a configuration, what a job publishes is up to date for its     *)
(* root and for every open document the root includes, however they are    *)
(* nested and whatever happens on disk.                                    *)
THEOREM PublicationsAreCurrent == Spec => PublishedIsCurrent
<1>1. Inv /\ Current /\ [Next]_vars =>
        [ job # None /\ job' = None /\ Standalone =>
            \A d \in {job.root} \cup Range(open[job.root].includes) :
                editor[d] # NotOpen => OwnFaultShown(d)' ]_vars
  <2>1. SUFFICES ASSUME Inv, Current, [Next]_vars, job # None, job' = None,
                        Standalone, NEW d \in Family, editor[d] # NotOpen
                 PROVE  OwnFaultShown(d)'
    BY DEF Family
  <2>2. /\ run = None /\ job.entries = {} /\ editor' = editor
        /\ shown' = [e \in Docs |-> IF e \in DOMAIN job.by THEN job.by[e] ELSE shown[e]]
    BY <2>1, OnlyPublishEnds DEF Publish
  <2>3. Gathered(job.by, Family)
    BY <2>1, <2>2 DEF Current, JobPhases
  <2>4. /\ d \in DOMAIN job.by
        /\ {x \in job.by[d] : x[1] \in OwnKinds} = OwnDiagnostics(d, editor[d])
    BY <2>1, <2>3 DEF Gathered
  <2>5. d \in Docs
    BY <2>1, <2>4 DEF Inv, TypeOK
  <2> QED
    BY <2>2, <2>4, <2>5 DEF OwnFaultShown, OwnKinds
<1> QED
  BY <1>1, InitInv, StepInv, InitCurrent, StepCurrent, PTL
     DEF Spec, PublishedIsCurrent
=============================================================================
