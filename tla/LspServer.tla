----------------------------- MODULE LspServer -----------------------------
(***************************************************************************)
(* Diagnostics of the language server (bindings/lsp/lsp.cpp): which        *)
(* documents a message of the editor causes to be validated, what a        *)
(* validation loads, and what the editor shows afterwards.                 *)
(*                                                                         *)
(* The server is single-threaded.  A message puts the affected roots into  *)
(* `queue`; each root becomes a `job` (publish_diagnostics_for), each job  *)
(* validates its entry points one after the other, and a validation, the   *)
(* `run`, calls back into the server for every \cowel_include.  Files may  *)
(* change on disk at any point of this.                                    *)
(*                                                                         *)
(* The text of a document is reduced to one fault of its own and to the    *)
(* list of the documents it includes, in order.                            *)
(***************************************************************************)
EXTENDS Naturals, Sequences, SequencesExt

CONSTANTS
    Docs,           \* URIs of documents
    Texts,          \* Texts[d]: the contents that d may be given
    Missing,        \* instead of a text: no such file on disk
    NotOpen,        \* instead of a document: no entry in m_open_docs
    None,           \* no URI, no job, no run
    Configs,        \* settings: "standalone", or the configured entry points
    MaxMessages,    \* how many messages the editor sends
    MaxDiskWrites   \* how often a file changes on disk

Faults == {"none", "directive", "syntax"}
Text == [fault : Faults, inc : Seq(Docs)]

ASSUME LspAssumption ==
    /\ \A d \in Docs : Texts[d] \subseteq Text
    /\ MaxMessages \in Nat /\ MaxDiskWrites \in Nat
    /\ Configs \subseteq {<<"standalone", {}>>} \cup ({"entries"} \X SUBSET Docs)

VARIABLES
    disk,       \* the file system: a text or Missing
    config,     \* what find_config_entry_points() answers
    open,       \* m_open_docs
    shown,      \* the diagnostics the editor displays for each document
    queue,      \* roots that revalidate_from() has yet to validate
    job,        \* the call of publish_diagnostics_for() in progress
    run,        \* the call of validate_document() in progress
    editor,     \* history: the text each open editor tab holds
    edited,     \* history: the document of the last open or change
    budget      \* messages and disk writes that are left

serverVars == <<open, shown, queue, job, run>>
vars == <<disk, config, open, shown, queue, job, run, editor, edited, budget>>

-----------------------------------------------------------------------------
(* Diagnostics and documents.                                              *)

Kinds == {"directive", "syntax", "file_io", "parse"}
Diagnostic == Kinds \X Docs

(* The diagnostics that processing d itself raises in d.                   *)
OwnDiagnostics(d, t) == IF t.fault = "none" THEN {} ELSE {<<t.fault, d>>}

Opened(t) == [text |-> t, includes |-> <<>>, transient |-> FALSE]
Transient(t) == [text |-> t, includes |-> <<>>, transient |-> TRUE]

Idle == queue = {} /\ job = None

Standalone == config[1] = "standalone"
Entry_points == config[2]

-----------------------------------------------------------------------------
(* Messages of the editor.                                                 *)

(* get_open_dependent_roots: open documents that are in nobody's include   *)
(* closure and are `uri` or have it in theirs.                             *)
Dependent_roots(docs, uri) ==
    LET present == {d \in Docs : docs[d] # NotOpen}
        fragments == UNION {Range(docs[d].includes) : d \in present}
    IN  {d \in present \ fragments :
            d = uri \/ uri \in Range(docs[d].includes)}

(* insert_or_assign_document: what was known of `d` is forgotten, its      *)
(* include closure too.                                                    *)
Insert(d, t) == [open EXCEPT ![d] = Opened(t)]

Spend(n) == budget[n] > 0 /\ budget' = [budget EXCEPT ![n] = @ - 1]

(* textDocument/didOpen and textDocument/didChange (full text).            *)
OpenOrChange(d, t) ==
    /\ Idle
    /\ Spend(1)
    /\ t # editor[d]
    /\ editor' = [editor EXCEPT ![d] = t]
    /\ edited' = d
    /\ open' = Insert(d, t)
    /\ queue' = Dependent_roots(Insert(d, t), d)
    /\ UNCHANGED <<disk, config, shown, job, run>>

DidOpen == \E d \in Docs : editor[d] = NotOpen
                           /\ \E t \in Texts[d] : OpenOrChange(d, t)

DidChange == \E d \in Docs : editor[d] # NotOpen
                             /\ \E t \in Texts[d] : OpenOrChange(d, t)

(* textDocument/didClose: nobody is validated again.                       *)
DidClose ==
    \E d \in Docs :
        /\ Idle
        /\ editor[d] # NotOpen
        /\ Spend(1)
        /\ editor' = [editor EXCEPT ![d] = NotOpen]
        /\ edited' = None
        /\ open' = [open EXCEPT ![d] = NotOpen]
        /\ shown' = [shown EXCEPT ![d] = {}]
        /\ UNCHANGED <<disk, config, queue, job, run>>

(* Somebody writes or deletes a file; the server is not told.              *)
DiskWrite ==
    \E d \in Docs : \E t \in Texts[d] \cup {Missing} :
        /\ t # disk[d]
        /\ Spend(2)
        /\ disk' = [disk EXCEPT ![d] = t]
        /\ UNCHANGED <<config, open, shown, queue, job, run, editor, edited>>

-----------------------------------------------------------------------------
(* publish_diagnostics_for and collect_diagnostics_by_uri.                 *)

(* `by` is by_uri: a function on the URIs that will be published.          *)
Job(root, entries, by) == [root |-> root, entries |-> entries, by |-> by]

TakeRoot ==
    /\ job = None
    /\ \E r \in queue :
        /\ queue' = queue \ {r}
        /\ job' = IF Standalone THEN Job(r, {r}, <<>>)
                  ELSE Job(r, Entry_points, [d \in {r} |-> {}])
    /\ UNCHANGED <<disk, config, open, shown, run, editor, edited, budget>>

(* The text of an entry point: from the editor, or else from disk.         *)
Entry_text(e) == IF open[e] # NotOpen THEN open[e].text ELSE disk[e]

Place(d, t) == [doc |-> d, text |-> t, pos |-> 1]

(* validate_document starts: a fault is met before any include, a syntax   *)
(* error keeps the document from being processed at all.                   *)
Started(e, t) ==
    [main |-> e,
     stack |-> IF t.fault = "syntax" THEN <<>> ELSE <<Place(e, t)>>,
     includes |-> <<>>,
     diagnostics |-> {<<e, x>> : x \in OwnDiagnostics(e, t)}]

(* Mutant of StartRun: the entry point is not taken off the list.          *)
StartRun_SameEntry ==
    /\ job # None
    /\ run = None
    /\ \E e \in job.entries :
        run' = IF Entry_text(e) = Missing THEN None ELSE Started(e, Entry_text(e))
    /\ UNCHANGED <<disk, config, open, shown, queue, job, editor, edited, budget>>

(* The next entry point is validated, or skipped if it cannot be read.     *)
StartRun ==
    /\ job # None
    /\ run = None
    /\ \E e \in job.entries :
        /\ job' = [job EXCEPT !.entries = @ \ {e}]
        /\ run' = IF Entry_text(e) = Missing THEN None
                  ELSE Started(e, Entry_text(e))
    /\ UNCHANGED <<disk, config, open, shown, queue, editor, edited, budget>>

(* Everything is published, one notification per URI.                      *)
Publish ==
    /\ job # None
    /\ run = None
    /\ job.entries = {}
    /\ shown' = [d \in Docs |-> IF d \in DOMAIN job.by THEN job.by[d] ELSE shown[d]]
    /\ job' = None
    /\ UNCHANGED <<disk, config, open, queue, run, editor, edited, budget>>

-----------------------------------------------------------------------------
(* validate_document, with the include directive and load_file_callback.   *)

Running == run # None /\ run.stack # <<>>
Here == run.stack[Len(run.stack)]
Next_include == Here.text.inc[Here.pos]
AtInclude == Running /\ Here.pos <= Len(Here.text.inc)

Advanced == [run.stack EXCEPT ![Len(run.stack)].pos = @ + 1]

(* The included text is parsed and processed; a syntax error in it is      *)
(* fatal: it ends the whole run.                                           *)
Included(d, t) ==
    [run EXCEPT
        !.includes = Append(@, d),
        !.diagnostics = @ \cup {<<d, x>> : x \in OwnDiagnostics(d, t)}
            \cup (IF t.fault = "syntax" THEN {<<Here.doc, <<"parse", d>>>>}
                  ELSE {}),
        !.stack = IF t.fault = "syntax" THEN <<>>
                  ELSE Append(Advanced, Place(d, t))]

(* The file is open in the editor, or was loaded before in this run.       *)
LoadOpen ==
    /\ AtInclude
    /\ open[Next_include] # NotOpen
    /\ run' = Included(Next_include, open[Next_include].text)
    /\ UNCHANGED <<disk, config, open, shown, queue, job, editor, edited, budget>>

(* Mutant of LoadDisk: the text is handed out without being kept.          *)
LoadDisk_Unkept ==
    /\ AtInclude
    /\ open[Next_include] = NotOpen
    /\ disk[Next_include] # Missing
    /\ run' = Included(Next_include, disk[Next_include])
    /\ UNCHANGED <<disk, config, open, shown, queue, job, editor, edited, budget>>

(* The file is read from disk and kept as a transient document.            *)
LoadDisk ==
    /\ AtInclude
    /\ open[Next_include] = NotOpen
    /\ disk[Next_include] # Missing
    /\ open' = [open EXCEPT ![Next_include] = Transient(disk[Next_include])]
    /\ run' = Included(Next_include, disk[Next_include])
    /\ UNCHANGED <<disk, config, shown, queue, job, editor, edited, budget>>

(* The file cannot be read: fatal.                                         *)
LoadFails ==
    /\ AtInclude
    /\ open[Next_include] = NotOpen
    /\ disk[Next_include] = Missing
    /\ run' = [run EXCEPT
                !.diagnostics =
                    @ \cup {<<Here.doc, <<"file_io", Next_include>>>>},
                !.stack = <<>>]
    /\ UNCHANGED <<disk, config, open, shown, queue, job, editor, edited, budget>>

EndOfText ==
    /\ Running
    /\ ~AtInclude
    /\ run' = [run EXCEPT !.stack = Front(@)]
    /\ UNCHANGED <<disk, config, open, shown, queue, job, editor, edited, budget>>

(* by_uri of one run: always the main document, and every document with    *)
(* diagnostics.                                                            *)
By_uri ==
    LET uris == {run.main} \cup {x[1] : x \in run.diagnostics}
    IN  [u \in uris |-> {x[2] : x \in {y \in run.diagnostics : y[1] = u}}]

(* Merges the diagnostics of one more entry point; duplicates are not      *)
(* told apart.                                                             *)
Merged(f, g) ==
    [u \in DOMAIN f \cup DOMAIN g |->
        (IF u \in DOMAIN f THEN f[u] ELSE {}) \cup
        (IF u \in DOMAIN g THEN g[u] ELSE {})]

(* Mutant of Cleared: nothing is cleared.                                  *)
Cleared_Nothing == <<>>

(* Included documents that are open in the editor get an entry as well, so *)
(* that their old diagnostics are cleared; only without a configuration.   *)
(* Transient documents are gone by then.                                   *)
Cleared ==
    LET uris == {d \in Range(run.includes) :
                    open[d] # NotOpen /\ ~open[d].transient}
    IN  IF Standalone THEN [u \in uris |-> {}] ELSE <<>>

(* Mutant of Settled: transient documents stay.                            *)
Settled_KeepsTransient ==
    [d \in Docs |->
        IF open[d] # NotOpen /\ d = run.main
        THEN [open[d] EXCEPT !.includes = run.includes]
        ELSE open[d]]

(* clear_transient_documents(), and the closure is stored if the main      *)
(* document is open in the editor.                                         *)
Settled ==
    [d \in Docs |->
        CASE open[d] = NotOpen -> NotOpen
          [] open[d] # NotOpen /\ open[d].transient -> NotOpen
          [] OTHER -> IF d = run.main
                      THEN [open[d] EXCEPT !.includes = run.includes]
                      ELSE open[d]]

FinishRun ==
    /\ run # None
    /\ run.stack = <<>>
    /\ job' = [job EXCEPT !.by = Merged(@, Merged(By_uri, Cleared))]
    /\ open' = Settled
    /\ run' = None
    /\ UNCHANGED <<disk, config, shown, queue, editor, edited, budget>>

-----------------------------------------------------------------------------

Init ==
    /\ disk \in [Docs -> (UNION {Texts[d] : d \in Docs}) \cup {Missing}]
    /\ \A d \in Docs : disk[d] \in Texts[d] \cup {Missing}
    /\ config \in Configs
    /\ open = [d \in Docs |-> NotOpen]
    /\ shown = [d \in Docs |-> {}]
    /\ queue = {}
    /\ job = None
    /\ run = None
    /\ editor = [d \in Docs |-> NotOpen]
    /\ edited = None
    /\ budget = <<MaxMessages, MaxDiskWrites>>

Server ==
    \/ TakeRoot
    \/ StartRun
    \/ LoadOpen
    \/ LoadDisk
    \/ LoadFails
    \/ EndOfText
    \/ FinishRun
    \/ Publish

Next ==
    \/ DidOpen
    \/ DidChange
    \/ DidClose
    \/ DiskWrite
    \/ Server

Spec == Init /\ [][Next]_vars

(* The server's loop keeps working on the message it is handling.          *)
FairSpec == Spec /\ WF_vars(Server)

-----------------------------------------------------------------------------
(* The values of variables.                                                *)

Document == [text : Text, includes : Seq(Docs), transient : BOOLEAN]

Jobs == [root : Docs, entries : SUBSET Docs,
         by : UNION {[uris -> SUBSET Diagnostic] : uris \in SUBSET Docs}]

Places == [doc : Docs, text : Text, pos : Nat \ {0}]

Runs == [main : Docs, stack : Seq(Places),
         includes : Seq(Docs), diagnostics : SUBSET (Docs \X Diagnostic)]

(* What stands for the absence of something is not mistaken for it.        *)
ASSUME AbsenceAssumption ==
    /\ NotOpen \notin Document \cup Text
    /\ Missing \notin Text
    /\ None \notin Jobs \cup Runs

(* Type invariant.                                                         *)
TypeOK ==
    /\ disk \in [Docs -> Text \cup {Missing}]
    /\ config \in Configs
    /\ open \in [Docs -> Document \cup {NotOpen}]
    /\ DOMAIN shown = Docs
    /\ \A d \in Docs : shown[d] \subseteq Diagnostic
    /\ queue \subseteq Docs
    /\ job # None =>
           /\ job.root \in Docs /\ job.entries \subseteq Docs
           /\ \A d \in DOMAIN job.by : d \in Docs /\ job.by[d] \subseteq Diagnostic
    /\ run \in Runs \cup {None}
    /\ run # None => job # None

(* The server's documents are those of the editor, with the editor's text; *)
(* a document loaded for a validation neither replaces one of them nor     *)
(* outlives the message.                                                   *)
SyncedWithEditor ==
    /\ TypeOK
    /\ \A d \in Docs :
          /\ editor[d] # NotOpen =>
                open[d] # NotOpen /\ open[d].text = editor[d] /\ ~open[d].transient
          /\ editor[d] = NotOpen /\ run = None => open[d] = NotOpen

(* A validation works on one snapshot: whatever happens on disk meanwhile, *)
(* every file it has loaded stays in m_open_docs, where the pointers of    *)
(* Validation_Context lead, and is processed with the text it has there.   *)
OneSnapshot ==
    run # None =>
        /\ \A d \in Range(run.includes) : open[d] # NotOpen
        /\ \A i \in 2..Len(run.stack) :
              LET place == run.stack[i]
              IN  open[place.doc] # NotOpen /\ open[place.doc].text = place.text

(* What the editor displays as d's own fault is the fault of its text.     *)
OwnFaultShown(d) ==
    {x \in shown[d] : x[1] \in {"directive", "syntax"}}
        = OwnDiagnostics(d, editor[d])

(* Without a configuration, validating a root brings the display of the    *)
(* root and of every open document it includes up to date: new faults      *)
(* appear and repaired ones vanish.                                        *)
PublishedIsCurrent ==
    [][ job # None /\ job' = None /\ Standalone =>
            \A d \in {job.root} \cup Range(open[job.root].includes) :
                editor[d] # NotOpen => OwnFaultShown(d)' ]_vars

(* The server comes to rest after every message.                           *)
MessageHandled == queue # {} ~> Idle

(* lsp.cpp (collect_diagnostics_by_uri) says that the opened document gets *)
(* an empty list first, "so stale errors are cleared even if it is not an  *)
(* entry point": a fault repaired in the document just changed is no       *)
(* longer displayed.                                                       *)
StaleIsCleared ==
    Idle /\ edited # None =>
        \A x \in shown[edited] :
            x[1] \in {"directive", "syntax"} =>
                x \in OwnDiagnostics(edited, editor[edited])
=============================================================================
