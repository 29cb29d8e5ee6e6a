------------------------------- MODULE Watch -------------------------------
(***************************************************************************)
(* `cowel watch` (watchAndServe in bindings/node/src/cowel.ts): a document *)
(* is compiled and served, and compiled again when one of the files it was *)
(* made of changes.  JavaScript runs to completion: a compilation does not *)
(* give way to callbacks, but the files may change between any two of its  *)
(* steps.                                                                  *)
(*                                                                         *)
(* A file watcher follows the file that a path stood for when the watcher  *)
(* was made: after the file was deleted or replaced by another, the        *)
(* watcher is still there but notices nothing any more.                    *)
(***************************************************************************)
EXTENDS Naturals, SequencesExt

CONSTANTS
    Files, Main,        \* the files, and the document among them
    Texts,              \* Texts[f]: what may be written in file f
    Missing,            \* the text of a file that does not exist
    None,               \* no page
    MaxEdits            \* bound: how often files change

(* "error": compilation goes on but fails in the end; "fatal": it stops.   *)
Text == [fault : {"none", "error", "fatal"}, inc : Seq(Files)]

ASSUME WatchAssumption ==
    /\ Main \in Files
    /\ \A f \in Files : Texts[f] \subseteq Text
    /\ MaxEdits \in Nat

VARIABLES
    disk,       \* the file system
    phase,      \* what JavaScript is doing
    todo,       \* the files that the compilation has yet to load
    got,        \* mainFile and `files`: what it has loaded
    bad,        \* the compilation fails
    page,       \* currentHtml: the texts it was made of, by file
    watchers,   \* the keys of `watchers`
    live,       \* those of them that still notice changes
    events,     \* the watchers that have a change to report
    timer,      \* the debounce timer is running
    unnoticed,  \* history: files changed unwatched since they were loaded
    edits       \* the changes so far

watching == <<watchers, live, events, timer>>
vars == <<disk, phase, todo, got, bad, page, watchers, live, events, timer,
          unnoticed, edits>>

-----------------------------------------------------------------------------
(* What others do to the files.                                            *)

Change(f, t) ==
    /\ edits < MaxEdits
    /\ t # disk[f]
    /\ disk' = [disk EXCEPT ![f] = t]
    /\ edits' = edits + 1
    /\ IF f \in live
       THEN events' = events \cup {f} /\ UNCHANGED unnoticed
       ELSE unnoticed' = unnoticed \cup {f} /\ UNCHANGED events
    /\ UNCHANGED <<phase, todo, got, bad, page, watchers, timer>>

(* The file is written to, or a missing file is created.                   *)
Edit ==
    \E f \in Files : \E t \in Texts[f] : Change(f, t) /\ UNCHANGED live

(* The file is deleted, or another one is renamed to its name.             *)
Replace ==
    \E f \in Files : \E t \in Texts[f] \cup {Missing} :
        disk[f] # Missing /\ Change(f, t) /\ live' = live \ {f}

-----------------------------------------------------------------------------
(* compile.                                                                *)

Compiling == phase = "compile"

(* A file is loaded; its includes are next.  It counts as not changed from *)
(* the first time that it is loaded.                                       *)
LoadFile ==
    /\ Compiling
    /\ todo # <<>>
    /\ disk[Head(todo)] # Missing
    /\ LET f == Head(todo)
           t == disk[f]
       IN  /\ got' = [g \in DOMAIN got \cup {f} |-> IF g = f THEN t ELSE got[g]]
           /\ todo' = IF t.fault = "fatal" THEN <<>> ELSE t.inc \o Tail(todo)
           /\ bad' = (bad \/ t.fault # "none")
           /\ unnoticed' = IF f \in DOMAIN got THEN unnoticed ELSE unnoticed \ {f}
    /\ UNCHANGED <<disk, phase, page, edits>>
    /\ UNCHANGED watching

(* The document or an include cannot be read: fatal.                       *)
LoadFails ==
    /\ Compiling
    /\ todo # <<>>
    /\ disk[Head(todo)] = Missing
    /\ todo' = <<>>
    /\ bad' = TRUE
    /\ UNCHANGED <<disk, phase, got, page, unnoticed, edits>>
    /\ UNCHANGED watching

(* No page: the command fails the first time; later, the old page stays.   *)
Failed ==
    /\ Compiling
    /\ todo = <<>>
    /\ bad
    /\ phase' = IF page = None THEN "exited" ELSE "idle"
    /\ UNCHANGED <<disk, todo, got, bad, page, unnoticed, edits>>
    /\ UNCHANGED watching

(* Mutant of Succeeded: all watchers are closed, to be made anew.          *)
Succeeded_ClosesAll ==
    /\ Compiling
    /\ todo = <<>>
    /\ ~bad
    /\ page' = got
    /\ phase' = "watch"
    /\ watchers' = {}
    /\ live' = {}
    /\ events' = {}
    /\ UNCHANGED <<disk, todo, got, bad, timer, unnoticed, edits>>

(* Mutant of Succeeded: watchers that are not needed stay.                 *)
Succeeded_ClosesNone ==
    /\ Compiling
    /\ todo = <<>>
    /\ ~bad
    /\ page' = got
    /\ phase' = "watch"
    /\ UNCHANGED <<disk, todo, got, bad, watchers, live, events, timer,
                   unnoticed, edits>>

(* The page is served from now on, and updateWatchers closes the watchers  *)
(* of files that are no part of it.                                        *)
Succeeded ==
    /\ Compiling
    /\ todo = <<>>
    /\ ~bad
    /\ page' = got
    /\ phase' = "watch"
    /\ watchers' = watchers \cap DOMAIN got
    /\ live' = live \cap DOMAIN got
    /\ events' = events \cap DOMAIN got
    /\ UNCHANGED <<disk, todo, got, bad, timer, unnoticed, edits>>

(* updateWatchers makes the missing watchers, one by one.  For a file that *)
(* is gone already, fs.watch throws, and nobody catches it.                *)
AddWatcher ==
    /\ phase = "watch"
    /\ \E f \in DOMAIN got \ watchers :
        IF disk[f] = Missing
        THEN /\ phase' = "crashed"
             /\ UNCHANGED <<watchers, live>>
        ELSE /\ watchers' = watchers \cup {f}
             /\ live' = live \cup {f}
             /\ UNCHANGED phase
    /\ UNCHANGED <<disk, todo, got, bad, page, events, timer, unnoticed, edits>>

Watching ==
    /\ phase = "watch"
    /\ DOMAIN got \subseteq watchers
    /\ phase' = "idle"
    /\ UNCHANGED <<disk, todo, got, bad, page, unnoticed, edits>>
    /\ UNCHANGED watching

-----------------------------------------------------------------------------
(* Callbacks.                                                              *)

(* onChange: the timer is set, or set back.                                *)
OnChange ==
    /\ phase = "idle"
    /\ \E f \in events : events' = events \ {f}
    /\ timer' = TRUE
    /\ UNCHANGED <<disk, phase, todo, got, bad, page, watchers, live, unnoticed,
                   edits>>

(* Mutant of TimerFires: the timer is an interval.                         *)
TimerFires_Again ==
    /\ phase = "idle"
    /\ timer
    /\ phase' = "compile"
    /\ todo' = <<Main>>
    /\ got' = <<>>
    /\ bad' = FALSE
    /\ UNCHANGED <<disk, page, watchers, live, events, timer, unnoticed, edits>>

(* The document is compiled again.                                         *)
TimerFires ==
    /\ phase = "idle"
    /\ timer
    /\ timer' = FALSE
    /\ phase' = "compile"
    /\ todo' = <<Main>>
    /\ got' = <<>>
    /\ bad' = FALSE
    /\ UNCHANGED <<disk, page, watchers, live, events, unnoticed, edits>>

-----------------------------------------------------------------------------

Init ==
    /\ disk \in [Files -> (UNION {Texts[f] : f \in Files}) \cup {Missing}]
    /\ \A f \in Files : disk[f] \in Texts[f] \cup {Missing}
    /\ phase = "compile"
    /\ todo = <<Main>>
    /\ got = <<>>
    /\ bad = FALSE
    /\ page = None
    /\ watchers = {}
    /\ live = {}
    /\ events = {}
    /\ timer = FALSE
    /\ unnoticed = {}
    /\ edits = 0

Program ==
    \/ LoadFile
    \/ LoadFails
    \/ Failed
    \/ Succeeded
    \/ AddWatcher
    \/ Watching
    \/ OnChange
    \/ TimerFires

Next ==
    \/ Edit
    \/ Replace
    \/ Program

Spec == Init /\ [][Next]_vars

(* The event loop delivers what is pending.                                *)
FairSpec == Spec /\ WF_vars(Program)

-----------------------------------------------------------------------------
Phases == {"compile", "watch", "idle", "exited", "crashed"}

(* Type invariant.                                                         *)
TypeOK ==
    /\ disk \in [Files -> Text \cup {Missing}]
    /\ phase \in Phases
    /\ todo \in Seq(Files)
    /\ DOMAIN got \subseteq Files
    /\ bad \in BOOLEAN
    /\ page # None => DOMAIN page \subseteq Files
    /\ live \subseteq watchers
    /\ events \subseteq watchers
    /\ watchers \subseteq Files
    /\ timer \in BOOLEAN
    /\ unnoticed \subseteq Files
    /\ edits \in 0..MaxEdits

(* Between callbacks, exactly the files that the page was made of are      *)
(* watched, also when a later compilation has failed half way.             *)
WatchesThePage ==
    /\ TypeOK
    /\ phase = "idle" => watchers = DOMAIN page

AtRest == phase = "idle" /\ events = {} /\ ~timer

(* At rest, the last compilation has seen every file as it is: changes     *)
(* that come before, during and after a compilation lead to another one,   *)
(* however they fall together.  Only what is changed while nobody watches  *)
(* the file escapes, and a page is only old if it cannot be made anew.     *)
NothingForgotten ==
    AtRest =>
        /\ \A f \in DOMAIN got \ unnoticed : got[f] = disk[f]
        /\ page = got \/ bad

(* Once a change has been reported, everything is done at some time.       *)
ComesToRest == events # {} ~> AtRest \/ phase = "crashed"
=============================================================================
