-------------------------- MODULE ProcessingStatus --------------------------
(***************************************************************************)
(* The status every piece of content generation returns, and how two       *)
(* statuses combine (engine/include/cowel/content_status.hpp).             *)
(***************************************************************************)
EXTENDS Naturals

Statuses == {"ok", "brk", "error", "error_brk", "fatal"}

(* The enumerators' values, which status_max and the predicates compare.   *)
Rank == [ok |-> 0, brk |-> 1, error |-> 2, error_brk |-> 3, fatal |-> 4]

IsOk(s) == Rank[s] < Rank["error"]
IsError(s) == Rank[s] >= Rank["error"]
IsContinue(s) == s \in {"ok", "error"}
IsBreak(s) == s \in {"brk", "error_brk", "fatal"}

(* status_concat: what has happened after `first` and then `second`.       *)
Concat(first, second) ==
    IF IsBreak(first) THEN first
    ELSE IF first = "ok" THEN second
    ELSE IF second = "ok" THEN "error"
    ELSE IF second = "brk" THEN "error_brk"
    ELSE second

StatusMax(first, second) == IF Rank[second] > Rank[first] THEN second ELSE first
=============================================================================
