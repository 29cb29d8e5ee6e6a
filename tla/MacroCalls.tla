----------------------------- MODULE MacroCalls -----------------------------
(***************************************************************************)
(* Invocations, their stack frames and their arguments.                    *)
(*                                                                         *)
(* Content is always processed together with a frame, the invocation of    *)
(* the macro whose definition the content is written in: \cowel_put and    *)
(* `...` refer to the arguments of that invocation.  A frame is an index   *)
(* into the call stack (engine/include/cowel/call_stack.hpp); 0 is the     *)
(* document's top level here.  Whoever takes content from one place and    *)
(* processes it in another has to pass the right frame along.              *)
(*                                                                         *)
(* Arguments are looked for by \cowel_put (engine/src/directives/          *)
(* macros.cpp) and matched to the parameters of built-in directives        *)
(* (match_call in engine/src/parameters.cpp), in both cases by a recursive *)
(* traversal in which `...` stands for the arguments of the frame it is    *)
(* written in.                                                             *)
(***************************************************************************)
EXTENDS Naturals, Sequences, FiniteSets

CONSTANTS
    Positional, Ellipsis,   \* kinds of arguments
    ArgNames,               \* names of named arguments
    ArgLists,               \* the argument lists that calls are written with
    ParameterLists,         \* the parameters that built-in directives have
    Needles,                \* what \cowel_put asks for: positions and names
    None,                   \* nothing
    MaxCalls                \* bound: number of invocations in a run

Members == {Positional, Ellipsis} \cup ArgNames

(* "pack" takes any number of positional arguments, "named_pack" any       *)
(* number of named ones.                                                   *)
ParameterKinds == {"value", "pack", "named_pack"}
Parameter == [name : ArgNames, kind : ParameterKinds, mandatory : BOOLEAN]

ASSUME MacroCallsAssumption ==
    /\ Positional \notin ArgNames
    /\ Ellipsis \notin ArgNames
    /\ Positional # Ellipsis
    /\ ArgLists \subseteq Seq(Members)
    /\ ParameterLists \subseteq Seq(Parameter)
    /\ Needles \subseteq Nat \cup ArgNames
    /\ ArgNames \cap Nat = {}
    /\ None \notin Nat
    /\ None \notin (Nat \X Nat)
    /\ MaxCalls \in Nat

VARIABLES
    calls,      \* the call stack
    resume,     \* what to return to when the topmost call ends
    current,    \* the frame the content being processed is processed with
    written,    \* history: the call (its id) in whose macro it is written
    stored,     \* the block value in a variable, or None
    serial,     \* the number of calls so far, from which ids are taken
    forwarded,  \* history: the content was found through `...`, is an
                \* `else` argument, or was inside of such content
    task,       \* what traverses arguments right now
    walk,       \* the activations of that traversal, outermost first
    index,      \* Put_Positional::index
    needle,     \* what \cowel_put looks for
    found,      \* the argument found last, <<frame of its list, position>>
    params,     \* the parameters being matched
    slots,      \* argument_indices_by_parameter
    mode,       \* Match_Call::mode
    pack,       \* Match_Call::current_pack_param_index
    bound       \* which argument has been matched to which parameter

frames == <<calls, resume, current, written, stored, serial, forwarded>>
matching == <<params, slots, mode, pack, bound>>
vars == <<calls, resume, current, written, stored, serial, forwarded,
          task, walk, index, needle, found, params, slots, mode, pack, bound>>

Call == [args : Seq(Members), block : BOOLEAN, parent : Nat, id : Nat,
         home : Nat, forwarded : BOOLEAN]

(* The id of the call that a frame index stands for.                       *)
IdOf(frame) == IF frame = 0 THEN 0 ELSE calls[frame].id

Alive(block) ==
    \/ block.frame = 0
    \/ block.frame <= Len(calls) /\ calls[block.frame].id = block.id

-----------------------------------------------------------------------------
(* Pushing and popping frames.                                             *)

Processing == task = "none" /\ serial < MaxCalls

(* No traversal is under way, and what it needed is gone.                  *)
Idle ==
    /\ walk' = <<>>
    /\ index' = 0
    /\ needle' = None
    /\ found' = None
    /\ params' = <<>>
    /\ slots' = <<>>
    /\ mode' = "normal"
    /\ pack' = 0
    /\ bound' = <<>>

(* Mutant of Push: the frame of the call is taken for that of its content. *)
Push_OwnFrame(args, block) ==
    /\ calls' = Append(calls, [args |-> args, block |-> block,
                               parent |-> Len(calls) + 1, id |-> serial + 1,
                               home |-> written, forwarded |-> forwarded])
    /\ resume' = Append(resume, [frame |-> current, written |-> written,
                                 forwarded |-> forwarded])
    /\ serial' = serial + 1

(* A directive in the current content is invoked: push_scoped.  Its        *)
(* arguments and its block belong to the frame of that content.            *)
Push(args, block) ==
    /\ calls' = Append(calls, [args |-> args, block |-> block,
                               parent |-> current, id |-> serial + 1,
                               home |-> written, forwarded |-> forwarded])
    /\ resume' = Append(resume, [frame |-> current, written |-> written,
                                 forwarded |-> forwarded])
    /\ serial' = serial + 1

(* `...` at the top level has nothing to stand for.                        *)
Writable(args) ==
    current = 0 => \A i \in DOMAIN args : args[i] # Ellipsis

(* Macro_Definition::splice: the body is processed with the new frame.     *)
CallMacro ==
    /\ Processing
    /\ \E args \in ArgLists, block \in BOOLEAN :
        /\ Writable(args)
        /\ Push(args, block)
    /\ current' = Len(calls) + 1
    /\ written' = serial + 1
    /\ forwarded' = FALSE
    /\ UNCHANGED <<stored, task>>
    /\ Idle

(* The topmost call has been processed.                                    *)
Return ==
    /\ task \in {"none", "matched", "failed", "not_found"}
    /\ calls # <<>>
    /\ calls' = SubSeq(calls, 1, Len(calls) - 1)
    /\ resume' = SubSeq(resume, 1, Len(resume) - 1)
    /\ LET to == resume[Len(resume)]
       IN  /\ current' = to.frame
           /\ written' = to.written
           /\ forwarded' = to.forwarded
    /\ task' = "none"
    /\ UNCHANGED <<stored, serial>>
    /\ Idle

(* Mutant of PutBlock: the block keeps the frame of the macro.             *)
PutBlock_SameFrame ==
    /\ Processing
    /\ current # 0
    /\ calls[current].block
    /\ Push(<<>>, FALSE)
    /\ written' = calls[current].home
    /\ forwarded' = calls[current].forwarded
    /\ UNCHANGED <<current, stored, task>>
    /\ Idle

(* \cowel_put: the block of the macro's invocation is processed with the   *)
(* frame it was written in.                                                *)
PutBlock ==
    /\ Processing
    /\ current # 0
    /\ calls[current].block
    /\ Push(<<>>, FALSE)
    /\ current' = calls[current].parent
    /\ written' = calls[current].home
    /\ forwarded' = calls[current].forwarded
    /\ UNCHANGED <<stored, task>>
    /\ Idle

(* A block is a value: assigning it to a variable keeps its frame index.   *)
StoreBlock ==
    /\ Processing
    /\ stored' = [frame |-> current, id |-> written, forwarded |-> forwarded]
    /\ UNCHANGED <<calls, resume, current, written, serial, forwarded>>
    /\ UNCHANGED task
    /\ Idle

(* Value::splice_block: the block in the variable is processed with the    *)
(* index that was stored.  If the call is gone, the index stands for       *)
(* another call or for none, and the model does not follow any further.    *)
LoadBlock ==
    /\ Processing
    /\ stored # None
    /\ Push(<<>>, FALSE)
    /\ current' = stored.frame
    /\ written' = stored.id
    /\ forwarded' = stored.forwarded
    /\ task' = IF Alive(stored) THEN "none" ELSE "stale"
    /\ UNCHANGED stored
    /\ Idle

-----------------------------------------------------------------------------
(* Traversing arguments.                                                   *)

Top == walk[Len(walk)]
Args == calls[Top.frame].args
AtEnd == Top.pos > Len(Args)
Member == Args[Top.pos]
Place == <<Top.frame, Top.pos>>

Started(frame, base) == [frame |-> frame, pos |-> 1, base |-> base]

Advanced == [walk EXCEPT ![Len(walk)].pos = @ + 1]

(* Mutant of Expanded: the arguments being traversed are traversed again.  *)
Expanded_Same ==
    Append(Advanced, Started(Top.frame, Top.base + Top.pos - 1))

(* `...`: the arguments of the frame it is written in are traversed.       *)
Expanded ==
    Append(Advanced, Started(calls[Top.frame].parent, Top.base + Top.pos - 1))

Left == SubSeq(walk, 1, Len(walk) - 1)

Walking(t) == task = t /\ walk # <<>>

(* \cowel_put{x}: the arguments of the macro's invocation are searched.    *)
PutArgument ==
    /\ Processing
    /\ current # 0
    /\ \E x \in Needles :
        /\ needle' = x
        /\ task' = IF x \in ArgNames THEN "named" ELSE "positional"
    /\ Push(<<>>, FALSE)
    /\ walk' = <<Started(current, 0)>>
    /\ index' = 0
    /\ found' = None
    /\ params' = <<>>
    /\ slots' = <<>>
    /\ mode' = "normal"
    /\ pack' = 0
    /\ bound' = <<>>
    /\ UNCHANGED <<current, written, stored, forwarded>>

(* The argument at `place` is processed with the frame of the target's     *)
(* arguments, wherever it was found.                                       *)
Deliver(place) ==
    /\ found' = place
    /\ current' = calls[current].parent
    /\ written' = calls[place[1]].home
    /\ forwarded' = (calls[place[1]].forwarded \/ place[1] # current)
    /\ task' = "none"
    /\ walk' = <<>>
    /\ index' = 0
    /\ needle' = None
    /\ UNCHANGED <<calls, resume, stored, serial>>
    /\ UNCHANGED matching

(* Put_Positional::find.                                                   *)
CountPositional ==
    /\ Walking("positional")
    /\ ~AtEnd
    /\ Member = Positional
    /\ IF needle = index
       THEN Deliver(Place)
       ELSE /\ index' = index + 1
            /\ walk' = Advanced
            /\ UNCHANGED frames
            /\ UNCHANGED <<task, needle, found>>
            /\ UNCHANGED matching

(* Mutant of SkipNamed: the traversal stays at the argument.               *)
SkipNamed_Stays ==
    /\ Walking("positional")
    /\ ~AtEnd
    /\ Member \in ArgNames
    /\ UNCHANGED vars

SkipNamed ==
    /\ Walking("positional")
    /\ ~AtEnd
    /\ Member \in ArgNames
    /\ walk' = Advanced
    /\ UNCHANGED frames
    /\ UNCHANGED <<task, index, needle, found>>
    /\ UNCHANGED matching

(* Put_Named::find.                                                        *)
FindNamed ==
    /\ Walking("named")
    /\ ~AtEnd
    /\ Member = needle
    /\ Deliver(Place)

SkipOthers ==
    /\ Walking("named")
    /\ ~AtEnd
    /\ Member \notin {needle, Ellipsis}
    /\ walk' = Advanced
    /\ UNCHANGED frames
    /\ UNCHANGED <<task, index, needle, found>>
    /\ UNCHANGED matching

PutEllipsis ==
    /\ Walking("positional") \/ Walking("named")
    /\ ~AtEnd
    /\ Member = Ellipsis
    /\ walk' = Expanded
    /\ UNCHANGED frames
    /\ UNCHANGED <<task, index, needle, found>>
    /\ UNCHANGED matching

(* Mutant of PutLeave: a search for a position, too, ends with a `...`.    *)
PutLeave_Ends ==
    /\ Walking("positional") \/ Walking("named")
    /\ AtEnd
    /\ walk' = <<>>
    /\ UNCHANGED frames
    /\ UNCHANGED <<task, index, needle, found>>
    /\ UNCHANGED matching

(* A search that finds nothing goes on behind the `...`; the search for a  *)
(* name, however, takes a recursive call that has found nothing for a      *)
(* result, and ends.                                                       *)
PutLeave ==
    /\ Walking("positional") \/ Walking("named")
    /\ AtEnd
    /\ walk' = IF task = "positional" THEN Left ELSE <<>>
    /\ UNCHANGED frames
    /\ UNCHANGED <<task, index, needle, found>>
    /\ UNCHANGED matching

(* Nothing was found: an error, or the argument `else`, which is processed *)
(* with the same frame as an argument that was found.                      *)
PutNothing ==
    /\ task \in {"positional", "named"}
    /\ walk = <<>>
    /\ \/ /\ task' = "not_found"
          /\ UNCHANGED frames
       \/ /\ task' = "none"
          /\ current' = calls[current].parent
          /\ forwarded' = TRUE
          /\ UNCHANGED <<calls, resume, written, stored, serial>>
    /\ UNCHANGED <<walk, index, needle, found>>
    /\ UNCHANGED matching

-----------------------------------------------------------------------------
(* Matching the arguments of a built-in directive (match_call).            *)

Matching == Walking("matching")

MatchKeeps ==
    /\ UNCHANGED frames
    /\ UNCHANGED <<index, needle, found, params>>

Fail ==
    /\ task' = "failed"
    /\ walk' = <<>>
    /\ UNCHANGED <<slots, mode, pack, bound>>
    /\ MatchKeeps

(* The block is matched to the last parameter, before any argument.        *)
CallBuiltin ==
    /\ Processing
    /\ \E args \in ArgLists, block, fits \in BOOLEAN, list \in ParameterLists :
        /\ Writable(args)
        /\ Push(args, block)
        /\ params' = list
        /\ task' = IF block /\ (list = <<>> \/ ~fits) THEN "failed" ELSE "matching"
        /\ slots' = [i \in DOMAIN list |->
                        IF block /\ i = Len(list) THEN "block" ELSE "free"]
        /\ bound' = IF block /\ list # <<>>
                    THEN <<[param |-> Len(list), arg |-> <<Len(calls) + 1, 0>>]>>
                    ELSE <<>>
    /\ walk' = IF task' = "matching" THEN <<Started(Len(calls) + 1, 0)>> ELSE <<>>
    /\ index' = 0
    /\ needle' = None
    /\ found' = None
    /\ mode' = "normal"
    /\ pack' = 0
    /\ UNCHANGED <<current, written, stored, forwarded>>

(* The parameter whose turn it is, by the argument's position.             *)
Turn == Top.base + Top.pos

Bind(p) == bound' = Append(bound, [param |-> p, arg |-> Place])

MatchPositional ==
    /\ Matching
    /\ ~AtEnd
    /\ Member = Positional
    /\ mode = "normal"
    /\ Turn <= Len(params)
    /\ slots[Turn] = "free"
    /\ Bind(Turn)
    /\ slots' = [slots EXCEPT ![Turn] = "arg"]
    /\ walk' = Advanced
    /\ IF params[Turn].kind # "value"
       THEN mode' = "pack_positional" /\ pack' = Turn
       ELSE UNCHANGED <<mode, pack>>
    /\ UNCHANGED task
    /\ MatchKeeps

(* The assertion that a positional argument's parameter is free.           *)
MatchAssertion ==
    /\ Matching
    /\ ~AtEnd
    /\ Member = Positional
    /\ mode = "normal"
    /\ Turn <= Len(params)
    /\ slots[Turn] = "arg"
    /\ task' = "assertion"
    /\ UNCHANGED <<walk, slots, mode, pack, bound>>
    /\ MatchKeeps

MatchIntoPack ==
    /\ Matching
    /\ ~AtEnd
    /\ \/ Member = Positional /\ mode = "pack_positional"
       \/ Member \in ArgNames /\ mode = "pack_named"
    /\ Bind(pack)
    /\ walk' = Advanced
    /\ UNCHANGED <<task, slots, mode, pack>>
    /\ MatchKeeps

(* A named argument in the place of a pack of named arguments.             *)
StartsNamedPack ==
    /\ mode = "normal"
    /\ Turn <= Len(params)
    /\ params[Turn].kind = "named_pack"

MatchNamedPack ==
    /\ Matching
    /\ ~AtEnd
    /\ Member \in ArgNames
    /\ StartsNamedPack
    /\ Bind(Turn)
    /\ slots' = [slots EXCEPT ![Turn] = "arg"]
    /\ mode' = "pack_named"
    /\ pack' = Turn
    /\ walk' = Advanced
    /\ UNCHANGED task
    /\ MatchKeeps

(* The first parameter of that name.                                       *)
Named(p) ==
    /\ p \in DOMAIN params
    /\ params[p].name = Member
    /\ \A q \in 1..(p - 1) : params[q].name # Member

MatchNamed ==
    /\ Matching
    /\ ~AtEnd
    /\ Member \in ArgNames
    /\ ~StartsNamedPack
    /\ mode # "pack_named"
    /\ \E p \in DOMAIN params :
        /\ Named(p)
        /\ slots[p] = "free"
        /\ Bind(p)
        /\ slots' = [slots EXCEPT ![p] = "arg"]
    /\ mode' = "named_only"
    /\ walk' = Advanced
    /\ UNCHANGED <<task, pack>>
    /\ MatchKeeps

(* Mutant of MatchEllipsis: `...` is skipped.                              *)
MatchEllipsis_Skipped ==
    /\ Matching
    /\ ~AtEnd
    /\ Member = Ellipsis
    /\ walk' = Advanced
    /\ UNCHANGED <<task, slots, mode, pack, bound>>
    /\ MatchKeeps

MatchEllipsis ==
    /\ Matching
    /\ ~AtEnd
    /\ Member = Ellipsis
    /\ walk' = Expanded
    /\ UNCHANGED <<task, slots, mode, pack, bound>>
    /\ MatchKeeps

MatchLeave ==
    /\ Matching
    /\ AtEnd
    /\ Len(walk) > 1
    /\ walk' = Left
    /\ UNCHANGED <<task, slots, mode, pack, bound>>
    /\ MatchKeeps

(* A positional argument behind a named one, one too many, or one whose    *)
(* parameter is the block's; a name that is unknown or has been matched.   *)
MatchRefused ==
    /\ Matching
    /\ ~AtEnd
    /\ \/ /\ Member = Positional
          /\ \/ mode \in {"named_only", "pack_named"}
             \/ mode = "normal" /\ Turn > Len(params)
             \/ mode = "normal" /\ Turn <= Len(params) /\ slots[Turn] = "block"
       \/ /\ Member \in ArgNames
          /\ ~StartsNamedPack
          /\ mode # "pack_named"
          /\ \A p \in DOMAIN params : Named(p) => slots[p] # "free"
    /\ Fail

(* The argument's value is not of the parameter's type.                    *)
MatchMismatch ==
    /\ Matching
    /\ ~AtEnd
    /\ Member # Ellipsis
    /\ Fail

(* All arguments have been matched: mandatory parameters must have been.   *)
MatchEnd ==
    /\ Matching
    /\ AtEnd
    /\ Len(walk) = 1
    /\ task' = IF \E p \in DOMAIN params :
                    /\ params[p].mandatory
                    /\ \A i \in DOMAIN bound : bound[i].param # p
               THEN "failed" ELSE "matched"
    /\ walk' = <<>>
    /\ UNCHANGED <<slots, mode, pack, bound>>
    /\ MatchKeeps

(* An argument that was matched is processed with the frame it comes with. *)
UseArgument ==
    /\ task = "matched"
    /\ \E i \in DOMAIN bound :
        LET list == bound[i].arg[1]
        IN  /\ current' = calls[list].parent
            /\ written' = calls[list].home
            /\ forwarded' = calls[list].forwarded
    /\ task' = "none"
    /\ UNCHANGED <<calls, resume, stored, serial>>
    /\ Idle

-----------------------------------------------------------------------------

Init ==
    /\ calls = <<>>
    /\ resume = <<>>
    /\ current = 0
    /\ written = 0
    /\ stored = None
    /\ serial = 0
    /\ forwarded = FALSE
    /\ task = "none"
    /\ walk = <<>>
    /\ index = 0
    /\ needle = None
    /\ found = None
    /\ params = <<>>
    /\ slots = <<>>
    /\ mode = "normal"
    /\ pack = 0
    /\ bound = <<>>

Traverse ==
    \/ CountPositional
    \/ SkipNamed
    \/ FindNamed
    \/ SkipOthers
    \/ PutEllipsis
    \/ PutLeave
    \/ PutNothing
    \/ MatchPositional
    \/ MatchAssertion
    \/ MatchIntoPack
    \/ MatchNamedPack
    \/ MatchNamed
    \/ MatchEllipsis
    \/ MatchLeave
    \/ MatchRefused
    \/ MatchMismatch
    \/ MatchEnd

Next ==
    \/ CallMacro
    \/ Return
    \/ PutBlock
    \/ StoreBlock
    \/ LoadBlock
    \/ PutArgument
    \/ CallBuiltin
    \/ UseArgument
    \/ Traverse

Spec == Init /\ [][Next]_vars

(* A traversal is ordinary code: it goes on as long as it can.             *)
FairSpec == Spec /\ WF_vars(Traverse)

-----------------------------------------------------------------------------
Traversals == {"positional", "named", "matching"}
Tasks == Traversals \cup
         {"none", "not_found", "matched", "failed", "assertion", "stale"}

Activation == [frame : Nat \ {0}, pos : Nat \ {0}, base : Nat]

(* Type invariant.                                                         *)
TypeOK ==
    /\ calls \in Seq(Call)
    /\ resume \in Seq([frame : Nat, written : Nat, forwarded : BOOLEAN])
    /\ Len(resume) = Len(calls)
    /\ current \in Nat
    /\ written \in Nat
    /\ stored \in [frame : Nat, id : Nat, forwarded : BOOLEAN] \cup {None}
    /\ serial \in 0..MaxCalls
    /\ forwarded \in BOOLEAN
    /\ task \in Tasks
    /\ walk \in Seq(Activation)
    /\ index \in Nat
    /\ needle \in Nat \cup ArgNames \cup {None}
    /\ found \in (Nat \X Nat) \cup {None}
    /\ params \in Seq(Parameter)
    /\ slots \in [DOMAIN params -> {"free", "arg", "block"}]
    /\ mode \in {"normal", "named_only", "pack_positional", "pack_named"}
    /\ pack \in Nat
    /\ bound \in Seq([param : Nat, arg : Nat \X Nat])

(* The frame of a call's arguments, and what a call returns to, are below  *)
(* the call on the stack: no index outlives its call, unless a stored      *)
(* block does.                                                             *)
FramesBelow ==
    /\ \A f \in DOMAIN calls : calls[f].parent < f /\ resume[f].frame < f
    /\ task # "stale" => current <= Len(calls)

(* Expanding `...` leads down the stack, so that the recursion has an end. *)
ExpansionDescends ==
    \A i \in DOMAIN walk :
        /\ walk[i].frame <= Len(calls)
        /\ i > 1 => walk[i].frame < walk[i - 1].frame

(* What the first arguments of the call in frame f are, one by one, where   *)
(* `...` stands for rest.                                                  *)
Spread(f, rest) ==
    LET upto[n \in 0..Len(calls[f].args)] ==
            IF n = 0 THEN <<>>
            ELSE upto[n - 1] \o (IF calls[f].args[n] = Ellipsis
                                 THEN rest ELSE <<<<f, n>>>>)
    IN  upto

(* The arguments of the call in a frame, every `...` replaced by what it   *)
(* stands for: the arguments of the call in whose macro it is written.     *)
Flat(frame) ==
    LET flat[f \in 0..Len(calls)] ==
            IF f = 0 THEN <<>>
            ELSE Spread(f, flat[calls[f].parent])[Len(calls[f].args)]
    IN  flat[frame]

KindOf(place) == calls[place[1]].args[place[2]]

Positionals(places) == {i \in DOMAIN places : KindOf(places[i]) = Positional}

(* \cowel_put{i} finds the i-th positional argument of the invocation,     *)
(* counted from 0 and through every `...`, and fails only if there are     *)
(* fewer.                                                                  *)
PositionalIsFlattened ==
    [][task = "positional" =>
        LET flat == Flat(current)
        IN  /\ found' # found =>
                \E i \in Positionals(flat) :
                    /\ found' = flat[i]
                    /\ Cardinality(Positionals(flat) \cap 1..(i - 1)) = needle
            /\ walk = <<>> => Cardinality(Positionals(flat)) <= needle]_vars

(* \cowel_put{name} finds the first argument of that name; it fails only   *)
(* if there is none, or if the invocation has a `...`.                     *)
NamedIsFirst ==
    [][task = "named" =>
        LET flat == Flat(current)
        IN  /\ found' # found =>
                \E i \in DOMAIN flat :
                    /\ found' = flat[i]
                    /\ KindOf(flat[i]) = needle
                    /\ \A j \in 1..(i - 1) : KindOf(flat[j]) # needle
            /\ walk = <<>> =>
                \/ \A i \in DOMAIN flat : KindOf(flat[i]) # needle
                \/ \E i \in DOMAIN calls[current].args :
                        calls[current].args[i] = Ellipsis]_vars

(* Both ways of asking for an argument see the invocation's arguments as   *)
(* one flat list, however many `...` they are spread over.                 *)
ArgumentsFound == PositionalIsFlattened /\ NamedIsFirst

(* The block, if there is one, has been matched first, and has no place.   *)
Arguments == IF bound # <<>> /\ bound[1].arg[2] = 0 THEN Tail(bound) ELSE bound

(* A call that is accepted has used every argument, through every `...`,   *)
(* once and in order, and no parameter but a pack has got more than one.   *)
MatchedOnce ==
    task = "matched" =>
        /\ [i \in DOMAIN Arguments |-> Arguments[i].arg] = Flat(Len(calls))
        /\ \A i, j \in DOMAIN bound :
            bound[i].param = bound[j].param /\ params[bound[i].param].kind = "value"
                => i = j

HasEllipsis == \E i \in DOMAIN calls[Len(calls)].args :
                    calls[Len(calls)].args[i] = Ellipsis

(* Without `...`, the assertion holds, and positional arguments are        *)
(* matched to the parameters from the first on, leaving none out.          *)
DirectMatch ==
    task \in {"matching", "matched", "assertion"} /\ ~HasEllipsis =>
        /\ task # "assertion"
        /\ \A i \in DOMAIN Arguments :
            KindOf(Arguments[i].arg) = Positional =>
                \A p \in 1..(Arguments[i].param - 1) :
                    \E j \in DOMAIN bound : bound[j].param = p

(* Matching binds every argument exactly once, and leaves no gap where     *)
(* there is no `...`; everything it is made of keeps its type.             *)
MatchedExactly == TypeOK /\ MatchedOnce /\ DirectMatch

InLexicalFrame ==
    IF current = 0 THEN written = 0
    ELSE current <= Len(calls) /\ calls[current].id = written

(* Unless it was forwarded or stored, content is processed with the frame  *)
(* of the invocation in whose macro it is written.                         *)
LexicalUnlessForwarded ==
    ~forwarded /\ task # "stale" => InLexicalFrame

(* A traversal of arguments ends.                                          *)
TraversalEnds == task \in Traversals ~> task \notin Traversals
=============================================================================
