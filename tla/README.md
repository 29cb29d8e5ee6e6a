# A TLA+ verification of COWEL

COWEL (Compact Web Language) is a markup language whose processor turns a
document into HTML.  The engine (`engine/`) is a C++ library; around it are a
native command-line tool, a WASM build with a Node front end (with a watch
mode), and a language server (`bindings/`).  This directory holds TLA+ models
of the parts of it whose correctness depends on order, nesting and state, the
TLC configurations that check them, and TLAPS proofs of their central
invariants.

## The system

| Component | State it keeps | Operations | Interacts with |
|---|---|---|---|
| Lexer, parser, syntax tree (`syntax/*.cpp`) | token stream, instructions, position in both | lex, parse, build_ast | feeds everything below; called again for every included file |
| Content processing (`directive_processing.*`) | none but the C++ stack | `process_greedy`, `splice_all`, `splice_invocation`, `evaluate` | calls directives, which call it for their blocks |
| Statuses (`content_status.hpp`, `cowel.h`) | - | `status_concat`, `status_is_*` | the return value of all processing |
| Call stack, macros (`call_stack.hpp`, `invocation.hpp`, `directives/macros.cpp`) | stack of invocations | push/pop of frames, `\cowel_put`, `...` | frame indices travel with content and values |
| Parameter matching (`parameters.cpp`) | one `Match_Call` per call | matching of arguments to parameters | reads frames, calls matchers, which evaluate |
| Variables, expressions, values (`semantics.cpp`, `variables.cpp`, `type.hpp`, `value.hpp`) | map of variables, nodes shared by values | declare, assign, evaluate, convert | values may be blocks, i.e. syntax tree plus frame |
| Big integers (`big_int.hpp`, `big_int_boost.cpp`, `BigIntApi` in `cowel-wasm.ts`) | nodes, or a map from keys to integers in the host | arithmetic, conversion | values |
| Sections (`document_sections.hpp`, `heading.cpp`, `reference.cpp`) | map of named texts, current section | `\here`, `\there`, `\make_section`, headings, `\ref` | written by content, read by resolution |
| Content policies, HTML writer (`policy/*`, `html_writer.hpp`) | buffers, paragraph state, spans of code | write text and HTML | stacked; the bottom one writes to a section |
| Document generation (`document_generation.cpp`) | visited set of the resolver | `write_head_body_document`, `resolve_references` | runs all of the above |
| Includes (`files.cpp`, `relative_file_loader.cpp`) | loaded files | `\cowel_include` | loads through a callback of the host |
| Headings, ids, bibliography (`heading.cpp`, `context.hpp`) | counters, id table, entries | headings, `\ref`, `\bib` | sections |
| Library (`cowel_lib.cpp`, `cowel.h`) | nothing between calls but what the host passes in | `cowel_generate_html*` | hosts |
| Language server (`bindings/lsp/lsp.cpp`) | open documents, include closures | didOpen/Change/Close, validation, hover, completion | editor, file system, library |
| Watch mode (`bindings/node/src/cowel.ts`) | page, watchers, debounce timer, sockets | compile, watch, serve, notify | file system, browsers, library |
| WASM glue, runner (`cowel-wasm.ts`, `lsp-wasm-runner.ts`) | integers of the host, framing buffer | marshalling, framing | language server |
| Memory (`gc.hpp`, `memory_resources.hpp`, `small_vector.hpp`) | reference counts, buffers | make, copy, move, drop | values |

The engine is sequential.  What is hard in it is nesting: content is passed
from where it is written to where it is used (through macros, variables,
policies and sections), and every place on the way has to hand on the right
frame, the right section and the right status, on the early returns too.  A
second source of trouble is doing one thing in two ways that have to agree:
tokens and instructions that are walked in step, splicing without forming a
value, operators that are also directives, integers that are small or in the
host.  The hosts are event-driven: messages, file events and timers come in
any order, and files change while they are being read.

What makes the components correct:

- *Syntax*: every lexeme is in one token, instructions are bracketed and bind
  by precedence, what parses builds, and errors are reported before the
  program stops.
- *Resolution*: sections are inlined once per reference, missing and circular
  references are diagnosed and dropped, it ends.
- *Processing*: no status is lost or changed on the way up, nothing is
  processed after a break.
- *Rendering*: text comes out once and in order, tags nest, paragraphs end at
  blank lines.
- *Assembly*: everything that is written comes out, in order, and where the
  documentation says.
- *Macros and matching*: content has the frame of the invocation it is written
  in, arguments are found and matched once and in order, traversals end.
- *Types, values, expressions*: being an instance is an order, values that
  share storage behave as copies, a static type is never wrong, an error is
  reported if and only if a status says so, and the two ways of doing a thing
  agree.
- *Big integers*: results are exact, every number has one representation,
  every handle is released once.
- *Language server*: the server's texts are the editor's, what the editor
  shows is up to date after a change, every message is dealt with.
- *Watch mode*: a change leads to a new page.

## Modules

| Module | Models | Role |
|---|---|---|
| `Lexing` | `lex.cpp` | the lexer as recursive operators on its state |
| `Parsing` | `parse.cpp` | the parser: attempts, insertion of instructions, recovery, failing assertions |
| `SyntaxTree` | `build_ast.cpp`, `ast.hpp` | the builder, which walks tokens and instructions in step |
| `Syntax` | `lex_and_parse_and_build` | types a source and processes it; composes the three (INSTANCE, EXTENDS) |
| `ReferenceResolver` | `Reference_Resolver`, `resolve_references` | one action per branch of the loop; a recursive call is a frame of `stack` |
| `SectionInlining` | - | abstract specification: textual inlining with a work list, without call stack or marks |
| `ProcessingStatus` | `content_status.hpp`, `cowel.h` | operators on statuses |
| `ContentProcessing` | `process_greedy` and the directives' handling of statuses | a stack of loops over a document of tokens |
| `Rendering` | `policy/*`, `content_policies.cpp`, the directives that put policies around their block | a stack of calls over a document, and the list of policies |
| `DocumentAssembly` | `write_head_body_document`, sections, buffer, section directives | composes the writers of sections with `ReferenceResolver` (INSTANCE) |
| `Headings` | the counters of `Heading_Behavior::splice`, `run_generation` | headings being spliced as a stack, in the pass for the id or for the content |
| `MacroCalls` | call stack, `\cowel_put`, `match_call`, blocks in variables | calls, and one traversal of arguments at a time, step by step |
| `Types` | `type.hpp` | types, canonical unions, `instance_of`, and what belongs to a type |
| `Values` | `value.hpp`, `gc.hpp` | values in variables, and the nodes they share |
| `Evaluation` | `semantics.cpp` | values, built-in operations, variables |
| `Expressions` | `directive_processing.cpp`, `parameters.cpp`, `variables.cpp` | evaluating and splicing expressions and directives; documents of statements |
| `BigIntArithmetic` | operators of `Big_Int`, `big_int_boost.cpp` | pure operators, with limited widths |
| `BigInts` | objects of `Big_Int`, `gc.hpp`, `BigIntApi` | operators on objects with the memory behind them |
| `LspServer` | `lsp.cpp`: documents, roots, validation, publication | editor, disk and server interleaved |
| `Watch` | `cowel.ts`: `watchAndServe`, `compile` | file system and event loop interleaved |
| `MC*` | - | instances for TLC |
| `*Proofs` | - | theorems and their proofs |

`MCContentProcessing`, `MCDocumentAssembly` and `MCValues` put models that do
not interact side by side (statuses and pages; sections and numbers of
headings; integers, storage, documents and types): the variable `component` says which one runs.  In `Parsing`, `SyntaxTree` and
`Expressions`, operators that call each other do so through one recursive
operator (`Parsed`, `BuiltAt`, `Processed`), which names the rule to apply;
the code's functions keep operators of their own.

How state corresponds to code:

- **Lexing, Parsing, SyntaxTree.** A source is a sequence of lexemes, the
  shortest pieces the lexer decides on, and positions count lexemes.  Each
  operator takes the `Lexer`, `Parser` or builder as a record and returns it
  changed; an attempt (`Attempt`) that is not committed returns the record it
  began with, cut back to what the code cuts back.  `dead` names the assertion
  that failed; nothing happens behind it.  Assertions of debug builds count.
- **ReferenceResolver.** `text[s]` is a section's buffer as a sequence of
  references (names) and pieces of HTML; `visited` is the `unordered_set`;
  a frame of `stack` holds the section, the place in its text (the code
  shortens a `string_view`) and the local `success`.  `made` is the set of
  existing sections.  `MaxDepth` stands for the native stack; exceeding it is
  the outcome `overflow`.
- **ContentProcessing.** A document is a flat sequence of leaves, starts and
  ends of blocks.  A leaf is anything that returns a status; a start says how
  the directive treats its arguments and its block: `through` (macros,
  policies), `element` (`\cowel_html_element`, which hands matching errors to
  the error directive), `passthrough` (`\b`, headings), `raw` (`\style`,
  `\script`, which check their text).  `brk` is part of the contract of
  `Directive_Behavior` and `cowel.h`, but no built-in directive returns it at
  this commit; the model includes it because the loops handle it.
- **Rendering.** `policies` are the policies on the C++ stack, each with its
  parent and state (`line` is `m_line_state`, `inside` the open paragraph,
  `depth` is `m_directive_depth`, `spans` and buffers as in the code), `calls`
  the directives being spliced.  The bottom policy's output is the page, a
  sequence of tags and of characters with the place they come from.  A
  highlighter is any choice of disjoint ranges of the code given to it.
- **DocumentAssembly.** Element n of the document writes the piece n.  The
  text of `<main>` goes through `held`, the `HTML_Writer_Buffer`, everything
  written inside of `\there` goes to the current section directly.  `Raise`
  stands for any element that returns a status other than `ok`.  `std.html`
  is no target of `\there` here: the code keeps a view of its text while
  content is processed, and writing to it would leave the view dangling.
- **Headings.** `counters` is `h_counters`, `calls` the headings on the C++
  stack with the pass over their content.  What a heading holds, and whether
  its two passes hold the same, is chosen freely.  A break anywhere ends the
  document, so that `NextDocument` may come at any moment.  `outline` remembers
  what has begun, to compare with; four headings are enough for one to be
  counted twice inside of another and for a reset to show behind them.
- **MacroCalls.** A frame index is 0 for the top level and n for the n-th call
  of `calls`.  `written` and `home` are history: the call in whose macro the
  content being processed, and the arguments of a call, are written;
  `forwarded` marks content found through `...`, taken as `else`, or inside
  of such content.  Positional and named search and matching share `walk`, the
  stack of recursive activations.  A block that is spliced from a variable
  after its call has ended makes `task` `stale`; the model stops there,
  because the index stands for something else or for nothing.
- **Values.** `value` maps variables to what the union holds, an index and the
  node referred to; `nodes` counts owners; `meaning` is history, what the
  variables would be if values were plain values.  The destructors, which call
  each other, are a loop over the values that are still to be destroyed
  (`Destroy`), and `Meaning` follows references as deep as there are nodes,
  since a group is made of nodes older than itself.
- **Evaluation, Expressions.** A state carries the variables, the number of
  reported errors and the failed assertion through all operators in the order
  of the code's evaluation; a result is a value or text with a status.
  `Frames` are the invocations that content may be processed in.  Floats count
  halves up to `FloatMax`, with NaN and infinities; a string is code units.
- **BigInts.** `object` maps registers to objects that are small or hold a
  handle; `memory` is the nodes with their owners and, on WASM, the map and
  the next key.  Operators carry the memory through the uploads, host calls
  and releases in the order of the code.
- **LspServer.** `open` is `m_open_docs` with the include closure and the
  transient flag, `queue` the roots that `revalidate_from` iterates over,
  `job` one call of `publish_diagnostics_for`, `run` one `validate_document`
  with a stack of included texts.  `shown` is what the editor displays,
  `editor` the texts of its tabs.  A text is a fault (none, a directive error,
  a syntax error) and a sequence of includes.  Duplicate diagnostics are not
  told apart.
- **Watch.** `got` is `mainFile` and `files` of the compilation in progress or
  the last one, `page` is `currentHtml` as the texts it was made of.
  `watchers` are the keys of the map, `live` those that still notice changes:
  a watcher follows an inode, which is how `fs.watch` behaves on Linux.
  `generateHtml` does not await anything, so that a compilation does not
  interleave with callbacks, but every loading of a file and every making of a
  watcher does interleave with changes of files.

## Runs

| Run | Shows | Instance |
|---|---|---|
| `syntax` | tokens tile the source, brackets and precedence, no abort without a report but for expressions cut off by the end of the source, what parses builds, sources of nodes nest | nine shapes of sources: up to 4 to 6 free lexemes between a fixed beginning and end; about 540,000 states |
| `syntax_line` | (violation) a line splice parses that cannot be built | one of the shapes |
| `resolver` | the guard against circles is exact until the first circle, no false alarm, resolution implements `SectionInlining`, and ends if no section refers to itself through others | all 1323 texts of three sections with up to two tokens (cycles included), any set of existing sections, stack of 5 |
| `processing` | the document's status is the concatenation of all statuses in order, nothing is processed after a break; tags nest, text comes through, paragraphs end at blank lines | statuses: a block in a block with elements before, in and after each, all manners; pages: every directive in every other, and every two texts of up to 3 characters with something between; about 440,000 states |
| `rendering_escape` | (violation) tags cross | an escape in every tag outside of a paragraph |
| `assembly` | what is written to `<main>` arrives in order, sections only grow and are restored, abandoned documents come out empty, others whole; headings have the number of their place | 4 elements, buffer of 2 pieces, a user's section and an id's preview; 4 headings of 4 levels in any nesting; about 2.3 million states |
| `macros` | frames and traversals: see below | 3 calls, 10 argument lists of up to 2 members, 4 parameter lists; about 730,000 states |
| `values` | see below | Int128 of 4 bits, Int64 of 2, integers up to 16, two registers, keys up to 5; 3 variables and 2 nodes; documents of up to 3 statements on two variables; all pairs of 59 types; about 80,000 states |
| `evaluation_comparison` | (violation) comparing an integer with a string by a directive | every comparison of two operands of two types |
| `lsp` | server and editor agree, a validation sees one snapshot, publication is up to date, messages are dealt with | 3 documents, 3 messages, 1 change on disk, with and without configured entry points; about 820,000 states |
| `lsp_stale` | (violation) a repaired fault stays on display | 4 messages, one entry point |
| `watch` | watched files are those of the page, no reported change is forgotten, rest is reached | 3 files, 4 changes at any moment; about 100,000 states |

`processing` checks for deadlock: `Rest` lets exactly the complete documents
and pages stand still, so that a loop or a policy that gets stuck half-way is
an error.  The other runs do not: their systems may stop at many places (the
editor sends nothing more; bounds are reached).

**Why the bounds are enough.**  Syntax: the rules of lexer and parser look at
no more than two lexemes ahead and at one operator on each side; five lexemes
hold two operators with three operands, a group in a group, or a member
followed by what recovery has to skip, and the fixed beginnings put the parser
into each of its modes.  Resolution: two sections that refer to each other and
to themselves, twice each, give every combination of nested, repeated and
circular reference; the stack of 5 lies above the 4 frames needed without
circles and below what a circle reaches.  Processing: the status of a loop
depends on what was returned before, in and after a block, and a block only
passes its status outward, so two levels show every interaction; a policy sees
only the policy behind it and the calls in between, so pairs of directives
show every pair of neighbours, and three characters hold a blank line with
something on one side.  Assembly: with a buffer of 2 pieces four elements
overflow it while there is something before, in and after a `\there`.
Macros: with three calls a macro can forward the arguments of a macro that
forwards those of another; lists of two members put `...` before and behind
each kind of argument.  All properties of the
run but `TraversalEnds` are proved without any bound.  Integers: all numbers of 4 bits as operands, results
up to twice their width, so that every border (0, -1, both ends of either
width) is crossed by every operation, on both hosts; the proofs hold for every
width.  Storage: three variables and two nodes give a shared node that is
overwritten, moved away and put into a group (of one member; the proof is for
any width).  Documents: one statement
to set a variable, one to change it and one to use it.  Types: two levels are
what unions, groups, packs and names need to be nested in each other.
Language server: three documents give an includer, a fragment and a fragment's
fragment; three messages give an open, a change of another document and a
close, and a disk write falls anywhere between.  Watch: four changes give one
before, during and after a compilation and one more to make a change during
the following one.

**Fairness.**  `resolver`: weak fairness of the only process, sequential code
that takes its next step.  `macros`: of the traversal only, which is a loop;
not of the document, which need not call anything more.  `lsp`: of the
server's loop on the message it has received, not of the editor or of the
disk.  `watch`: of the event loop (JavaScript runs to completion and Node
delivers pending events and timers), not of those who change files.  Changes
are bounded, so the watch run says nothing of files that change forever: every
change sets the debounce timer back.  The other runs check safety only.

**What the properties say.**  Each is stated in its module, above its
definition.

- `ImplementsInlining` is a refinement: the resolver with its marks and its
  recursion against a work list.  `GuardIsExact` says why it works.
- `ResultIsConcatenation` compares nested loops with a fold in document order.
- `TextComesThrough`, `TagsNestElsewhere` and `ParagraphsAtBlankLines` compare
  the page, which went through policies, buffers and spans, with the document.
- `MainArrives` and `AssembledWhole` do so for buffer, sections and references.
  `NumbersTellThePlace` compares counters, which documents and headings share
  and which are read late, with the outline of the document.
- `MatchedExactly` and `ArgumentsFound` compare recursive traversals with the
  flattened list of arguments; `LexicalUnlessForwarded` compares a frame with
  the place the content was written at.
- `BindsTightly` says of the instructions, which were inserted and overwritten
  out of order, what precedence and associativity mean.  `InStepOutsideLines`
  is what the builder relies on.
- `ExactAndCanonical` compares each operation on limited words with integer
  arithmetic; `ReferencesAreSound` and `ValuesAreValues` relate owners,
  handles and contents through every sequence of operations.
- `ErrorsAreReported` relates log and status, `StaticTypesHold` the type known
  before with the value found, `FastPathsAgree` the text, status, reports and
  variables of what is spliced without a value with those of splicing the
  value, `OperatorsAgree` operators with directives.  `TypesAreOrdered` relates
  `instance_of` to membership and says that a canonical union is the least
  upper bound.
- `OneSnapshot`, `PublishedIsCurrent` and `NothingForgotten` relate what was
  read at different times to what is shown in the end.

Properties leave out what the code does get wrong, and say so:
`TagsNestElsewhere` (escapes in a tag outside of a paragraph),
`ParagraphsAtBlankLines` (texts that begin with blanks around a line feed),
`InStepOutsideLines` (line splices), `ReportedFirst` (`CutOff`: an operator
without its right operand, a `let` without its name or `=`, or an open
parenthesis, in a line splice that ends with the source),
`LexicalUnlessForwarded`, `FastPathsAgree` (`Overlooked`: `infinity` and groups
spliced directly), `SourcesNest` (the end of a prefix expression), operands on
which a directive fails an assertion in `OperatorsAgree`, and in
`TypesAreOrdered` the dynamic group type and groups with a member of type
`any`, through which being an instance is not transitive.

## Disagreements found

By the runs that expect a violation:

- With configured entry points, a fault repaired in an included document stays
  on display (`lsp.cpp:879`; `lsp_stale`).
- `\Bdetails{\{}` comes out as `<details><p>{</details></p>`: the paragraph
  policy enters a paragraph for an escape at a depth where a tag was opened
  (`paragraph_split.hpp:130`; `rendering_escape`).  `\details`, whose block
  is HTML (`builtin_directive_set.cpp:1233`), is not affected, although
  `docs/directives/special.cow:63` calls the two equivalent.
- A line splice that holds only a prefix operator parses, since the operator is
  consumed before the attempt begins, and the builder's assertion fails
  (`parse.cpp:1035`; `syntax_line`).
- `\cowel_eq(1, "a")` takes the value of a result that holds an error
  (`variables.cpp:263`; `evaluation_comparison`).

Met while modelling, and visible in the models, without a run of their own:

- Resolution: the mark is erased also by the activation that failed to set it,
  so that a section on a circle is expanded inside itself
  (`document_generation.cpp:207`).
- Assembly: `\there(std.body)` does not write behind `<main>`, as
  `docs/directives/sections.cow:26` says (`heading.cpp:319`).
- Headings: one that holds a heading of its own or a higher level has the
  number of that one (`heading.cpp:208`); headings in a heading without an id
  are counted and entered into the contents twice; `\h1` is not listed unless
  asked to be, although `docs/directives/lists-tables-headings.cow:85` lists
  every heading whose `listed` is not `no` (`heading.cpp:95`).
- Macros: an argument found through `...` is processed with the frame of the
  invocation that holds the `...` (`macros.cpp:375`); a positional argument
  behind `...` reaches an assertion (`parameters.cpp:580`).
- Language server: opening a file whose include had failed may validate
  nothing (`lsp.cpp:985`).
- Rendering: blanks around a line feed count as a blank line even next to a
  directive (`content_policies.cpp:256`); a comment in a directive resets the
  state of the line around it; `\cowel_text_as_html` around `\note` ends a
  paragraph that was never begun; highlighted content that breaks is left with
  open tags; `\cowel_char_by_entity("#38")` loses its first digit.
- Integers: keys above 2^31-1 come back negative from WASM; assignment by copy
  of a `GC_Ref` releases before it takes, and assignment by move to itself
  loses the reference.
- Syntax: in a line splice, the lexer takes the end of the source for the end
  of the line.  `\ f(1` then fails the assertion "should have been dealt with
  by lexer" (`parse.cpp:480`); `\ 1+`, `\ let a` and `\ a=` read a token behind
  the last one for the place of their error (`parse.cpp:866`, `768`), all
  without a report.  Recovery skips over line ends and braces, and into
  strings; the source of a prefix expression reaches over the next token; a
  line comment in a line splice takes the line end with it.
- Types: `union_is_canonical` admits duplicates; `lazy int` is not an instance
  of `lazy (int|str)`; a pack is an instance of `any`.
- Values: assigning an alternative without destructor over one that owns a
  node leaks the node (`value.hpp:551`).
- Expressions: `and` and `or` evaluate arguments forwarded by `...` with the
  frame of their call (`variables.cpp:223`); `\cowel_and(args = true)` reaches
  an assertion (`variables.cpp:188`); `\(infinity)` reaches the end of
  `splice_primary`, which has no case for it although `ast.hpp:81` calls it
  spliceable (`directive_processing.cpp:472`), and `\((1, 2))` its first
  assertion, where the value would have been reported
  (`directive_processing.cpp:428`).

## Proofs

`ReferenceResolverProofs`: for all names, texts and stack limits, from
`NamesAssumption` alone.  `TypeCorrect`, `NoStaleMark`, `GuardIsComplete`,
`CircularMeansCircular`, and `GuardExact`, which states the three of them as
the property that `resolver` checks.  The inductive invariant is
`TypeOK /\ VisitedIsExpanding /\ GuardComplete`: a mark belongs to a frame
because frames are typed (none expands the unnamed section), and the mark set
is complete only up to the first circle, since handling that erases the mark
of a section still being expanded.  A returning call erases its own mark; that
no other frame needs the mark follows from `GuardComplete`.

`InliningIsImplemented` is the refinement `ImplementsInlining`, step by step:
initial states map to initial states, and every step of the resolver is a step
of `SectionInlining` or a stutter.  Its hypotheses are that there are finitely
many names and that the native stack has room for one call per name; without
the second a deep document without any cycle would overflow, which the abstract
specification does not allow.  `ReasonInv` says why calls exist: each stands
for a reference in the text of the call around it, so that a reference to a
section being expanded lies on a cycle (`OnCycle` is shown by closed sets,
without following paths), and by counting, only a document with a cycle
exhausts the stack.  The work list that the stack stands for (`Todo`) is a
recursive function of the number of calls; its value is obtained by induction.
`PassedIsWritten`, at the end of the module, says that what a call has passed
is in the output; it is there for `DocumentAssemblyProofs`.

`MacroCallsProofs`, for any number of calls, any parameters and any argument
lists:

- `FramesAreBelow`, `ExpansionsDescend`.  The inductive invariant adds to
  `FramesBelow` what it needs: frames are typed, only calls that are not at the
  top level have `...` among their arguments, `\cowel_put` runs only in a
  macro, the activations of a traversal descend, and matched arguments lie in
  lists of existing calls.  Since frame numbers are natural and descend, every
  chain of expansions is finite, which is the argument behind `TraversalEnds`.
- `FramesAreLexical` states `LexicalUnlessForwarded`.  Content processed later
  has to be in its lexical frame already where it waits: as the arguments of a
  call, on the stack of what calls return to, or in a variable (`ScopeInv`).
- `ArgumentsAreFound` and `MatchesAreExact` state `ArgumentsFound` and
  `MatchedExactly`.  A traversal has gone through a beginning of the flat list
  of all arguments.  Which beginning is in no variable; `Reached` computes it
  from the activations, and one step of the code moves it by one argument, or
  not at all where a `...` is entered or left (`Searched`, `Matched`).  For
  matching, the invariant adds what the assertion in `match_call` relies on:
  bound arguments are in order, parameters below the next position are taken,
  and a name is taken by what names it.  That the flat list unfolds at a `...`
  (`Flat` is a recursive function of the frame) is shown by induction over the
  call stack.

`DocumentAssemblyProofs`, headings: `NumbersAreOfPlaces` states `NumbersTellThePlace`, for any
number of headings and documents, from `HeadingsAssumption`.  The counters
hold, at any time, how many siblings each level of the outline has
(`CountersCount`).  A heading reads them later than it raised them; what began
in between is inside of it (`OpenAround`), and if that was only lower headings,
the counters up to its own level are still those of its place.  That different
headings have different numbers then says of outlines, without any state, that
the path of numbers to a heading leads to no other.

`ContentProcessingProofs`: `StatusIsConcatenation` and `NothingAfterBreak`, for
any document and nesting, from `DocumentsAssumption`.  The inductive invariant
(`SeenIsAccounted`) splits what has been seen so far: the statuses concatenated
are an error remembered by some active loop or by the attributes of the
directive around it (`Before`), followed by what was just returned and is not
yet dealt with (`Pending`).  Since only errors and no breaks are remembered,
the loops need not be folded: it is enough that one of them remembers.
That `status_concat` is associative with neutral element `ok` and keeps errors
and breaks (`StatusConcatAssociative`, `ConcatNeutral`, `ConcatKeeps`, in the
same module) and case analysis do the rest.

`DocumentAssemblyProofs`, sections: `ScopesAreUnwound`, `SectionsGrow`,
`AssembledOrSilent`, for any sections, capacity, number of elements and stack
limit, from `AssemblyAssumption`.  A step either changes the phase or is one of
seven kinds of writing, which share one lemma (`BodyStep`): sections grow, the
rest keeps its type.  The invariant adds that scopes are nested in the unnamed
section, that the first pieces of skeleton and head stay what they are (a
consequence of growth), and that the resolver has written something unless it
is in front of the skeleton's first piece, which is a tag.  That the resolver
keeps its types is taken over from `ReferenceResolverProofs` by INSTANCE.
`MainHasArrived` states `MainArrives`.  While the document is processed, what
`<main>` has been given is in `std.body` or, behind that, in the buffer, each
piece once and in order (`Arranged`); other pieces may be in between, since
`\there(std.body)` writes to the same section, but all pieces there are of
elements that have begun.  The skeleton refers to `std.body`, and what
resolution has passed is written (`PassedIsWritten`), so that the output of a
document put together without a diagnostic holds all of it.

`WatchProofs`: `WatchedIsThePage` and `NoChangeForgotten`, for any files,
imports and number of changes.  The invariant adds what the watchers are in
between (those of the previous page while a compilation runs, a part of those
of the new one while they are made), and that a loaded file is as it is on disk
unless no watcher saw it change, its change is reported, or the timer runs.

`LspServerProofs`: `ServerIsSynced` and `ValidationSeesOneSnapshot`, for any
documents, texts and settings and any number of messages and changes on disk,
from `LspAssumption` and `AbsenceAssumption` (what stands for "no document" is
no document, and what stands for a missing file is no text).  The invariant is
about transient documents: they are open only while a validation runs, never in
the place of a document of the editor; and messages are handled between
validations, so that nothing loaded is replaced.  `PublicationsAreCurrent`
states `PublishedIsCurrent`, which is about servers without configured entry
points (with them it is false in general, see `lsp_stale`).  `Current` says in
which of three phases a job is, that a validation has collected the faults of
the editor's texts it has come to and no others of their kinds, and that what
is about to be published for a root and what it includes are those faults.
Messages wait until a job has ended, so that the editor's texts stay.

`BigIntProofs`, arithmetic: every operation of `Big_Int` on integers that are
represented canonically is exact, with a canonical result, for every width and
both hosts, from `LimitAssumption` and `WidthAssumption`.  For
sums the argument is by cases on how a wrapped result differs from the exact
one (by nothing, or by twice the limit) and on the sign that the code derives
the third word from.  For divisions, `Truncated` is what rounding toward zero
gives, `SameAdjustment` that `Int128`, `cpp_int` and `BigInt`, which compare
signs in three ways, adjust it alike, `Rounded` that the adjusted results make
up the dividend, and `RoundedFits` that of two `Int128` they are `Int128` but
for the one special case of the code, so that nothing wraps around.
`ShiftsAreExact` rests on `DivisionTwice` (to divide by a product is to divide
twice), since the least int, which has no negative, is shifted by in two
steps.  For `BitwiseIsExact`, the sum of the weights below a place has the combined
bits there (`LowBits`), and beyond the width of an integer all of its bits are
its sign (`BitsBeyond`); the width that the code chooses, by different
means in the two hosts, is the least of the integer (`NativeWidthIs`,
`WasmWidthIs`).  For `TextStaysExact`, digits are read back by induction over
their number (`DigitsRoundTrip`), and a base of at least two needs no more
digits than the integer has bits, which is what `print_to` allocates
(`DigitsFit`).

`BigIntProofs`, memory: `ReferencesStaySound` states `ReferencesAreSound`, for
any number of registers, any literals and bounds, and either host, from
`MemoryAssumption` (nodes are finitely many, and three more than registers:
the heap is not modelled as running out).  The inductive
invariant `MemoryInv` says in addition how nodes and integers in the host
correspond (`Hosted`: each integer belongs to one node).  Inside an operation
it holds in a form with parameters: `Good(m, objs, T, U, low)` accounts for
the memory `m` when temporaries own the nodes `T` and uploads the integers
`U`, and `Broken(m, low)` is a memory after an exception, of which only the
number of keys matters.  Each function of the code has a lemma that says how
`T` and `U` change: `ResultIs` adds a temporary, `UploadIs` an upload,
`ReleaseIs` and `DeleteUpload` take one away, `Take` and `Give` move a node
between a temporary and a register, `Drop` counts an owner less.  `DivideInv`
chains five of them.  `ReferencesAreSound` is what is left when `T` and `U`
are empty.

`BigIntProofs`, together: `ResultsStayExact` states `ExactAndCanonical`.  The
operators are exact on canonical operands only, and so the invariant has to say
that nothing else is ever found in an object.  `CanonicalInv` adds to
`MemoryInv` that every object that can be read stands for a canonical integer,
and that, unless an exception has ended the program, every node keeps an
integer that does not fit into an `Int128` (`Full`).  The second is about nodes
in nobody's register as well, since temporaries own nodes too; it is stated
with a parameter for the nodes of uploaded operands, which may be of any size.
Literals are of type `Int128` and shifts and exponents of
type `int` (`MemoryAssumption`), as the types of the code say.

`ValuesProofs`: `StoredValuesAreValues` states `ValuesAreValues`, for any
variables, addresses, contents, widths of groups and numbers of owners, from
`StorageAssumption` (variables and addresses are finitely many).  The property
is not inductive: between two statements of an operation, values are
temporaries or wait to be destroyed.  `Good(vs, ns, ts)` is the order of a
memory `ns` with variables `vs` and such values `ts`: a node has at least as
many owners as there are references from variables, from members of nodes and
from `ts`, and none of these leads to a node that is gone.  Each function has
a lemma about it: `Refer` and `Allocate` make owners and nodes, `Swap` puts a
temporary into a variable and takes out what was there, `Drop` is one
`drop_reference`, which may hand on the members of the node, and `DestroyIs`
repeats it.  At least as many, and not exactly: `Forget` is what an assignment
does that overwrites a reference without releasing it, the leak listed above.
A variable keeps what it stands for since the memory of before and after are
parts of each other but for owners (`Part`, `SameMeaning`).
`NothingLeftToDestroy` says that the loop of `Destroy` has enough steps: with
each of them, what is and what may still come to be destroyed becomes one less
(`DropShrinks`).

Induction over data is done where a proof needs it by well-foundedness of the
natural numbers: a set of counterexamples has a least one (`SetInduction` in
the modules that use it).  The induction theorems of the library take an
operator as a parameter, which the provers cannot instantiate.  What is defined
by recursion on a number (`Power`, `Bitwise`, `HostFromString`, `Todo`,
`Flat`, `Destroy`, `Meaning`) is written as a recursive function; that such a function exists is itself shown
by induction before its equations are used.

Only model-checked:

- Liveness: `Terminates`, `TraversalEnds`, and what `lsp` and `watch` say will
  happen.
- `Syntax`, `Rendering`, `Types`, `Expressions` and what is in their runs, but
  for `ValuesAreValues` and the properties of integers: their operators, or those of modules that they extend, are declared
  RECURSIVE, and the prover has no backend for goals of such modules.

The arms of a CASE are meant in their order, as TLC takes them and as the code
tests its conditions; where a proof depends on one, they exclude each other.

## Not modelled

- Attributes of HTML and their quoting, `\url`, `\style`, `\script`, math,
  the policy `Ignorant` in `Rendering`.
- The characters of ids (and that an id made of content that returned an error
  is not sanitized, `heading.cpp:49`), and the bibliography.
- Self-including files: the texts of `LspServer` and `Watch` do not include
  each other in circles.  The lifetime of the syntax tree of an included file.
- Regular expressions, code points, text functions, bit casts, the characters
  of literals: pure functions of their arguments.
- Hover, completion, initialization and positions of the language server.
- Connections of browsers in watch mode; the output file, which is a copy of
  the page written in the same step.
- Framing of messages in `lsp-wasm-runner.ts` and marshalling in
  `cowel-wasm.ts`.
- Memory resources and `small_vector`; the library's entry points and the
  native command line, which keep no state.
- Third-party code, editor extensions, assets.

## Plan

1. Proofs: the operators of `Types` and `Rendering`, once their recursion is
   written with functions.
2. `Includes`: recursion of `\cowel_include`, the relative file loader, the
   lifetime of the syntax tree of an included file against blocks kept in
   variables.
3. `LspFraming`: the message framing of `lsp-wasm-runner.ts`.
4. Attributes in `Rendering`, and `Rendering` composed with
   `ContentProcessing` (statuses that end a directive half-way).
