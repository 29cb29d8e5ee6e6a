------------------------------ MODULE Rendering -----------------------------
(***************************************************************************)
(* How content becomes HTML: every element is consumed by a content policy *)
(* (engine/include/cowel/policy/), which writes text and HTML to the sink  *)
(* or the policy it was made for, and so on down to the document.          *)
(* Directives put tags around their blocks and policies between them and   *)
(* the policy that consumed the directive; one of them splits text into    *)
(* paragraphs, another collects code to be highlighted.                    *)
(*                                                                         *)
(* A document is a sequence of tokens in which a directive with a block    *)
(* holds the position of the block's end.  All content succeeds:           *)
(* ContentProcessing is about statuses.                                    *)
(***************************************************************************)
EXTENDS Integers, Sequences, SequencesExt, FiniteSetsExt

CONSTANT Rendered   \* the documents to render: sequences of tokens

(* Characters: a letter, one that HTML escapes, a blank, a line feed.      *)
Characters == {"a", "lt", "sp", "nl"}

(* Directives that put a tag around their block: as they are, or as HTML   *)
(* ("indent", which stands for \Bindent, \details and all whose            *)
(* Policy_Usage is html; "element" stands for \cowel_html_element), ...     *)
Tagged == {"b", "Bdetails", "indent", "element"}
(* ... that only change the policy, ...                                    *)
PolicyDirectives == {"to_html", "phantom", "paragraphs", "no_invoke", "actions",
                     "text_only", "as_text", "literal", "source"}
(* ... that put paragraphs of their own inside of a tag, ...               *)
SpecialBlocks == {"note", "block"}
(* ... and those about highlighting.                                       *)
CodeDirectives == {"code", "codeblock", "highlight", "opaque"}
(* "current" is \cowel_current_policy, "macro" any macro.                  *)
Directives == Tagged \cup PolicyDirectives \cup SpecialBlocks \cup CodeDirectives
                \cup {"current", "macro", "highlight_as"}
(* Directives without a block.                                             *)
Controls == {"enter", "leave", "inherit", "hr"}

Token ==
    [kind : {"text", "expression"}, chars : Seq(Characters)]
    \cup [kind : {"escape"}, chars : Seq(Characters)]
    \cup [kind : {"comment", "close"}]
    \cup [kind : {"control"}, how : Controls]
    \cup [kind : {"open"}, how : Directives, close : Nat]

VARIABLES
    doc,        \* the document
    pos,        \* the next token
    policies,   \* the document's vector and the policies, in the order they were made
    calls       \* the directives whose blocks are being spliced, outermost first

vars == <<doc, pos, policies, calls>>

-----------------------------------------------------------------------------
(* What is written: characters and tags, with the place in the document a  *)
(* character comes from, and how often it was escaped for HTML.            *)

Item(is, name, at) == [is |-> is, name |-> name, at |-> at, esc |-> 0]
Opening(name) == <<Item("open", name, <<0, 0>>)>>
Closing(name) == <<Item("close", name, <<0, 0>>)>>
Letters(chars, p) == [i \in DOMAIN chars |-> Item("char", chars[i], <<p, i>>)]
(* The source of an element, as one character.                             *)
SourceOf(p) == <<Item("char", "a", <<p, 1>>)>>

(* Escaping changes < and & only: line feeds, blanks and letters stay.     *)
Escaped(items) ==
    [k \in DOMAIN items |->
        IF items[k].is = "char" /\ items[k].name # "lt" THEN items[k]
        ELSE [items[k] EXCEPT !.esc = @ + 1]]

(* A policy with all that any of them keeps: depth, inside and line belong *)
(* to the splitting of paragraphs, spans to highlighting, written to the   *)
(* document's vector.                                                      *)
Made(policy, parent) ==
    [policy |-> policy, parent |-> parent, depth |-> 0, inside |-> FALSE,
     line |-> "middle", spans |-> <<>>, written |-> <<>>]

-----------------------------------------------------------------------------
(* Paragraphs.                                                             *)

White(item) == item.name \in {"sp", "nl"}
Feed(item) == item.name = "nl"

(* find_blank_line_sequence: from the start of the first line that holds   *)
(* only blanks to the last line feed before the next character, or to the  *)
(* end.                                                                    *)
BlankLine(text) ==
    LET AllWhite(i, j) == \A k \in i..j : White(text[k])
        begins == {b \in DOMAIN text :
                    /\ b = 1 \/ Feed(text[b - 1])
                    /\ \E e \in b..Len(text) : Feed(text[e]) /\ AllWhite(b, e)}
    IN  IF begins = {} THEN [begin |-> 0, end |-> 0]
        ELSE LET b == Min(begins)
                 last == Max({e \in b..Len(text) : AllWhite(b, e)})
             IN  [begin |-> b,
                  end |-> IF last = Len(text) THEN last
                          ELSE Max({e \in b..last : Feed(text[e])})]

RECURSIVE Write(_, _, _, _)

(* HTML_Content_Policy::write                                              *)
WriteHtml(ps, i, items, language) ==
    Write(ps, ps[i].parent,
          IF language = "text" THEN Escaped(items) ELSE items, "html")

(* Mutant of EnterParagraph: the depth is not asked for.                   *)
EnterParagraph_Anywhere(ps, i) ==
    IF ps[i].policy = "paragraphs" /\ ~ps[i].inside
    THEN [WriteHtml(ps, i, Opening("p"), "html") EXCEPT ![i].inside = TRUE]
    ELSE ps

(* enter_paragraph, and try_enter_paragraph for policies that have none.   *)
EnterParagraph(ps, i) ==
    IF ps[i].policy = "paragraphs" /\ ps[i].depth <= 1 /\ ~ps[i].inside
    THEN [WriteHtml(ps, i, Opening("p"), "html") EXCEPT ![i].inside = TRUE]
    ELSE ps

(* leave_paragraph                                                         *)
LeaveParagraph(ps, i) ==
    IF ps[i].policy = "paragraphs" /\ ps[i].depth <= 1 /\ ps[i].inside
    THEN [WriteHtml(ps, i, Closing("p"), "html") EXCEPT ![i].inside = FALSE]
    ELSE ps

(* The loop of split_into_paragraphs.                                      *)
RECURSIVE Pieces(_, _, _)
Pieces(ps, i, text) ==
    LET blank == BlankLine(text)
        front == SubSeq(text, 1, blank.begin - 1)
        line == SubSeq(text, blank.begin, blank.end)
        rest == SubSeq(text, blank.end + 1, Len(text))
    IN  IF text = <<>> THEN ps
        ELSE IF blank.begin = 0
        THEN WriteHtml(EnterParagraph(ps, i), i, text, "text")
        ELSE LET before == IF front = <<>> THEN ps
                           ELSE WriteHtml(EnterParagraph(ps, i), i, front, "text")
             IN  Pieces(WriteHtml(LeaveParagraph(before, i), i, line, "text"), i, rest)

(* Mutant of Split: a line feed behind a directive is a blank line.        *)
Split_EveryFeed(ps, i, text) ==
    [Pieces(ps, i, text) EXCEPT
        ![i].line = IF Feed(text[Len(text)]) THEN "normal" ELSE "middle"]

(* split_into_paragraphs: a single line feed that is not at the start of a *)
(* line in the document ends that line, and is no blank one.               *)
Split(ps, i, text) ==
    LET blank == BlankLine(text)
        alone == ps[i].line = "middle" /\ blank = [begin |-> 1, end |-> 1]
        split == IF alone
                 THEN Pieces(WriteHtml(ps, i, <<text[1]>>, "html"), i, Tail(text))
                 ELSE Pieces(ps, i, text)
    IN  [split EXCEPT ![i].line = IF Feed(text[Len(text)]) THEN "normal" ELSE "middle"]

-----------------------------------------------------------------------------
(* Writing.                                                                *)

(* A piece of code, or of HTML between code, or text only the highlighter  *)
(* is to see (Output_Span).                                                *)
Collected(ps, i, type, items) ==
    [ps EXCEPT ![i].spans = Append(@, [type |-> type, items |-> items])]

(* Text passes as text; HTML is dropped.                                   *)
WriteTextOnly(ps, i, items, language) ==
    IF language = "text" THEN Write(ps, ps[i].parent, items, "text") ELSE ps

(* Text passes as HTML, without being escaped; HTML is dropped.            *)
WriteLiteral(ps, i, items, language) ==
    IF language = "text" THEN Write(ps, ps[i].parent, items, "html") ELSE ps

(* Text is only of interest to a highlighter right behind.                 *)
WritePhantom(ps, i, items, language) ==
    IF language = "text" /\ ps[ps[i].parent].policy = "highlight"
    THEN Collected(ps, ps[i].parent, "phantom", items)
    ELSE ps

(* Text is split outside of directives.                                    *)
WriteParagraphs(ps, i, items, language) ==
    IF ps[i].depth # 0 \/ language # "text"
    THEN WriteHtml(ps, i, items, language)
    ELSE Split(ps, i, items)

WriteHighlight(ps, i, items, language) ==
    Collected(ps, i, IF language = "text" THEN "highlight" ELSE "html", items)

(* The vector at the bottom is given HTML only.                            *)
WriteVector(ps, i, items) == [ps EXCEPT ![i].written = @ \o items]

(* Everything becomes text, tags included.                                 *)
WriteAsText(ps, i, items) == Write(ps, ps[i].parent, items, "text")

WriteActions(ps, i, items, language) == Write(ps, ps[i].parent, items, language)

(* The write function of the i-th policy.                                  *)
Write(ps, i, items, language) ==
    LET policy == ps[i].policy
    IN  CASE items = <<>> -> ps
          [] policy = "vector" -> WriteVector(ps, i, items)
          [] policy = "to_html" -> WriteHtml(ps, i, items, language)
          [] policy = "paragraphs" -> WriteParagraphs(ps, i, items, language)
          [] policy = "literal" -> WriteLiteral(ps, i, items, language)
          [] policy = "phantom" -> WritePhantom(ps, i, items, language)
          [] policy = "highlight" -> WriteHighlight(ps, i, items, language)
          [] policy = "as_text" -> WriteAsText(ps, i, items)
          [] policy = "actions" -> WriteActions(ps, i, items, language)
          [] OTHER -> WriteTextOnly(ps, i, items, language)

-----------------------------------------------------------------------------
(* Highlighting.                                                           *)

(* What a highlighter (ulight) may find in code of length n: at most two   *)
(* disjoint ranges, in order.                                              *)
Found(n) ==
    LET Ranges == {r \in (1..n) \X (1..n) : r[1] <= r[2]}
    IN  {<<>>} \cup {<<r>> : r \in Ranges}
          \cup {p \in Ranges \X Ranges : p[1][2] < p[2][1]}

(* Mutant of Highlighted: the text behind the last range is forgotten.     *)
Highlighted_ToLastRange(items, offset, found) ==
    FlattenSeq([k \in DOMAIN items |->
        LET r == SelectSeq(found, LAMBDA f : f[1] <= offset + k /\ offset + k <= f[2])
        IN  IF r = <<>>
            THEN IF \E i \in DOMAIN found : offset + k < found[i][1]
                 THEN <<<<<<items[k]>>, "text">>>> ELSE <<>>
            ELSE <<<<Opening("h"), "html">>, <<<<items[k]>>, "text">>,
                   <<Closing("h"), "html">>>>])

(* generate_highlighted: the writes for a span whose text begins behind    *)
(* offset, with the part of every range that is inside of it in a tag.     *)
Highlighted(items, offset, found) ==
    FlattenSeq([k \in DOMAIN items |->
        LET r == SelectSeq(found, LAMBDA f : f[1] <= offset + k /\ offset + k <= f[2])
            first == k = 1 \/ offset + k = r[1][1]
            last == k = Len(items) \/ offset + k = r[1][2]
        IN  IF r = <<>> THEN <<<<<<items[k]>>, "text">>>>
            ELSE (IF first THEN <<<<Opening("h"), "html">>>> ELSE <<>>)
                 \o <<<<<<items[k]>>, "text">>>>
                 \o (IF last THEN <<<<Closing("h"), "html">>>> ELSE <<>>)])

Code(spans) ==
    FlattenSeq([k \in DOMAIN spans |->
        IF spans[k].type = "html" THEN <<>> ELSE spans[k].items])

(* dump_html_to: the writes for all spans; text for the highlighter alone  *)
(* is left out.                                                            *)
Dumped(spans, found) ==
    FlattenSeq([k \in DOMAIN spans |->
        CASE spans[k].type = "html" -> <<<<spans[k].items, "html">>>>
          [] spans[k].type = "highlight" ->
                Highlighted(spans[k].items, Len(Code(SubSeq(spans, 1, k - 1))), found)
          [] OTHER -> <<>>])

(* Text that stays text, for a policy behind to do with it as it likes, ...*)
WriteMixed(ps, i, writes) ==
    FoldLeft(LAMBDA acc, w : Write(acc, i, w[1], w[2]), ps, writes)

(* ... and all of it as one piece of HTML.                                 *)
AsHtml(writes) ==
    FlattenSeq([k \in DOMAIN writes |->
        IF writes[k][2] = "text" THEN Escaped(writes[k][1]) ELSE writes[k][1]])

(* Code blocks lose the line feeds at both ends.                           *)
Trimmed(items) ==
    LET kept == {k \in DOMAIN items : ~Feed(items[k])}
    IN  IF kept = {} THEN <<>> ELSE SubSeq(items, Min(kept), Max(kept))

-----------------------------------------------------------------------------
(* Consuming.                                                              *)

(* The policy that the current block is spliced to.                        *)
Content == calls[Len(calls)].content

(* Within \cowel_actions, directives and expressions are left to the       *)
(* policy outside.                                                         *)
RECURSIVE Consumer(_)
Consumer(i) == IF policies[i].policy = "actions" THEN Consumer(policies[i].parent) ELSE i

Uninvoked == {"no_invoke", "source"}

Reading == pos <= Len(doc)

(* A policy is on its way into a directive: the text inside is not split.  *)
Guarded(ps, o) ==
    IF ps[o].policy = "paragraphs"
    THEN [ps EXCEPT ![o].depth = @ + 1, ![o].line = "middle"]
    ELSE ps

(* inherit_paragraph: the innermost guard is released, which is that of    *)
(* the directive that asks for it.                                         *)
Released(ps, o) ==
    IF ps[o].policy = "paragraphs" THEN [ps EXCEPT ![o].depth = @ - 1] ELSE ps

(* The handler of text.                                                    *)
ConsumeText ==
    /\ Reading
    /\ doc[pos].kind = "text"
    /\ policies' = IF policies[Content].policy = "actions" THEN policies
                   ELSE Write(policies, Content, Letters(doc[pos].chars, pos), "text")
    /\ pos' = pos + 1
    /\ UNCHANGED <<doc, calls>>

(* An escape in paragraphs is never a blank line, and begins a paragraph   *)
(* even inside of a directive.                                             *)
EscapeInParagraphs(ps, i, text) ==
    LET middle == [ps EXCEPT ![i].line = "middle"]
    IN  IF text = <<>> THEN middle
        ELSE WriteHtml(EnterParagraph(middle, i), i, text, "text")

(* The handler of escapes, of which that of a line feed stands for nothing.*)
ConsumeEscape ==
    /\ Reading
    /\ doc[pos].kind = "escape"
    /\ LET text == Letters(doc[pos].chars, pos)
           policy == policies[Content].policy
       IN  policies' = CASE policy = "actions" -> policies
                         [] policy = "source" ->
                                Write(policies, Content, SourceOf(pos), "text")
                         [] policy = "paragraphs" ->
                                EscapeInParagraphs(policies, Content, text)
                         [] OTHER -> Write(policies, Content, text, "text")
    /\ pos' = pos + 1
    /\ UNCHANGED <<doc, calls>>

(* Comments include the line feed at their end.                            *)
ConsumeComment ==
    /\ Reading
    /\ doc[pos].kind = "comment"
    /\ policies' = CASE policies[Content].policy = "paragraphs" ->
                            [policies EXCEPT ![Content].line = "normal"]
                     [] policies[Content].policy = "source" ->
                            Write(policies, Content, SourceOf(pos), "text")
                     [] OTHER -> policies
    /\ pos' = pos + 1
    /\ UNCHANGED <<doc, calls>>

(* The string that an expression evaluates to is written as text.          *)
ConsumeExpression ==
    /\ Reading
    /\ doc[pos].kind = "expression"
    /\ policies' = IF policies[Content].policy \in Uninvoked
                   THEN Write(policies, Content, SourceOf(pos), "text")
                   ELSE Write(policies, Consumer(Content),
                              Letters(doc[pos].chars, pos), "text")
    /\ pos' = pos + 1
    /\ UNCHANGED <<doc, calls>>

(* Directives are not invoked, but written as they are.                    *)
ConsumeSource ==
    /\ Reading
    /\ doc[pos].kind \in {"open", "control"}
    /\ policies[Content].policy \in Uninvoked
    /\ policies' = Write(policies, Content, SourceOf(pos), "text")
    /\ pos' = IF doc[pos].kind = "open" THEN doc[pos].close + 1 ELSE pos + 1
    /\ UNCHANGED <<doc, calls>>

-----------------------------------------------------------------------------
(* Directives.                                                             *)

Display(how) ==
    CASE how \in {"b", "code"} -> "in_line"
      [] how \in {"Bdetails", "indent", "codeblock", "hr"} -> "block"
      [] OTHER -> "none"

(* ensure_paragraph_matches_display                                        *)
Displayed(ps, o, how) ==
    CASE Display(how) = "in_line" -> EnterParagraph(ps, o)
      [] Display(how) = "block" -> LeaveParagraph(ps, o)
      [] OTHER -> ps

(* ensure_html_policy: a policy of HTML is passed over.                    *)
HtmlParent(ps, o) ==
    IF ps[o].policy \in {"to_html", "paragraphs", "literal"} THEN ps[o].parent ELSE o

(* The policy that consumes the directive at pos, and the policies while   *)
(* it does.                                                                *)
Out == Consumer(Content)
Entered == Guarded(policies, Out)

Invoked(how) ==
    /\ Reading
    /\ doc[pos].kind = "open"
    /\ doc[pos].how = how
    /\ policies[Content].policy \notin Uninvoked
    /\ pos' = pos + 1
    /\ UNCHANGED doc

(* The block is spliced to a policy.                                       *)
SplicedTo(content, how, released) ==
    calls' = Append(calls, [how |-> how, out |-> Out, content |-> content,
                            base |-> Len(policies), released |-> released])

New == Len(policies) + 1

(* \b, \Bdetails, \cowel_html_element: a tag around the block, which is    *)
(* spliced to the policy outside (Policy_Usage::inherit); \Bindent and      *)
(* \details turn theirs to HTML before that (Policy_Usage::html).           *)
InvokeTagged(how) ==
    /\ how \in Tagged
    /\ Invoked(how)
    /\ LET tagged == Write(Displayed(Entered, Out, how), Out, Opening(how), "html")
       IN  policies' = IF how = "indent"
                       THEN Append(tagged, Made("to_html", HtmlParent(tagged, Out)))
                       ELSE tagged
    /\ SplicedTo(IF how = "indent" THEN New ELSE Out, how, FALSE)

(* The policy directives.                                                  *)
InvokePolicy(how) ==
    /\ how \in PolicyDirectives
    /\ Invoked(how)
    /\ policies' = Append(Entered,
            Made(how, IF how = "to_html" THEN HtmlParent(Entered, Out) ELSE Out))
    /\ SplicedTo(New, how, FALSE)

InvokeCurrent ==
    /\ Invoked("current")
    /\ policies' = Entered
    /\ SplicedTo(Out, "current", FALSE)

(* The content of a macro is split with what is around it.                 *)
InvokeMacro ==
    /\ Invoked("macro")
    /\ policies' = Released(Entered, Out)
    /\ SplicedTo(Out, "macro", TRUE)

(* Notes and the like: paragraphs of their own, of which the first is      *)
(* begun with the tag when there is an intro.                              *)
InvokeSpecialBlock(how) ==
    /\ how \in SpecialBlocks
    /\ Invoked(how)
    /\ LET left == LeaveParagraph(Entered, Out)
           tags == Opening(how) \o IF how = "note" THEN Opening("p") ELSE <<>>
           opened == Write(left, Out, tags, "html")
       IN  policies' = opened \o
                <<Made("to_html", HtmlParent(opened, Out)),
                  [Made("paragraphs", New) EXCEPT !.inside = (how = "note")]>>
    /\ SplicedTo(New + 1, how, FALSE)

(* Code is collected, inside of a tag or not.                              *)
InvokeCode(how) ==
    /\ how \in CodeDirectives
    /\ Invoked(how)
    /\ LET displayed == Displayed(Entered, Out, how)
       IN  policies' = Append(IF how \in {"code", "codeblock"}
                              THEN Write(displayed, Out, Opening(how), "html")
                              ELSE displayed,
                              Made("highlight", Out))
    /\ SplicedTo(New, how, FALSE)

(* \cowel_highlight_as: a highlight of the author's, and its block as HTML.*)
InvokeHighlightAs ==
    /\ Invoked("highlight_as")
    /\ policies' = Write(Append(Entered, Made("to_html", HtmlParent(Entered, Out))),
                         New, Opening("h"), "html")
    /\ SplicedTo(New, "highlight_as", FALSE)

(* Directives without a block are invoked, and return.                     *)
InvokedAtOnce(how, ps) ==
    /\ Reading
    /\ doc[pos].kind = "control"
    /\ doc[pos].how = how
    /\ policies[Content].policy \notin Uninvoked
    /\ policies' = Released(ps, Out)
    /\ pos' = pos + 1
    /\ UNCHANGED <<doc, calls>>

(* \cowel_paragraph_enter, _leave and _inherit, the last of which releases *)
(* its own guard only.                                                     *)
InvokeControl ==
    \/ InvokedAtOnce("enter", EnterParagraph(Entered, Out))
    \/ InvokedAtOnce("leave", LeaveParagraph(Entered, Out))
    \/ InvokedAtOnce("inherit", Entered)

(* \hr                                                                     *)
InvokeSelfClosing ==
    InvokedAtOnce("hr", Write(Displayed(Entered, Out, "hr"), Out,
                              Opening("hr") \o Closing("hr"), "html"))

-----------------------------------------------------------------------------
(* The end of a block.                                                     *)

Ended(hows) ==
    /\ Reading
    /\ doc[pos].kind = "close"
    /\ calls[Len(calls)].how \in hows
    /\ pos' = pos + 1
    /\ calls' = SubSeq(calls, 1, Len(calls) - 1)
    /\ UNCHANGED doc

Call == calls[Len(calls)]

(* The directive returns: its policies are gone, and its guard, too.       *)
Returned(ps) ==
    LET rest == SubSeq(ps, 1, Call.base)
    IN  IF Call.released THEN rest ELSE Released(rest, Call.out)

EndTagged ==
    /\ Ended(Tagged)
    /\ policies' = Returned(Write(policies, Call.out, Closing(Call.how), "html"))

(* Where the block was split, its last paragraph ends.                     *)
EndPolicy ==
    /\ Ended(PolicyDirectives \cup {"current", "macro"})
    /\ policies' = Returned(IF Call.how = "paragraphs"
                            THEN LeaveParagraph(policies, Call.content) ELSE policies)

EndSpecialBlock ==
    /\ Ended(SpecialBlocks)
    /\ policies' = Returned(Write(LeaveParagraph(policies, Call.content),
                                  Call.out, Closing(Call.how), "html"))

(* Inline code and \cowel_highlight: text remains text.                    *)
EndMixedCode ==
    /\ Ended({"code", "highlight"})
    /\ \E found \in Found(Len(Code(policies[Call.content].spans))) :
        LET written == WriteMixed(policies, Call.out,
                                  Dumped(policies[Call.content].spans, found))
        IN  policies' = Returned(IF Call.how = "code"
                                 THEN Write(written, Call.out, Closing("code"), "html")
                                 ELSE written)

(* Code blocks and opaque highlighting: everything becomes HTML.           *)
EndOpaqueCode ==
    /\ Ended({"codeblock", "opaque"})
    /\ \E found \in Found(Len(Code(policies[Call.content].spans))) :
        LET html == AsHtml(Dumped(policies[Call.content].spans, found))
        IN  policies' = Returned(
                IF Call.how = "codeblock"
                THEN Write(policies, Call.out, Trimmed(html) \o Closing("codeblock"), "html")
                ELSE Write(policies, Call.out, html, "html"))

EndHighlightAs ==
    /\ Ended({"highlight_as"})
    /\ policies' = Returned(Write(policies, Call.content, Closing("h"), "html"))

InitialPage(document) ==
    /\ doc = document
    /\ pos = 1
    /\ policies = <<Made("vector", 0), Made("to_html", 1)>>
    /\ calls = <<[how |-> "document", out |-> 2, content |-> 2, base |-> 2,
                  released |-> TRUE]>>

Init == \E document \in Rendered : InitialPage(document)

Next ==
    \/ ConsumeText
    \/ ConsumeEscape
    \/ ConsumeComment
    \/ ConsumeExpression
    \/ ConsumeSource
    \/ \E how \in Tagged : InvokeTagged(how)
    \/ \E how \in PolicyDirectives : InvokePolicy(how)
    \/ InvokeCurrent
    \/ InvokeMacro
    \/ \E how \in SpecialBlocks : InvokeSpecialBlock(how)
    \/ \E how \in CodeDirectives : InvokeCode(how)
    \/ InvokeHighlightAs
    \/ InvokeControl
    \/ InvokeSelfClosing
    \/ EndTagged
    \/ EndPolicy
    \/ EndSpecialBlock
    \/ EndMixedCode
    \/ EndOpaqueCode
    \/ EndHighlightAs

Spec == Init /\ [][Next]_vars

-----------------------------------------------------------------------------
(* Properties of the finished document.                                    *)

Done == pos > Len(doc)
Page == policies[1].written

(* The directives around the token at p.                                   *)
Around(p) == {i \in DOMAIN doc : doc[i].kind = "open" /\ i < p /\ p < doc[i].close}

HowsAround(p) == {doc[i].how : i \in Around(p)}

(* Tags that are HTML, and not escaped.                                    *)
Tags == SelectSeq(Page, LAMBDA x : x.is # "char" /\ x.esc = 0)

(* The tags still open after all of them; <<"broken">> if one was closed   *)
(* that was not the innermost.                                             *)
StillOpen ==
    FoldLeft(LAMBDA open, x :
                IF x.is = "open" THEN Append(open, x.name)
                ELSE IF open # <<>> /\ open[Len(open)] = x.name
                     THEN SubSeq(open, 1, Len(open) - 1)
                     ELSE <<"broken">>,
             <<>>, Tags)

(* paragraph_split.hpp, consume: "\i{...} should not produce <i><p>...</i> *)
(* or <i>...</p></i>".  Every tag on the page is closed, and none across   *)
(* another, paragraphs included.                                           *)
TagsNest == Done => StillOpen = <<>>

(* An escape in the block of a directive that stands outside of paragraphs *)
(* begins one inside of its tag (see TagsNest).                            *)
EscapesInBlocks ==
    \E p \in DOMAIN doc :
        doc[p].kind = "escape" /\ HowsAround(p) \cap {"Bdetails", "element"} # {}

(* \cowel_text_as_html drops the <p> a note begins with, and not its end.  *)
LiteralNotes ==
    \E p \in DOMAIN doc : doc[p].kind = "open" /\ doc[p].how = "note"
                            /\ "literal" \in HowsAround(p)

(* But for the two, tags nest with every combination of directives.        *)
TagsNestElsewhere == EscapesInBlocks \/ LiteralNotes \/ TagsNest

(* Policies that leave things out.                                         *)
Droppers == {"phantom", "actions", "literal", "text_only", "no_invoke", "source"}

Before(x, y) == x[1] < y[1] \/ (x[1] = y[1] /\ x[2] < y[2])

Shown == SelectSeq(Page, LAMBDA x : x.is = "char")

Places(p) ==
    IF doc[p].kind \in {"text", "expression", "escape"}
    THEN {<<p, i>> : i \in DOMAIN doc[p].chars} ELSE {}

(* Buffers, spans of code and the rules of paragraphs may hold text back   *)
(* and hand it on in pieces, but it comes out in the order of the          *)
(* document, nothing twice, and nothing is lost, unless a policy around it *)
(* is there to drop things or it is a line feed at the end of a code block.*)
(* And none of it gets unescaped into the page, unless the author said so. *)
TextComesThrough ==
    Done =>
        /\ \A k \in 1..(Len(Shown) - 1) : Before(Shown[k].at, Shown[k + 1].at)
        /\ \A p \in DOMAIN doc : \A at \in Places(p) :
            \/ \E k \in DOMAIN Shown : Shown[k].at = at
            \/ HowsAround(p) \cap Droppers # {}
            \/ "codeblock" \in HowsAround(p) /\ doc[p].chars[at[2]] = "nl"
        /\ \A k \in DOMAIN Shown :
            Shown[k].name = "lt" /\ Shown[k].esc = 0 =>
                "literal" \in HowsAround(Shown[k].at[1])

(* Documents in which a text begins with blanks around a line feed: those  *)
(* are taken for a blank line even behind a directive.                     *)
Ragged ==
    \E p \in DOMAIN doc : doc[p].kind = "text" /\
        \E n \in DOMAIN doc[p].chars :
            {doc[p].chars[i] : i \in 1..n} = {"sp", "nl"}

(* Documents of one \cowel_paragraphs whose content is text and directives *)
(* in a line of it.  A comment in such a directive would let a line feed   *)
(* right behind the directive count as a blank line.                       *)
Plain ==
    /\ doc # <<>>
    /\ doc[1].kind = "open" /\ doc[1].how = "paragraphs" /\ doc[1].close = Len(doc)
    /\ \A p \in 2..(Len(doc) - 1) :
        /\ doc[p].kind # "control"
        /\ doc[p].kind = "open" =>
            doc[p].how \in {"b", "macro"} /\ "b" \notin HowsAround(p)
        /\ doc[p].kind \in {"escape", "comment"} => "b" \notin HowsAround(p)

(* The paragraph that everything on the lines of such a document belongs   *)
(* to, read from the document alone: the next one begins when a line that  *)
(* holds blanks at most has come between.                                  *)
Lines ==
    LET Step(s, x) ==
            CASE x = "nl" -> IF s.start THEN [s EXCEPT !.blank = TRUE]
                             ELSE [s EXCEPT !.start = TRUE]
              [] x = "sp" -> s
              [] x = "comment" -> [s EXCEPT !.start = TRUE]
              [] x = "nothing" -> [s EXCEPT !.start = FALSE]
              [] OTHER -> LET n == IF s.blank \/ s.number = 0 THEN s.number + 1
                                   ELSE s.number
                          IN  [start |-> FALSE, blank |-> FALSE, number |-> n,
                               of |-> Append(s.of, n)]
        Seen(p) ==
            CASE "b" \in HowsAround(p) -> <<>>
              [] doc[p].kind = "comment" -> <<"comment">>
              [] doc[p].kind = "close" -> <<>>
              [] doc[p].kind = "open" ->
                    IF doc[p].how = "b" THEN <<"tag">> ELSE <<"nothing">>
              [] doc[p].kind = "escape" /\ doc[p].chars = <<>> -> <<"nothing">>
              [] OTHER -> doc[p].chars
    IN  FoldLeft(Step, [start |-> FALSE, blank |-> FALSE, number |-> 0, of |-> <<>>],
                 FlattenSeq([k \in 1..(Len(doc) - 2) |-> Seen(k + 1)])).of

(* The same, read from the page: which paragraph a character or a tag is   *)
(* in, of those that hold any; 0 if in none.                               *)
Paragraphs ==
    LET Held(s) ==
            LET n == IF s.fresh THEN s.number + 1 ELSE s.number
            IN  [s EXCEPT !.fresh = FALSE, !.number = n,
                          !.of = Append(@, IF s.inside THEN n ELSE 0)]
        Step(s, x) ==
            CASE x.name = "p" -> [s EXCEPT !.fresh = x.is = "open",
                                           !.inside = x.is = "open"]
              [] x.is = "open" -> [Held(s) EXCEPT !.tag = TRUE]
              [] x.is = "close" -> [s EXCEPT !.tag = FALSE]
              [] s.tag \/ White(x) -> s
              [] OTHER -> Held(s)
    IN  FoldLeft(Step, [number |-> 0, fresh |-> FALSE, inside |-> FALSE,
                        tag |-> FALSE, of |-> <<>>], Page).of

(* content_policies.cpp, split_into_paragraphs: what looks like a blank    *)
(* line in one text need not be one in the document, nor the other way     *)
(* round: paragraphs are those of the document, whatever texts, comments,  *)
(* escapes, expressions and directives its lines are cut into.             *)
ParagraphsAtBlankLines == Done /\ Plain /\ ~Ragged => Paragraphs = Lines
=============================================================================
