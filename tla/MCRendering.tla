----------------------------- MODULE MCRendering ----------------------------
(* Rendering over two families of documents: every directive in every      *)
(* other, and every two texts with something between.                      *)
EXTENDS Rendering

Text(chars) == [kind |-> "text", chars |-> chars]
Expression(chars) == [kind |-> "expression", chars |-> chars]
Escape(chars) == [kind |-> "escape", chars |-> chars]
Comment == [kind |-> "comment"]
Control(how) == [kind |-> "control", how |-> how]
Open(how, close) == [kind |-> "open", how |-> how, close |-> close]
End == [kind |-> "close"]

(* What may stand in front of the inner directive, in it, and behind it.   *)
Ahead == {Text(<<"a", "lt">>), Control("enter"), Control("inherit")}
Inside == {Text(<<"lt", "nl", "nl", "a">>), Escape(<<"lt">>), Expression(<<"lt">>),
           Comment, Control("leave")}
Behind == {Text(<<"nl", "a">>), Control("hr")}

Nestings ==
    {<<Open("paragraphs", 10), f, Open(outer, 8), Text(<<"a">>), Open(inner, 7), i,
       End, End, b, End>> : outer \in Directives, inner \in Directives, f \in Ahead,
                  i \in Inside, b \in Behind}

Words(n) == UNION {[1..k -> {"a", "nl"}] : k \in 1..n}
Blanks == {<<"a", "nl", "sp", "nl">>, <<"nl", "a", "sp">>, <<"sp">>, <<"sp", "a", "nl">>}

(* Between two texts.                                                      *)
Between ==
    {<<Comment>>, <<Escape(<<"lt">>)>>, <<Escape(<<>>)>>, <<Expression(<<"a">>)>>,
     <<Expression(<<"nl">>)>>, <<Open("b", 5), Text(<<"a", "nl", "nl", "a">>), End>>,
     <<Open("macro", 5), Text(<<"nl", "a", "nl">>), End>>}

Cut ==
    {(<<Open("paragraphs", 4 + Len(m)), t>> \o m \o <<u, End>>) :
        t \in {Text(w) : w \in Words(3) \cup Blanks}, m \in Between,
        u \in {Text(w) : w \in Words(3) \cup Blanks}}

AllDocuments == Nestings \cup Cut

(* An escape within a directive that left the paragraph before.            *)
OneEscape ==
    {<<Open("paragraphs", 5), Open(how, 4), Escape(<<"lt">>), End, End>> :
        how \in Tagged}
=============================================================================
