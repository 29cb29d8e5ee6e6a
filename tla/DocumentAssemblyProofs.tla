----------------------- MODULE DocumentAssemblyProofs -----------------------
(***************************************************************************)
(* For any sections, any capacity of the buffer, any number of elements    *)
(* and any stack limit: what sections hold only grows, resolution starts   *)
(* in the section where the document did, an abandoned document is silent  *)
(* while any other has output, and the text of <main> arrives whole and in *)
(* order (Inv, and ArrivalInv on top of it, which cites what is proved of  *)
(* ReferenceResolver).                                                     *)
(***************************************************************************)
EXTENDS MCDocumentAssembly, FiniteSetTheorems, SequenceTheorems,
        WellFoundedInduction, TLAPS

(* The theorems about reference resolution, for the documents made here.   *)
Proved == INSTANCE ReferenceResolverProofs WITH Documents <- {}

Token == Resolver!Token

BeforeResolution == {"start", "head", "body", "main"}

(* Scopes are nested in the unnamed section.                               *)
ScopesNest ==
    IF phase = "main" THEN Len(scopes) >= 1 /\ scopes[1] = Unnamed
    ELSE scopes = <<>> /\ current = Unnamed

NotBegun == phase \in BeforeResolution => outcome = "idle" /\ out = <<>>

(* The skeleton and the head begin with what is written there first.       *)
FirstPieces ==
    /\ IF phase = "start" THEN text[Html] = <<>>
       ELSE Len(text[Html]) >= 1 /\ text[Html][1] = Tags
    /\ IF phase \in {"start", "head"} THEN text[StdHead] = <<>>
       ELSE Len(text[StdHead]) >= 1 /\ text[StdHead][1] = Meta

StatusOK ==
    /\ phase # "returned" => IsContinue(status)
    /\ phase \in {"start", "head", "body"} => content = "ok"
    /\ phase = "resolve" => IsContinue(content)
    /\ phase = "returned" =>
          IF IsBreak(content) THEN IsBreak(status) /\ out = <<>>
          ELSE outcome \in {"ok", "error"}

(* Resolution has written nothing only while it is in front of the first   *)
(* piece of the skeleton.                                                  *)
Written ==
    /\ outcome = "running" /\ out = <<>> =>
          Len(stack) = 1 /\ stack[1].sec = Html /\ stack[1].pos = 1
    /\ outcome \in {"ok", "error"} => out # <<>>

Inv == TypeOK /\ ScopesNest /\ NotBegun /\ FirstPieces /\ StatusOK /\ Written

-----------------------------------------------------------------------------
(* Texts that grow.                                                        *)

Longer(s, t) == Len(s) <= Len(t) /\ \A i \in 1..Len(s) : t[i] = s[i]

Grown(T, U) ==
    /\ U \in [Names -> Seq(Token)]
    /\ \A s \in Names : Longer(T[s], U[s])

LEMMA LongerIsPrefix ==
    ASSUME NEW S, NEW s \in Seq(S), NEW t \in Seq(S), Longer(s, t)
    PROVE  IsPrefixOf(s, t)
<1> DEFINE n == Len(s)
           p == SubSeq(t, 1, n)
<1>1. n \in Nat /\ 1 \in Int /\ n \in Int /\ \A i \in 1..n : t[i] \in S
  BY DEF Longer
<1>2. p \in Seq(S) /\ Len(p) = (IF 1 <= n THEN n - 1 + 1 ELSE 0)
      /\ \A i \in 1..(n - 1 + 1) : p[i] = t[1 + i - 1]
  BY <1>1, SubSeqProperties
<1>3. (IF 1 <= n THEN n - 1 + 1 ELSE 0) = n /\ n - 1 + 1 = n
      /\ \A i \in 1..n : 1 + i - 1 = i
  BY <1>1
<1>4. Len(p) = n /\ \A i \in 1..n : p[i] = s[i]
  BY <1>2, <1>3 DEF Longer
<1>5. p = s
  BY <1>2, <1>4, SeqEqual
<1> QED
  BY <1>5 DEF Longer, IsPrefixOf

LEMMA ConcatGrows ==
    ASSUME NEW T \in [Names -> Seq(Token)], NEW s \in Names, NEW w \in Seq(Token)
    PROVE  Grown(T, [T EXCEPT ![s] = @ \o w])
<1> DEFINE U == [T EXCEPT ![s] = @ \o w]
<1>1. T[s] \o w \in Seq(Token) /\ Longer(T[s], T[s] \o w)
  BY ConcatProperties DEF Longer
<1>2. U \in [Names -> Seq(Token)] /\ U[s] = T[s] \o w
  BY <1>1
<1>3. ASSUME NEW n \in Names PROVE Longer(T[n], U[n])
  BY <1>1, <1>2 DEF Longer
<1> QED
  BY <1>2, <1>3 DEF Grown

LEMMA AppendGrows ==
    ASSUME NEW T \in [Names -> Seq(Token)], NEW s \in Names, NEW x \in Token
    PROVE  Grown(T, [T EXCEPT ![s] = Append(@, x)])
<1> DEFINE U == [T EXCEPT ![s] = Append(@, x)]
<1>1. Append(T[s], x) \in Seq(Token) /\ Longer(T[s], Append(T[s], x))
  BY AppendProperties DEF Longer
<1>2. U \in [Names -> Seq(Token)] /\ U[s] = Append(T[s], x)
  BY <1>1
<1>3. ASSUME NEW n \in Names PROVE Longer(T[n], U[n])
  BY <1>1, <1>2 DEF Longer
<1> QED
  BY <1>2, <1>3 DEF Grown

LEMMA GrownSame ==
    ASSUME NEW T \in [Names -> Seq(Token)]
    PROVE  Grown(T, T)
<1>1. ASSUME NEW n \in Names PROVE Longer(T[n], T[n])
  <2>1. Len(T[n]) \in Nat
    OBVIOUS
  <2> QED
    BY <2>1 DEF Longer
<1> QED
  BY <1>1 DEF Grown

LEMMA GrownTwice ==
    ASSUME NEW T, NEW U, NEW V, T \in [Names -> Seq(Token)], Grown(T, U), Grown(U, V)
    PROVE  Grown(T, V)
<1>1. ASSUME NEW n \in Names PROVE Longer(T[n], V[n])
  <2>1. /\ Longer(T[n], U[n]) /\ Longer(U[n], V[n])
        /\ Len(T[n]) \in Nat /\ Len(U[n]) \in Nat /\ Len(V[n]) \in Nat
    BY DEF Grown
  <2> QED
    BY <2>1 DEF Longer
<1> QED
  BY <1>1 DEF Grown

-----------------------------------------------------------------------------
(* Every piece and every name but the unnamed one can be written.          *)
LEMMA Tokens ==
    /\ {Html, StdHead, StdBody, StdToc, Tags, Meta, MainOpen, MainClose} \subseteq Token
    /\ Previews \cup References \cup (1..MaxElements) \subseteq Token
    /\ {Unnamed, Html, StdHead, StdBody, StdToc} \cup Previews \cup Stashes \subseteq Names
  BY AssemblyAssumption DEF Token, Resolver!Token, Resolver!Targets, Pieces

LEMMA TypesUsed ==
    ASSUME TypeOK
    PROVE  /\ text \in [Names -> Seq(Token)] /\ held \in Seq(Token)
           /\ current \in Names /\ made \subseteq Names
           /\ Len(held) \in 0..Capacity
  BY AssemblyAssumption DEF TypeOK, Resolver!TypeOK, Token

Flushed == [text EXCEPT ![StdBody] = @ \o held]
Kept(token) == IF Len(held) = Capacity THEN <<token>> ELSE Append(held, token)

LEMMA BufferedGrows ==
    ASSUME TypeOK, NEW token \in Token
    PROVE  /\ Grown(text, Flushed)
           /\ Kept(token) \in Seq(Token) /\ Len(Kept(token)) <= Capacity
<1>1. text \in [Names -> Seq(Token)] /\ held \in Seq(Token) /\ Len(held) \in 0..Capacity
  BY TypesUsed
<1>2. Grown(text, Flushed)
  BY <1>1, Tokens, ConcatGrows DEF Flushed
<1>3. CASE Len(held) = Capacity
  <2>1. Kept(token) = <<token>> /\ <<token>> \in Seq(Token) /\ Len(<<token>>) = 1
    BY <1>3 DEF Kept
  <2> QED
    BY <1>2, <2>1, AssemblyAssumption
<1>4. CASE Len(held) # Capacity
  <2>1. Kept(token) = Append(held, token)
    BY <1>4 DEF Kept
  <2>2. Append(held, token) \in Seq(Token) /\ Len(Append(held, token)) = Len(held) + 1
    BY <1>1, AppendProperties
  <2>3. Len(held) + 1 <= Capacity
    BY <1>1, <1>4, AssemblyAssumption
  <2> QED
    BY <1>2, <2>1, <2>2, <2>3
<1> QED
  BY <1>3, <1>4

LEMMA PutGrows ==
    ASSUME TypeOK, NEW token \in Token, Put(token)
    PROVE  Grown(text, text') /\ held' \in Seq(Token) /\ Len(held') <= Capacity
<1>1. text \in [Names -> Seq(Token)] /\ held \in Seq(Token) /\ current \in Names
  BY TypesUsed
<1>2. CASE InThere
  <2>1. text' = [text EXCEPT ![current] = Append(@, token)] /\ held' = held
    BY <1>2 DEF Put, Direct
  <2>2. Grown(text, text')
    BY <1>1, <2>1, AppendGrows
  <2>3. Len(held) <= Capacity
    BY DEF TypeOK
  <2> QED
    BY <1>1, <2>1, <2>2, <2>3
<1>3. CASE ~InThere
  <2>1. Buffered(token)
    BY <1>3 DEF Put
  <2>2. Grown(text, text)
    BY <1>1, GrownSame
  <2>3. held' = Kept(token) /\ (text' = Flushed \/ text' = text)
    BY <2>1 DEF Buffered, Flushed, Kept
  <2> QED
    BY <2>2, <2>3, BufferedGrows
<1> QED
  BY <1>2, <1>3

-----------------------------------------------------------------------------
LEMMA InitInv == Init => Inv
<1> SUFFICES ASSUME Init PROVE Inv
  OBVIOUS
<1>1. text \in [Names -> Seq(Token)] /\ text[Html] = <<>> /\ text[StdHead] = <<>>
  BY Tokens DEF Init
<1>2. Resolver!TypeOK
  BY <1>1, AssemblyAssumption
     DEF Init, Token, Resolver!ResolverInit, Resolver!TypeOK, Resolver!Running, Resolver!Outcomes
<1>3. TypeOK
  <2>1. held \in Seq(Resolver!Token) /\ scopes \in Seq(made) /\ Len(held) = 0
    BY DEF Init
  <2> QED
    BY <1>2, <2>1, AssemblyAssumption DEF Init, TypeOK, Phases, Statuses
<1>4. ScopesNest /\ NotBegun /\ StatusOK /\ Written
  BY DEF Init, Resolver!ResolverInit, ScopesNest, NotBegun, StatusOK, Written,
     IsContinue
<1>5. FirstPieces
  BY <1>1 DEF Init, FirstPieces
<1> QED
  BY <1>3, <1>4, <1>5 DEF Inv

(* What is first in a text stays first.                                    *)
LEMMA FirstStays ==
    ASSUME NEW T \in [Names -> Seq(Token)], NEW U, Grown(T, U),
           NEW s \in Names, Len(T[s]) >= 1
    PROVE  Len(U[s]) >= 1 /\ U[s][1] = T[s][1]
<1>1. Len(T[s]) \in Nat /\ Len(U[s]) \in Nat /\ Longer(T[s], U[s])
  BY DEF Grown
<1> QED
  BY <1>1 DEF Longer

(* A step of the body's content: sections grow, and the rest keeps its     *)
(* type.                                                                   *)
LEMMA BodyStep ==
    ASSUME Inv, phase = "main", phase' = "main", Grown(text, text'),
           held' \in Seq(Token), Len(held') <= Capacity,
           made' \subseteq Names, current' \in made', scopes' \in Seq(made'),
           Len(scopes') >= 1, scopes'[1] = Unnamed,
           content' \in Statuses, status' = status, ids' \subseteq Previews,
           elements' \in 0..MaxElements, inMain' \subseteq 1..elements',
           UNCHANGED resolverVars
    PROVE  Inv' /\ Grown(text, text')
<1>1. UNCHANGED <<stack, visited, out, errors, outcome>>
  BY DEF resolverVars
<1>2. text' \in [Names -> Seq(Token)] /\ text \in [Names -> Seq(Token)]
  BY TypesUsed DEF Inv, Grown
<1>3. Resolver!TypeOK'
  BY <1>1, <1>2 DEF Inv, TypeOK, Resolver!TypeOK, Resolver!Running, Token
<1>4. TypeOK'
  BY <1>3 DEF Inv, TypeOK, Token
<1>5. FirstPieces'
  <2>1. /\ Len(text[Html]) >= 1 /\ text[Html][1] = Tags
        /\ Len(text[StdHead]) >= 1 /\ text[StdHead][1] = Meta
    BY DEF Inv, FirstPieces
  <2>2. Len(text'[Html]) >= 1 /\ text'[Html][1] = text[Html][1]
    BY <1>2, <2>1, FirstStays, Tokens
  <2>3. Len(text'[StdHead]) >= 1 /\ text'[StdHead][1] = text[StdHead][1]
    BY <1>2, <2>1, FirstStays, Tokens
  <2> QED
    BY <2>1, <2>2, <2>3 DEF FirstPieces
<1>6. ScopesNest' /\ NotBegun' /\ StatusOK' /\ Written'
  BY <1>1 DEF Inv, ScopesNest, NotBegun, StatusOK, Written
<1> QED
  BY <1>4, <1>5, <1>6 DEF Inv

(* What holds of a state in which content is written.                      *)
LEMMA InBody ==
    ASSUME Inv, phase = "main"
    PROVE  /\ text \in [Names -> Seq(Token)] /\ held \in Seq(Token)
           /\ Len(held) <= Capacity /\ made \subseteq Names /\ current \in made
           /\ scopes \in Seq(made) /\ Len(scopes) >= 1 /\ scopes[1] = Unnamed
           /\ content \in Statuses /\ ids \subseteq Previews
           /\ elements \in 0..MaxElements /\ inMain \subseteq 1..elements
           /\ Grown(text, text)
  BY TypesUsed, GrownSame DEF Inv, TypeOK, ScopesNest

LEMMA NextElement ==
    ASSUME Inv, Writing
    PROVE  /\ Element \in 1..MaxElements /\ Element \in 0..MaxElements
           /\ inMain \subseteq 1..Element /\ Element \in 1..Element
           /\ Element \in Token
<1>1. elements \in 0..MaxElements /\ inMain \subseteq 1..elements /\ MaxElements \in Nat
      /\ elements < MaxElements
  BY AssemblyAssumption DEF Inv, TypeOK, Writing
<1>2. /\ elements + 1 \in 1..MaxElements /\ elements + 1 \in 0..MaxElements
      /\ 1..elements \subseteq 1..(elements + 1) /\ elements + 1 \in 1..(elements + 1)
  BY <1>1
<1> QED
  BY <1>1, <1>2, Tokens DEF Element

LEMMA SpliceTextInv == Inv /\ SpliceText => Inv' /\ Grown(text, text')
<1> SUFFICES ASSUME Inv, SpliceText PROVE Inv' /\ Grown(text, text')
  OBVIOUS
<1>1. /\ Writing /\ phase = "main" /\ Put(Element)
      /\ elements' = Element /\ inMain' \in {inMain, inMain \cup {Element}}
      /\ UNCHANGED <<phase, current, scopes, status, content, ids, made>>
      /\ UNCHANGED resolverVars
  BY DEF SpliceText, Writing, Counted
<1>2. Grown(text, text') /\ held' \in Seq(Token) /\ Len(held') <= Capacity
  BY <1>1, NextElement, PutGrows DEF Inv
<1>3. elements' \in 0..MaxElements /\ inMain' \subseteq 1..elements'
  BY <1>1, NextElement
<1> QED
  BY <1>1, <1>2, <1>3, InBody, BodyStep

LEMMA HereInv == Inv /\ Here => Inv' /\ Grown(text, text')
<1> SUFFICES ASSUME Inv, Here PROVE Inv' /\ Grown(text, text')
  OBVIOUS
<1>1. PICK s \in References : Put(s)
  BY DEF Here
<1>2. /\ Writing /\ phase = "main" /\ elements' = Element /\ inMain' = inMain
      /\ UNCHANGED <<phase, current, scopes, status, content, ids, made>>
      /\ UNCHANGED resolverVars
  BY DEF Here, Writing
<1>3. Grown(text, text') /\ held' \in Seq(Token) /\ Len(held') <= Capacity
  BY <1>1, Tokens, PutGrows DEF Inv
<1>4. elements' \in 0..MaxElements /\ inMain' \subseteq 1..elements'
  BY <1>2, NextElement
<1> QED
  BY <1>2, <1>3, <1>4, InBody, BodyStep

LEMMA MakeSectionInv == Inv /\ MakeSection => Inv' /\ Grown(text, text')
<1> SUFFICES ASSUME Inv, MakeSection PROVE Inv' /\ Grown(text, text')
  OBVIOUS
<1>1. /\ Writing /\ phase = "main" /\ elements' = Element /\ inMain' = inMain
      /\ Put(StdToc) /\ made' = made \cup {StdToc}
      /\ UNCHANGED <<phase, current, scopes, status, content, ids>>
      /\ UNCHANGED resolverVars
  BY DEF MakeSection, Writing
<1>2. Grown(text, text') /\ held' \in Seq(Token) /\ Len(held') <= Capacity
  BY <1>1, Tokens, PutGrows DEF Inv
<1>3. elements' \in 0..MaxElements /\ inMain' \subseteq 1..elements'
  BY <1>1, NextElement
<1>4. made' \subseteq Names /\ current' \in made' /\ scopes' \in Seq(made')
  BY <1>1, InBody, Tokens, SeqMonotonic
<1> QED
  BY <1>1, <1>2, <1>3, <1>4, InBody, BodyStep

LEMMA EnterThereInv == Inv /\ EnterThere => Inv' /\ Grown(text, text')
<1> SUFFICES ASSUME Inv, EnterThere PROVE Inv' /\ Grown(text, text')
  OBVIOUS
<1>1. PICK s \in Stashes : made' = made \cup {s} /\ current' = s
  BY DEF EnterThere
<1>2. /\ Writing /\ phase = "main" /\ elements' = Element
      /\ scopes' = Append(scopes, current)
      /\ UNCHANGED <<phase, held, status, content, ids, inMain, text>>
      /\ UNCHANGED resolverVars
  BY DEF EnterThere, Writing
<1>3. elements' \in 0..MaxElements /\ inMain' \subseteq 1..elements'
  BY <1>2, NextElement
<1>4. made' \subseteq Names /\ current' \in made' /\ scopes \in Seq(made') /\ current \in made'
  BY <1>1, <1>2, InBody, Tokens, SeqMonotonic
<1>5. scopes' \in Seq(made') /\ Len(scopes') >= 1 /\ scopes'[1] = Unnamed
  <2>1. Len(scopes) \in Nat /\ Len(scopes) >= 1 /\ scopes[1] = Unnamed
    BY <1>2, <1>4, InBody
  <2> QED
    BY <1>2, <1>4, <2>1, AppendProperties
<1> QED
  BY <1>2, <1>3, <1>4, <1>5, InBody, BodyStep

(* The outermost scope is never left here.                                 *)
LEMMA LeaveThereInv == Inv /\ LeaveThere => Inv' /\ Grown(text, text')
<1> SUFFICES ASSUME Inv, LeaveThere PROVE Inv' /\ Grown(text, text')
  OBVIOUS
<1> DEFINE n == Len(scopes)
<1>1. /\ phase = "main" /\ n > 1
      /\ current' = scopes[n] /\ scopes' = SubSeq(scopes, 1, n - 1)
      /\ UNCHANGED <<phase, held, status, content, ids, elements, inMain, made, text>>
      /\ UNCHANGED resolverVars
  BY DEF LeaveThere, InThere
<1>2. scopes \in Seq(made) /\ n \in Nat /\ scopes[1] = Unnamed
  BY <1>1, InBody
<1>3. \A i \in 1..n : scopes[i] \in made
  BY <1>2
<1>4. /\ 1 \in Int /\ n - 1 \in Int /\ 1 <= n - 1
      /\ \A i \in 1..(n - 1) : scopes[i] \in made
      /\ n \in 1..n
  BY <1>1, <1>2, <1>3
<1>5. /\ scopes' \in Seq(made)
      /\ Len(scopes') = (n - 1) - 1 + 1
      /\ \A i \in 1..((n - 1) - 1 + 1) : scopes'[i] = scopes[1 + i - 1]
  BY <1>1, <1>4, SubSeqProperties
<1>6. (n - 1) - 1 + 1 = n - 1 /\ 1 + 1 - 1 = 1 /\ 1 \in 1..(n - 1)
  BY <1>1, <1>2
<1>7. Len(scopes') >= 1 /\ scopes'[1] = Unnamed /\ current' \in made
  BY <1>1, <1>2, <1>3, <1>4, <1>5, <1>6
<1> QED
  BY <1>1, <1>5, <1>7, InBody, BodyStep

LEMMA RaiseInv == Inv /\ Raise => Inv' /\ Grown(text, text')
<1> SUFFICES ASSUME Inv, Raise PROVE Inv' /\ Grown(text, text')
  OBVIOUS
<1>1. PICK s \in Statuses \ {"ok"} : content' = Concat(content, s)
  BY DEF Raise
<1>2. /\ phase = "main"
      /\ UNCHANGED <<phase, current, scopes, held, status, ids, elements, inMain,
                     made, text>>
      /\ UNCHANGED resolverVars
  BY DEF Raise
<1>3. content' \in Statuses
  BY <1>1, <1>2, InBody DEF Concat, IsBreak, Statuses
<1> QED
  BY <1>2, <1>3, InBody, BodyStep

(* A heading writes up to three texts.                                     *)
LEMMA HeadingInv == Inv /\ Heading => Inv' /\ Grown(text, text')
<1> SUFFICES ASSUME Inv, Heading PROVE Inv' /\ Grown(text, text')
  OBVIOUS
<1>1. /\ Writing /\ phase = "main" /\ elements' = Element
      /\ UNCHANGED <<phase, current, scopes, status, content>>
      /\ UNCHANGED resolverVars
  BY DEF Heading, Writing
<1> DEFINE Listed(token, given) ==
              [s \in Names |-> IF s \in given THEN Append(text[s], token) ELSE text[s]]
<1> DEFINE Previewed(shown) == IF shown \notin ids THEN {shown, StdToc} ELSE {StdToc}
<1>0. PICK token \in {Element} \cup References, shown \in Previews :
        /\ made' = made \cup Previewed(shown)
        /\ ids' = ids \cup {shown}
        /\ IF InThere
           THEN /\ text' = [Listed(token, Previewed(shown)) EXCEPT
                              ![current] = Append(@, token)]
                /\ UNCHANGED held
           ELSE /\ held' = IF Len(held) = Capacity
                           THEN <<token>> ELSE Append(held, token)
                /\ text' = IF Len(held) = Capacity
                           THEN [Listed(token, Previewed(shown)) EXCEPT
                                   ![StdBody] = @ \o held]
                           ELSE Listed(token, Previewed(shown))
        /\ inMain' = IF InThere \/ token # Element
                     THEN inMain ELSE inMain \cup {token}
  BY Zenon DEF Heading
<1> DEFINE given == Previewed(shown)
<1>2. given \subseteq {shown, StdToc}
  OBVIOUS
<1> HIDE DEF Previewed, given
<1>3. token \in Token /\ given \subseteq Names
  BY <1>1, <1>2, NextElement, Tokens
<1> DEFINE listed == Listed(token, given)
<1>4. Grown(text, listed) /\ listed \in [Names -> Seq(Token)]
  <2>1. text \in [Names -> Seq(Token)]
    BY <1>1, InBody
  <2>2. ASSUME NEW s \in Names
        PROVE  listed[s] \in Seq(Token) /\ Longer(text[s], listed[s])
    <3>1. text[s] \in Seq(Token) /\ Len(text[s]) \in Nat
      BY <2>1
    <3>2. CASE s \in given
      <4>1. listed[s] = Append(text[s], token)
        BY <3>2
      <4> QED
        BY <1>3, <3>1, <4>1, AppendProperties DEF Longer
    <3>3. CASE s \notin given
      <4>1. listed[s] = text[s]
        BY <3>3
      <4>2. Longer(text[s], text[s])
        BY <3>1 DEF Longer
      <4> HIDE DEF listed
      <4> QED
        BY <3>1, <4>1, <4>2
    <3> QED
      BY <3>2, <3>3
  <2>3. listed \in [Names -> Seq(Token)]
    BY <2>2
  <2> HIDE DEF listed
  <2> QED
    BY <2>2, <2>3 DEF Grown
<1> HIDE DEF Listed, listed
<1>5. Grown(text, text') /\ held' \in Seq(Token) /\ Len(held') <= Capacity
  <2>1. /\ held \in Seq(Token) /\ Len(held) <= Capacity /\ current \in Names
        /\ text \in [Names -> Seq(Token)]
    BY <1>1, InBody
  <2>2. CASE InThere
    <3>1. text' = [listed EXCEPT ![current] = Append(@, token)] /\ held' = held
      BY <1>0, <2>2 DEF listed, given
    <3>2. Grown(listed, text')
      BY <1>3, <1>4, <2>1, <3>1, AppendGrows
    <3> QED
      BY <1>4, <2>1, <3>1, <3>2, GrownTwice
  <2>3. CASE ~InThere
    <3>1. /\ held' = Kept(token)
          /\ text' = [listed EXCEPT ![StdBody] = @ \o held] \/ text' = listed
      BY <1>0, <2>3 DEF listed, given, Kept
    <3>2. Grown(listed, text')
      <4>1. StdBody \in Names
        BY Tokens
      <4>2. Grown(listed, [listed EXCEPT ![StdBody] = @ \o held]) /\ Grown(listed, listed)
        BY <1>4, <2>1, <4>1, ConcatGrows, GrownSame
      <4> QED
        BY <3>1, <4>2
    <3>3. held' \in Seq(Token) /\ Len(held') <= Capacity
      BY <1>3, <3>1, BufferedGrows DEF Inv
    <3> QED
      BY <1>4, <2>1, <3>2, <3>3, GrownTwice
  <2> QED
    BY <2>2, <2>3
<1>6. elements' \in 0..MaxElements /\ inMain' \subseteq 1..elements'
  BY <1>0, <1>1, NextElement
<1>7. /\ made' \subseteq Names /\ current' \in made' /\ scopes' \in Seq(made')
      /\ ids' \subseteq Previews
  BY <1>0, <1>1, <1>3, InBody, SeqMonotonic DEF given
<1> QED
  BY <1>1, <1>5, <1>6, <1>7, InBody, BodyStep

-----------------------------------------------------------------------------
(* Steps from one phase to the next.                                       *)

LEMMA WriteSkeletonInv == Inv /\ WriteSkeleton => Inv' /\ Grown(text, text')
<1> SUFFICES ASSUME Inv, WriteSkeleton PROVE Inv' /\ Grown(text, text')
  OBVIOUS
<1> DEFINE w == <<Tags, StdHead, Tags, StdBody, Tags>>
<1>1. /\ phase = "start" /\ phase' = "head" /\ made' = made \cup {Html}
      /\ text' = [text EXCEPT ![Html] = @ \o w]
      /\ UNCHANGED <<current, scopes, held, status, content, ids, elements, inMain>>
      /\ UNCHANGED <<stack, visited, out, errors, outcome>>
  BY DEF WriteSkeleton, resolverVars
<1>2. text \in [Names -> Seq(Token)] /\ w \in Seq(Token) /\ made' \subseteq Names
  BY <1>1, TypesUsed, Tokens DEF Inv
<1>3. Grown(text, text')
  BY <1>1, <1>2, Tokens, ConcatGrows
<1>4. text[Html] = <<>> /\ text[StdHead] = <<>>
  BY <1>1 DEF Inv, FirstPieces
<1>5. text'[Html] = w /\ text'[StdHead] = <<>>
  BY <1>1, <1>2, <1>4, Tokens, ConcatEmptySeq, AssemblyAssumption
<1>6. FirstPieces'
  <2>1. Len(w) = 5 /\ w[1] = Tags
    OBVIOUS
  <2> HIDE DEF w
  <2> QED
    BY <1>1, <1>5, <2>1 DEF FirstPieces
<1>7. Resolver!TypeOK'
  BY <1>1, <1>2, <1>3 DEF Inv, TypeOK, Resolver!TypeOK, Resolver!Running, Token, Grown
<1>8. TypeOK'
  <2>1. current' \in made' /\ scopes' \in Seq(made')
    BY <1>1, SeqMonotonic DEF Inv, TypeOK
  <2> QED
    BY <1>1, <1>7, <2>1 DEF Inv, TypeOK, Phases
<1>9. ScopesNest' /\ NotBegun' /\ StatusOK' /\ Written'
  BY <1>1 DEF Inv, ScopesNest, NotBegun, StatusOK, Written, BeforeResolution
<1> QED
  BY <1>3, <1>6, <1>8, <1>9 DEF Inv

LEMMA WriteHeadInv == Inv /\ WriteHead => Inv' /\ Grown(text, text')
<1> SUFFICES ASSUME Inv, WriteHead PROVE Inv' /\ Grown(text, text')
  OBVIOUS
<1>1. /\ phase = "head" /\ phase' = "body" /\ made' = made \cup {StdHead}
      /\ text' = [text EXCEPT ![StdHead] = Append(@, Meta)]
      /\ UNCHANGED <<current, scopes, held, content, ids, elements, inMain>>
      /\ UNCHANGED <<stack, visited, out, errors, outcome>>
  BY DEF WriteHead, resolverVars
<1>2. PICK s \in {"ok", "error"} : status' = Concat(status, s)
  BY DEF WriteHead
<1>3. text \in [Names -> Seq(Token)] /\ made' \subseteq Names
  BY <1>1, TypesUsed, Tokens DEF Inv
<1>4. Grown(text, text')
  BY <1>1, <1>3, Tokens, AppendGrows
<1>5. FirstPieces'
  <2>1. text[StdHead] = <<>> /\ Len(text[Html]) >= 1 /\ text[Html][1] = Tags
    BY <1>1 DEF Inv, FirstPieces
  <2>2. text'[StdHead] = Append(<<>>, Meta) /\ text'[Html] = text[Html]
    BY <1>1, <1>3, <2>1, Tokens, AssemblyAssumption
  <2>3. Append(<<>>, Meta) = <<Meta>>
    OBVIOUS
  <2> QED
    BY <1>1, <2>1, <2>2, <2>3 DEF FirstPieces
<1>6. Resolver!TypeOK'
  BY <1>1, <1>3, <1>4 DEF Inv, TypeOK, Resolver!TypeOK, Resolver!Running, Token, Grown
<1>7. status' \in {"ok", "error"}
  BY <1>1, <1>2 DEF Inv, StatusOK, IsContinue, Concat, IsBreak
<1>8. TypeOK'
  <2>1. current' \in made' /\ scopes' \in Seq(made')
    BY <1>1, SeqMonotonic DEF Inv, TypeOK
  <2> QED
    BY <1>1, <1>6, <1>7, <2>1 DEF Inv, TypeOK, Phases, Statuses
<1>9. ScopesNest' /\ NotBegun' /\ StatusOK' /\ Written'
  BY <1>1, <1>7 DEF Inv, ScopesNest, NotBegun, StatusOK, Written, BeforeResolution,
     IsContinue
<1> QED
  BY <1>4, <1>5, <1>8, <1>9 DEF Inv

LEMMA EnterBodyInv == Inv /\ EnterBody => Inv'
<1> SUFFICES ASSUME Inv, EnterBody PROVE Inv'
  OBVIOUS
<1>1. /\ phase = "body" /\ phase' = "main" /\ made' = made \cup {StdBody}
      /\ scopes' = Append(scopes, current) /\ current' = StdBody /\ held' = <<MainOpen>>
      /\ UNCHANGED <<status, content, ids, elements, inMain, text>>
      /\ UNCHANGED <<stack, visited, out, errors, outcome>>
  BY DEF EnterBody, resolverVars
<1>2. scopes = <<>> /\ current = Unnamed /\ current \in made
  BY <1>1 DEF Inv, ScopesNest, TypeOK
<1>3. scopes' = <<Unnamed>> /\ Len(scopes') >= 1 /\ scopes'[1] = Unnamed
  BY <1>1, <1>2
<1>4. scopes' \in Seq(made') /\ current' \in made' /\ made' \subseteq Names
  BY <1>1, <1>2, <1>3, Tokens, TypesUsed DEF Inv
<1>5. held' \in Seq(Resolver!Token) /\ Len(held') <= Capacity
  <2>1. Len(held') = 1
    BY <1>1
  <2> QED
    BY <1>1, <2>1, Tokens, AssemblyAssumption DEF Token
<1>6. Resolver!TypeOK'
  BY <1>1, <1>4 DEF Inv, TypeOK, Resolver!TypeOK, Resolver!Running
<1>7. TypeOK'
  BY <1>1, <1>4, <1>5, <1>6 DEF Inv, TypeOK, Phases
<1>8. ScopesNest' /\ NotBegun' /\ FirstPieces' /\ StatusOK' /\ Written'
  BY <1>1, <1>3 DEF Inv, ScopesNest, NotBegun, FirstPieces, StatusOK, Written,
     BeforeResolution
<1> QED
  BY <1>7, <1>8 DEF Inv

(* The end of the body restores the unnamed section.                       *)
LEMMA LeaveBodyInv == Inv /\ LeaveBody => Inv' /\ Grown(text, text')
<1> SUFFICES ASSUME Inv, LeaveBody PROVE Inv' /\ Grown(text, text')
  OBVIOUS
<1> DEFINE w == Append(held, MainClose)
<1>1. /\ phase = "main" /\ text' = [text EXCEPT ![StdBody] = @ \o w]
      /\ held' = <<>> /\ current' = scopes[1] /\ scopes' = <<>>
      /\ status' = Concat(status, content)
      /\ phase' = IF IsBreak(Concat(status, content)) THEN "returned" ELSE "resolve"
      /\ UNCHANGED <<content, ids, elements, inMain, made>>
      /\ UNCHANGED <<stack, visited, out, errors, outcome>>
  BY DEF LeaveBody, resolverVars
<1>2. /\ text \in [Names -> Seq(Token)] /\ w \in Seq(Token)
      /\ scopes \in Seq(made) /\ Len(scopes) >= 1 /\ scopes[1] = Unnamed
  BY <1>1, InBody, Tokens
<1>3. Grown(text, text')
  BY <1>1, <1>2, Tokens, ConcatGrows
<1>4. FirstPieces'
  <2>1. /\ Len(text[Html]) >= 1 /\ text[Html][1] = Tags
        /\ Len(text[StdHead]) >= 1 /\ text[StdHead][1] = Meta
    BY <1>1 DEF Inv, FirstPieces
  <2>2. Len(text'[Html]) >= 1 /\ text'[Html][1] = text[Html][1]
    BY <1>2, <1>3, <2>1, FirstStays, Tokens
  <2>3. Len(text'[StdHead]) >= 1 /\ text'[StdHead][1] = text[StdHead][1]
    BY <1>2, <1>3, <2>1, FirstStays, Tokens
  <2> QED
    BY <1>1, <2>1, <2>2, <2>3 DEF FirstPieces
<1>5. Resolver!TypeOK'
  BY <1>1, <1>2, <1>3 DEF Inv, TypeOK, Resolver!TypeOK, Resolver!Running, Token, Grown
<1>6. /\ status' \in Statuses
      /\ IsBreak(status') <=> IsBreak(content)
      /\ ~IsBreak(status') => IsContinue(status') /\ IsContinue(content)
  BY <1>1 DEF Inv, TypeOK, StatusOK, Statuses, Concat, IsBreak, IsContinue
<1>7. TypeOK'
  <2>1. current' \in made' /\ scopes' \in Seq(made')
    BY <1>1, <1>2
  <2>2. held' \in Seq(Resolver!Token) /\ Len(held') <= Capacity
    <3>1. Len(held') = 0
      BY <1>1
    <3> QED
      BY <1>1, <3>1, AssemblyAssumption
  <2> QED
    BY <1>1, <1>5, <1>6, <2>1, <2>2 DEF Inv, TypeOK, Phases
<1>8. ScopesNest' /\ NotBegun'
  BY <1>1, <1>2 DEF Inv, ScopesNest, NotBegun, BeforeResolution
<1>9. StatusOK' /\ Written'
  BY <1>1, <1>6 DEF Inv, NotBegun, BeforeResolution, StatusOK, Written
<1> QED
  BY <1>3, <1>4, <1>7, <1>8, <1>9 DEF Inv

-----------------------------------------------------------------------------
(* Resolution.                                                             *)

(* A step of the resolver of a document is one of the resolver that the    *)
(* theorems about reference resolution are about.                          *)
LEMMA ResolverSteps ==
    ASSUME Resolver!Resolve, UNCHANGED <<made, text>>
    PROVE  Proved!Next
<1>1. Resolver!Begin => Proved!Begin
  BY DEF Resolver!Begin, Proved!Begin, Resolver!Entered, Proved!Entered
<1>2. Resolver!WritePlain => Proved!WritePlain
  BY DEF Resolver!WritePlain, Proved!WritePlain, Resolver!Running, Proved!Running,
     Resolver!AtEnd, Proved!AtEnd, Resolver!Top, Proved!Top, Resolver!Next_token,
     Proved!Next_token, Resolver!Advance, Proved!Advance
<1>3. Resolver!RefNotFound => Proved!RefNotFound
  BY DEF Resolver!RefNotFound, Proved!RefNotFound, Resolver!Running, Proved!Running,
     Resolver!AtEnd, Proved!AtEnd, Resolver!Top, Proved!Top, Resolver!Next_token,
     Proved!Next_token, Resolver!Targets, Proved!Targets,
     Resolver!Advance_failing, Proved!Advance_failing
<1>4. Resolver!RefCircular => Proved!RefCircular
  BY DEF Resolver!RefCircular, Proved!RefCircular, Resolver!Running, Proved!Running,
     Resolver!AtEnd, Proved!AtEnd, Resolver!Top, Proved!Top, Resolver!Next_token,
     Proved!Next_token, Resolver!Targets, Proved!Targets,
     Resolver!Advance_failing, Proved!Advance_failing
<1>5. Resolver!RefEnter => Proved!RefEnter
  BY DEF Resolver!RefEnter, Proved!RefEnter, Resolver!Running, Proved!Running,
     Resolver!AtEnd, Proved!AtEnd, Resolver!Top, Proved!Top, Resolver!Next_token,
     Proved!Next_token, Resolver!Targets, Proved!Targets, Resolver!Advance,
     Proved!Advance, Resolver!Entered, Proved!Entered
<1>6. Resolver!RefOverflow => Proved!RefOverflow
  BY DEF Resolver!RefOverflow, Proved!RefOverflow, Resolver!Running, Proved!Running,
     Resolver!AtEnd, Proved!AtEnd, Resolver!Top, Proved!Top, Resolver!Next_token,
     Proved!Next_token, Resolver!Targets, Proved!Targets
<1>7. Resolver!RefReturn => Proved!RefReturn
  BY DEF Resolver!RefReturn, Proved!RefReturn, Resolver!Running, Proved!Running,
     Resolver!AtEnd, Proved!AtEnd, Resolver!Top, Proved!Top
<1>8. Resolver!Finish => Proved!Finish
  BY DEF Resolver!Finish, Proved!Finish, Resolver!Running, Proved!Running,
     Resolver!AtEnd, Proved!AtEnd, Resolver!Top, Proved!Top
<1> QED
  BY <1>1, <1>2, <1>3, <1>4, <1>5, <1>6, <1>7, <1>8
     DEF Resolver!Resolve, Proved!Next, Proved!Resolve

LEMMA ResolverTypes ==
    /\ Proved!TypeOK <=> Resolver!TypeOK
    /\ Proved!TypeOK' <=> Resolver!TypeOK'
  BY DEF Proved!TypeOK, Proved!Token, Proved!Targets, Proved!Frame, Proved!Outcomes,
     Proved!ErrorKinds, Proved!Running, Resolver!TypeOK, Resolver!Token, Resolver!Targets,
     Resolver!Frame, Resolver!Outcomes, Resolver!ErrorKinds, Resolver!Running

(* The resolver keeps its types for the names of a document, too.          *)
LEMMA ResolverTyped ==
    ASSUME Resolver!TypeOK, Resolver!Resolve, UNCHANGED <<made, text>>
    PROVE  Resolver!TypeOK'
<1>1. {} \subseteq [Names -> Seq(Proved!Token)]
  OBVIOUS
<1> QED
  BY <1>1, ResolverSteps, ResolverTypes, Proved!StepTypeOK, AssemblyAssumption

(* The first token of the skeleton is a tag, which is written.             *)
LEMMA ResolveReferencesInv == Inv /\ ResolveReferences => Inv' /\ Grown(text, text')
<1> SUFFICES ASSUME Inv, ResolveReferences PROVE Inv' /\ Grown(text, text')
  OBVIOUS
<1>1. /\ phase = "resolve" /\ Resolver!Resolve
      /\ UNCHANGED <<phase, current, scopes, held, status, content, ids, elements,
                     inMain, made, text>>
  BY DEF ResolveReferences
<1>2. Resolver!TypeOK'
  BY <1>1, ResolverTyped DEF Inv, TypeOK
<1>3. TypeOK'
  BY <1>1, <1>2 DEF Inv, TypeOK
<1>4. ScopesNest' /\ FirstPieces'
  BY <1>1 DEF Inv, ScopesNest, FirstPieces
<1>5. NotBegun' /\ StatusOK'
  BY <1>1 DEF Inv, NotBegun, StatusOK, BeforeResolution
<1>6. Len(text[Html]) \in Nat /\ Len(text[Html]) >= 1 /\ text[Html][1] = Tags
  BY <1>1, TypesUsed, Tokens DEF Inv, FirstPieces
<1>7. Tags \notin Resolver!Targets
  BY AssemblyAssumption DEF Resolver!Targets, Pieces
<1>8. out \in Seq(Names \X Pieces)
  BY DEF Inv, TypeOK, Resolver!TypeOK
<1>9. ASSUME out = <<>>, Resolver!Running
      PROVE  ~Resolver!AtEnd /\ Resolver!Next_token = Tags /\ Len(stack) = 1
  <2>1. Len(stack) = 1 /\ stack[1].sec = Html /\ stack[1].pos = 1
    BY <1>9 DEF Inv, Written, Resolver!Running
  <2>2. Resolver!Top.sec = Html /\ Resolver!Top.pos = 1
    BY <2>1 DEF Resolver!Top
  <2> QED
    BY <1>6, <2>1, <2>2 DEF Resolver!AtEnd, Resolver!Next_token
<1>10. Written'
  <2>1. CASE Resolver!Begin
    <3>1. outcome' = "running" /\ stack' = <<Resolver!Entered(Html)>>
      BY <2>1 DEF Resolver!Begin
    <3>2. Len(stack') = 1 /\ stack'[1] = Resolver!Entered(Html)
      BY <3>1
    <3> QED
      BY <3>1, <3>2 DEF Written, Resolver!Entered
  <2>2. CASE Resolver!WritePlain
    <3>1. PICK x : out' = Append(out, x)
      BY <2>2 DEF Resolver!WritePlain
    <3>2. out' # <<>>
      BY <1>8, <3>1
    <3> QED
      BY <3>2 DEF Written
  <2>3. CASE Resolver!RefNotFound \/ Resolver!RefCircular \/ Resolver!RefEnter
             \/ Resolver!RefOverflow
    <3>1. /\ Resolver!Running /\ ~Resolver!AtEnd
          /\ Resolver!Next_token \in Resolver!Targets /\ out' = out
          /\ outcome' \notin {"ok", "error"}
      BY <2>3 DEF Resolver!RefNotFound, Resolver!RefCircular, Resolver!RefEnter,
         Resolver!RefOverflow, Resolver!Running
    <3>2. out' # <<>>
      BY <1>7, <1>9, <3>1
    <3> QED
      BY <3>1, <3>2 DEF Written
  <2>4. CASE Resolver!RefReturn \/ Resolver!Finish
    <3>1. Resolver!Running /\ Resolver!AtEnd /\ out' = out
      BY <2>4 DEF Resolver!RefReturn, Resolver!Finish
    <3>2. out' # <<>>
      BY <1>9, <3>1
    <3> QED
      BY <3>2 DEF Written
  <2> QED
    BY <1>1, <2>1, <2>2, <2>3, <2>4 DEF Resolver!Resolve
<1>11. Grown(text, text')
  BY <1>1, TypesUsed, GrownSame DEF Inv
<1> QED
  BY <1>3, <1>4, <1>5, <1>10, <1>11 DEF Inv

LEMMA ReturnStatusInv == Inv /\ ReturnStatus => Inv' /\ Grown(text, text')
<1> SUFFICES ASSUME Inv, ReturnStatus PROVE Inv' /\ Grown(text, text')
  OBVIOUS
<1>1. /\ phase = "resolve" /\ phase' = "returned" /\ outcome \in {"ok", "error"}
      /\ status' = Concat(status, outcome)
      /\ UNCHANGED <<current, scopes, held, content, ids, elements, inMain, made, text>>
      /\ UNCHANGED <<stack, visited, out, errors, outcome>>
  BY DEF ReturnStatus, resolverVars
<1>2. status' \in Statuses
  BY <1>1 DEF Inv, TypeOK, Statuses, Concat, IsBreak
<1>3. Resolver!TypeOK'
  BY <1>1 DEF Inv, TypeOK, Resolver!TypeOK, Resolver!Running
<1>4. TypeOK'
  BY <1>1, <1>2, <1>3 DEF Inv, TypeOK, Phases
<1>5. ScopesNest' /\ NotBegun' /\ FirstPieces' /\ StatusOK' /\ Written'
  BY <1>1 DEF Inv, ScopesNest, NotBegun, FirstPieces, StatusOK, Written,
     BeforeResolution, IsContinue, IsBreak
<1>6. Grown(text, text')
  BY <1>1, TypesUsed, GrownSame DEF Inv
<1> QED
  BY <1>4, <1>5, <1>6 DEF Inv

LEMMA StepInv == Inv /\ [Next]_vars => Inv' /\ Grown(text, text')
<1> SUFFICES ASSUME Inv, [Next]_vars PROVE Inv' /\ Grown(text, text')
  OBVIOUS
<1>1. CASE UNCHANGED vars
  <2>1. Inv'
    BY <1>1 DEF vars, Inv, TypeOK, ScopesNest, NotBegun, FirstPieces, StatusOK, Written,
       Resolver!TypeOK, Resolver!Running
  <2>2. Grown(text, text')
    BY <1>1, TypesUsed, GrownSame DEF vars, Inv
  <2> QED
    BY <2>1, <2>2
<1>2. CASE EnterBody
  <2>1. Grown(text, text')
    BY <1>2, TypesUsed, GrownSame DEF EnterBody, Inv
  <2> QED
    BY <1>2, <2>1, EnterBodyInv
<1> QED
  BY <1>1, <1>2, WriteSkeletonInv, WriteHeadInv, SpliceTextInv, HereInv, MakeSectionInv,
     EnterThereInv, LeaveThereInv, HeadingInv, RaiseInv, LeaveBodyInv,
     ResolveReferencesInv, ReturnStatusInv DEF Next

-----------------------------------------------------------------------------
(* What is written in <main>, and where it is on the way to std.body.      *)

(* The order of the document.                                              *)
Turn(piece) ==
    IF piece = MainOpen THEN 0
    ELSE IF piece = MainClose THEN MaxElements + 1 ELSE piece

(* The tokens of s that belong to M are in the order of the document, each *)
(* at most once.                                                           *)
Sorted(s, M) ==
    \A i, j \in DOMAIN s :
        i < j /\ s[i] \in M /\ s[j] \in M => Turn(s[i]) < Turn(s[j])

Below(s, t, M) ==
    \A i \in DOMAIN s, j \in DOMAIN t :
        s[i] \in M /\ t[j] \in M => Turn(s[i]) < Turn(t[j])

(* Everything in s was there after n elements.                             *)
Old(s, n) == \A i \in DOMAIN s : s[i] \in (1..n) \cup Names \cup {MainOpen}

Holds(s, piece) == \E i \in DOMAIN s : s[i] = piece

(* After n elements, what was written in <main> is in the section b or in  *)
(* the buffer h, in order.                                                 *)
Arranged(b, h, M, n) ==
    /\ Sorted(b, M) /\ Sorted(h, M) /\ Below(b, h, M)
    /\ Old(b, n) /\ Old(h, n)
    /\ \A piece \in M : Holds(b, piece) \/ Holds(h, piece)

Within == inMain \cup {MainOpen}
Whole == inMain \cup {MainOpen, MainClose}

BodyInv ==
    /\ phase \in {"start", "head", "body"} => text[StdBody] = <<>> /\ inMain = {}
    /\ phase = "main" => Arranged(text[StdBody], held, Within, elements)
    /\ phase \in {"resolve", "returned"} =>
          /\ Sorted(text[StdBody], Whole)
          /\ \A piece \in Whole : Holds(text[StdBody], piece)

LEMMA ConcatParts ==
    ASSUME NEW S, NEW s \in Seq(S), NEW t \in Seq(S)
    PROVE  /\ \A i \in DOMAIN s : i \in DOMAIN (s \o t) /\ (s \o t)[i] = s[i]
           /\ \A j \in DOMAIN t :
                 Len(s) + j \in DOMAIN (s \o t) /\ (s \o t)[Len(s) + j] = t[j]
           /\ \A i \in DOMAIN (s \o t) :
                 \/ i \in DOMAIN s
                 \/ \E j \in DOMAIN t : i = Len(s) + j
<1> DEFINE m == Len(s)
           n == Len(t)
           u == s \o t
<1>1. /\ m \in Nat /\ n \in Nat /\ DOMAIN s = 1..m /\ DOMAIN t = 1..n
      /\ DOMAIN u = 1..(m + n)
      /\ \A i \in 1..(m + n) : u[i] = IF i <= m THEN s[i] ELSE t[i - m]
  BY ConcatProperties
<1> HIDE DEF m, n, u
<1>2. ASSUME NEW i \in 1..m PROVE i \in 1..(m + n) /\ u[i] = s[i]
  BY <1>1
<1>3. ASSUME NEW j \in 1..n PROVE m + j \in 1..(m + n) /\ u[m + j] = t[j]
  <2>1. m + j \in 1..(m + n) /\ ~(m + j <= m) /\ (m + j) - m = j
    BY <1>1
  <2> QED
    BY <1>1, <2>1
<1>4. ASSUME NEW i \in 1..(m + n), i \notin 1..m
      PROVE  \E j \in 1..n : i = m + j
  <2>1. i - m \in 1..n /\ i = m + (i - m)
    BY <1>1, <1>4
  <2> QED
    BY <2>1
<1> QED
  BY <1>1, <1>2, <1>3, <1>4 DEF m, n, u

LEMMA ConcatSorted ==
    ASSUME NEW S, NEW s \in Seq(S), NEW t \in Seq(S), NEW M,
           Sorted(s, M), Sorted(t, M), Below(s, t, M)
    PROVE  Sorted(s \o t, M)
<1> DEFINE u == s \o t
<1>1. /\ DOMAIN s = 1..Len(s) /\ DOMAIN t = 1..Len(t) /\ Len(s) \in Nat /\ Len(t) \in Nat
      /\ \A i \in DOMAIN s : i \in DOMAIN u /\ u[i] = s[i]
      /\ \A j \in DOMAIN t : Len(s) + j \in DOMAIN u /\ u[Len(s) + j] = t[j]
      /\ \A i \in DOMAIN u : i \in DOMAIN s \/ \E j \in DOMAIN t : i = Len(s) + j
  BY ConcatParts
<1> HIDE DEF u
<1>2. SUFFICES ASSUME NEW i \in DOMAIN u, NEW j \in DOMAIN u, i < j, u[i] \in M, u[j] \in M
               PROVE  Turn(u[i]) < Turn(u[j])
  BY DEF Sorted, u
<1>3. CASE i \in DOMAIN s /\ j \in DOMAIN s
  BY <1>1, <1>2, <1>3 DEF Sorted
<1>4. CASE i \in DOMAIN s /\ j \notin DOMAIN s
  <2>1. PICK k \in DOMAIN t : j = Len(s) + k
    BY <1>1, <1>4
  <2> QED
    BY <1>1, <1>2, <1>4, <2>1 DEF Below
<1>5. CASE i \notin DOMAIN s
  <2>1. PICK l \in DOMAIN t : i = Len(s) + l
    BY <1>1, <1>5
  <2>2. j \notin DOMAIN s
    BY <1>1, <1>2, <2>1
  <2>3. PICK k \in DOMAIN t : j = Len(s) + k
    BY <1>1, <2>2
  <2>4. l < k
    BY <1>1, <1>2, <2>1, <2>3
  <2>5. u[i] = t[l] /\ u[j] = t[k]
    BY <1>1, <2>1, <2>3
  <2> QED
    BY <1>2, <2>4, <2>5 DEF Sorted
<1> QED
  BY <1>3, <1>4, <1>5

LEMMA ConcatBelow ==
    ASSUME NEW S, NEW s \in Seq(S), NEW t \in Seq(S), NEW u, NEW M
    PROVE  /\ Below(s, u, M) /\ Below(t, u, M) => Below(s \o t, u, M)
           /\ Below(u, s, M) /\ Below(u, t, M) => Below(u, s \o t, M)
<1> DEFINE v == s \o t
<1>1. /\ \A i \in DOMAIN s : i \in DOMAIN v /\ v[i] = s[i]
      /\ \A j \in DOMAIN t : Len(s) + j \in DOMAIN v /\ v[Len(s) + j] = t[j]
      /\ \A i \in DOMAIN v : i \in DOMAIN s \/ \E j \in DOMAIN t : i = Len(s) + j
  BY ConcatParts
<1> HIDE DEF v
<1>2. ASSUME NEW i \in DOMAIN v
      PROVE  (\E j \in DOMAIN s : v[i] = s[j]) \/ (\E j \in DOMAIN t : v[i] = t[j])
  BY <1>1
<1>3. ASSUME Below(s, u, M), Below(t, u, M) PROVE Below(v, u, M)
  BY <1>2, <1>3 DEF Below
<1>4. ASSUME Below(u, s, M), Below(u, t, M) PROVE Below(u, v, M)
  BY <1>2, <1>4 DEF Below
<1> QED
  BY <1>3, <1>4 DEF v

LEMMA ConcatOld ==
    ASSUME NEW S, NEW s \in Seq(S), NEW t \in Seq(S), NEW n, Old(s, n), Old(t, n)
    PROVE  Old(s \o t, n)
<1>1. ASSUME NEW i \in DOMAIN (s \o t)
      PROVE  (\E j \in DOMAIN s : (s \o t)[i] = s[j]) \/ (\E j \in DOMAIN t : (s \o t)[i] = t[j])
  BY ConcatParts
<1> QED
  BY <1>1 DEF Old

LEMMA ConcatHolds ==
    ASSUME NEW S, NEW s \in Seq(S), NEW t \in Seq(S), NEW piece,
           Holds(s, piece) \/ Holds(t, piece)
    PROVE  Holds(s \o t, piece)
<1>1. CASE Holds(s, piece)
  <2>1. PICK i \in DOMAIN s : s[i] = piece
    BY <1>1 DEF Holds
  <2>2. i \in DOMAIN (s \o t) /\ (s \o t)[i] = s[i]
    BY ConcatParts
  <2> QED
    BY <2>1, <2>2 DEF Holds
<1>2. CASE Holds(t, piece)
  <2>1. PICK j \in DOMAIN t : t[j] = piece
    BY <1>2 DEF Holds
  <2>2. Len(s) + j \in DOMAIN (s \o t) /\ (s \o t)[Len(s) + j] = t[j]
    BY ConcatParts
  <2> QED
    BY <2>1, <2>2 DEF Holds
<1> QED
  BY <1>1, <1>2

LEMMA OneToken ==
    ASSUME NEW x, NEW M
    PROVE  /\ Sorted(<<x>>, M) /\ Holds(<<x>>, x)
           /\ DOMAIN <<x>> = {1} /\ <<x>>[1] = x
<1>1. DOMAIN <<x>> = {1} /\ <<x>>[1] = x
  <2>1. Len(<<x>>) = 1 /\ <<x>>[1] = x /\ <<x>> \in Seq({x}) /\ 1..1 = {1}
    OBVIOUS
  <2> QED
    BY <2>1
<1> QED
  BY <1>1 DEF Sorted, Holds

LEMMA NoToken ==
    ASSUME NEW s, NEW M, NEW n
    PROVE  Sorted(<<>>, M) /\ Below(s, <<>>, M) /\ Below(<<>>, s, M) /\ Old(<<>>, n)
<1>1. DOMAIN <<>> = {}
  OBVIOUS
<1> QED
  BY <1>1 DEF Sorted, Below, Old

(* The element after the n-th is in neither text and comes after both.     *)
LEMMA NewElement ==
    ASSUME NEW n \in Nat, n + 1 <= MaxElements, NEW M \in SUBSET ((1..n) \cup {MainOpen})
    PROVE  /\ n + 1 \notin (1..n) \cup Names \cup {MainOpen}
           /\ Turn(n + 1) = n + 1
           /\ \A piece \in M : Turn(piece) \in Nat /\ Turn(piece) < n + 1
           /\ M \subseteq Names \cup Pieces
<1>1. n + 1 \in 1..MaxElements /\ n + 1 \notin 1..n /\ 1..n \subseteq 1..MaxElements
      /\ MaxElements \in Nat
  BY AssemblyAssumption
<1>2. /\ n + 1 # MainOpen /\ n + 1 # MainClose /\ n + 1 \in Pieces
      /\ Pieces \cap Names = {}
  BY <1>1, AssemblyAssumption DEF Pieces
<1>3. ASSUME NEW piece \in M PROVE Turn(piece) \in Nat /\ Turn(piece) < n + 1
  <2>1. CASE piece = MainOpen
    BY <2>1 DEF Turn
  <2>2. CASE piece \in 1..n /\ piece # MainOpen
    <3>1. piece \in 1..MaxElements
      BY <1>1, <2>2
    <3>2. piece # MainClose
      BY <3>1, AssemblyAssumption
    <3>3. Turn(piece) = piece
      BY <2>2, <3>2 DEF Turn
    <3> QED
      BY <2>2, <3>3
  <2> QED
    BY <2>1, <2>2
<1> QED
  BY <1>1, <1>2, <1>3 DEF Turn, Pieces

LEMMA OlderArranged ==
    ASSUME NEW b, NEW h, NEW M, NEW n \in Nat, Arranged(b, h, M, n)
    PROVE  Arranged(b, h, M, n + 1)
<1>1. 1..n \subseteq 1..(n + 1)
  OBVIOUS
<1> QED
  BY <1>1 DEF Arranged, Old

LEMMA FlushArranged ==
    ASSUME NEW S, NEW b \in Seq(S), NEW h \in Seq(S), NEW M, NEW n, Arranged(b, h, M, n)
    PROVE  Arranged(b \o h, <<>>, M, n)
<1>1. Sorted(b \o h, M)
  BY ConcatSorted DEF Arranged
<1>2. Old(b \o h, n)
  BY ConcatOld DEF Arranged
<1>3. \A piece \in M : Holds(b \o h, piece)
  BY ConcatHolds DEF Arranged
<1> QED
  BY <1>1, <1>2, <1>3, NoToken DEF Arranged

(* The buffer takes the next element, or a reference.                      *)
LEMMA KeptArranged ==
    ASSUME NEW S, NEW b \in Seq(S), NEW h \in Seq(S), NEW x \in S,
           NEW n \in Nat, n + 1 <= MaxElements,
           NEW M \in SUBSET ((1..n) \cup {MainOpen}), Arranged(b, h, M, n),
           x \in Names \cup {n + 1},
           NEW N, N = M \/ (x = n + 1 /\ N = M \cup {n + 1})
    PROVE  Arranged(b, Append(h, x), N, n + 1)
<1>1. <<x>> \in Seq(S) /\ Append(h, x) = h \o <<x>>
  BY AppendIsConcat
<1>2. /\ n + 1 \notin (1..n) \cup Names \cup {MainOpen} /\ Turn(n + 1) = n + 1
      /\ \A piece \in M : Turn(piece) \in Nat /\ Turn(piece) < n + 1
  BY NewElement
<1>3. DOMAIN <<x>> = {1} /\ <<x>>[1] = x /\ Sorted(<<x>>, N) /\ Holds(<<x>>, x)
  BY OneToken
<1>4. x \notin M
  <2>1. CASE x \in Names
    <3>1. Names \cap ((1..n) \cup {MainOpen}) = {}
      <4>1. 1..n \subseteq 1..MaxElements
        BY AssemblyAssumption
      <4> QED
        BY <4>1, AssemblyAssumption DEF Pieces
    <3> QED
      BY <2>1, <3>1
  <2>2. CASE x = n + 1
    BY <1>2, <2>2
  <2> QED
    BY <2>1, <2>2
<1>5. ASSUME NEW s, Old(s, n), NEW i \in DOMAIN s, s[i] \in N PROVE s[i] \in M
  BY <1>2, <1>5 DEF Old
<1>6. /\ Sorted(b, N) /\ Sorted(h, N) /\ Below(b, h, N)
  BY <1>5 DEF Arranged, Sorted, Below
<1>7. ASSUME NEW s, Old(s, n) PROVE Below(s, <<x>>, N)
  <2>1. SUFFICES ASSUME NEW i \in DOMAIN s, s[i] \in N, x \in N
                 PROVE  Turn(s[i]) < Turn(x)
    BY <1>3 DEF Below
  <2>2. s[i] \in M
    BY <1>5, <1>7, <2>1
  <2>3. x = n + 1
    BY <1>4, <2>1
  <2> QED
    BY <1>2, <2>2, <2>3
<1>8. Sorted(Append(h, x), N)
  <2>1. Below(h, <<x>>, N)
    BY <1>7 DEF Arranged
  <2>2. Sorted(h \o <<x>>, N)
    BY <1>1, <1>3, <1>6, <2>1, ConcatSorted
  <2> QED
    BY <1>1, <2>2
<1>9. Below(b, Append(h, x), N)
  BY <1>1, <1>6, <1>7, ConcatBelow DEF Arranged
<1>10. Old(b, n + 1) /\ Old(h, n + 1)
  BY OlderArranged DEF Arranged
<1>11. Old(<<x>>, n + 1)
  BY <1>3 DEF Old
<1>12. Old(Append(h, x), n + 1)
  BY <1>1, <1>10, <1>11, ConcatOld
<1>13. ASSUME NEW piece \in N PROVE Holds(b, piece) \/ Holds(Append(h, x), piece)
  <2>1. CASE piece \in M
    BY <1>1, <2>1, ConcatHolds DEF Arranged
  <2>2. CASE piece = x
    <3>1. Holds(h \o <<x>>, x)
      BY <1>1, <1>3, ConcatHolds
    <3> QED
      BY <1>1, <2>2, <3>1
  <2> QED
    BY <2>1, <2>2
<1> QED
  BY <1>6, <1>8, <1>9, <1>10, <1>12, <1>13 DEF Arranged

(* What is written to std.body aside is not part of <main>'s own text.     *)
LEMMA AsideArranged ==
    ASSUME NEW S, NEW b \in Seq(S), NEW h \in Seq(S), NEW x \in S,
           NEW n \in Nat, n + 1 <= MaxElements,
           NEW M \in SUBSET ((1..n) \cup {MainOpen}), Arranged(b, h, M, n),
           x \in Names \cup {n + 1}
    PROVE  Arranged(Append(b, x), h, M, n + 1)
<1>1. <<x>> \in Seq(S) /\ Append(b, x) = b \o <<x>>
  BY AppendIsConcat
<1>2. DOMAIN <<x>> = {1} /\ <<x>>[1] = x /\ Sorted(<<x>>, M)
  BY OneToken
<1>3. x \notin M
  <2>1. n + 1 \notin M
    BY NewElement
  <2>2. Names \cap ((1..n) \cup {MainOpen}) = {}
    <3>1. 1..n \subseteq 1..MaxElements
      BY AssemblyAssumption
    <3> QED
      BY <3>1, AssemblyAssumption DEF Pieces
  <2> QED
    BY <2>1, <2>2
<1>4. Below(b, <<x>>, M) /\ Below(<<x>>, h, M)
  BY <1>2, <1>3 DEF Below
<1>5. Sorted(Append(b, x), M)
  BY <1>1, <1>2, <1>4, ConcatSorted DEF Arranged
<1>6. Below(Append(b, x), h, M)
  BY <1>1, <1>4, ConcatBelow DEF Arranged
<1>7. Old(b, n + 1) /\ Old(h, n + 1)
  BY OlderArranged DEF Arranged
<1>8. Old(<<x>>, n + 1)
  BY <1>2 DEF Old
<1>9. Old(Append(b, x), n + 1)
  BY <1>1, <1>7, <1>8, ConcatOld
<1>10. \A piece \in M : Holds(Append(b, x), piece) \/ Holds(h, piece)
  BY <1>1, ConcatHolds DEF Arranged
<1> QED
  BY <1>5, <1>6, <1>7, <1>9, <1>10 DEF Arranged

(* </main> comes after everything.                                         *)
LEMMA ClosedArranged ==
    ASSUME NEW S, NEW b \in Seq(S), NEW h \in Seq(S), MainClose \in S,
           NEW n \in Nat, n <= MaxElements,
           NEW M \in SUBSET ((1..n) \cup {MainOpen}), Arranged(b, h, M, n)
    PROVE  /\ Sorted(b \o Append(h, MainClose), M \cup {MainClose})
           /\ \A piece \in M \cup {MainClose} :
                 Holds(b \o Append(h, MainClose), piece)
<1> DEFINE x == MainClose
           N == M \cup {x}
<1>1. <<x>> \in Seq(S) /\ Append(h, x) = h \o <<x>> /\ Append(h, x) \in Seq(S)
  BY AppendIsConcat
<1>2. DOMAIN <<x>> = {1} /\ <<x>>[1] = x /\ Sorted(<<x>>, N) /\ Holds(<<x>>, x)
  BY OneToken
<1>3. x \notin (1..n) \cup Names \cup {MainOpen} /\ Turn(x) = MaxElements + 1
  <2>1. 1..n \subseteq 1..MaxElements
    BY AssemblyAssumption
  <2> QED
    BY <2>1, AssemblyAssumption DEF Pieces, Turn
<1>4. \A piece \in M : Turn(piece) < Turn(x)
  <2>1. ASSUME NEW piece \in M, piece # MainOpen PROVE Turn(piece) < Turn(x)
    <3>1. piece \in 1..n /\ piece # MainClose
      BY <1>3, <2>1
    <3>2. Turn(piece) = piece
      BY <2>1, <3>1 DEF Turn
    <3> QED
      BY <1>3, <3>1, <3>2, AssemblyAssumption
  <2>2. Turn(MainOpen) = 0 /\ 0 < MaxElements + 1
    BY AssemblyAssumption DEF Turn
  <2> QED
    BY <1>3, <2>1, <2>2
<1> HIDE DEF x
<1>5. ASSUME NEW s, Old(s, n), NEW i \in DOMAIN s, s[i] \in N PROVE s[i] \in M
  BY <1>3, <1>5 DEF Old
<1>6. Sorted(b, N) /\ Sorted(h, N) /\ Below(b, h, N)
  BY <1>5 DEF Arranged, Sorted, Below
<1>7. ASSUME NEW s, Old(s, n) PROVE Below(s, <<x>>, N)
  BY <1>2, <1>4, <1>5, <1>7 DEF Below
<1> HIDE DEF N
<1>8. Sorted(Append(h, x), N)
  <2>1. Below(h, <<x>>, N)
    BY <1>7 DEF Arranged
  <2>2. Sorted(h \o <<x>>, N)
    BY <1>1, <1>2, <1>6, <2>1, ConcatSorted
  <2> QED
    BY <1>1, <2>2
<1>9. Below(b, Append(h, x), N)
  BY <1>1, <1>6, <1>7, ConcatBelow DEF Arranged
<1>10. Sorted(b \o Append(h, x), N)
  BY <1>1, <1>6, <1>8, <1>9, ConcatSorted
<1>11. ASSUME NEW piece \in N PROVE Holds(b \o Append(h, x), piece)
  <2>1. Holds(b, piece) \/ Holds(Append(h, x), piece)
    <3>1. CASE piece \in M
      BY <1>1, <3>1, ConcatHolds DEF Arranged
    <3>2. CASE piece = x
      <4>1. Holds(h \o <<x>>, x)
        BY <1>1, <1>2, ConcatHolds
      <4> QED
        BY <1>1, <3>2, <4>1
    <3> QED
      BY <3>1, <3>2 DEF N
  <2> QED
    BY <1>1, <2>1, ConcatHolds
<1> QED
  BY <1>10, <1>11 DEF N, x

(* What a step of <main>'s content does to std.body and the buffer.        *)
Moved(x) ==
    \/ /\ text'[StdBody] \in {text[StdBody], Append(text[StdBody], x)}
       /\ held' = held
       /\ inMain' = inMain
    \/ /\ text'[StdBody] =
            IF Len(held) = Capacity THEN text[StdBody] \o held ELSE text[StdBody]
       /\ held' = Kept(x)
       /\ inMain' = inMain \/ (x = Element /\ inMain' = inMain \cup {x})

LEMMA MovedArranged ==
    ASSUME Inv, BodyInv, Writing, NEW x \in Names \cup {Element}, x \in Token, Moved(x),
           elements' = Element, phase' = phase
    PROVE  BodyInv'
<1> DEFINE b == text[StdBody]
           n == elements
<1>1. /\ b \in Seq(Token) /\ held \in Seq(Token) /\ <<>> \in Seq(Token)
      /\ n \in Nat /\ n + 1 <= MaxElements /\ Element = n + 1
      /\ Within \in SUBSET ((1..n) \cup {MainOpen})
      /\ phase = "main" /\ Arranged(b, held, Within, n)
  <2>1. /\ phase = "main" /\ elements < MaxElements /\ elements \in 0..MaxElements
        /\ inMain \subseteq 1..elements /\ MaxElements \in Nat
    BY AssemblyAssumption DEF Inv, TypeOK, Writing
  <2>2. b \in Seq(Token) /\ held \in Seq(Token) /\ <<>> \in Seq(Token)
    BY TypesUsed, Tokens DEF Inv
  <2>3. Arranged(b, held, Within, n)
    BY <2>1 DEF BodyInv
  <2>4. Within \in SUBSET ((1..n) \cup {MainOpen})
    BY <2>1 DEF Within
  <2>5. n \in Nat /\ n + 1 <= MaxElements /\ Element = n + 1
    BY <2>1 DEF Element
  <2> QED
    BY <2>1, <2>2, <2>3, <2>4, <2>5
<1> HIDE DEF b
<1>2. SUFFICES Arranged(text'[StdBody], held', Within', n + 1)
  BY <1>1 DEF BodyInv
<1>3. CASE /\ text'[StdBody] = b
           /\ held' = held /\ inMain' = inMain
  <2>1. Arranged(b, held, Within, n + 1)
    BY <1>1, OlderArranged
  <2> QED
    BY <1>3, <2>1 DEF Within
<1>4. CASE /\ text'[StdBody] = Append(b, x)
           /\ held' = held /\ inMain' = inMain
  <2>1. Arranged(Append(b, x), held, Within, n + 1)
    BY <1>1, AsideArranged
  <2> QED
    BY <1>4, <2>1 DEF Within
<1>5. CASE /\ text'[StdBody] = IF Len(held) = Capacity THEN b \o held ELSE b
           /\ held' = Kept(x)
           /\ inMain' = inMain \/ (x = Element /\ inMain' = inMain \cup {x})
  <2>1. Within' = Within \/ (x = n + 1 /\ Within' = Within \cup {n + 1})
    BY <1>1, <1>5 DEF Within
  <2>2. CASE Len(held) = Capacity
    <3>1. Arranged(b \o held, <<>>, Within, n)
      BY <1>1, FlushArranged
    <3>2. b \o held \in Seq(Token)
      BY <1>1, ConcatProperties
    <3>3. Arranged(b \o held, Append(<<>>, x), Within', n + 1)
      BY <1>1, <2>1, <3>1, <3>2, KeptArranged
    <3>4. Append(<<>>, x) = <<x>>
      OBVIOUS
    <3> QED
      BY <1>5, <2>2, <3>3, <3>4 DEF Kept
  <2>3. CASE Len(held) # Capacity
    <3>1. Arranged(b, Append(held, x), Within', n + 1)
      BY <1>1, <2>1, KeptArranged
    <3> QED
      BY <1>5, <2>3, <3>1 DEF Kept
  <2> QED
    BY <2>2, <2>3
<1> QED
  BY <1>3, <1>4, <1>5 DEF Moved, b

LEMMA PutMoves ==
    ASSUME Inv, phase = "main", NEW x \in Token, Put(x),
           \/ inMain' = inMain
           \/ ~InThere /\ x = Element /\ inMain' = inMain \cup {x}
    PROVE  Moved(x)
<1>1. text \in [Names -> Seq(Token)] /\ StdBody \in Names /\ current \in Names
  BY InBody, Tokens
<1>2. CASE InThere
  <2>1. text' = [text EXCEPT ![current] = Append(@, x)] /\ held' = held
    BY <1>2 DEF Put, Direct
  <2>2. text'[StdBody] \in {text[StdBody], Append(text[StdBody], x)}
    BY <1>1, <2>1
  <2> QED
    BY <1>2, <2>1, <2>2 DEF Moved
<1>3. CASE ~InThere
  <2>1. /\ held' = Kept(x)
        /\ text' = IF Len(held) = Capacity
                   THEN [text EXCEPT ![StdBody] = @ \o held] ELSE text
    BY <1>3 DEF Put, Buffered, Kept
  <2>2. text'[StdBody] = IF Len(held) = Capacity THEN text[StdBody] \o held
                         ELSE text[StdBody]
    BY <1>1, <2>1
  <2> QED
    BY <2>1, <2>2 DEF Moved
<1> QED
  BY <1>2, <1>3

LEMMA HeadingMoves ==
    ASSUME Inv, Heading
    PROVE  \E x \in {Element} \cup References : Moved(x)
<1> DEFINE Listed(token, given) ==
              [s \in Names |-> IF s \in given THEN Append(text[s], token) ELSE text[s]]
<1> DEFINE Previewed(shown) == IF shown \notin ids THEN {shown, StdToc} ELSE {StdToc}
<1>1. PICK token \in {Element} \cup References, shown \in Previews :
        /\ IF InThere
           THEN /\ text' = [Listed(token, Previewed(shown)) EXCEPT
                              ![current] = Append(@, token)]
                /\ UNCHANGED held
           ELSE /\ held' = IF Len(held) = Capacity
                           THEN <<token>> ELSE Append(held, token)
                /\ text' = IF Len(held) = Capacity
                           THEN [Listed(token, Previewed(shown)) EXCEPT
                                   ![StdBody] = @ \o held]
                           ELSE Listed(token, Previewed(shown))
        /\ inMain' = IF InThere \/ token # Element
                     THEN inMain ELSE inMain \cup {token}
  BY Zenon DEF Heading
<1> DEFINE listed == Listed(token, Previewed(shown))
<1>2. StdBody \in Names /\ StdBody \notin Previewed(shown)
  BY Tokens, AssemblyAssumption
<1>3. listed[StdBody] = text[StdBody] /\ DOMAIN listed = Names
  BY <1>2
<1> HIDE DEF Listed, Previewed
<1>4. current \in Names
  BY InBody DEF Heading, Writing
<1>5. CASE InThere
  <2>1. text' = [listed EXCEPT ![current] = Append(@, token)] /\ held' = held
        /\ inMain' = inMain
    BY <1>1, <1>5
  <2> HIDE DEF listed
  <2>2. text'[StdBody] \in {text[StdBody], Append(text[StdBody], token)}
    BY <1>2, <1>3, <1>4, <2>1
  <2> QED
    BY <2>1, <2>2 DEF Moved
<1>6. CASE ~InThere
  <2>1. /\ held' = Kept(token)
        /\ text' = IF Len(held) = Capacity
                   THEN [listed EXCEPT ![StdBody] = @ \o held] ELSE listed
        /\ inMain' = inMain \/ (token = Element /\ inMain' = inMain \cup {token})
    BY <1>1, <1>6 DEF Kept
  <2> HIDE DEF listed
  <2>2. text'[StdBody] = IF Len(held) = Capacity THEN text[StdBody] \o held
                         ELSE text[StdBody]
    BY <1>2, <1>3, <2>1
  <2> QED
    BY <2>1, <2>2 DEF Moved
<1> QED
  BY <1>5, <1>6

(* A step that writes no text of <main>.                                   *)
LEMMA IdleBody ==
    ASSUME Inv, BodyInv, phase = "main", phase' = "main",
           UNCHANGED <<text, held, inMain>>, elements' \in {elements, Element}
    PROVE  BodyInv'
<1>1. Arranged(text[StdBody], held, Within, elements) /\ elements \in Nat
  BY AssemblyAssumption DEF BodyInv, Inv, TypeOK
<1>2. Arranged(text[StdBody], held, Within, elements')
  BY <1>1, OlderArranged DEF Element
<1> QED
  BY <1>2 DEF BodyInv, Within

LEMMA EnterBodyBody == Inv /\ BodyInv /\ EnterBody => BodyInv'
<1> SUFFICES ASSUME Inv, BodyInv, EnterBody PROVE BodyInv'
  OBVIOUS
<1>1. /\ text'[StdBody] = <<>> /\ held' = <<MainOpen>> /\ inMain' = {} /\ phase' = "main"
  BY DEF EnterBody, BodyInv
<1>2. /\ Sorted(<<MainOpen>>, {MainOpen}) /\ Holds(<<MainOpen>>, MainOpen)
      /\ Old(<<MainOpen>>, elements')
  BY OneToken DEF Old
<1>3. Arranged(<<>>, <<MainOpen>>, {MainOpen}, elements')
  BY <1>2, NoToken DEF Arranged
<1> QED
  BY <1>1, <1>3 DEF BodyInv, Within

LEMMA LeaveBodyBody == Inv /\ BodyInv /\ LeaveBody => BodyInv'
<1> SUFFICES ASSUME Inv, BodyInv, LeaveBody PROVE BodyInv'
  OBVIOUS
<1> DEFINE b == text[StdBody]
<1>1. /\ phase = "main" /\ phase' \in {"resolve", "returned"}
      /\ text' = [text EXCEPT ![StdBody] = @ \o Append(held, MainClose)]
      /\ inMain' = inMain
  BY DEF LeaveBody
<1>2. /\ b \in Seq(Token) /\ held \in Seq(Token) /\ MainClose \in Token
      /\ text'[StdBody] = b \o Append(held, MainClose)
  BY <1>1, TypesUsed, Tokens DEF Inv
<1>3. /\ elements \in Nat /\ elements <= MaxElements
      /\ Within \in SUBSET ((1..elements) \cup {MainOpen})
  <2>1. elements \in 0..MaxElements /\ inMain \subseteq 1..elements /\ MaxElements \in Nat
    BY AssemblyAssumption DEF Inv, TypeOK
  <2>2. elements \in Nat /\ elements <= MaxElements
    BY <2>1
  <2>3. \A piece \in Within : piece \in (1..elements) \cup {MainOpen}
    BY <2>1 DEF Within
  <2> QED
    BY <2>2, <2>3
<1>4. Arranged(b, held, Within, elements)
  BY <1>1 DEF BodyInv
<1> HIDE DEF b
<1>5. /\ Sorted(text'[StdBody], Within \cup {MainClose})
      /\ \A piece \in Within \cup {MainClose} : Holds(text'[StdBody], piece)
  <2>1. /\ Sorted(b \o Append(held, MainClose), Within \cup {MainClose})
        /\ \A piece \in Within \cup {MainClose} :
              Holds(b \o Append(held, MainClose), piece)
    BY <1>2, <1>3, <1>4, ClosedArranged
  <2> QED
    BY <1>2, <2>1
<1>6. Whole' = Within \cup {MainClose}
  BY <1>1 DEF Whole, Within
<1> QED
  BY <1>1, <1>5, <1>6 DEF BodyInv

LEMMA StepBody == Inv /\ BodyInv /\ [Next]_vars => BodyInv'
<1> SUFFICES ASSUME Inv, BodyInv, [Next]_vars PROVE BodyInv'
  OBVIOUS
<1>1. CASE UNCHANGED vars
  BY <1>1 DEF vars, BodyInv, Whole, Within
<1>2. CASE WriteSkeleton \/ WriteHead
  <2>1. StdBody \in Names /\ StdBody \notin {Html, StdHead}
    BY Tokens, AssemblyAssumption
  <2>2. text'[StdBody] = text[StdBody]
    <3>1. CASE WriteSkeleton
      BY <2>1, <3>1, TypesUsed DEF WriteSkeleton, Inv
    <3>2. CASE WriteHead
      BY <2>1, <3>2, TypesUsed DEF WriteHead, Inv
    <3> QED
      BY <1>2, <3>1, <3>2
  <2>3. phase \in {"start", "head"} /\ phase' \in {"head", "body"} /\ inMain' = inMain
    BY <1>2 DEF WriteSkeleton, WriteHead
  <2> QED
    BY <2>2, <2>3 DEF BodyInv
<1>3. CASE SpliceText
  <2>1. /\ Writing /\ phase = "main" /\ Put(Element) /\ elements' = Element /\ phase' = phase
        /\ inMain' = inMain \/ (~InThere /\ inMain' = inMain \cup {Element})
    BY <1>3 DEF SpliceText, Writing, Counted
  <2>2. Element \in Token
    BY <2>1, NextElement
  <2>3. Moved(Element)
    BY <2>1, <2>2, PutMoves
  <2> QED
    BY <2>1, <2>2, <2>3, MovedArranged
<1>4. CASE Here
  <2>1. PICK s \in References : Put(s)
    BY <1>4 DEF Here
  <2>2. Writing /\ phase = "main" /\ elements' = Element /\ phase' = phase /\ inMain' = inMain
    BY <1>4 DEF Here, Writing
  <2>3. s \in Token /\ s \in Names \cup {Element}
    BY Tokens, AssemblyAssumption
  <2>4. Moved(s)
    BY <2>1, <2>2, <2>3, PutMoves
  <2> QED
    BY <2>2, <2>3, <2>4, MovedArranged
<1>5. CASE MakeSection
  <2>1. /\ Writing /\ phase = "main" /\ Put(StdToc) /\ elements' = Element /\ phase' = phase
        /\ inMain' = inMain
    BY <1>5 DEF MakeSection, Writing
  <2>2. StdToc \in Token /\ StdToc \in Names \cup {Element}
    BY Tokens
  <2>3. Moved(StdToc)
    BY <2>1, <2>2, PutMoves
  <2> QED
    BY <2>1, <2>2, <2>3, MovedArranged
<1>6. CASE Heading
  <2>1. PICK x \in {Element} \cup References : Moved(x)
    BY <1>6, HeadingMoves
  <2>2. Writing /\ elements' = Element /\ phase' = phase
    BY <1>6 DEF Heading
  <2>3. x \in Token /\ x \in Names \cup {Element}
    BY <2>2, NextElement, Tokens, AssemblyAssumption
  <2> QED
    BY <2>1, <2>2, <2>3, MovedArranged
<1>7. CASE EnterThere \/ LeaveThere \/ Raise
  <2>1. /\ phase = "main" /\ phase' = "main" /\ UNCHANGED <<text, held, inMain>>
        /\ elements' \in {elements, Element}
    BY <1>7 DEF EnterThere, LeaveThere, Raise, Writing
  <2> QED
    BY <2>1, IdleBody
<1>8. CASE ResolveReferences \/ ReturnStatus
  <2>1. /\ phase = "resolve" /\ phase' \in {"resolve", "returned"}
        /\ UNCHANGED <<text, inMain>>
    BY <1>8 DEF ResolveReferences, ReturnStatus
  <2> QED
    BY <2>1 DEF BodyInv, Whole
<1> QED
  BY <1>1, <1>2, <1>3, <1>4, <1>5, <1>6, <1>7, <1>8, EnterBodyBody, LeaveBodyBody DEF Next

(* In a text like that, every piece of <main> has one place.               *)
LEMMA PlaceOf ==
    ASSUME NEW s \in Seq(Token), NEW M, Sorted(s, M), NEW piece \in M, Holds(s, piece),
           Turn(piece) \in Nat
    PROVE  Place(s, piece) \in DOMAIN s /\ s[Place(s, piece)] = piece
<1>1. PICK i \in DOMAIN s : s[i] = piece
  BY DEF Holds
<1>2. DOMAIN s = 1..Len(s) /\ Len(s) \in Nat
  OBVIOUS
<1>3. ASSUME NEW j \in 1..(i - 1) PROVE s[j] # piece
  <2>1. j \in DOMAIN s /\ j < i
    BY <1>1, <1>2
  <2>2. ~(Turn(piece) < Turn(piece))
    OBVIOUS
  <2> QED
    BY <1>1, <2>1, <2>2 DEF Sorted
<1>4. \E k \in DOMAIN s : s[k] = piece /\ \A j \in 1..(k - 1) : s[j] # piece
  BY <1>1, <1>3
<1> QED
  BY <1>4, Zenon DEF Place

LEMMA PlacesInOrder ==
    ASSUME NEW s \in Seq(Token), NEW M, Sorted(s, M),
           NEW p \in M, NEW q \in M, Holds(s, p), Holds(s, q),
           Turn(p) \in Nat, Turn(q) \in Nat, Turn(p) < Turn(q)
    PROVE  Place(s, p) < Place(s, q)
<1> DEFINE i == Place(s, p)
           j == Place(s, q)
<1>1. i \in DOMAIN s /\ s[i] = p /\ j \in DOMAIN s /\ s[j] = q
  BY PlaceOf
<1>2. i \in Nat /\ j \in Nat
  BY <1>1
<1> HIDE DEF i, j
<1>3. i # j
  BY <1>1
<1>4. ~(j < i)
  <2>1. ASSUME j < i PROVE FALSE
    <3>1. Turn(q) < Turn(p)
      BY <1>1, <2>1 DEF Sorted
    <3> QED
      BY <3>1
  <2> QED
    BY <2>1
<1>5. i < j
  BY <1>2, <1>3, <1>4
<1> QED
  BY <1>5 DEF i, j

LEMMA InOrder == Inv /\ BodyInv => MainInOrder
<1> SUFFICES ASSUME Inv, BodyInv, phase = "resolve"
             PROVE  /\ \A i, j \in inMain :
                          i < j => Place(text[StdBody], i) < Place(text[StdBody], j)
                    /\ \A i \in inMain :
                          /\ Place(text[StdBody], MainOpen) < Place(text[StdBody], i)
                          /\ Place(text[StdBody], i) < Place(text[StdBody], MainClose)
  BY DEF MainInOrder
<1>1. /\ text[StdBody] \in Seq(Token) /\ Sorted(text[StdBody], Whole)
      /\ \A piece \in Whole : Holds(text[StdBody], piece)
  BY TypesUsed, Tokens DEF Inv, BodyInv
<1>2. inMain \subseteq Whole /\ MainOpen \in Whole /\ MainClose \in Whole
  BY DEF Whole
<1>3. ASSUME NEW i \in inMain
      PROVE  /\ Turn(i) = i /\ i \in Nat /\ 0 < i /\ i < MaxElements + 1
  <2>1. i \in 1..MaxElements
    <3>1. inMain \subseteq 1..elements /\ elements \in 0..MaxElements /\ MaxElements \in Nat
      BY AssemblyAssumption DEF Inv, TypeOK
    <3> QED
      BY <3>1
  <2>2. i # MainOpen /\ i # MainClose
    BY <2>1, AssemblyAssumption
  <2> QED
    BY <2>1, <2>2, AssemblyAssumption DEF Turn
<1>4. /\ Turn(MainOpen) = 0 /\ Turn(MainClose) = MaxElements + 1
      /\ MaxElements + 1 \in Nat
  BY AssemblyAssumption DEF Turn
<1>5. ASSUME NEW i \in inMain, NEW j \in inMain, i < j
      PROVE  Place(text[StdBody], i) < Place(text[StdBody], j)
  BY <1>1, <1>2, <1>3, <1>5, PlacesInOrder
<1>6. ASSUME NEW i \in inMain
      PROVE  /\ Place(text[StdBody], MainOpen) < Place(text[StdBody], i)
             /\ Place(text[StdBody], i) < Place(text[StdBody], MainClose)
  BY <1>1, <1>2, <1>3, <1>4, PlacesInOrder
<1> QED
  BY <1>5, <1>6

(* std.html refers to std.head and to std.body.                            *)
SkeletonRefers ==
    phase # "start" =>
        Len(text[Html]) >= 4 /\ text[Html][2] = StdHead /\ text[Html][4] = StdBody

ArrivalInv == BodyInv /\ SkeletonRefers /\ Proved!PassedIsWritten

LEMMA InitArrival == Init => ArrivalInv
<1> SUFFICES ASSUME Init PROVE ArrivalInv
  OBVIOUS
<1>1. BodyInv
  BY Tokens DEF Init, BodyInv
<1>2. SkeletonRefers
  BY DEF Init, SkeletonRefers
<1>3. Proved!PassedIsWritten
  BY DEF Init, Resolver!ResolverInit, Proved!PassedIsWritten
<1> QED
  BY <1>1, <1>2, <1>3 DEF ArrivalInv

LEMMA StepSkeleton == Inv /\ SkeletonRefers /\ [Next]_vars => SkeletonRefers'
<1> SUFFICES ASSUME Inv, SkeletonRefers, [Next]_vars, phase' # "start"
             PROVE  Len(text'[Html]) >= 4 /\ text'[Html][2] = StdHead /\ text'[Html][4] = StdBody
  BY DEF SkeletonRefers
<1>1. /\ text \in [Names -> Seq(Token)] /\ text' \in [Names -> Seq(Token)]
      /\ Longer(text[Html], text'[Html])
  BY StepInv, TypesUsed, Tokens DEF Inv, Grown
<1>2. CASE phase = "start"
  <2> DEFINE w == <<Tags, StdHead, Tags, StdBody, Tags>>
  <2>1. WriteSkeleton
    BY <1>2 DEF Next, vars, WriteHead, EnterBody, SpliceText, Here, MakeSection, EnterThere,
       LeaveThere, Heading, Raise, LeaveBody, ResolveReferences, ReturnStatus, Writing
  <2>2. text[Html] = <<>> /\ w \in Seq(Token)
    BY <1>2, Tokens DEF Inv, FirstPieces
  <2>3. text'[Html] = w
    BY <1>1, <2>1, <2>2, Tokens, ConcatEmptySeq DEF WriteSkeleton
  <2>4. Len(w) = 5 /\ w[2] = StdHead /\ w[4] = StdBody
    OBVIOUS
  <2> HIDE DEF w
  <2> QED
    BY <2>3, <2>4
<1>3. CASE phase # "start"
  <2>1. /\ Len(text[Html]) \in Nat /\ Len(text'[Html]) \in Nat /\ Len(text[Html]) >= 4
        /\ text[Html][2] = StdHead /\ text[Html][4] = StdBody
    BY <1>1, <1>3, Tokens DEF SkeletonRefers
  <2>2. 2 \in 1..Len(text[Html]) /\ 4 \in 1..Len(text[Html])
    BY <2>1
  <2> QED
    BY <1>1, <2>1, <2>2 DEF Longer
<1> QED
  BY <1>2, <1>3

LEMMA StepPassedHere == Inv /\ Proved!PassedIsWritten /\ [Next]_vars => Proved!PassedIsWritten'
<1> SUFFICES ASSUME Inv, Proved!PassedIsWritten, [Next]_vars
             PROVE  Proved!PassedIsWritten'
  OBVIOUS
<1>1. CASE ResolveReferences
  <2>1. Resolver!Resolve /\ UNCHANGED <<made, text>>
    BY <1>1 DEF ResolveReferences
  <2>2. Proved!Next /\ Proved!TypeOK
    BY <2>1, ResolverSteps, ResolverTypes DEF Inv, TypeOK
  <2>3. {} \subseteq [Names -> Seq(Proved!Token)]
    OBVIOUS
  <2> QED
    BY <2>2, <2>3, Proved!StepPassed, AssemblyAssumption
<1>2. CASE UNCHANGED vars \/ ReturnStatus
  <2>1. UNCHANGED <<text, stack, out, errors, outcome>>
    BY <1>2 DEF vars, ReturnStatus, resolverVars
  <2>2. \A s : Proved!PiecesWritten(s)' <=> Proved!PiecesWritten(s)
    BY <2>1 DEF Proved!PiecesWritten
  <2>3. \A i, k : Proved!Passed(i, k)' <=> Proved!Passed(i, k)
    BY <2>1, <2>2 DEF Proved!Passed
  <2> QED
    BY <2>1, <2>2, <2>3 DEF Proved!PassedIsWritten
<1>3. CASE ~ResolveReferences /\ ~ReturnStatus /\ ~UNCHANGED vars
  <2>1. phase \in BeforeResolution /\ outcome' = outcome
    BY <1>3 DEF Next, BeforeResolution, resolverVars, WriteSkeleton, WriteHead, EnterBody,
       SpliceText, Here, MakeSection, EnterThere, LeaveThere, Heading, Raise, LeaveBody, Writing
  <2>2. outcome' = "idle"
    BY <2>1 DEF Inv, NotBegun
  <2> QED
    BY <2>2 DEF Proved!PassedIsWritten
<1> QED
  BY <1>1, <1>2, <1>3

LEMMA StepArrival == Inv /\ ArrivalInv /\ [Next]_vars => ArrivalInv'
  BY StepBody, StepSkeleton, StepPassedHere DEF ArrivalInv

LEMMA Arrived == Inv /\ ArrivalInv => NothingLost
<1> SUFFICES ASSUME Inv, ArrivalInv, phase = "returned", outcome = "ok", errors = {},
                    NEW piece \in inMain \cup {MainOpen, MainClose, Meta}
             PROVE  Occurs(piece)
  BY DEF NothingLost
<1>1. text \in [Names -> Seq(Token)]
  BY TypesUsed DEF Inv
<1>2. piece \in Pieces
  <2>1. inMain \subseteq 1..elements /\ elements \in 0..MaxElements /\ MaxElements \in Nat
    BY AssemblyAssumption DEF Inv, TypeOK
  <2>2. 1..elements \subseteq 1..MaxElements
    BY <2>1
  <2> QED
    BY <2>1, <2>2 DEF Pieces
<1>3. /\ Len(text[Html]) \in Nat /\ Len(text[Html]) >= 4
      /\ DOMAIN text[Html] = 1..Len(text[Html])
      /\ text[Html][2] = StdHead /\ text[Html][4] = StdBody
  BY <1>1, Tokens DEF ArrivalInv, SkeletonRefers
<1>4. StdHead \in Proved!Targets /\ StdBody \in Proved!Targets
  BY AssemblyAssumption DEF Proved!Targets
<1>5. 2 \in DOMAIN text[Html] /\ 4 \in DOMAIN text[Html]
  BY <1>3
<1>6. Proved!PiecesWritten(StdHead) /\ Proved!PiecesWritten(StdBody)
  BY <1>3, <1>4, <1>5 DEF ArrivalInv, Proved!PassedIsWritten
<1>7. PICK s \in {StdHead, StdBody} : Holds(text[s], piece)
  <2>1. CASE piece = Meta
    <3>1. Len(text[StdHead]) >= 1 /\ text[StdHead][1] = Meta
      BY DEF Inv, FirstPieces
    <3>2. DOMAIN text[StdHead] = 1..Len(text[StdHead]) /\ Len(text[StdHead]) \in Nat
      BY <1>1, Tokens
    <3>3. 1 \in DOMAIN text[StdHead]
      BY <3>1, <3>2
    <3> QED
      BY <2>1, <3>1, <3>3 DEF Holds
  <2>2. CASE piece # Meta
    BY <2>2 DEF ArrivalInv, BodyInv, Whole
  <2> QED
    BY <2>1, <2>2
<1>8. PICK k \in DOMAIN text[s] : text[s][k] = piece
  BY <1>7 DEF Holds
<1>9. Proved!Written(out, piece)
  BY <1>2, <1>6, <1>8 DEF Proved!PiecesWritten
<1> QED
  BY <1>9 DEF Occurs, Proved!Written

-----------------------------------------------------------------------------
(* Scoped_Section: however blocks of \there are entered, nested and left,  *)
(* also by a break, resolution starts in the unnamed section, and every    *)
(* variable keeps its type.                                                *)
THEOREM ScopesAreUnwound == Spec => []ScopesUnwound
<1>1. Inv => ScopesUnwound
  BY DEF Inv, ScopesNest, ScopesUnwound
<1> QED
  BY <1>1, InitInv, StepInv, PTL DEF Spec

(* No directive shortens or rewrites what a section holds (make() finds a  *)
(* section that exists), and nothing is written once resolution reads.     *)
THEOREM SectionsGrow == Spec => SectionsOnlyGrow
<1>1. Inv /\ [Next]_vars =>
        [/\ \A s \in Names : IsPrefixOf(text[s], text'[s])
         /\ phase \in {"resolve", "returned"} => text' = text]_vars
  <2> SUFFICES ASSUME Inv, Next
               PROVE  /\ \A s \in Names : IsPrefixOf(text[s], text'[s])
                      /\ phase \in {"resolve", "returned"} => text' = text
    OBVIOUS
  <2>1. text \in [Names -> Seq(Token)] /\ Grown(text, text')
    BY TypesUsed, StepInv DEF Inv
  <2>2. ASSUME NEW s \in Names PROVE IsPrefixOf(text[s], text'[s])
    <3>1. text[s] \in Seq(Token) /\ text'[s] \in Seq(Token) /\ Longer(text[s], text'[s])
      BY <2>1 DEF Grown
    <3> QED
      BY <3>1, LongerIsPrefix
  <2>3. ASSUME phase \in {"resolve", "returned"} PROVE text' = text
    BY <2>3 DEF Next, WriteSkeleton, WriteHead, EnterBody, SpliceText, Here, MakeSection,
       EnterThere, LeaveThere, Heading, Raise, LeaveBody, ResolveReferences, ReturnStatus,
       Writing
  <2> QED
    BY <2>2, <2>3
<1> QED
  BY <1>1, InitInv, StepInv, PTL DEF Spec, SectionsOnlyGrow

(* write_head_body_document: exactly the documents whose content was not   *)
(* abandoned are put together, the returned status tells of it, and the    *)
(* generated part of the head precedes what a document adds to it.         *)
THEOREM AssembledOrSilent == Spec => []AssembledWhole
<1>1. Inv => AssembledWhole
  <2> SUFFICES ASSUME Inv PROVE AssembledWhole
    OBVIOUS
  <2>1. AbandonedIsSilent
    BY DEF Inv, StatusOK, Written, AbandonedIsSilent
  <2>2. AfterHeadContents
    BY DEF Inv, FirstPieces, AfterHeadContents
  <2> QED
    BY <2>1, <2>2 DEF AssembledWhole
<1> QED
  BY <1>1, InitInv, StepInv, PTL DEF Spec

(* Whatever \there, headings and references do in between: the text of     *)
(* <main> reaches the section std.body whole and in order, through a       *)
(* buffer of any size, and the output of a document that was put together  *)
(* without a diagnostic holds all of it.                                   *)
THEOREM MainHasArrived == Spec => []MainArrives
<1>1. Inv /\ ArrivalInv => MainArrives
  BY Arrived, InOrder DEF ArrivalInv, MainArrives
<1>2. Init => Inv /\ ArrivalInv
  BY InitInv, InitArrival
<1>3. Inv /\ ArrivalInv /\ [Next]_vars => (Inv /\ ArrivalInv)'
  BY StepInv, StepArrival
<1> QED
  BY <1>1, <1>2, <1>3, PTL DEF Spec
-----------------------------------------------------------------------------
(* Numbers of headings tell their place in the outline, for any levels and *)
(* any number of headings and documents.                                   *)
(*                                                                         *)
(* The counters hold, at any time, how many siblings the outline has on    *)
(* every level; a heading reads them later than it raised them, but what   *)
(* began in between was inside of it, and if that was only lower headings, *)
(* the counters that it reads are still those of its own place.            *)

Entry == [level : 1..6, listed : BOOLEAN, around : SUBSET Nat]
Splice == [at : Nat, level : 1..6, listed : BOOLEAN, pass : {"id", "content"}]

Outlines == Seq(Entry)
Splices == Seq(Splice)

(* Siblings, for any outline.                                              *)
Sib(o, level, k) ==
    {j \in 1..k : o[j].listed /\ o[j].level = level
        /\ \A i \in (j + 1)..k : o[i].listed => o[i].level >= level}

NumberTypes ==
    /\ counters \in [1..6 -> Nat]
    /\ outline \in Outlines
    /\ Len(outline) <= MaxHeadings
    /\ calls \in Splices
    /\ \A c \in DOMAIN calls :
        /\ calls[c].at \in 1..Len(outline)
        /\ outline[calls[c].at].level = calls[c].level
        /\ outline[calls[c].at].listed = calls[c].listed

CountersCount ==
    \A i \in 1..6 : counters[i] = Cardinality(Sib(outline, i, Len(outline)))

(* What begins while a heading is being processed is inside of it.         *)
OpenAround ==
    \A c \in DOMAIN calls : \A j \in (calls[c].at + 1)..Len(outline) :
        calls[c].at \in outline[j].around

WrittenNumbers ==
    \A w \in written :
        /\ w.of \in 1..Len(outline)
        /\ outline[w.of].listed
        /\ H!Undisturbed(w.of) => w.number = H!NumberOf(w.of)

NumberInv == NumberTypes /\ CountersCount /\ OpenAround /\ WrittenNumbers

-----------------------------------------------------------------------------
(* Siblings and how many there are.                                        *)

LEMMA CountSame == \A S : H!Cardinality(S) = Cardinality(S)
  BY DEF H!Cardinality, Cardinality

LEMMA EntryTyped ==
    ASSUME outline \in Outlines, NEW j \in 1..Len(outline)
    PROVE  outline[j] \in Entry /\ outline[j].level \in 1..6
<1>1. outline[j] \in Entry
  BY DEF Outlines
<1> QED
  BY <1>1 DEF Entry

LEMMA SpliceTyped ==
    ASSUME calls \in Splices, NEW c \in 1..Len(calls)
    PROVE  calls[c] \in Splice /\ calls[c].pass \in {"id", "content"}
<1>1. calls[c] \in Splice
  BY DEF Splices
<1> QED
  BY <1>1 DEF Splice

LEMMA SiblingsAre ==
    \A level, k : /\ H!Siblings(level, k) = Sib(outline, level, k)
                  /\ H!Siblings(level, k)' = Sib(outline', level', k')
  BY DEF H!Siblings, Sib

LEMMA NumberIs ==
    ASSUME NEW k
    PROVE  H!NumberOf(k) =
              SubSeq([i \in 1..6 |-> Cardinality(Sib(outline, i, k))], 2,
                     outline[k].level)
<1>1. \A i : H!Cardinality(H!Siblings(i, k)) = Cardinality(Sib(outline, i, k))
  BY CountSame, SiblingsAre
<1> QED
  BY <1>1 DEF H!NumberOf

LEMMA SibFinite ==
    ASSUME NEW o, NEW i, NEW k \in Nat
    PROVE  /\ IsFiniteSet(Sib(o, i, k))
           /\ Cardinality(Sib(o, i, k)) \in 0..k
<1>1. Sib(o, i, k) \in SUBSET (1..k)
  BY DEF Sib
<1>2. IsFiniteSet(1..k) /\ Cardinality(1..k) = k
  BY FS_Interval
<1>3. /\ IsFiniteSet(Sib(o, i, k))
      /\ Cardinality(Sib(o, i, k)) <= k
  BY <1>1, <1>2, FS_Subset
<1>4. Cardinality(Sib(o, i, k)) \in Nat
  BY <1>3, FS_CardinalityType
<1> QED
  BY <1>3, <1>4

(* A heading counts for its own level, ends the count of lower ones, and   *)
(* leaves the higher ones alone; one that is not listed counts for none.   *)
LEMMA SibAppend ==
    ASSUME NEW o \in Outlines,
           NEW e \in Entry,
           NEW i \in 1..6
    PROVE  /\ \A k \in 0..Len(o) : Sib(Append(o, e), i, k) = Sib(o, i, k)
           /\ ~e.listed \/ i < e.level =>
                Sib(Append(o, e), i, Len(o) + 1) = Sib(o, i, Len(o))
           /\ e.listed /\ i = e.level =>
                Sib(Append(o, e), i, Len(o) + 1) = Sib(o, i, Len(o)) \cup {Len(o) + 1}
           /\ e.listed /\ i > e.level =>
                Sib(Append(o, e), i, Len(o) + 1) = {}
<1> DEFINE p == Append(o, e)
           n == Len(o)
<1>1. n \in Nat /\ p[n + 1] = e /\ \A j \in 1..n : p[j] = o[j]
  BY AppendProperties DEF Outlines
<1>2. e.level \in 1..6 /\ e.listed \in BOOLEAN
  BY DEF Entry
<1> HIDE DEF p, n
<1>3. ASSUME NEW k \in 0..n PROVE Sib(p, i, k) = Sib(o, i, k)
  BY <1>1 DEF Sib
<1>4. ASSUME ~e.listed \/ i < e.level
      PROVE  Sib(p, i, n + 1) = Sib(o, i, n)
  <2>1. ASSUME NEW j \in Sib(p, i, n + 1) PROVE j \in Sib(o, i, n)
    <3>1. j # n + 1
      BY <1>1, <1>2, <1>4, <2>1 DEF Sib
    <3> QED
      BY <1>1, <2>1, <3>1 DEF Sib
  <2>2. ASSUME NEW j \in Sib(o, i, n) PROVE j \in Sib(p, i, n + 1)
    <3>1. j \in 1..n /\ p[j].listed /\ p[j].level = i
      BY <1>1, <2>2 DEF Sib
    <3>2. ASSUME NEW h \in (j + 1)..(n + 1), p[h].listed PROVE p[h].level >= i
      <4>1. CASE h = n + 1
        BY <1>1, <1>2, <1>4, <3>2, <4>1
      <4>2. CASE h # n + 1
        BY <1>1, <2>2, <3>1, <3>2, <4>2 DEF Sib
      <4> QED
        BY <4>1, <4>2
    <3> QED
      BY <1>1, <3>1, <3>2 DEF Sib
  <2> QED
    BY <2>1, <2>2
<1>5. ASSUME e.listed, i = e.level
      PROVE  Sib(p, i, n + 1) = Sib(o, i, n) \cup {n + 1}
  <2>1. ASSUME NEW j \in Sib(p, i, n + 1), j # n + 1 PROVE j \in Sib(o, i, n)
    BY <1>1, <2>1 DEF Sib
  <2>2. n + 1 \in Sib(p, i, n + 1)
    BY <1>1, <1>5 DEF Sib
  <2>3. ASSUME NEW j \in Sib(o, i, n) PROVE j \in Sib(p, i, n + 1)
    <3>1. j \in 1..n /\ p[j].listed /\ p[j].level = i
      BY <1>1, <2>3 DEF Sib
    <3>2. ASSUME NEW h \in (j + 1)..(n + 1), p[h].listed PROVE p[h].level >= i
      <4>1. CASE h = n + 1
        BY <1>1, <1>2, <1>5, <4>1
      <4>2. CASE h # n + 1
        BY <1>1, <2>3, <3>1, <3>2, <4>2 DEF Sib
      <4> QED
        BY <4>1, <4>2
    <3> QED
      BY <1>1, <3>1, <3>2 DEF Sib
  <2> QED
    BY <2>1, <2>2, <2>3
<1>6. ASSUME e.listed, i > e.level
      PROVE  Sib(p, i, n + 1) = {}
  <2>1. ASSUME NEW j \in Sib(p, i, n + 1) PROVE FALSE
    <3>1. j \in 1..(n + 1) /\ p[j].level = i
      BY <2>1 DEF Sib
    <3>2. j # n + 1
      BY <1>1, <1>2, <1>6, <3>1
    <3>3. n + 1 \in (j + 1)..(n + 1)
      BY <1>1, <3>1, <3>2
    <3> QED
      BY <1>1, <1>2, <1>6, <2>1, <3>3 DEF Sib
  <2> QED
    BY <2>1
<1> QED
  BY <1>3, <1>4, <1>5, <1>6 DEF p, n

(* Nothing but lower headings behind the k-th one: its siblings stay.      *)
LEMMA SibBehind ==
    ASSUME NEW o, NEW n \in Nat, NEW k \in 0..n, NEW i \in Nat,
           \A j \in (k + 1)..n : o[j].listed => o[j].level \in Nat /\ o[j].level > i
    PROVE  Sib(o, i, n) = Sib(o, i, k)
<1>1. ASSUME NEW j \in Sib(o, i, n) PROVE j \in Sib(o, i, k)
  <2>1. j \in 1..n /\ o[j].listed /\ o[j].level = i
    BY <1>1 DEF Sib
  <2>2. j \notin (k + 1)..n
    BY <2>1
  <2> QED
    BY <1>1, <2>1, <2>2 DEF Sib
<1>2. ASSUME NEW j \in Sib(o, i, k) PROVE j \in Sib(o, i, n)
  <2>1. j \in 1..k /\ o[j].listed /\ o[j].level = i
    BY <1>2 DEF Sib
  <2>2. ASSUME NEW h \in (j + 1)..n, o[h].listed PROVE o[h].level >= i
    <3>1. CASE h \in (j + 1)..k
      BY <1>2, <2>2, <3>1 DEF Sib
    <3>2. CASE h \in (k + 1)..n
      BY <2>2, <3>2
    <3> QED
      BY <2>1, <3>1, <3>2
  <2> QED
    BY <2>1, <2>2 DEF Sib
<1> QED
  BY <1>1, <1>2

(* What a number is made of.                                               *)
LEMMA NumberParts ==
    ASSUME NEW s \in [1..6 -> Nat], NEW level \in 1..6
    PROVE  /\ SubSeq(s, 2, level) \in Seq(Nat)
           /\ Len(SubSeq(s, 2, level)) = level - 1
           /\ \A i \in 2..level : SubSeq(s, 2, level)[i - 1] = s[i]
<1>1. \A i \in 2..level : s[i] \in Nat
  OBVIOUS
<1>2. 2 \in Int /\ level \in Int
  OBVIOUS
<1>3. /\ SubSeq(s, 2, level) \in Seq(Nat)
      /\ Len(SubSeq(s, 2, level)) = IF 2 <= level THEN level - 2 + 1 ELSE 0
      /\ \A i \in 1..(level - 2 + 1) : SubSeq(s, 2, level)[i] = s[2 + i - 1]
  BY <1>1, <1>2, SubSeqProperties
<1>4. ASSUME NEW i \in 2..level PROVE SubSeq(s, 2, level)[i - 1] = s[i]
  <2>1. i - 1 \in 1..(level - 2 + 1) /\ 2 + (i - 1) - 1 = i
    OBVIOUS
  <2> QED
    BY <1>3, <2>1
<1>5. (IF 2 <= level THEN level - 2 + 1 ELSE 0) = level - 1
  OBVIOUS
<1> QED
  BY <1>3, <1>4, <1>5

LEMMA SameNumber ==
    ASSUME NEW s \in [1..6 -> Nat], NEW t \in [1..6 -> Nat], NEW level \in 1..6,
           \A i \in 2..level : s[i] = t[i]
    PROVE  SubSeq(s, 2, level) = SubSeq(t, 2, level)
<1> DEFINE u == SubSeq(s, 2, level)
           v == SubSeq(t, 2, level)
<1>1. /\ u \in Seq(Nat) /\ v \in Seq(Nat)
      /\ Len(u) = level - 1 /\ Len(v) = level - 1
      /\ \A i \in 2..level : u[i - 1] = s[i] /\ v[i - 1] = t[i]
  BY NumberParts
<1> HIDE DEF u, v
<1>2. ASSUME NEW j \in 1..Len(u) PROVE u[j] = v[j]
  <2>1. j + 1 \in 2..level /\ (j + 1) - 1 = j
    BY <1>1
  <2> QED
    BY <1>1, <2>1
<1>3. u = v
  BY <1>1, <1>2, SeqEqual
<1> QED
  BY <1>3 DEF u, v

LEMMA CountsTyped ==
    ASSUME NEW o, NEW k \in Nat
    PROVE  [i \in 1..6 |-> Cardinality(Sib(o, i, k))] \in [1..6 -> Nat]
  BY SibFinite

-----------------------------------------------------------------------------
(* Steps.                                                                  *)

LEMMA Quiet ==
    ASSUME NumberInv, UNCHANGED <<counters, calls, written, outline>>
    PROVE  NumberInv'
<1>1. \A w \in written : H!Undisturbed(w.of)' <=> H!Undisturbed(w.of)
  BY DEF H!Undisturbed
<1>2. \A k : H!NumberOf(k)' = H!NumberOf(k)
  BY DEF H!NumberOf, H!Siblings
<1>3. NumberTypes' /\ CountersCount' /\ OpenAround'
  BY DEF NumberInv, NumberTypes, CountersCount, OpenAround
<1> QED
  BY <1>1, <1>2, <1>3 DEF NumberInv, WrittenNumbers, H!Undisturbed

LEMMA BeginStep == NumberInv /\ H!Begin => NumberInv'
<1> SUFFICES ASSUME NumberInv, H!Begin PROVE NumberInv'
  OBVIOUS
<1> DEFINE n == Len(outline)
<1>1. /\ outline \in Outlines /\ n \in Nat /\ n < MaxHeadings
      /\ calls \in Splices /\ DOMAIN outline = 1..n
      /\ counters \in [1..6 -> Nat]
  BY DEF NumberInv, NumberTypes, H!Begin, Outlines
<1>2. PICK level \in Levels, listed, given \in BOOLEAN :
        /\ counters' = IF listed THEN H!Raised(level) ELSE counters
        /\ calls' = Append(calls,
               [at |-> n + 1, level |-> level, listed |-> listed,
                pass |-> IF given THEN "content" ELSE "id"])
        /\ outline' = Append(outline,
               [level |-> level, listed |-> listed,
                around |-> {calls[i].at : i \in DOMAIN calls}])
  BY DEF H!Begin
<1> DEFINE call == [at |-> n + 1, level |-> level, listed |-> listed,
                    pass |-> IF given THEN "content" ELSE "id"]
           e == [level |-> level, listed |-> listed,
                 around |-> {calls[i].at : i \in DOMAIN calls}]
<1>3. level \in 1..6 /\ written' = written
  BY HeadingsAssumption DEF H!Begin
<1>4. call \in Splice
  BY <1>1, <1>3 DEF Splice
<1>5. e \in Entry
  <2>1. \A i \in DOMAIN calls : calls[i].at \in Nat
    <3>1. ASSUME NEW i \in DOMAIN calls PROVE calls[i].at \in Nat
      <4>1. calls[i].at \in 1..n
        BY <3>1 DEF NumberInv, NumberTypes
      <4> QED
        BY <4>1
    <3> QED
      BY <3>1
  <2> QED
    BY <1>3, <2>1 DEF Entry
<1>6. /\ call.at = n + 1 /\ call.level = level /\ call.listed = listed
      /\ e.level = level /\ e.listed = listed
      /\ \A i \in DOMAIN calls : calls[i].at \in e.around
  OBVIOUS
<1>7. calls' = Append(calls, call) /\ outline' = Append(outline, e)
  BY <1>2
<1> HIDE DEF call, e
<1>8. /\ outline' \in Outlines /\ Len(outline') = n + 1
      /\ \A j \in 1..n : outline'[j] = outline[j]
      /\ outline'[n + 1] = e
  BY <1>1, <1>5, <1>7, AppendProperties DEF Outlines
<1>9. /\ calls' \in Splices /\ Len(calls') = Len(calls) + 1
      /\ \A c \in 1..Len(calls) : calls'[c] = calls[c]
      /\ calls'[Len(calls) + 1] = call
      /\ DOMAIN calls = 1..Len(calls) /\ DOMAIN calls' = 1..(Len(calls) + 1)
      /\ Len(calls) \in Nat
  BY <1>1, <1>4, <1>7, AppendProperties DEF Splices
<1>10. NumberTypes'
  <2>1. counters' \in [1..6 -> Nat]
    <3>1. H!Raised(level) \in [1..6 -> Nat]
      <4>1. ASSUME NEW i \in 1..6
            PROVE  (IF i = level THEN counters[i] + 1
                    ELSE IF i > level THEN 0 ELSE counters[i]) \in Nat
        <5>1. counters[i] \in Nat
          BY <1>1
        <5> QED
          BY <5>1
      <4> QED
        BY <4>1 DEF H!Raised
    <3> QED
      BY <1>1, <1>2, <3>1
  <2>2. Len(outline') <= MaxHeadings
    BY <1>1, <1>8, HeadingsAssumption
  <2>3. ASSUME NEW c \in 1..(Len(calls) + 1)
        PROVE  /\ calls'[c].at \in 1..(n + 1)
               /\ outline'[calls'[c].at].level = calls'[c].level
               /\ outline'[calls'[c].at].listed = calls'[c].listed
    <3>1. CASE c = Len(calls) + 1
      BY <1>1, <1>6, <1>8, <1>9, <3>1
    <3>2. CASE c \in 1..Len(calls)
      <4>1. /\ calls[c].at \in 1..n
            /\ outline[calls[c].at].level = calls[c].level
            /\ outline[calls[c].at].listed = calls[c].listed
        BY <1>9, <3>2 DEF NumberInv, NumberTypes
      <4>2. /\ calls'[c] = calls[c]
            /\ outline'[calls[c].at] = outline[calls[c].at]
        BY <1>8, <1>9, <3>2, <4>1
      <4> QED
        BY <1>1, <4>1, <4>2
    <3> QED
      BY <1>9, <3>1, <3>2
  <2> QED
    BY <1>8, <1>9, <2>1, <2>2, <2>3 DEF NumberTypes
<1>11. CountersCount'
  <2>1. ASSUME NEW i \in 1..6
        PROVE  counters'[i] = Cardinality(Sib(outline', i, n + 1))
    <3>1. /\ counters[i] = Cardinality(Sib(outline, i, n))
          /\ IsFiniteSet(Sib(outline, i, n))
      BY <1>1, SibFinite DEF NumberInv, CountersCount
    <3>2. /\ ~listed \/ i < level => Sib(outline', i, n + 1) = Sib(outline, i, n)
          /\ listed /\ i = level =>
                Sib(outline', i, n + 1) = Sib(outline, i, n) \cup {n + 1}
          /\ listed /\ i > level => Sib(outline', i, n + 1) = {}
      <4>1. /\ ~e.listed \/ i < e.level =>
                Sib(Append(outline, e), i, Len(outline) + 1) = Sib(outline, i, Len(outline))
            /\ e.listed /\ i = e.level =>
                Sib(Append(outline, e), i, Len(outline) + 1)
                    = Sib(outline, i, Len(outline)) \cup {Len(outline) + 1}
            /\ e.listed /\ i > e.level =>
                Sib(Append(outline, e), i, Len(outline) + 1) = {}
        BY <1>1, <1>5, SibAppend
      <4> QED
        BY <1>6, <1>7, <4>1
    <3>3. CASE ~listed \/ i < level
      <4>1. counters'[i] = counters[i]
        BY <1>2, <1>3, <3>3 DEF H!Raised
      <4> QED
        BY <3>1, <3>2, <3>3, <4>1
    <3>4. CASE listed /\ i = level
      <4>1. counters'[i] = counters[i] + 1
        BY <1>2, <1>3, <3>4 DEF H!Raised
      <4>2. n + 1 \notin Sib(outline, i, n)
        BY <1>1 DEF Sib
      <4>3. Cardinality(Sib(outline, i, n) \cup {n + 1}) = counters[i] + 1
        BY <3>1, <4>2, FS_AddElement
      <4>4. Sib(outline', i, n + 1) = Sib(outline, i, n) \cup {n + 1}
        BY <1>3, <3>2, <3>4
      <4> QED
        BY <4>1, <4>3, <4>4
    <3>5. CASE listed /\ i > level
      <4>1. counters'[i] = 0
        BY <1>2, <1>3, <3>5 DEF H!Raised
      <4>2. Sib(outline', i, n + 1) = {}
        BY <1>3, <3>2, <3>5
      <4> QED
        BY <4>1, <4>2, FS_EmptySet
    <3> QED
      BY <1>3, <3>3, <3>4, <3>5
  <2> QED
    BY <1>8, <2>1 DEF CountersCount
<1>12. OpenAround'
  <2>1. ASSUME NEW c \in 1..(Len(calls) + 1), NEW j \in (calls'[c].at + 1)..(n + 1)
        PROVE  calls'[c].at \in outline'[j].around
    <3>1. CASE c = Len(calls) + 1
      BY <1>1, <1>6, <1>9, <2>1, <3>1
    <3>2. CASE c \in 1..Len(calls)
      <4>1. calls'[c] = calls[c] /\ calls[c].at \in 1..n /\ c \in DOMAIN calls
        BY <1>9, <3>2 DEF NumberInv, NumberTypes
      <4>2. CASE j = n + 1
        BY <1>6, <1>8, <4>1, <4>2
      <4>3. CASE j # n + 1
        <5>1. j \in (calls[c].at + 1)..n /\ j \in 1..n
          <6>1. \A b \in Nat : \A a \in 1..b : \A c2 \in (a + 1)..(b + 1) :
                  c2 # b + 1 => c2 \in (a + 1)..b /\ c2 \in 1..b
            OBVIOUS
          <6>2. j \in (calls[c].at + 1)..(n + 1)
            BY <2>1, <4>1
          <6> QED
            BY <1>1, <4>1, <4>3, <6>1, <6>2, Zenon
        <5>2. calls[c].at \in outline[j].around
          BY <4>1, <5>1 DEF NumberInv, OpenAround
        <5> QED
          BY <1>8, <4>1, <5>1, <5>2
      <4> QED
        BY <4>2, <4>3
    <3> QED
      BY <1>9, <3>1, <3>2
  <2> QED
    BY <1>8, <1>9, <2>1 DEF OpenAround
<1>13. WrittenNumbers'
  <2>1. ASSUME NEW w \in written
        PROVE  /\ w.of \in 1..(n + 1)
               /\ outline'[w.of].listed
               /\ H!Undisturbed(w.of)' => w.number = H!NumberOf(w.of)'
    <3> DEFINE k == w.of
    <3>1. /\ k \in 1..n /\ outline[k].listed
          /\ H!Undisturbed(k) => w.number = H!NumberOf(k)
      BY <2>1 DEF NumberInv, WrittenNumbers
    <3> HIDE DEF k
    <3>2. outline'[k] = outline[k] /\ k \in 1..(n + 1)
      BY <1>1, <1>8, <3>1
    <3>3. H!Undisturbed(k)' => H!Undisturbed(k)
      <4>1. DOMAIN outline' = 1..(n + 1)
        BY <1>8 DEF Outlines
      <4> QED
        BY <1>1, <1>8, <3>2, <4>1 DEF H!Undisturbed
    <3>4. H!NumberOf(k)' = H!NumberOf(k)
      <4>1. ASSUME NEW i \in 1..6
            PROVE  Cardinality(Sib(outline', i, k)) = Cardinality(Sib(outline, i, k))
        <5>1. k \in 0..n
          BY <1>1, <3>1
        <5>2. Sib(Append(outline, e), i, k) = Sib(outline, i, k)
          BY <1>1, <1>5, <5>1, SibAppend
        <5> QED
          BY <1>7, <5>2
      <4>2. \A i : H!Siblings(i, k)' = Sib(outline', i, k)
        BY DEF H!Siblings, Sib
      <4>3. H!NumberOf(k)' =
              SubSeq([i \in 1..6 |-> Cardinality(Sib(outline', i, k))], 2,
                     outline'[k].level)
        BY <4>2, CountSame DEF H!NumberOf
      <4> QED
        BY <3>2, <4>1, <4>3, NumberIs
    <3> QED
      BY <3>1, <3>2, <3>3, <3>4 DEF k
  <2> QED
    BY <1>3, <1>8, <2>1 DEF WrittenNumbers, H!Undisturbed
<1> QED
  BY <1>10, <1>11, <1>12, <1>13 DEF NumberInv

(* The calls but the topmost one.                                          *)
LEMMA OuterCalls ==
    ASSUME NumberInv, calls # <<>>
    PROVE  /\ Len(calls) \in Nat \ {0}
           /\ DOMAIN calls = 1..Len(calls)
           /\ H!Outer \in Splices
           /\ Len(H!Outer) = Len(calls) - 1
           /\ \A c \in 1..(Len(calls) - 1) : H!Outer[c] = calls[c]
<1>1. calls \in Splices /\ Len(calls) \in Nat \ {0} /\ DOMAIN calls = 1..Len(calls)
  BY DEF NumberInv, NumberTypes, Splices
<1>2. \A c \in 1..(Len(calls) - 1) :
        calls[c] \in Splice
  BY <1>1, SpliceTyped
<1>3. 1 \in Int /\ Len(calls) - 1 \in Int
  BY <1>1
<1>4. /\ H!Outer \in Splices
      /\ Len(H!Outer) = IF 1 <= Len(calls) - 1 THEN Len(calls) - 1 - 1 + 1 ELSE 0
      /\ \A c \in 1..(Len(calls) - 1 - 1 + 1) : H!Outer[c] = calls[1 + c - 1]
  BY <1>2, <1>3, SubSeqProperties DEF H!Outer, Splices
<1>5. (IF 1 <= Len(calls) - 1 THEN Len(calls) - 1 - 1 + 1 ELSE 0) = Len(calls) - 1
  BY <1>1
<1>6. ASSUME NEW c \in 1..(Len(calls) - 1) PROVE H!Outer[c] = calls[c]
  <2>1. c \in 1..(Len(calls) - 1 - 1 + 1) /\ 1 + c - 1 = c
    BY <1>1
  <2> QED
    BY <1>4, <2>1
<1> QED
  BY <1>1, <1>4, <1>5, <1>6

(* Calls may go, or change in what is not about their heading.             *)
LEMMA CallsStep ==
    ASSUME NumberInv, UNCHANGED <<counters, outline>>,
           calls' \in Splices,
           \A c \in DOMAIN calls' :
                /\ c \in DOMAIN calls
                /\ calls'[c].at = calls[c].at
                /\ calls'[c].level = calls[c].level
                /\ calls'[c].listed = calls[c].listed
    PROVE  NumberTypes' /\ CountersCount' /\ OpenAround'
<1>1. NumberTypes'
  BY DEF NumberInv, NumberTypes
<1>2. CountersCount'
  BY DEF NumberInv, CountersCount
<1>3. ASSUME NEW c \in DOMAIN calls', NEW j \in (calls'[c].at + 1)..Len(outline)
      PROVE  calls'[c].at \in outline[j].around
  BY <1>3 DEF NumberInv, OpenAround
<1>4. OpenAround'
  BY <1>3 DEF OpenAround
<1> QED
  BY <1>1, <1>2, <1>4

(* The outline stays: what the numbers are to be does, too.                *)
LEMMA OutlineStays ==
    ASSUME UNCHANGED outline, NEW k
    PROVE  H!NumberOf(k)' = H!NumberOf(k) /\ (H!Undisturbed(k)' <=> H!Undisturbed(k))
  BY DEF H!NumberOf, H!Siblings, H!Undisturbed

LEMMA WrittenKept ==
    ASSUME NumberInv, UNCHANGED <<written, outline>>
    PROVE  WrittenNumbers'
  BY OutlineStays DEF NumberInv, WrittenNumbers

LEMMA MakeIdStep == NumberInv /\ H!MakeId => NumberInv'
<1> SUFFICES ASSUME NumberInv, H!MakeId PROVE NumberInv'
  OBVIOUS
<1> DEFINE n == Len(calls)
           top == [H!Call EXCEPT !.pass = "content"]
<1>1. /\ calls # <<>> /\ calls' = Append(H!Outer, top)
      /\ UNCHANGED <<counters, written, outline>>
  BY DEF H!MakeId
<1>2. /\ n \in Nat \ {0} /\ DOMAIN calls = 1..n
      /\ H!Outer \in Splices /\ Len(H!Outer) = n - 1
      /\ \A c \in 1..(n - 1) : H!Outer[c] = calls[c]
  BY <1>1, OuterCalls
<1>3. calls[n] \in Splice
  BY <1>2, SpliceTyped DEF NumberInv, NumberTypes
<1>4. /\ top \in Splice
      /\ top.at = calls[n].at /\ top.level = calls[n].level
      /\ top.listed = calls[n].listed
  BY <1>3 DEF H!Call, Splice
<1> HIDE DEF top, n
<1>5. /\ calls' \in Splices /\ Len(calls') = n
      /\ \A c \in 1..(n - 1) : calls'[c] = calls[c]
      /\ calls'[n] = top
      /\ DOMAIN calls' = 1..n
  <2>1. /\ Append(H!Outer, top) \in Splices
        /\ Len(Append(H!Outer, top)) = Len(H!Outer) + 1
        /\ \A c \in 1..Len(H!Outer) : Append(H!Outer, top)[c] = H!Outer[c]
        /\ Append(H!Outer, top)[Len(H!Outer) + 1] = top
    BY <1>2, <1>4, AppendProperties DEF Splices
  <2>2. (n - 1) + 1 = n
    BY <1>2
  <2>3. /\ calls' \in Splices /\ Len(calls') = n
        /\ \A c \in 1..(n - 1) : calls'[c] = calls[c]
        /\ calls'[n] = top
    BY <1>1, <1>2, <2>1, <2>2
  <2> QED
    BY <2>3 DEF Splices
<1>6. ASSUME NEW c \in DOMAIN calls'
      PROVE  /\ c \in DOMAIN calls
             /\ calls'[c].at = calls[c].at
             /\ calls'[c].level = calls[c].level
             /\ calls'[c].listed = calls[c].listed
  <2>1. c = n \/ c \in 1..(n - 1)
    BY <1>2, <1>5
  <2> QED
    BY <1>2, <1>4, <1>5, <2>1
<1>7. NumberTypes' /\ CountersCount' /\ OpenAround'
  BY <1>1, <1>5, <1>6, CallsStep
<1> QED
  BY <1>1, <1>7, WrittenKept DEF NumberInv

(* What is written: the counters have moved on, but only below the level   *)
(* of the heading, unless it is disturbed.                                 *)
LEMMA EndStep == NumberInv /\ H!End => NumberInv'
<1> SUFFICES ASSUME NumberInv, H!End PROVE NumberInv'
  OBVIOUS
<1> DEFINE n == Len(calls)
           k == H!Call.at
           level == H!Call.level
           this == [of |-> k, number |-> H!Number(level)]
<1>1. /\ calls # <<>> /\ calls' = H!Outer
      /\ UNCHANGED <<counters, outline>>
      /\ written' = IF H!Call.listed THEN written \cup {this} ELSE written
  BY DEF H!End
<1>2. /\ n \in Nat \ {0} /\ DOMAIN calls = 1..n
      /\ H!Outer \in Splices /\ Len(H!Outer) = n - 1
      /\ \A c \in 1..(n - 1) : H!Outer[c] = calls[c]
  BY <1>1, OuterCalls
<1>3. DOMAIN calls' = 1..(n - 1)
  BY <1>1, <1>2 DEF Splices
<1>4. \A c \in DOMAIN calls' :
                /\ c \in DOMAIN calls
                /\ calls'[c].at = calls[c].at
                /\ calls'[c].level = calls[c].level
                /\ calls'[c].listed = calls[c].listed
  BY <1>1, <1>2, <1>3
<1>5. NumberTypes' /\ CountersCount' /\ OpenAround'
  BY <1>1, <1>2, <1>4, CallsStep
<1>6. /\ k \in 1..Len(outline) /\ outline[k].level = level
      /\ outline[k].listed = H!Call.listed
      /\ \A j \in (k + 1)..Len(outline) : k \in outline[j].around
  <2>1. n \in DOMAIN calls
    BY <1>2
  <2>2. H!Call = calls[n]
    BY DEF H!Call
  <2> QED
    BY <2>1, <2>2 DEF NumberInv, NumberTypes, OpenAround
<1>7. /\ outline \in Outlines /\ Len(outline) \in Nat
      /\ DOMAIN outline = 1..Len(outline)
      /\ counters \in [1..6 -> Nat]
  BY DEF NumberInv, NumberTypes, Outlines
<1>8. level \in 1..6
  BY <1>6, <1>7, EntryTyped
<1>9. this.of = k /\ this.number = H!Number(level)
  OBVIOUS
<1> HIDE DEF k, level, this
<1>10. ASSUME H!Undisturbed(k) PROVE H!Number(level) = H!NumberOf(k)
  <2>1. \A j \in (k + 1)..Len(outline) :
            outline[j].listed => outline[j].level \in Nat /\ outline[j].level > level
    <3>1. ASSUME NEW j \in (k + 1)..Len(outline), outline[j].listed
          PROVE  outline[j].level \in Nat /\ outline[j].level > level
      <4>1. j \in 1..Len(outline)
        BY <1>6, <1>7
      <4>2. outline[j].level > level
        BY <1>6, <1>7, <1>10, <3>1, <4>1 DEF H!Undisturbed
      <4>3. outline[j].level \in 1..6
        BY <1>7, <4>1, EntryTyped
      <4> QED
        BY <4>2, <4>3
    <3> QED
      BY <3>1
  <2>2. ASSUME NEW i \in 2..level
        PROVE  counters[i] = Cardinality(Sib(outline, i, k))
    <3>1. i \in 1..6 /\ i \in Nat /\ i <= level
      BY <1>8
    <3>2. counters[i] = Cardinality(Sib(outline, i, Len(outline)))
      BY <3>1 DEF NumberInv, CountersCount
    <3>3. \A j \in (k + 1)..Len(outline) :
            outline[j].listed => outline[j].level \in Nat /\ outline[j].level > i
      BY <1>8, <2>1, <3>1
    <3>4. k \in 0..Len(outline)
      BY <1>6
    <3>5. Sib(outline, i, Len(outline)) = Sib(outline, i, k)
      BY <1>7, <3>1, <3>3, <3>4, SibBehind
    <3> QED
      BY <3>2, <3>5
  <2> DEFINE t == [i \in 1..6 |-> Cardinality(Sib(outline, i, k))]
  <2>3. t \in [1..6 -> Nat]
    <3>1. k \in Nat
      BY <1>6, <1>7
    <3> QED
      BY <3>1, CountsTyped
  <2>4. \A i \in 2..level : counters[i] = t[i]
    BY <1>8, <2>2
  <2> HIDE DEF t
  <2>5. SubSeq(counters, 2, level) = SubSeq(t, 2, level)
    BY <1>7, <1>8, <2>3, <2>4, SameNumber
  <2>6. H!NumberOf(k) = SubSeq(t, 2, level)
    BY <1>6, NumberIs DEF t
  <2> QED
    BY <2>5, <2>6 DEF H!Number
<1>11. ASSUME NEW w \in written'
       PROVE  /\ w.of \in 1..Len(outline)
              /\ outline[w.of].listed
              /\ H!Undisturbed(w.of) => w.number = H!NumberOf(w.of)
  <2>1. CASE w \in written
    BY <2>1 DEF NumberInv, WrittenNumbers
  <2>2. CASE w = this /\ H!Call.listed
    BY <1>6, <1>9, <1>10, <2>2
  <2> QED
    BY <1>1, <2>1, <2>2
<1>12. WrittenNumbers'
  BY <1>1, <1>11, OutlineStays DEF WrittenNumbers
<1> QED
  BY <1>5, <1>12 DEF NumberInv

LEMMA EmptyOutline ==
    ASSUME counters = H!Zero, calls = <<>>, written = {}, outline = <<>>
    PROVE  NumberInv
<1>1. counters \in [1..6 -> Nat] /\ \A i \in 1..6 : counters[i] = 0
  BY DEF H!Zero
<1>2. \A i : Sib(outline, i, Len(outline)) = {}
  BY DEF Sib
<1>3. NumberTypes
  BY <1>1, HeadingsAssumption DEF NumberTypes, Outlines, Splices
<1>4. CountersCount
  BY <1>1, <1>2, FS_EmptySet DEF CountersCount
<1>5. OpenAround /\ WrittenNumbers
  BY DEF OpenAround, WrittenNumbers
<1> QED
  BY <1>3, <1>4, <1>5 DEF NumberInv

LEMMA NextDocumentStep == H!NextDocument => NumberInv'
<1> SUFFICES ASSUME H!NextDocument PROVE NumberInv'
  OBVIOUS
<1>0. /\ counters' = H!Zero /\ calls' = <<>> /\ written' = {} /\ outline' = <<>>
  BY DEF H!NextDocument
<1>1. counters' \in [1..6 -> Nat] /\ \A i \in 1..6 : counters'[i] = 0
  BY <1>0 DEF H!Zero
<1>2. \A i : Sib(outline', i, Len(outline')) = {}
  BY <1>0 DEF Sib
<1>3. NumberTypes'
  BY <1>0, <1>1, HeadingsAssumption DEF NumberTypes, Outlines, Splices
<1>4. CountersCount'
  BY <1>1, <1>2, FS_EmptySet DEF CountersCount
<1>5. OpenAround' /\ WrittenNumbers'
  BY <1>0 DEF OpenAround, WrittenNumbers
<1> QED
  BY <1>3, <1>4, <1>5 DEF NumberInv

-----------------------------------------------------------------------------
(* Different headings, different numbers: of the levels between two        *)
(* headings, the highest one has got one more sibling.                     *)
LEMMA NumbersDiffer ==
    ASSUME NumberInv, H!NoListedTitle,
           NEW k \in 1..Len(outline), NEW l \in 1..Len(outline), k < l,
           outline[k].listed, outline[l].listed
    PROVE  H!NumberOf(k) # H!NumberOf(l)
<1>1. /\ outline \in Outlines /\ Len(outline) \in Nat
      /\ DOMAIN outline = 1..Len(outline)
  BY DEF NumberInv, NumberTypes, Outlines
<1>2. \A j \in 1..Len(outline) : outline[j].level \in 1..6
  BY <1>1, EntryTyped
<1> DEFINE s == [i \in 1..6 |-> Cardinality(Sib(outline, i, k))]
           t == [i \in 1..6 |-> Cardinality(Sib(outline, i, l))]
           a == outline[k].level
           b == outline[l].level
<1>3. s \in [1..6 -> Nat] /\ t \in [1..6 -> Nat]
  BY <1>1, CountsTyped
<1>4. a \in 2..6 /\ b \in 2..6
  BY <1>1, <1>2 DEF H!NoListedTitle
<1>5. H!NumberOf(k) = SubSeq(s, 2, a) /\ H!NumberOf(l) = SubSeq(t, 2, b)
  BY NumberIs
<1> DEFINE T == {i \in 1..6 : \E j \in (k + 1)..l : outline[j].listed /\ outline[j].level = i}
<1>6. PICK m \in T : \A i \in T : m <= i
  <2>1. b \in T
    BY <1>1, <1>4
  <2>2. T # {} /\ T \subseteq Nat
    <3>1. T \subseteq 1..6
      OBVIOUS
    <3>2. 1..6 \subseteq Nat
      OBVIOUS
    <3> HIDE DEF T
    <3> QED
      BY <2>1, <3>1, <3>2
  <2> HIDE DEF T
  <2>3. PICK m \in T : \A i \in T : <<i, m>> \notin OpToRel(<, Nat)
    BY <2>2, NatLessThanWellFounded, WFMin
  <2>4. ASSUME NEW i \in T PROVE m <= i
    <3>1. i \in Nat /\ m \in Nat
      BY <2>2
    <3>2. ~(i < m)
      BY <2>3, <3>1 DEF OpToRel
    <3> QED
      BY <3>1, <3>2
  <2> QED
    BY <2>4
<1>7. m \in 2..b
  <2>1. m \in 1..6 /\ m <= b
    BY <1>1, <1>4, <1>6
  <2>2. PICK j \in (k + 1)..l : outline[j].listed /\ outline[j].level = m
    BY <1>6
  <2>3. m > 1
    BY <1>1, <2>2 DEF H!NoListedTitle
  <2> QED
    BY <1>4, <2>1, <2>3
<1>8. \A j \in (k + 1)..l : outline[j].listed => outline[j].level >= m
  BY <1>1, <1>2, <1>6, <1>7
<1>9. s[m] < t[m]
  <2> DEFINE S1 == Sib(outline, m, k)
             S2 == Sib(outline, m, l)
  <2>1. S1 \subseteq S2
    <3>1. ASSUME NEW j \in S1 PROVE j \in S2
      <4>1. j \in 1..k /\ outline[j].listed /\ outline[j].level = m
        BY <3>1 DEF Sib
      <4>2. ASSUME NEW h \in (j + 1)..l, outline[h].listed PROVE outline[h].level >= m
        <5>1. CASE h \in (j + 1)..k
          BY <3>1, <4>2, <5>1 DEF Sib
        <5>2. CASE h \in (k + 1)..l
          BY <1>8, <4>2, <5>2
        <5> QED
          BY <1>1, <4>1, <5>1, <5>2
      <4>3. j \in 1..l
        BY <1>1, <4>1
      <4> QED
        BY <4>1, <4>2, <4>3 DEF Sib
    <3> QED
      BY <3>1
  <2>2. \E j \in S2 : j \notin S1
    <3>1. PICK j \in (k + 1)..l : outline[j].listed /\ outline[j].level = m
      BY <1>6
    <3>2. j \in 1..l /\ j \notin 1..k
      BY <1>1
    <3>3. \A h \in (j + 1)..l : outline[h].listed => outline[h].level >= m
      BY <1>1, <1>8
    <3> QED
      BY <3>1, <3>2, <3>3 DEF Sib
  <2>3. /\ IsFiniteSet(S2)
        /\ Cardinality(S1) \in Nat /\ Cardinality(S2) \in Nat
    BY <1>1, SibFinite
  <2> HIDE DEF S1, S2
  <2>4. Cardinality(S1) <= Cardinality(S2) /\ Cardinality(S1) # Cardinality(S2)
    BY <2>1, <2>2, <2>3, FS_Subset
  <2>5. Cardinality(S1) < Cardinality(S2)
    BY <2>3, <2>4
  <2>6. s[m] = Cardinality(S1) /\ t[m] = Cardinality(S2)
    BY <1>4, <1>7 DEF S1, S2
  <2> QED
    BY <2>5, <2>6
<1> HIDE DEF s, t, a, b, T
<1>10. /\ Len(SubSeq(s, 2, a)) = a - 1 /\ Len(SubSeq(t, 2, b)) = b - 1
       /\ \A i \in 2..a : SubSeq(s, 2, a)[i - 1] = s[i]
       /\ \A i \in 2..b : SubSeq(t, 2, b)[i - 1] = t[i]
  <2>1. a \in 1..6 /\ b \in 1..6
    BY <1>4
  <2> QED
    BY <1>3, <2>1, NumberParts
<1>11. ASSUME SubSeq(s, 2, a) = SubSeq(t, 2, b) PROVE FALSE
  <2>1. a = b
    BY <1>4, <1>10, <1>11
  <2>2. s[m] = t[m]
    BY <1>7, <1>10, <1>11, <2>1
  <2>3. s[m] \in Nat /\ t[m] \in Nat
    <3>1. m \in 1..6
      BY <1>4, <1>7
    <3> QED
      BY <1>3, <3>1
  <2> QED
    BY <1>9, <2>2, <2>3
<1> QED
  BY <1>5, <1>11

-----------------------------------------------------------------------------
LEMMA NumberStep == NumberInv /\ [MCNext]_<<component, vars, numbers>> => NumberInv'
<1> SUFFICES ASSUME NumberInv, [MCNext]_<<component, vars, numbers>>
             PROVE  NumberInv'
  OBVIOUS
<1>1. CASE UNCHANGED numbers
  BY <1>1, Quiet DEF numbers
<1>2. CASE H!Next
  BY <1>2, BeginStep, MakeIdStep, EndStep, NextDocumentStep DEF H!Next
<1> QED
  BY <1>1, <1>2 DEF MCNext, Assemble, Enumerate

LEMMA NumbersTell == NumberInv => NumbersTellThePlace
<1> SUFFICES ASSUME NumberInv PROVE NumbersTellThePlace
  OBVIOUS
<1>1. /\ outline \in Outlines /\ Len(outline) \in Nat
      /\ DOMAIN outline = 1..Len(outline)
      /\ Len(outline) <= MaxHeadings
  BY DEF NumberInv, NumberTypes, Outlines
<1>2. H!TypeOK
  <2>1. \A i \in 1..6 : counters[i] \in 0..MaxHeadings
    <3>1. ASSUME NEW i \in 1..6 PROVE counters[i] \in 0..MaxHeadings
      <4>1. counters[i] \in 0..Len(outline)
        BY <1>1, SibFinite DEF NumberInv, CountersCount
      <4> QED
        BY <1>1, <4>1, HeadingsAssumption
    <3> QED
      BY <3>1
  <2>2. counters \in [1..6 -> 0..MaxHeadings]
    BY <2>1 DEF NumberInv, NumberTypes
  <2>3. ASSUME NEW i \in DOMAIN calls
        PROVE  calls[i].at \in DOMAIN outline /\ calls[i].pass \in {"id", "content"}
    <3>1. calls \in Splices /\ DOMAIN calls = 1..Len(calls)
      BY DEF NumberInv, NumberTypes, Splices
    <3> QED
      BY <1>1, <2>3, <3>1, SpliceTyped DEF NumberInv, NumberTypes
  <2>4. \A w \in written : w.of \in DOMAIN outline
    BY <1>1 DEF NumberInv, WrittenNumbers
  <2> QED
    BY <2>2, <2>3, <2>4 DEF H!TypeOK
<1>3. \A w \in H!Counted :
        /\ w.of \in 1..Len(outline) /\ outline[w.of].listed
        /\ w.number = H!NumberOf(w.of)
  BY DEF NumberInv, WrittenNumbers, H!Counted
<1>4. ASSUME H!NoListedTitle, NEW v \in H!Counted, NEW w \in H!Counted, v.of # w.of
      PROVE  v.number # w.number
  <2>1. v.of < w.of \/ w.of < v.of
    BY <1>1, <1>3, <1>4
  <2>2. CASE v.of < w.of
    BY <1>3, <1>4, <2>2, NumbersDiffer
  <2>3. CASE w.of < v.of
    BY <1>3, <1>4, <2>3, NumbersDiffer
  <2> QED
    BY <2>1, <2>2, <2>3
<1> QED
  BY <1>2, <1>3, <1>4 DEF NumbersTellThePlace, H!NumbersTellThePlace

(* The number of a heading, wherever and however late it is written, is    *)
(* that of its place in the outline, and no two headings have the same     *)
(* (unless there are listed headings of level 1, or headings that hold one *)
(* of their own or of a higher level).                                     *)
THEOREM NumbersAreOfPlaces == MCSpec => []NumbersTellThePlace
<1>1. MCInit => NumberInv
  BY EmptyOutline DEF MCInit, H!Init
<1> QED
  BY <1>1, NumberStep, NumbersTell, PTL DEF MCSpec
=============================================================================
