----------------------------- MODULE OnceProofs -----------------------------
(***************************************************************************)
(* Proofs about what a page of DoxyJson has exactly once, for every        *)
(* document and configuration: the base and inner classes it lists, and    *)
(* its title, which is also what it starts with.                           *)
(*                                                                         *)
(* A text that is in one place of the document is sought.  Of what remains *)
(* to be done one item is hot, which leads to that place or prints the     *)
(* text, until it is printed, and the others are cold.                     *)
(***************************************************************************)
EXTENDS TextProofs

----------------------------------------------------------------------------
(* Sequences of items, one of which is to print a text *)

\* A text is sought.  An item is hot that prints it, now (if the pass prints
\* it) or later, and cold that does not: it says other texts, or is mute, one
\* that reaches the text and does not print it.
Hot(x, c, prints) ==
  \/ x \in c.hot
  \/ prints /\ HasText(x) /\ x.text = c.text
Cold(x, c) == Says(x, c.says, c.of) \/ x \in c.mute

IsSeq(s) == \E S : s \in Seq(S)

Calm(s, c) == IsSeq(s) /\ \A i \in 1 .. Len(s) : Cold(s[i], c)

Once(s, c, prints) ==
  /\ IsSeq(s)
  /\ \E k \in 1 .. Len(s) : /\ Hot(s[k], c, prints)
                            /\ \A i \in 1 .. Len(s) : i # k => Cold(s[i], c)

LEMMA SeqThen ==
  ASSUME NEW s, NEW t, IsSeq(s), IsSeq(t)
  PROVE  /\ IsSeq(s \o t) /\ Len(s) \in Nat /\ Len(t) \in Nat
         /\ Len(s \o t) = Len(s) + Len(t)
         /\ \A i \in 1 .. Len(s) : (s \o t)[i] = s[i]
         /\ \A i \in 1 .. Len(t) : (s \o t)[Len(s) + i] = t[i]
<1>1. PICK S : s \in Seq(S)
  BY DEF IsSeq
<1>2. PICK T : t \in Seq(T)
  BY DEF IsSeq
<1>3. s \in Seq(S \cup T) /\ t \in Seq(S \cup T)
  BY <1>1, <1>2
<1>4. s \o t \in Seq(S \cup T)
  BY <1>3
<1> QED
  BY <1>3, <1>4 DEF IsSeq

LEMMA SeqNext ==
  ASSUME NEW s, IsSeq(s), s # <<>>
  PROVE  /\ Len(s) \in Nat /\ Len(s) > 0 /\ Head(s) = s[1]
         /\ IsSeq(Tail(s)) /\ Len(Tail(s)) = Len(s) - 1
         /\ \A i \in 1 .. Len(s) - 1 : Tail(s)[i] = s[i + 1]
<1>1. PICK S : s \in Seq(S)
  BY DEF IsSeq
<1>2. Tail(s) \in Seq(S)
  BY <1>1
<1> QED
  BY <1>1, <1>2 DEF IsSeq

LEMMA SeqFew ==
  /\ IsSeq(<<>>) /\ Len(<<>>) = 0
  /\ \A x : IsSeq(<<x>>) /\ Len(<<x>>) = 1 /\ <<x>>[1] = x
  /\ \A x, y : /\ IsSeq(<<x, y>>) /\ Len(<<x, y>>) = 2
               /\ <<x, y>>[1] = x /\ <<x, y>>[2] = y
<1>1. IsSeq(<<>>)
  <2> DEFINE s == <<>>
  <2>1. s \in Seq({})
    OBVIOUS
  <2> HIDE DEF s
  <2>2. IsSeq(s)
    BY <2>1 DEF IsSeq
  <2> QED
    BY <2>2 DEF s
<1>2. ASSUME NEW x, NEW y  PROVE IsSeq(<<x>>) /\ IsSeq(<<x, y>>)
  <2> DEFINE a == <<x>>
             b == <<x, y>>
  <2>1. a \in Seq({x, y}) /\ b \in Seq({x, y})
    OBVIOUS
  <2> HIDE DEF a, b
  <2>2. IsSeq(a) /\ IsSeq(b)
    BY <2>1 DEF IsSeq
  <2> QED
    BY <2>2 DEF a, b
<1> QED
  BY <1>1, <1>2

LEMMA CalmSpeaks ==
  ASSUME NEW c
  PROVE  \A s : Speaks(s, c.says, c.of) => Calm(s, c)
<1> SUFFICES ASSUME NEW s, Speaks(s, c.says, c.of)  PROVE Calm(s, c)
  OBVIOUS
<1>1. PICK S : s \in Seq(S) /\ \A x \in S : Says(x, c.says, c.of)
  BY DEF Speaks
<1>2. \A i \in 1 .. Len(s) : s[i] \in S
  BY <1>1, ElementOfSeq
<1> QED
  BY <1>1, <1>2 DEF Calm, Cold, IsSeq

LEMMA CalmFew ==
  ASSUME NEW c
  PROVE  /\ Calm(<<>>, c)
         /\ \A x : Cold(x, c) => Calm(<<x>>, c)
         /\ \A x, y : Cold(x, c) /\ Cold(y, c) => Calm(<<x, y>>, c)
<1>1. Calm(<<>>, c)
  BY SeqFew DEF Calm
<1>2. ASSUME NEW x, Cold(x, c)  PROVE Calm(<<x>>, c)
  <2>1. PICK s : s = <<x>>
    OBVIOUS
  <2>2. IsSeq(s) /\ Len(s) = 1 /\ s[1] = x
    BY <2>1, SeqFew
  <2>3. Calm(s, c)
    BY <1>2, <2>2 DEF Calm
  <2> QED
    BY <2>1, <2>3
<1>3. ASSUME NEW x, NEW y, Cold(x, c), Cold(y, c)  PROVE Calm(<<x, y>>, c)
  <2>1. PICK s : s = <<x, y>>
    OBVIOUS
  <2>2. IsSeq(s) /\ Len(s) = 2 /\ s[1] = x /\ s[2] = y
    BY <2>1, SeqFew
  <2>3. Calm(s, c)
    BY <1>3, <2>2 DEF Calm
  <2> QED
    BY <2>1, <2>3
<1> QED
  BY <1>1, <1>2, <1>3

LEMMA CalmThen ==
  ASSUME NEW c
  PROVE  \A s, t : Calm(s, c) /\ Calm(t, c) => Calm(s \o t, c)
<1> SUFFICES ASSUME NEW s, NEW t, Calm(s, c), Calm(t, c)
             PROVE  Calm(s \o t, c)
  OBVIOUS
<1>1. PICK u : u = s \o t
  OBVIOUS
<1>2. /\ IsSeq(u) /\ Len(s) \in Nat /\ Len(t) \in Nat
      /\ Len(u) = Len(s) + Len(t)
      /\ \A i \in 1 .. Len(s) : u[i] = s[i]
      /\ \A i \in 1 .. Len(t) : u[Len(s) + i] = t[i]
  BY <1>1, SeqThen DEF Calm
<1>3. ASSUME NEW i \in 1 .. Len(u)  PROVE Cold(u[i], c)
  <2>1. CASE i \in 1 .. Len(s)
    BY <1>2, <2>1 DEF Calm
  <2>2. CASE i \notin 1 .. Len(s)
    <3>1. i - Len(s) \in 1 .. Len(t) /\ i = Len(s) + (i - Len(s))
      BY <1>2, <2>2
    <3>2. PICK k \in 1 .. Len(t) : i = Len(s) + k
      BY <3>1
    <3> QED
      BY <1>2, <3>2 DEF Calm
  <2> QED
    BY <2>1, <2>2
<1> QED
  BY <1>1, <1>2, <1>3 DEF Calm

LEMMA OnceFew ==
  ASSUME NEW c, NEW p
  PROVE  /\ \A x : Hot(x, c, p) => Once(<<x>>, c, p)
         /\ \A x, y : Hot(x, c, p) /\ Cold(y, c) => Once(<<x, y>>, c, p)
         /\ ~Once(<<>>, c, p)
<1>1. ASSUME NEW x, Hot(x, c, p)  PROVE Once(<<x>>, c, p)
  <2>1. PICK s : s = <<x>>
    OBVIOUS
  <2>2. IsSeq(s) /\ Len(s) = 1 /\ s[1] = x
    BY <2>1, SeqFew
  <2>3. Once(s, c, p)
    BY <1>1, <2>2 DEF Once
  <2> QED
    BY <2>1, <2>3
<1>2. ASSUME NEW x, NEW y, Hot(x, c, p), Cold(y, c)
      PROVE  Once(<<x, y>>, c, p)
  <2>1. PICK s : s = <<x, y>>
    OBVIOUS
  <2>2. IsSeq(s) /\ Len(s) = 2 /\ s[1] = x /\ s[2] = y
    BY <2>1, SeqFew
  <2>3. 1 \in 1 .. Len(s) /\ \A i \in 1 .. Len(s) : i # 1 => i = 2
    BY <2>2
  <2>4. Once(s, c, p)
    BY <1>2, <2>2, <2>3 DEF Once
  <2> QED
    BY <2>1, <2>4
<1>3. ~Once(<<>>, c, p)
  BY SeqFew DEF Once
<1> QED
  BY <1>1, <1>2, <1>3

LEMMA OnceThen ==
  ASSUME NEW c, NEW p
  PROVE  \A s, t : Once(s, c, p) /\ Calm(t, c) =>
                     Once(s \o t, c, p) /\ Once(t \o s, c, p)
<1>1. ASSUME NEW s, NEW t, Once(s, c, p), Calm(t, c)
      PROVE  Once(s \o t, c, p)
  <2>1. PICK u : u = s \o t
    OBVIOUS
  <2>2. /\ IsSeq(u) /\ Len(s) \in Nat /\ Len(t) \in Nat
        /\ Len(u) = Len(s) + Len(t)
        /\ \A i \in 1 .. Len(s) : u[i] = s[i]
        /\ \A i \in 1 .. Len(t) : u[Len(s) + i] = t[i]
    BY <1>1, <2>1, SeqThen DEF Once, Calm
  <2>3. PICK k \in 1 .. Len(s) :
          Hot(s[k], c, p) /\ \A i \in 1 .. Len(s) : i # k => Cold(s[i], c)
    BY <1>1 DEF Once
  <2>4. k \in 1 .. Len(u) /\ Hot(u[k], c, p)
    BY <2>2, <2>3
  <2>5. ASSUME NEW i \in 1 .. Len(u), i # k  PROVE Cold(u[i], c)
    <3>1. CASE i \in 1 .. Len(s)
      BY <2>2, <2>3, <2>5, <3>1
    <3>2. CASE i \notin 1 .. Len(s)
      <4>1. i - Len(s) \in 1 .. Len(t) /\ i = Len(s) + (i - Len(s))
        BY <2>2, <3>2
      <4>2. PICK j \in 1 .. Len(t) : i = Len(s) + j
        BY <4>1
      <4> QED
        BY <1>1, <2>2, <4>2 DEF Calm
    <3> QED
      BY <3>1, <3>2
  <2> QED
    BY <2>1, <2>2, <2>4, <2>5 DEF Once
<1>2. ASSUME NEW s, NEW t, Once(s, c, p), Calm(t, c)
      PROVE  Once(t \o s, c, p)
  <2>1. PICK u : u = t \o s
    OBVIOUS
  <2>2. /\ IsSeq(u) /\ Len(s) \in Nat /\ Len(t) \in Nat
        /\ Len(u) = Len(t) + Len(s)
        /\ \A i \in 1 .. Len(t) : u[i] = t[i]
        /\ \A i \in 1 .. Len(s) : u[Len(t) + i] = s[i]
    BY <1>2, <2>1, SeqThen DEF Once, Calm
  <2>3. PICK k \in 1 .. Len(s) :
          Hot(s[k], c, p) /\ \A i \in 1 .. Len(s) : i # k => Cold(s[i], c)
    BY <1>2 DEF Once
  <2>4. Len(t) + k \in 1 .. Len(u) /\ Hot(u[Len(t) + k], c, p)
    BY <2>2, <2>3
  <2>5. ASSUME NEW i \in 1 .. Len(u), i # Len(t) + k  PROVE Cold(u[i], c)
    <3>1. CASE i \in 1 .. Len(t)
      BY <1>2, <2>2, <3>1 DEF Calm
    <3>2. CASE i \notin 1 .. Len(t)
      <4>1. i - Len(t) \in 1 .. Len(s) /\ i = Len(t) + (i - Len(t))
        BY <2>2, <3>2
      <4>2. PICK j \in 1 .. Len(s) : i = Len(t) + j
        BY <4>1
      <4>3. j # k
        BY <2>5, <4>2
      <4> QED
        BY <2>2, <2>3, <4>2, <4>3
    <3> QED
      BY <3>1, <3>2
  <2> QED
    BY <2>1, <2>2, <2>4, <2>5 DEF Once
<1> QED
  BY <1>1, <1>2

\* What is next, and the rest.
LEMMA CalmNext ==
  ASSUME NEW c, NEW s, Calm(s, c), s # <<>>
  PROVE  Cold(Head(s), c) /\ Calm(Tail(s), c)
<1>1. /\ Len(s) \in Nat /\ Len(s) > 0 /\ Head(s) = s[1]
      /\ IsSeq(Tail(s)) /\ Len(Tail(s)) = Len(s) - 1
      /\ \A i \in 1 .. Len(s) - 1 : Tail(s)[i] = s[i + 1]
  BY SeqNext DEF Calm
<1>2. \A i \in 1 .. Len(s) - 1 : i + 1 \in 1 .. Len(s)
  BY <1>1
<1> QED
  BY <1>1, <1>2 DEF Calm

LEMMA OnceNext ==
  ASSUME NEW c, NEW p, NEW s, Once(s, c, p), s # <<>>
  PROVE  \/ Hot(Head(s), c, p) /\ Calm(Tail(s), c)
         \/ Cold(Head(s), c) /\ Once(Tail(s), c, p)
<1>1. /\ Len(s) \in Nat /\ Len(s) > 0 /\ Head(s) = s[1]
      /\ IsSeq(Tail(s)) /\ Len(Tail(s)) = Len(s) - 1
      /\ \A i \in 1 .. Len(s) - 1 : Tail(s)[i] = s[i + 1]
  BY SeqNext DEF Once
<1>2. PICK k \in 1 .. Len(s) :
        Hot(s[k], c, p) /\ \A i \in 1 .. Len(s) : i # k => Cold(s[i], c)
  BY DEF Once
<1>3. \A i \in 1 .. Len(s) - 1 : i + 1 \in 1 .. Len(s)
  BY <1>1
<1>4. CASE k = 1
  <2>1. \A i \in 1 .. Len(s) - 1 : Cold(Tail(s)[i], c)
    BY <1>1, <1>2, <1>3, <1>4
  <2> QED
    BY <1>1, <1>2, <1>4, <2>1 DEF Calm
<1>5. CASE k # 1
  <2>1. PICK j \in 1 .. Len(s) - 1 : k = j + 1
    <3>1. k - 1 \in 1 .. Len(s) - 1 /\ k = (k - 1) + 1
      BY <1>1, <1>5
    <3> QED
      BY <3>1
  <2>2. \A i \in 1 .. Len(s) - 1 : i # j => Cold(Tail(s)[i], c)
    BY <1>1, <1>2, <1>3, <2>1
  <2>3. Hot(Tail(s)[j], c, p)
    BY <1>1, <1>2, <2>1
  <2>4. 1 \in 1 .. Len(s)
    BY <1>1
  <2> QED
    BY <1>1, <1>2, <1>5, <2>1, <2>2, <2>3, <2>4 DEF Once
<1> QED
  BY <1>4, <1>5

\* In the scope of a printer.
LEMMA OnceScopes ==
  ASSUME NEW c, NEW p, "" \in c.says
  PROVE  /\ \A t \in c.says : \A s : Once(s, c, p) => Once(Header(t, s), c, p)
         /\ \A s : Once(s, c, p) => Once(List(s), c, p) /\ Once(Fence(s), c, p)
         /\ \A t \in c.says : \A s : Calm(s, c) => Calm(Header(t, s), c)
<1>1. ASSUME NEW t \in c.says, NEW scope, NEW s
      PROVE  /\ Once(s, c, p) =>
                  Once(<<Open(scope, t)>> \o s \o <<Close(scope)>>, c, p)
             /\ Calm(s, c) =>
                  Calm(<<Open(scope, t)>> \o s \o <<Close(scope)>>, c)
  <2> DEFINE a == <<Open(scope, t)>>
             b == <<Close(scope)>>
  <2>1. Calm(a, c) /\ Calm(b, c)
    BY SpeaksTasks, SpeaksFew, CalmSpeaks
  <2> HIDE DEF a, b
  <2>2. /\ Once(s, c, p) => Once(a \o s \o b, c, p)
        /\ Calm(s, c) => Calm(a \o s \o b, c)
    BY <2>1, OnceThen, CalmThen
  <2> QED
    BY <2>2 DEF a, b
<1> QED
  BY <1>1 DEF Header, List, Fence

----------------------------------------------------------------------------
(* What becomes of the items *)

\* What takes the place of an item in the summary and the details pass.
Result(x) ==
  CASE x.do = "handle" -> IF HasHandler(x.key)
                            THEN <<Call(x.key, x.value), Leave(x.key, x.value)>>
                            ELSE <<>>
    [] x.do = "call" -> BodyOf(x.key, x.value)
    [] x.do = "print" -> IF is_string(x.value)
                           THEN <<Text(Json[x.value].text)>>
                           ELSE Children(x.value)
    [] OTHER -> <<>>

LEMMA ResultOf ==
  /\ \A key, v :
       /\ Result(Handle(key, v)) =
            IF HasHandler(key) THEN <<Call(key, v), Leave(key, v)>> ELSE <<>>
       /\ Result(Call(key, v)) = BodyOf(key, v)
  /\ \A v : Result(Visit(v)) = IF is_string(v) THEN <<Text(Json[v].text)>>
                                               ELSE Children(v)
BY DEF Result, Handle, Call, Visit, Do

\* One step takes the next item and puts its result in its place.
LEMMA ItemStep ==
  ASSUME Dispatch \/ PopName \/ PrintValue \/ Emit \/ Handlers, ~is_add_links
  PROVE  /\ work # <<>> /\ work' = Result(Head(work)) \o Tail(work)
         /\ UNCHANGED state
         /\ out' = IF IsToken(Head(work)) THEN Append(out, Head(work)) ELSE out
<1>1. CASE Dispatch
  BY <1>1 DEF Dispatch, IsNext, Becomes, Result, IsToken, element, input
<1>2. CASE PopName
  BY <1>2 DEF PopName, IsNext, Becomes, Result, IsToken
<1>3. CASE PrintValue
  BY <1>3 DEF PrintValue, IsNext, Becomes, Result, IsToken, input, When
<1>4. CASE Emit
  BY <1>4 DEF Emit, Becomes, Result, IsToken
<1>5. CASE Handlers
  <2>1. /\ work # <<>> /\ Head(work).do = "call" /\ UNCHANGED <<state, out>>
        /\ work' = BodyOf(element, input) \o Tail(work)
    BY <1>5, HandlersAre
  <2> QED
    BY <2>1 DEF Result, IsToken, element, input
<1> QED
  BY <1>1, <1>2, <1>3, <1>4, <1>5

\* An item that says other texts becomes such items.
LEMMA SaysResult ==
  ASSUME NEW A, NEW T, Covers(A, T, {}), NEW x, IsItem(x), Says(x, A, T)
  PROVE  Speaks(Result(x), A, T)
<1>1. "" \in A
  BY DEF Covers, Words
<1>2. CASE x.do = "handle"
  <2>1. PICK a, b : a = Call(x.key, x.value) /\ b = Leave(x.key, x.value)
    OBVIOUS
  <2>2. Says(a, A, T) /\ Says(b, A, T)
    BY <1>2, <2>1 DEF Says, HasText, Call, Leave, Do
  <2>3. Speaks(<<a, b>>, A, T) /\ Speaks(<<>>, A, T)
    BY <2>2, SpeaksFew
  <2> QED
    BY <1>2, <2>1, <2>3 DEF Result
<1>3. CASE x.do = "call"
  <2>1. x.value \in Value
    BY <1>3 DEF IsItem, IsToken
  <2>2. Says(Call(x.key, x.value), A, T)
    BY <1>3 DEF Says, HasText, Call, Do
  <2>3. Quiet({}) /\ Unread({})
    BY DEF Quiet, Unread
  <2>4. Speaks(BodyOf(x.key, x.value), A, T)
    BY <2>1, <2>2, <2>3, HandlerSpeaks
  <2> QED
    BY <1>3, <2>4 DEF Result
<1>4. CASE x.do = "print"
  <2>1. x.value \in Value
    BY <1>4 DEF IsItem, IsToken
  <2>2. Within(x.value, A, T)
    BY <1>4 DEF Says
  <2>3. PICK y : y = Text(Json[x.value].text)
    OBVIOUS
  <2>4. Speaks(<<y>>, A, T)
    BY <2>2, <2>3, SpeaksTasks, SpeaksFew DEF Within
  <2>5. Speaks(Children(x.value), A, T)
    BY <2>1, <2>2, ChildrenSpeak
  <2> QED
    BY <1>4, <2>3, <2>4, <2>5 DEF Result
<1>5. CASE x.do \notin {"handle", "call", "print"}
  BY <1>5, SpeaksFew DEF Result
<1> QED
  BY <1>2, <1>3, <1>4, <1>5

\* A text is printed where the token is put.
LEMMA PlacesMore ==
  ASSUME NEW t, Printed(out), NEW x, out' = Append(out, x)
  PROVE  IF HasText(x) /\ x.text = t
           THEN /\ Places(t)' = Places(t) \cup {Len(out) + 1}
                /\ Len(out) + 1 \notin Places(t)
           ELSE Places(t)' = Places(t)
<1>1. PICK S : out \in Seq(S)
  BY DEF Printed
<1>2. PICK o : o = out'
  OBVIOUS
<1>3. /\ Len(out) \in Nat /\ DOMAIN out = 1 .. Len(out)
      /\ Len(o) = Len(out) + 1 /\ DOMAIN o = 1 .. Len(o)
      /\ \A i \in 1 .. Len(out) : o[i] = out[i]
      /\ o[Len(out) + 1] = x
  <2>1. out \in Seq(S \cup {x}) /\ x \in S \cup {x}
    BY <1>1
  <2> QED
    BY <1>2, <2>1
<1>4. Places(t)' = {i \in DOMAIN o : HasText(o[i]) /\ o[i].text = t}
  BY <1>2 DEF Places, HasText
<1>5. DOMAIN o = (1 .. Len(out)) \cup {Len(out) + 1}
  BY <1>3
<1>6. Places(t) = {i \in 1 .. Len(out) : HasText(out[i]) /\ out[i].text = t}
  BY <1>3 DEF Places
<1>7. Len(out) + 1 \notin 1 .. Len(out)
  BY <1>3
<1>8. ASSUME NEW i
      PROVE  i \in Places(t)' <=> \/ i \in Places(t)
                                  \/ /\ i = Len(out) + 1
                                     /\ HasText(x) /\ x.text = t
  BY <1>3, <1>4, <1>5, <1>6, <1>7
<1> QED
  BY <1>6, <1>7, <1>8

\* The other texts are others, and cover what handlers read.
Sought(c) == c.text \notin c.says /\ Covers(c.says, c.of, {})

\* A mute item becomes cold ones; so does a hot one when the pass does not
\* print the text, or it becomes a sequence with one hot item.
Settled(c, prints) ==
  /\ \A x \in c.mute : ~IsToken(x) /\ Calm(Result(x), c)
  /\ \A x \in c.hot : /\ ~IsToken(x)
                      /\ \/ Once(Result(x), c, prints)
                         \/ ~prints /\ Calm(Result(x), c)

\* A cold item becomes cold ones, and prints nothing of the text.
LEMMA ColdStep ==
  ASSUME NEW c, NEW p, Sought(c), Settled(c, p), StateInv, ~is_add_links,
         Dispatch \/ PopName \/ PrintValue \/ Emit \/ Handlers,
         Cold(Head(work), c)
  PROVE  Calm(Result(Head(work)), c) /\ Places(c.text)' = Places(c.text)
<1>1. PICK x : x = Head(work)
  OBVIOUS
<1>2. /\ work # <<>> /\ out' = IF IsToken(x) THEN Append(out, x) ELSE out
  BY <1>1, ItemStep
<1>3. IsItem(x)
  BY <1>1, <1>2, NextItem DEF StateInv
<1>4. Calm(Result(x), c)
  <2>1. CASE Says(x, c.says, c.of)
    BY <1>3, <2>1, SaysResult, CalmSpeaks DEF Sought
  <2>2. CASE x \in c.mute
    BY <2>2 DEF Settled
  <2> QED
    BY <1>1, <2>1, <2>2 DEF Cold
<1>5. Places(c.text)' = Places(c.text)
  <2>1. PICK t : t = c.text
    OBVIOUS
  <2>2. CASE ~IsToken(x)
    BY <1>2, <2>2 DEF Places
  <2>3. CASE IsToken(x)
    <3>1. ~(HasText(x) /\ x.text = t)
      BY <1>1, <2>1, <2>3 DEF Cold, Says, Sought, Settled
    <3>2. Printed(out) /\ out' = Append(out, x)
      BY <1>2, <2>3 DEF StateInv
    <3>3. Places(t)' = Places(t)
      BY <3>1, <3>2, PlacesMore
    <3> QED
      BY <2>1, <3>3
  <2> QED
    BY <2>2, <2>3
<1> QED
  BY <1>1, <1>4, <1>5

\* So the text stays where it is while all items are cold.
LEMMA CalmStep ==
  ASSUME NEW c, NEW p, Sought(c), Settled(c, p), StateInv, ~is_add_links,
         Dispatch \/ PopName \/ PrintValue \/ Emit \/ Handlers,
         Calm(work, c)
  PROVE  Calm(work, c)' /\ Places(c.text)' = Places(c.text)
<1>1. work # <<>> /\ work' = Result(Head(work)) \o Tail(work)
  BY ItemStep
<1>2. Cold(Head(work), c) /\ Calm(Tail(work), c)
  BY <1>1, CalmNext
<1>3. Calm(Result(Head(work)), c) /\ Places(c.text)' = Places(c.text)
  BY <1>2, ColdStep
<1>4. Calm(work', c)
  BY <1>1, <1>2, <1>3, CalmThen
<1> QED
  BY <1>3, <1>4

\* A hot item stays, or prints the text when it is a token.
LEMMA OnceStep ==
  ASSUME NEW c, NEW p \in BOOLEAN, Sought(c), Settled(c, p), StateInv,
         ~is_add_links,
         Dispatch \/ PopName \/ PrintValue \/ Emit \/ Handlers,
         Once(work, c, p)
  PROVE  \/ Once(work, c, p)' /\ Places(c.text)' = Places(c.text)
         \/ ~p /\ Calm(work, c)' /\ Places(c.text)' = Places(c.text)
         \/ /\ p /\ Calm(work, c)'
            /\ \E k : Places(c.text)' = Places(c.text) \cup {k}
<1>1. PICK x, rest : x = Head(work) /\ rest = Tail(work)
  OBVIOUS
<1>2. /\ work # <<>> /\ work' = Result(x) \o rest
      /\ out' = IF IsToken(x) THEN Append(out, x) ELSE out
  BY <1>1, ItemStep
<1>3. \/ Hot(x, c, p) /\ Calm(rest, c)
      \/ Cold(x, c) /\ Once(rest, c, p)
  BY <1>1, <1>2, OnceNext
<1>4. CASE Cold(x, c) /\ Once(rest, c, p)
  <2>1. Calm(Result(x), c) /\ Places(c.text)' = Places(c.text)
    BY <1>1, <1>4, ColdStep
  <2>2. Once(work', c, p)
    BY <1>2, <1>4, <2>1, OnceThen
  <2> QED
    BY <2>1, <2>2
<1>5. CASE x \in c.hot /\ Calm(rest, c)
  <2>1. ~IsToken(x) /\ (Once(Result(x), c, p) \/ (~p /\ Calm(Result(x), c)))
    BY <1>5 DEF Settled
  <2>2. Places(c.text)' = Places(c.text)
    BY <1>2, <2>1 DEF Places
  <2>3. Once(work', c, p) \/ (~p /\ Calm(work', c))
    BY <1>2, <1>5, <2>1, OnceThen, CalmThen
  <2> QED
    BY <2>2, <2>3
<1>6. CASE p /\ HasText(x) /\ x.text = c.text /\ Calm(rest, c)
  <2>1. PICK t : t = c.text
    OBVIOUS
  <2>2. IsToken(x)
    BY <1>6 DEF HasText, IsToken
  <2>3. Printed(out) /\ out' = Append(out, x)
    BY <1>2, <2>2 DEF StateInv
  <2>4. Places(t)' = Places(t) \cup {Len(out) + 1}
    BY <1>6, <2>1, <2>3, PlacesMore
  <2>5. Result(x) = <<>>
    BY <2>2 DEF Result, IsToken
  <2>6. Calm(work', c)
    BY <1>2, <1>6, <2>5, CalmFew, CalmThen
  <2> QED
    BY <1>6, <2>1, <2>4, <2>6
<1> QED
  BY <1>3, <1>4, <1>5, <1>6 DEF Hot

----------------------------------------------------------------------------
(* Where a text is *)

LEMMA TextsOf ==
  ASSUME NEW T, T = TextsWithout({})
  PROVE  \A e \in Element :
           T[e] = {Json[e.value].text} \cup UNION {T[kid] : kid \in elements(e.value)}
<1> DEFINE own == [e \in Element |-> {Json[e.value].text}]
<1>1. T = [e \in Element |-> GatheredWith(T, own, {}, e)]
  BY GatheredOfElement DEF TextsWithout
<1>2. ASSUME NEW e \in Element
      PROVE  T[e] = {Json[e.value].text} \cup UNION {T[kid] : kid \in elements(e.value)}
  <2>1. T[e] = GatheredWith(T, own, {}, e)
    BY <1>1
  <2> QED
    BY <2>1 DEF GatheredWith
<1> QED
  BY <1>2

\* A text that is in one place of an element is so in each child.
LEMMA TwiceBelow ==
  ASSUME NEW T, NEW twice,
         twice = Gathered([e \in Element |-> Shared(e.value, T)], {}),
         NEW t, NEW e \in Element, t \notin twice[e]
  PROVE  /\ t \notin Shared(e.value, T)
         /\ \A kid \in elements(e.value) : t \notin twice[kid]
<1> DEFINE own == [d \in Element |-> Shared(d.value, T)]
<1>1. twice = [d \in Element |-> GatheredWith(twice, own, {}, d)]
  BY GatheredOfElement
<1>2. twice[e] = GatheredWith(twice, own, {}, e)
  BY <1>1
<1>3. twice[e] = own[e] \cup UNION {twice[kid] : kid \in elements(e.value)}
  BY <1>2 DEF GatheredWith
<1> QED
  BY <1>3

\* One child has the text, and the others have other texts.
LEMMA OneChild ==
  ASSUME NEW T, NEW v \in Value, NEW t, t \notin Shared(v, T),
         NEW e \in elements(v), t \in T[e]
  PROVE  \E k \in 1 .. Len(Json[v].kids) :
           /\ Json[v].kids[k] = e
           /\ \A i \in 1 .. Len(Json[v].kids) :
                i # k => t \notin T[Json[v].kids[i]]
<1> DEFINE kids == Json[v].kids
<1>1. /\ DOMAIN kids = 1 .. Len(kids)
      /\ elements(v) = {kids[i] : i \in 1 .. Len(kids)}
  BY ElementsOf
<1>2. PICK k \in 1 .. Len(kids) : kids[k] = e
  BY <1>1
<1>3. ASSUME NEW i \in 1 .. Len(kids), i # k, t \in T[kids[i]]
      PROVE  FALSE
  <2> DEFINE both == [j \in DOMAIN kids |-> T[kids[j]]]
  <2>1. t \in both[i] \cap both[k] /\ k \in DOMAIN kids \ {i}
    BY <1>1, <1>2, <1>3
  <2>2. t \in UNION {both[i] \cap both[j] : j \in DOMAIN kids \ {i}}
    BY <2>1
  <2>3. t \in Shared(v, T)
    BY <1>1, <1>3, <2>2 DEF Shared
  <2> QED
    BY <2>3
<1> QED
  BY <1>2, <1>3

\* What c seeks is in one child of a value, and the rest there is told by c.
In(v, e, c) == /\ v \in Value /\ e \in elements(v) /\ c.text \in c.of[e]
               /\ c.text \notin Shared(v, c.of)
               /\ \A kid \in elements(v) : c.of[kid] \subseteq c.says \cup {c.text}

\* The other children are cold.
LEMMA OthersAreCold ==
  ASSUME NEW c, NEW v, NEW e, In(v, e, c), NEW d \in elements(v), d # e
  PROVE  c.of[d] \subseteq c.says
<1> DEFINE kids == Json[v].kids
<1>1. PICK k \in 1 .. Len(kids) :
        /\ kids[k] = e
        /\ \A i \in 1 .. Len(kids) : i # k => c.text \notin c.of[kids[i]]
  BY OneChild DEF In
<1>2. PICK i \in 1 .. Len(kids) : kids[i] = d
  BY ElementsOf DEF In
<1>3. i # k
  BY <1>1, <1>2
<1> QED
  BY <1>1, <1>2, <1>3 DEF In

\* print() comes to the text once, or never when the child is mute.
LEMMA VisitIn ==
  ASSUME NEW c, NEW p, NEW v, NEW e, In(v, e, c)
  PROVE  /\ Handle(e.key, e.value) \in c.hot => Once(Result(Visit(v)), c, p)
         /\ Handle(e.key, e.value) \in c.mute => Calm(Result(Visit(v)), c)
<1> DEFINE kids == Json[v].kids
<1>1. PICK k \in 1 .. Len(kids) :
        /\ kids[k] = e
        /\ \A i \in 1 .. Len(kids) : i # k => c.text \notin c.of[kids[i]]
  BY OneChild DEF In
<1>2. /\ elements(v) = {kids[i] : i \in 1 .. Len(kids)}
      /\ elements(v) \subseteq Element
  BY ElementsOf DEF In
<1>3. PICK s : s = Children(v)
  OBVIOUS
<1>4. /\ Len(s) = Len(kids)
      /\ \A i \in 1 .. Len(kids) : s[i] = Handle(kids[i].key, kids[i].value)
      /\ IsSeq(s)
  <2>1. Plain(s)
    BY <1>3, PlainChildren DEF In
  <2> QED
    BY <1>3, <2>1, PlainChildren DEF In, Plain, IsSeq
<1>5. Result(Visit(v)) = s
  <2>1. PICK n : n = Len(kids)
    OBVIOUS
  <2>2. kids # <<>>
    <3>1. kids = <<>> => n = 0
      BY <2>1, SeqFew
    <3>2. k \in 1 .. n
      BY <1>1, <2>1
    <3> QED
      BY <3>1, <3>2
  <2>3. ~is_string(v)
    BY <2>2, JsonAssumption DEF In, is_string
  <2> QED
    BY <1>3, <2>3, ResultOf
<1> HIDE DEF kids
<1>6. ASSUME NEW i \in 1 .. Len(kids), i # k  PROVE Cold(s[i], c)
  <2>1. kids[i] \in elements(v) /\ c.of[kids[i]] \subseteq c.says
    BY <1>1, <1>2, <1>6 DEF In
  <2>2. kids[i] \in Element
        /\ kids[i] = [key |-> kids[i].key, value |-> kids[i].value]
    BY <1>2, <2>1 DEF Element
  <2>3. Says(Handle(kids[i].key, kids[i].value), c.says, c.of)
    BY <2>1, <2>2, SpeaksTasks
  <2> QED
    BY <1>4, <2>3 DEF Cold
<1>7. s[k] = Handle(e.key, e.value)
  BY <1>1, <1>4
<1> QED
  BY <1>4, <1>5, <1>6, <1>7 DEF Once, Calm, Hot, Cold

\* What a handler reads of the other children says other texts.
LEMMA ReadOther ==
  ASSUME NEW c, Sought(c), c.of = TextsWithout({}), NEW v, NEW e, In(v, e, c),
         NEW key, key # e.key
  PROVE  /\ get_value_as_string_view(v, key) \in c.says
         /\ key = "detaileddescription" =>
              Says(Call(key, get_value(v, key)), c.says, c.of)
<1>1. v \in Value
  BY DEF In
<1>2. CASE get_value(v, key) = JsonNull
  <2>1. "" \in c.says
    BY DEF Sought, Covers, Words
  <2> QED
    BY <1>2, <2>1, NullIsEmpty, SpeaksTasks DEF get_value_as_string_view
<1>3. CASE \E d \in elements(v) : d.key = key /\ d.value = get_value(v, key)
  <2>1. PICK d \in elements(v) : d.key = key /\ d.value = get_value(v, key)
    BY <1>3
  <2>2. d \in Element /\ c.of[d] \subseteq c.says
    BY <1>1, <2>1, ElementsOf, OthersAreCold
  <2>3. Json[d.value].text \in c.of[d]
    BY <2>2, TextsOf
  <2>4. d = [key |-> key, value |-> get_value(v, key)]
    BY <2>1, <2>2 DEF Element
  <2>5. Says(Call(key, get_value(v, key)), c.says, c.of)
    BY <2>2, <2>4, SpeaksTasks
  <2> QED
    BY <2>1, <2>2, <2>3, <2>5 DEF get_value_as_string_view
<1> QED
  BY <1>1, <1>2, <1>3, ValueFound

----------------------------------------------------------------------------
(* The passes *)

\* The pass that prints titles and lists: the summary, or the details if there
\* is no summary.
Printing == is_summary \/ ~config.generate_summary

Single(t) == \E k : Places(t) = {k}

\* What c seeks is printed once, by that pass.
OnceInv(c) ==
  /\ pass \in {"summary", "details"} /\ Printing =>
       \/ Places(c.text) = {} /\ Once(work, c, TRUE)
       \/ Single(c.text) /\ Calm(work, c)
  /\ pass = "details" /\ ~Printing =>
       /\ Single(c.text)
       /\ Once(work, c, FALSE) \/ Calm(work, c)
  /\ pass = "done" => Single(c.text)

\* A pass starts with the document, before or after the text is printed.
LEMMA OnceBegins ==
  ASSUME NEW c, StateInv, LinksInv, Handle("doxygen", job.document) \in c.hot,
         OnceInv(c), ProcessSummary \/ ProcessDetails
  PROVE  OnceInv(c)'
<1>1. /\ pass' \in {"summary", "details"} /\ UNCHANGED <<job, out>>
      /\ work = <<>> /\ work' = <<Handle("doxygen", job.document)>>
      /\ \/ pass = "links" /\ (pass' = "summary" \/ ~config.generate_summary)
         \/ pass = "summary" /\ pass' = "details" /\ config.generate_summary
  BY DEF ProcessSummary, ProcessDetails, StartPass
<1>2. config' = config /\ Places(c.text)' = Places(c.text)
  BY <1>1 DEF config, Places
<1>3. \A p : Once(work', c, p)
  <2>1. PICK x : x = Handle("doxygen", job.document)
    OBVIOUS
  <2>2. \A p : Hot(x, c, p)
    BY <2>1 DEF Hot
  <2>3. \A p : Once(<<x>>, c, p)
    BY <2>2, OnceFew
  <2> QED
    BY <1>1, <2>1, <2>3
<1>4. CASE pass = "links"
  <2>1. Places(c.text) = {}
    BY <1>4 DEF LinksInv, Places
  <2>2. Printing'
    BY <1>1, <1>2, <1>4 DEF Printing, is_summary
  <2> QED
    BY <1>1, <1>2, <1>3, <2>1, <2>2 DEF OnceInv
<1>5. CASE pass = "summary"
  <2>1. Printing /\ ~Printing' /\ pass' = "details"
    BY <1>1, <1>2, <1>5 DEF Printing, is_summary
  <2>2. ~Once(work, c, TRUE)
    BY <1>1, OnceFew
  <2>3. Single(c.text)
    BY <1>5, <2>1, <2>2 DEF OnceInv
  <2>4. Single(c.text)'
    BY <1>2, <2>3 DEF Single
  <2> QED
    BY <1>3, <2>1, <2>4 DEF OnceInv
<1> QED
  BY <1>1, <1>4, <1>5

\* A step of a pass.
LEMMA OnceContinues ==
  ASSUME NEW c, Sought(c), StateInv, OnceInv(c),
         Printing => Settled(c, TRUE), ~Printing => Settled(c, FALSE),
         pass \in {"summary", "details"},
         Dispatch \/ PopName \/ PrintValue \/ Emit \/ Handlers
  PROVE  OnceInv(c)'
<1>1. ~is_add_links
  BY DEF is_add_links
<1>2. UNCHANGED state
  BY <1>1, ItemStep
<1>3. UNCHANGED pass /\ Printing' = Printing
  BY <1>2 DEF state, Printing, is_summary, config
<1>4. PICK t : t = c.text
  OBVIOUS
<1>5. ASSUME Calm(work, c)
      PROVE  Calm(work', c) /\ Places(t)' = Places(t)
  <2>1. PICK p \in BOOLEAN : Settled(c, p)
    OBVIOUS
  <2> QED
    BY <1>1, <1>4, <1>5, <2>1, CalmStep
<1>6. CASE Printing
  <2>1. CASE Places(t) = {} /\ Once(work, c, TRUE)
    <3>1. PICK p : p = TRUE
      OBVIOUS
    <3>2. \/ Once(work, c, p)' /\ Places(t)' = Places(t)
          \/ Calm(work, c)' /\ \E k : Places(t)' = Places(t) \cup {k}
      <4>1. Settled(c, p) /\ Once(work, c, p) /\ p \in BOOLEAN
        BY <1>6, <2>1, <3>1
      <4> QED
        BY <1>1, <1>4, <3>1, <4>1, OnceStep
    <3>3. CASE Once(work, c, p)' /\ Places(t)' = Places(t)
      BY <1>3, <1>4, <1>6, <2>1, <3>1, <3>3 DEF OnceInv
    <3>4. CASE Calm(work, c)' /\ \E k : Places(t)' = Places(t) \cup {k}
      <4>1. Single(t)'
        BY <2>1, <3>4 DEF Single
      <4> QED
        BY <1>3, <1>4, <1>6, <3>4, <4>1 DEF OnceInv
    <3> QED
      BY <3>2, <3>3, <3>4
  <2>2. CASE Single(t) /\ Calm(work, c)
    <3>1. Single(t)'
      BY <1>5, <2>2 DEF Single
    <3> QED
      BY <1>3, <1>4, <1>5, <1>6, <2>2, <3>1 DEF OnceInv
  <2> QED
    BY <1>4, <1>6, <2>1, <2>2 DEF OnceInv
<1>7. CASE ~Printing
  <2>1. pass = "details" /\ Single(t) /\ (Once(work, c, FALSE) \/ Calm(work, c))
    BY <1>4, <1>7 DEF OnceInv, Printing, is_summary
  <2>2. /\ Once(work', c, FALSE) \/ Calm(work', c)
        /\ Places(t)' = Places(t)
    <3>1. CASE Once(work, c, FALSE)
      <4>1. PICK p : p = FALSE
        OBVIOUS
      <4>2. Settled(c, p) /\ Once(work, c, p) /\ p \in BOOLEAN
        BY <1>7, <3>1, <4>1
      <4> QED
        BY <1>1, <1>4, <4>1, <4>2, OnceStep
    <3> QED
      BY <1>5, <2>1, <3>1
  <2>3. Single(t)'
    BY <2>1, <2>2 DEF Single
  <2> QED
    BY <1>3, <1>4, <1>7, <2>1, <2>2, <2>3 DEF OnceInv
<1> QED
  BY <1>6, <1>7

LEMMA OnceKept ==
  ASSUME NEW c, Sought(c), StateInv, LinksInv,
         Handle("doxygen", job.document) \in c.hot,
         pass \in {"summary", "details"} =>
           IF Printing THEN Settled(c, TRUE) ELSE Settled(c, FALSE),
         OnceInv(c), [Next]_vars
  PROVE  OnceInv(c)'
<1>1. CASE Load
  BY <1>1 DEF Load, OnceInv
<1>2. CASE ProcessSummary \/ ProcessDetails
  BY <1>2, OnceBegins
<1>3. CASE Finish
  <2>1. /\ pass = "details" /\ pass' = "done" /\ work = <<>>
        /\ Places(c.text)' = Places(c.text)
    BY <1>3 DEF Finish, Places
  <2>2. ~Once(work, c, TRUE)
    BY <2>1, OnceFew
  <2>3. Single(c.text)
    BY <2>1, <2>2 DEF OnceInv
  <2>4. Single(c.text)'
    BY <2>1, <2>3 DEF Single
  <2> QED
    BY <2>1, <2>4 DEF OnceInv
<1>4. CASE Dispatch \/ PopName \/ PrintValue \/ Emit \/ Handlers
  <2>1. UNCHANGED pass /\ work # <<>>
    BY <1>4, HandlersAre
    DEF Dispatch, PopName, PrintValue, Emit, IsNext, state
  <2>2. CASE pass = "links"
    BY <2>1, <2>2 DEF OnceInv
  <2>3. CASE pass \in {"summary", "details"}
    BY <1>4, <2>3, OnceContinues
  <2> QED
    BY <2>1, <2>2, <2>3 DEF StateInv
<1>5. CASE AddLinks \/ CompounddefLinks
  <2>1. pass = "links" /\ UNCHANGED pass
    BY <1>5 DEF AddLinks, CompounddefLinks, is_add_links, state
  <2> QED
    BY <2>1 DEF OnceInv
<1>6. CASE UNCHANGED vars
  <2>1. UNCHANGED <<job, pass, work, out>>
    BY <1>6 DEF vars, state
  <2> QED
    BY <2>1 DEF OnceInv, Printing, is_summary, config, Single, Places
<1> QED
  BY <1>1, <1>2, <1>3, <1>4, <1>5, <1>6 DEF Next, Step, Ended

----------------------------------------------------------------------------
(* From the document to its compound *)

Tasks(e) == {Handle(e.key, e.value), Call(e.key, e.value)}
TheCompound == [key |-> "compounddef", value |-> compound]
ToCompound ==
  Tasks(document) \cup {Visit(job.document)} \cup Tasks(TheCompound)

\* What is sought when a text of the document is: all other texts of it, and
\* the words of the program, are others.
About(t, mute, hot) ==
  [text |-> t, says |-> TextsAllowed({}) \ {t}, of |-> TextsWithout({}),
   mute |-> mute, hot |-> hot]

LEMMA NotTokens ==
  \A key, v : /\ ~IsToken(Handle(key, v)) /\ ~IsToken(Call(key, v))
              /\ ~IsToken(Visit(v))
BY DEF IsToken, Handle, Call, Visit, Do

\* handle() calls the handler of an element that has one.
LEMMA HandleResult ==
  ASSUME NEW c, NEW p, NEW key, NEW v
  PROVE  /\ HasHandler(key) /\ Call(key, v) \in c.hot =>
              Once(Result(Handle(key, v)), c, p)
         /\ Call(key, v) \in c.mute => Calm(Result(Handle(key, v)), c)
<1>1. PICK x, y : x = Call(key, v) /\ y = Leave(key, v)
  OBVIOUS
<1>2. Cold(y, c)
  BY <1>1, SpeaksTasks DEF Cold
<1>3. x \in c.hot => Once(<<x, y>>, c, p)
  BY <1>2, OnceFew DEF Hot
<1>4. x \in c.mute => Calm(<<x, y>>, c) /\ Calm(<<>>, c)
  BY <1>2, CalmFew DEF Cold
<1>5. Result(Handle(key, v)) = IF HasHandler(key) THEN <<x, y>> ELSE <<>>
  BY <1>1, ResultOf
<1> QED
  BY <1>1, <1>3, <1>4, <1>5

LEMMA AboutIsSought ==
  ASSUME NEW t \in Telltale, NEW mute, NEW hot
  PROVE  Sought(About(t, mute, hot))
<1>1. t \notin Words
  BY DEF Telltale
<1>2. Words \subseteq TextsAllowed({}) \ {t}
  BY <1>1 DEF TextsAllowed
<1>3. PICK A, T : A = TextsAllowed({}) \ {t} /\ T = TextsWithout({})
  OBVIOUS
<1>4. Covers(A, T, {})
  BY <1>2, <1>3, TextsCover
<1> QED
  BY <1>3, <1>4 DEF Sought, About

\* A telltale text that is inside an element of the compound is in one place
\* of the document, of the compound, and of that element.
LEMMA InCompound ==
  ASSUME StateInv, NEW t \in Telltale, NEW mute, NEW hot,
         NEW c, c = About(t, mute, hot),
         NEW e \in elements(compound), t \in c.of[e]
  PROVE  /\ In(job.document, TheCompound, c)
         /\ In(compound, e, c)
         /\ \A d \in elements(e.value) : t \in c.of[d] => In(e.value, d, c)
<1>1. PICK T, A : T = c.of /\ A = TextsAllowed({})
  OBVIOUS
<1>2. /\ c.text = t /\ c.of = T /\ c.says = A \ {t} /\ T = TextsWithout({})
  BY <1>1 DEF About
<1>3. /\ document \in Element /\ document.value = job.document
      /\ job.document \in Value
  BY CompoundAssumption DEF StateInv, Documents, document, Element
<1>4. compound \in Value /\ TheCompound \in elements(job.document)
  <2>1. compound # JsonNull
    BY NullIsEmpty
  <2>2. PICK k \in elements(job.document) :
          k.key = "compounddef" /\ k.value = compound
    BY <1>3, <2>1, ValueFound DEF compound
  <2>3. k \in Element
    BY <1>3, ElementsOf
  <2>4. k = TheCompound
    BY <2>2, <2>3 DEF TheCompound, Element
  <2> QED
    BY <2>2, <2>3, <2>4 DEF Element
<1>5. TheCompound \in Element /\ TheCompound.value = compound
  BY <1>3, <1>4, ElementsOf DEF TheCompound
<1>6. e \in Element /\ e.value \in Value
  BY <1>4, ElementsOf DEF Element
<1>7. \A d \in Element : \A kid \in elements(d.value) : T[kid] \subseteq T[d]
  BY <1>2, TextsOf
<1>8. PICK twice :
        twice = Gathered([d \in Element |-> Shared(d.value, T)], {})
  OBVIOUS
<1>9. t \in T[document] /\ t \notin twice[document]
  BY <1>2, <1>8 DEF Telltale
<1>10. t \notin Shared(job.document, T) /\ t \notin twice[TheCompound]
  BY <1>3, <1>4, <1>8, <1>9, TwiceBelow
<1>11. t \notin Shared(compound, T) /\ t \notin twice[e]
  BY <1>5, <1>8, <1>10, TwiceBelow
<1>12. t \notin Shared(e.value, T)
  BY <1>6, <1>8, <1>11, TwiceBelow
<1>13. /\ t \in T[TheCompound]
       /\ T[TheCompound] \subseteq T[document] /\ T[e] \subseteq T[TheCompound]
  BY <1>2, <1>3, <1>4, <1>5, <1>7
<1>14. T[document] \subseteq c.says \cup {t}
  BY <1>1, <1>2 DEF TextsAllowed
<1>15. \A d \in Element : T[d] \subseteq T[document] =>
         \A kid \in elements(d.value) : T[kid] \subseteq c.says \cup {t}
  BY <1>7, <1>14
<1> QED
  BY <1>2, <1>3, <1>4, <1>5, <1>6, <1>10, <1>11, <1>12, <1>13, <1>15 DEF In

\* The items down to the compound lead to it.
LEMMA ToCompoundOnce ==
  ASSUME NEW c, NEW p, In(job.document, TheCompound, c), ToCompound \subseteq c.hot,
         NEW x \in ToCompound, x # Call("compounddef", compound)
  PROVE  ~IsToken(x) /\ Once(Result(x), c, p)
<1>1. HasHandler("doxygen") /\ HasHandler("compounddef")
  BY DEF HasHandler, Handled
<1>2. /\ document = [key |-> "doxygen", value |-> job.document]
      /\ TheCompound = [key |-> "compounddef", value |-> compound]
  BY DEF document, TheCompound
<1>3. /\ Call("doxygen", job.document) \in c.hot
      /\ Visit(job.document) \in c.hot
      /\ Handle("compounddef", compound) \in c.hot
      /\ Call("compounddef", compound) \in c.hot
  BY <1>2 DEF ToCompound, Tasks
<1>4. Once(Result(Handle("doxygen", job.document)), c, p)
  BY <1>1, <1>3, HandleResult
<1>5. Once(Result(Call("doxygen", job.document)), c, p)
  <2>1. PICK y : y = Visit(job.document)
    OBVIOUS
  <2>2. BodyOf("doxygen", job.document) = <<y>>
    BY <2>1 DEF BodyOf
  <2>3. Once(<<y>>, c, p)
    BY <1>3, <2>1, OnceFew DEF Hot
  <2> QED
    BY <2>2, <2>3, ResultOf
<1>6. Once(Result(Visit(job.document)), c, p)
  BY <1>2, <1>3, VisitIn
<1>7. Once(Result(Handle("compounddef", compound)), c, p)
  BY <1>1, <1>3, HandleResult
<1>8. x \in {Handle("doxygen", job.document), Call("doxygen", job.document),
             Visit(job.document), Handle("compounddef", compound)}
  BY <1>2 DEF ToCompound, Tasks
<1> QED
  BY <1>4, <1>5, <1>6, <1>7, <1>8, NotTokens

----------------------------------------------------------------------------
(* The base and inner classes *)

\* The name of a class that is listed, and the way to it.
Listing(t, e) ==
  About(t, {}, ToCompound \cup {Visit(compound)} \cup Tasks(e))

Listed(e) == /\ e \in elements(compound)
             /\ e.key \in {"basecompoundref", "innerclass"} /\ ~Hidden(e)

\* What a handler reads under a key is in a child of that name.
LEMMA ReadIn ==
  ASSUME NEW v \in Value, NEW key, get_value_as_string_view(v, key) # ""
  PROVE  \E d \in elements(v) :
           /\ d.key = key /\ d.value = get_value(v, key)
           /\ get_value_as_string_view(v, key) \in TextsWithout({})[d]
<1>1. get_value(v, key) # JsonNull
  BY NullIsEmpty DEF get_value_as_string_view
<1>2. PICK d \in elements(v) : d.key = key /\ d.value = get_value(v, key)
  BY <1>1, ValueFound
<1>3. d \in Element
  BY ElementsOf
<1>4. Json[d.value].text \in TextsWithout({})[d]
  BY <1>3, TextsOf
<1> QED
  BY <1>2, <1>4 DEF get_value_as_string_view

LEMMA HyperlinkOnce ==
  ASSUME NEW c, NEW v, NEW id
  PROVE  Once(print_hyperlink(c.text, v, id), c, TRUE)
<1>1. PICK x, y : x = Text(c.text) /\ y = Link(c.text, Url(v, id))
  OBVIOUS
<1>2. Hot(x, c, TRUE) /\ Hot(y, c, TRUE)
  BY <1>1 DEF Hot, HasText, Text, Link
<1>3. Once(<<x>>, c, TRUE) /\ Once(<<y>>, c, TRUE)
  BY <1>2, OnceFew
<1> QED
  BY <1>1, <1>3 DEF print_hyperlink

\* In the pass that lists the classes, the handler of one prints its name
\* once; in the other one it prints nothing.
LEMMA ListedBody ==
  ASSUME NEW c, Sought(c), c.of = TextsWithout({}),
         NEW e, Listed(e), NEW d, d.key = "#text", In(e.value, d, c),
         c.text = get_value_as_string_view(e.value, "#text")
  PROVE  /\ Printing => Once(BodyOf(e.key, e.value), c, TRUE)
         /\ ~Printing => Calm(BodyOf(e.key, e.value), c)
<1> DEFINE v == e.value
           prot == print_inline_code(get_value_as_string_view(v, "@prot"))
           virt == When(get_value_as_string_view(v, "@virt") # "non-virtual",
                        <<Text("virtual")>>)
<1>1. PICK name : name = print_hyperlink(c.text, v, get_ref_id(v))
  OBVIOUS
<1>2. Once(name, c, TRUE)
  BY <1>1, HyperlinkOnce
<1>3. PICK A, T : A = c.says /\ T = c.of
  OBVIOUS
<1>4. "" \in A /\ "virtual" \in A
  BY <1>3 DEF Sought, Covers, Words
<1>5. Speaks(prot, A, T)
  <2>1. get_value_as_string_view(v, "@prot") \in A
    BY <1>3, ReadOther
  <2> QED
    BY <1>4, <2>1, SpeaksHelpers
<1>6. Speaks(virt, A, T)
  <2>1. Speaks(<<Text("virtual")>>, A, T)
    BY <1>4, SpeaksTasks, SpeaksFew
  <2> QED
    BY <1>4, <2>1, SpeaksScopes
<1>7. Calm(prot, c) /\ Calm(virt, c)
  BY <1>3, <1>5, <1>6, CalmSpeaks
<1>8. CASE e.key = "basecompoundref"
  <2>1. BasecompoundrefBody(v) =
          IF Printing THEN name \o prot \o virt ELSE <<>>
    BY <1>1 DEF BasecompoundrefBody, Printing, When
  <2>2. BodyOf(e.key, v) = BasecompoundrefBody(v)
    BY <1>8 DEF BodyOf
  <2> HIDE DEF prot, virt
  <2>3. Once(name \o prot \o virt, c, TRUE)
    BY <1>2, <1>7, OnceThen
  <2> QED
    BY <2>1, <2>2, <2>3, CalmFew
<1>9. CASE e.key = "innerclass"
  <2>1. ~Hides(get_value_as_string_view(v, "@prot"))
    BY <1>9 DEF Listed, Hidden
  <2>2. InnerclassBody(v) = IF Printing THEN name ELSE <<>>
    BY <1>1, <2>1 DEF InnerclassBody, Printing, When
  <2>3. BodyOf(e.key, v) = InnerclassBody(v)
    BY <1>9 DEF BodyOf
  <2> QED
    BY <1>2, <2>2, <2>3, CalmFew
<1> QED
  BY <1>8, <1>9 DEF Listed

\* The compound leads to each of them, whichever pass it is.
LEMMA CompoundOnce ==
  ASSUME NEW c, Sought(c), c.of = TextsWithout({}), NEW e, In(compound, e, c),
         e.key \notin {"title", "compoundname", "detaileddescription"},
         Visit(compound) \in c.hot, NEW p
  PROVE  Once(BodyOf("compounddef", compound), c, p)
<1> DEFINE description ==
             <<Call("detaileddescription",
                    get_value(compound, "detaileddescription"))>>
<1>1. PICK v, title : v = compound /\ title = EffectiveTitle(compound)
  OBVIOUS
<1>2. "" \in c.says /\ "Summary" \in c.says
  BY DEF Sought, Covers, Words
<1>3. title \in c.says
  BY <1>1, ReadOther DEF EffectiveTitle
<1>4. Calm(description, c)
  <2>1. PICK x : x = Call("detaileddescription",
                          get_value(compound, "detaileddescription"))
    OBVIOUS
  <2>2. Cold(x, c)
    BY <2>1, ReadOther DEF Cold
  <2>3. Calm(<<x>>, c)
    BY <2>2, CalmFew
  <2> QED
    BY <2>1, <2>3
<1>5. PICK visit : visit = <<Visit(v)>>
  OBVIOUS
<1>6. Once(visit, c, p)
  <2>1. PICK x : x = Visit(compound)
    OBVIOUS
  <2>2. Once(<<x>>, c, p)
    BY <2>1, OnceFew DEF Hot
  <2> QED
    BY <1>1, <1>5, <2>1, <2>2
<1>7. CompounddefBody(v) =
        CASE is_summary -> Header(title, Header("Summary", visit))
          [] ~is_summary /\ ~config.generate_summary ->
               Header(title, description \o visit)
          [] OTHER -> description \o visit
  BY <1>1, <1>5 DEF CompounddefBody
<1> HIDE DEF description
<1>8. Once(description \o visit, c, p)
  BY <1>4, <1>6, OnceThen
<1>9. /\ Once(Header(title, Header("Summary", visit)), c, p)
      /\ Once(Header(title, description \o visit), c, p)
  BY <1>2, <1>3, <1>6, <1>8, OnceScopes
<1>10. Once(CompounddefBody(v), c, p)
  BY <1>7, <1>8, <1>9
<1> QED
  BY <1>1, <1>10 DEF BodyOf

LEMMA ListingSettled ==
  ASSUME StateInv, NEW t \in Telltale, NEW e, Listed(e),
         t = get_value_as_string_view(e.value, "#text"),
         NEW c, c = Listing(t, e)
  PROVE  /\ Sought(c) /\ Handle("doxygen", job.document) \in c.hot
         /\ IF Printing THEN Settled(c, TRUE) ELSE Settled(c, FALSE)
<1>1. PICK hot : hot = ToCompound \cup {Visit(compound)} \cup Tasks(e)
  OBVIOUS
<1>2. /\ c = About(t, {}, hot) /\ c.text = t /\ c.of = TextsWithout({})
      /\ c.hot = hot /\ c.mute = {}
  BY <1>1 DEF Listing, About
<1>3. Sought(c)
  BY <1>2, AboutIsSought
<1>4. Handle("doxygen", job.document) \in c.hot
  BY <1>1, <1>2 DEF ToCompound, Tasks, document
<1>5. e \in elements(compound) /\ e \in Element /\ e.value \in Value
  <2>1. compound \in Value
    <3>1. job.document \in Value
      BY JobAssumption DEF StateInv, Documents
    <3> QED
      BY <3>1, ValueFound DEF compound
  <2> QED
    BY <2>1, ElementsOf DEF Listed, Element
<1>6. PICK d \in elements(e.value) : d.key = "#text" /\ t \in c.of[d]
  <2>1. get_value_as_string_view(e.value, "#text") # ""
    BY DEF Telltale, Words
  <2>2. PICK d \in elements(e.value) :
          /\ d.key = "#text"
          /\ get_value_as_string_view(e.value, "#text") \in TextsWithout({})[d]
    BY <1>5, <2>1, ReadIn
  <2> QED
    BY <1>2, <2>2
<1>7. t \in c.of[e]
  BY <1>2, <1>5, <1>6, TextsOf
<1>8. /\ In(job.document, TheCompound, c) /\ In(compound, e, c)
      /\ In(e.value, d, c)
  BY <1>2, <1>5, <1>6, <1>7, InCompound
<1>9. HasHandler(e.key)
  BY DEF HasHandler, Handled, Listed
<1>10. /\ Visit(compound) \in c.hot /\ ToCompound \subseteq c.hot
       /\ Handle(e.key, e.value) \in c.hot /\ Call(e.key, e.value) \in c.hot
  BY <1>1, <1>2 DEF Tasks
<1>11. ASSUME NEW p, NEW x \in c.hot, x # Call(e.key, e.value)
       PROVE  ~IsToken(x) /\ Once(Result(x), c, p)
  <2>1. CASE x \in ToCompound /\ x # Call("compounddef", compound)
    BY <1>8, <1>10, <2>1, ToCompoundOnce
  <2>2. CASE x = Call("compounddef", compound)
    <3>1. Once(BodyOf("compounddef", compound), c, p)
      BY <1>2, <1>3, <1>8, <1>10, CompoundOnce DEF Listed
    <3> QED
      BY <2>2, <3>1, NotTokens, ResultOf
  <2>3. CASE x = Visit(compound)
    BY <1>8, <1>10, <2>3, VisitIn, NotTokens
  <2>4. CASE x = Handle(e.key, e.value)
    BY <1>9, <1>10, <2>4, HandleResult, NotTokens
  <2> QED
    BY <1>1, <1>2, <1>11, <2>1, <2>2, <2>3, <2>4 DEF Tasks
<1>12. PICK x : x = Call(e.key, e.value)
  OBVIOUS
<1>13. /\ ~IsToken(x)
       /\ Printing => Once(Result(x), c, TRUE)
       /\ ~Printing => Calm(Result(x), c)
  <2>1. /\ Printing => Once(BodyOf(e.key, e.value), c, TRUE)
        /\ ~Printing => Calm(BodyOf(e.key, e.value), c)
    BY <1>2, <1>3, <1>6, <1>8, ListedBody
  <2> QED
    BY <1>12, <2>1, NotTokens, ResultOf
<1>14. Printing => Settled(c, TRUE)
  BY <1>2, <1>11, <1>12, <1>13 DEF Settled
<1>15. ~Printing => Settled(c, FALSE)
  BY <1>2, <1>11, <1>12, <1>13 DEF Settled
<1> QED
  BY <1>3, <1>4, <1>14, <1>15

\* Every one of them is listed once.
ListingInv ==
  \A t \in Telltale : \A e \in elements(compound) :
    Listed(e) /\ t = get_value_as_string_view(e.value, "#text") =>
      OnceInv(Listing(t, e))

LEMMA ListingStays ==
  ASSUME UNCHANGED job
  PROVE  /\ Telltale' = Telltale /\ compound' = compound
         /\ \A e : Listed(e)' = Listed(e)
         /\ \A t, e : Listing(t, e)' = Listing(t, e)
         /\ \A t, mute, hot : About(t, mute, hot)' = About(t, mute, hot)
         /\ ToCompound' = ToCompound
<1>1. /\ document' = document /\ \A set : TextsAllowed(set)' = TextsAllowed(set)
  BY SetsStay
<1>2. config' = config /\ compound' = compound
  BY DEF config, compound
<1>3. Telltale' = Telltale
  BY <1>1 DEF Telltale
<1>4. \A e : Hidden(e)' = Hidden(e)
  BY <1>2 DEF Hidden, HidesSection, Hides
<1>5. \A e : Listed(e)' = Listed(e)
  BY <1>2, <1>4 DEF Listed
<1>6. \A t, mute, hot : About(t, mute, hot)' = About(t, mute, hot)
  BY <1>1 DEF About
<1>7. ToCompound' = ToCompound
  BY <1>1, <1>2 DEF ToCompound, TheCompound
<1> QED
  BY <1>2, <1>3, <1>5, <1>6, <1>7 DEF Listing

LEMMA ListingNext == StateInv /\ LinksInv /\ ListingInv /\ [Next]_vars => ListingInv'
<1> SUFFICES ASSUME StateInv, LinksInv, ListingInv, [Next]_vars
             PROVE  ListingInv'
  OBVIOUS
<1>1. UNCHANGED job
  BY JobStays
<1>2. /\ Telltale' = Telltale /\ compound' = compound
      /\ \A e : Listed(e)' = Listed(e)
      /\ \A t, e : Listing(t, e)' = Listing(t, e)
  BY <1>1, ListingStays
<1>3. ASSUME NEW t \in Telltale, NEW e \in elements(compound), Listed(e),
             t = get_value_as_string_view(e.value, "#text"),
             NEW c, c = Listing(t, e)
      PROVE  OnceInv(c)'
  <2>1. /\ Sought(c) /\ Handle("doxygen", job.document) \in c.hot
        /\ IF Printing THEN Settled(c, TRUE) ELSE Settled(c, FALSE)
    BY <1>3, ListingSettled
  <2>2. OnceInv(c)
    BY <1>3 DEF ListingInv
  <2> QED
    BY <2>1, <2>2, OnceKept
<1>4. ASSUME NEW t \in Telltale, NEW e \in elements(compound), Listed(e),
             t = get_value_as_string_view(e.value, "#text")
      PROVE  OnceInv(Listing(t, e))'
  <2>1. PICK c : c = Listing(t, e)
    OBVIOUS
  <2>2. OnceInv(c)'
    BY <1>3, <1>4, <2>1
  <2> QED
    BY <1>2, <2>1, <2>2
<1> QED
  BY <1>2, <1>4 DEF ListingInv

\* A base or inner class that is shown is listed exactly once, by the summary
\* or by the details when there is no summary, whatever else is in the
\* document, if its name is in one place of it (DoxyJson.cpp:188, 382).
THEOREM ClassesAreListedOnce == Spec => []ListedOnce
<1>1. Init => ListingInv
  BY DEF Init, ListingInv, OnceInv
<1>2. ListingInv => ListedOnce
  <2> SUFFICES ASSUME ListingInv, pass = "done", NEW e \in elements(compound),
                      e.key \in {"basecompoundref", "innerclass"}, ~Hidden(e),
                      NEW t, t = get_value_as_string_view(e.value, "#text"),
                      t \in Telltale
               PROVE  Cardinality(Places(t)) = 1
    BY DEF ListedOnce
  <2>1. PICK c : c = Listing(t, e)
    OBVIOUS
  <2>2. OnceInv(c) /\ c.text = t
    BY <2>1 DEF ListingInv, Listed, Listing, About
  <2>3. PICK k : Places(t) = {k}
    BY <2>2 DEF OnceInv, Single
  <2> QED
    BY <2>3, FS_Singleton
<1> QED
  BY <1>1, <1>2, ListingNext, StateInvariant, LinksInvariant, PTL DEF Spec

----------------------------------------------------------------------------
(* The title has its place to itself *)

\* The title of the page: print() reaches the element it is in and prints
\* nothing; compounddef prints it.
Titling(t, e) == About(t, {Visit(compound)} \cup Tasks(e), ToCompound)

Entitles(e, t) == /\ e \in elements(compound)
                  /\ e.key \in {"title", "compoundname"}
                  /\ t \in TextsWithout({})[e]

LEMMA CompoundIsValue == StateInv => compound \in Value
<1> SUFFICES ASSUME StateInv  PROVE compound \in Value
  OBVIOUS
<1>1. job.document \in Value
  BY JobAssumption DEF StateInv, Documents
<1> QED
  BY <1>1, ValueFound DEF compound

LEMMA TitleIsIn ==
  ASSUME StateInv, EffectiveTitle(compound) # ""
  PROVE  \E e : Entitles(e, EffectiveTitle(compound))
<1>1. compound \in Value
  BY CompoundIsValue
<1>2. PICK key \in {"title", "compoundname"} :
        EffectiveTitle(compound) = get_value_as_string_view(compound, key)
  BY DEF EffectiveTitle
<1>3. PICK e \in elements(compound) :
        /\ e.key = key
        /\ get_value_as_string_view(compound, key) \in TextsWithout({})[e]
  BY <1>1, <1>2, ReadIn
<1> QED
  BY <1>2, <1>3 DEF Entitles

\* In the pass that prints the title, compounddef prints it once; in the other
\* one it does not.
LEMMA TitledBody ==
  ASSUME NEW c, Sought(c), c.of = TextsWithout({}), NEW e, In(compound, e, c),
         e.key \in {"title", "compoundname"},
         Visit(compound) \in c.mute, c.text = EffectiveTitle(compound)
  PROVE  /\ Printing => Once(BodyOf("compounddef", compound), c, TRUE)
         /\ ~Printing => Calm(BodyOf("compounddef", compound), c)
<1> DEFINE description ==
             <<Call("detaileddescription",
                    get_value(compound, "detaileddescription"))>>
<1>1. PICK v, title : v = compound /\ title = EffectiveTitle(compound)
  OBVIOUS
<1>2. "" \in c.says /\ "Summary" \in c.says
  BY DEF Sought, Covers, Words
<1>3. Calm(description, c)
  <2>1. PICK x : x = Call("detaileddescription",
                          get_value(compound, "detaileddescription"))
    OBVIOUS
  <2>2. Cold(x, c)
    BY <2>1, ReadOther DEF Cold
  <2>3. Calm(<<x>>, c)
    BY <2>2, CalmFew
  <2> QED
    BY <2>1, <2>3
<1>4. PICK visit : visit = <<Visit(v)>>
  OBVIOUS
<1>5. Calm(visit, c)
  <2>1. PICK x : x = Visit(compound)
    OBVIOUS
  <2>2. Calm(<<x>>, c)
    BY <2>1, CalmFew DEF Cold
  <2> QED
    BY <1>1, <1>4, <2>1, <2>2
<1> HIDE DEF description
<1>6. Calm(Header("Summary", visit), c) /\ Calm(description \o visit, c)
  BY <1>2, <1>3, <1>5, OnceScopes, CalmThen
<1>7. ASSUME NEW s, Calm(s, c)  PROVE Once(Header(title, s), c, TRUE)
  <2>1. PICK a, b : a = <<Open("header", title)>> /\ b = <<Close("header")>>
    OBVIOUS
  <2>2. Once(a, c, TRUE)
    <3>1. PICK x : x = Open("header", title)
      OBVIOUS
    <3>2. Hot(x, c, TRUE)
      BY <1>1, <3>1 DEF Hot, HasText, Open
    <3> QED
      BY <2>1, <3>1, <3>2, OnceFew
  <2>3. Calm(b, c)
    BY <1>2, <2>1, SpeaksTasks, SpeaksFew, CalmSpeaks
  <2>4. Once(a \o s \o b, c, TRUE)
    BY <1>7, <2>2, <2>3, OnceThen
  <2> QED
    BY <2>1, <2>4 DEF Header
<1>8. CompounddefBody(v) =
        CASE is_summary -> Header(title, Header("Summary", visit))
          [] ~is_summary /\ ~config.generate_summary ->
               Header(title, description \o visit)
          [] OTHER -> description \o visit
  BY <1>1, <1>4 DEF CompounddefBody, description
<1>9. /\ Printing => Once(CompounddefBody(v), c, TRUE)
      /\ ~Printing => Calm(CompounddefBody(v), c)
  BY <1>6, <1>7, <1>8 DEF Printing
<1> QED
  BY <1>1, <1>9 DEF BodyOf

LEMMA TitlingSettled ==
  ASSUME StateInv, NEW t \in Telltale, t = EffectiveTitle(compound),
         NEW e, Entitles(e, t), NEW c, c = Titling(t, e)
  PROVE  /\ Sought(c) /\ Handle("doxygen", job.document) \in c.hot
         /\ IF Printing THEN Settled(c, TRUE) ELSE Settled(c, FALSE)
<1>1. PICK mute : mute = {Visit(compound)} \cup Tasks(e)
  OBVIOUS
<1>2. /\ c = About(t, mute, ToCompound) /\ c.text = t /\ c.of = TextsWithout({})
      /\ c.hot = ToCompound /\ c.mute = mute
  BY <1>1 DEF Titling, About
<1>3. Sought(c)
  BY <1>2, AboutIsSought
<1>4. Handle("doxygen", job.document) \in c.hot
  BY <1>2 DEF ToCompound, Tasks, document
<1>5. e \in elements(compound) /\ t \in c.of[e]
  BY <1>2 DEF Entitles
<1>6. In(job.document, TheCompound, c) /\ In(compound, e, c)
  BY <1>2, <1>5, InCompound
<1>7. /\ Visit(compound) \in c.mute
      /\ Handle(e.key, e.value) \in c.mute /\ Call(e.key, e.value) \in c.mute
  BY <1>1, <1>2 DEF Tasks
<1>8. ASSUME NEW x \in c.mute  PROVE ~IsToken(x) /\ Calm(Result(x), c)
  <2>1. CASE x = Visit(compound)
    BY <1>6, <1>7, <2>1, VisitIn, NotTokens
  <2>2. CASE x = Handle(e.key, e.value)
    BY <1>7, <2>2, HandleResult, NotTokens
  <2>3. CASE x = Call(e.key, e.value)
    <3>1. BodyOf(e.key, e.value) = <<>>
      BY DEF BodyOf, Entitles
    <3> QED
      BY <2>3, <3>1, CalmFew, ResultOf, NotTokens
  <2> QED
    BY <1>1, <1>2, <2>1, <2>2, <2>3 DEF Tasks
<1>9. PICK x : x = Call("compounddef", compound)
  OBVIOUS
<1>10. ASSUME NEW y \in c.hot, y # x, NEW p
       PROVE  ~IsToken(y) /\ Once(Result(y), c, p)
  BY <1>2, <1>6, <1>9, <1>10, ToCompoundOnce
<1>11. /\ ~IsToken(x)
       /\ Printing => Once(Result(x), c, TRUE)
       /\ ~Printing => Calm(Result(x), c)
  <2>1. /\ Printing => Once(BodyOf("compounddef", compound), c, TRUE)
        /\ ~Printing => Calm(BodyOf("compounddef", compound), c)
    BY <1>2, <1>3, <1>6, <1>7, TitledBody DEF Entitles
  <2> QED
    BY <1>9, <2>1, NotTokens, ResultOf
<1>12. Printing => Settled(c, TRUE)
  BY <1>8, <1>10, <1>11 DEF Settled
<1>13. ~Printing => Settled(c, FALSE)
  BY <1>8, <1>10, <1>11 DEF Settled
<1> QED
  BY <1>3, <1>4, <1>12, <1>13

\* The title of the compound is printed once, and nothing else is called so.
TitleInv ==
  \A t \in Telltale : \A e :
    t = EffectiveTitle(compound) /\ Entitles(e, t) => OnceInv(Titling(t, e))

LEMMA TitleNext == StateInv /\ LinksInv /\ TitleInv /\ [Next]_vars => TitleInv'
<1> SUFFICES ASSUME StateInv, LinksInv, TitleInv, [Next]_vars
             PROVE  TitleInv'
  OBVIOUS
<1>1. UNCHANGED job
  BY JobStays
<1>2. /\ Telltale' = Telltale /\ compound' = compound
      /\ \A t, e : Titling(t, e)' = Titling(t, e)
      /\ \A t, e : Entitles(e, t)' = Entitles(e, t)
  BY <1>1, ListingStays DEF Titling, Entitles
<1>3. ASSUME NEW t \in Telltale, NEW e, t = EffectiveTitle(compound),
             Entitles(e, t), NEW c, c = Titling(t, e)
      PROVE  OnceInv(c)'
  <2>1. /\ Sought(c) /\ Handle("doxygen", job.document) \in c.hot
        /\ IF Printing THEN Settled(c, TRUE) ELSE Settled(c, FALSE)
    BY <1>3, TitlingSettled
  <2>2. OnceInv(c)
    BY <1>3 DEF TitleInv
  <2> QED
    BY <2>1, <2>2, OnceKept
<1>4. ASSUME NEW t \in Telltale, NEW e, t = EffectiveTitle(compound),
             Entitles(e, t)
      PROVE  OnceInv(Titling(t, e))'
  <2>1. PICK c : c = Titling(t, e)
    OBVIOUS
  <2>2. OnceInv(c)'
    BY <1>3, <1>4, <2>1
  <2> QED
    BY <1>2, <2>1, <2>2
<1>5. EffectiveTitle(compound)' = EffectiveTitle(compound)
  BY <1>2
<1> QED
  BY <1>2, <1>4, <1>5 DEF TitleInv

----------------------------------------------------------------------------
(* The title comes first *)

Title == Open("header", EffectiveTitle(compound))

\* An item that prints nothing and becomes nothing else: an element that has
\* no handler, or the end of one that has.
Silent(x) == \/ x.do = "handle" /\ ~HasHandler(x.key)
             \/ x.do = "leave"

\* An item that leads to the title, and a sequence that comes to it before
\* it prints anything else.
Leads(x) == x \in ToCompound \cup {Title}
Leading(s) ==
  /\ IsSeq(s)
  /\ \E k \in 1 .. Len(s) : /\ Leads(s[k])
                            /\ \A i \in 1 .. k - 1 : Leads(s[i]) \/ Silent(s[i])

Silence(s) == IsSeq(s) /\ \A i \in 1 .. Len(s) : Silent(s[i])

LEMMA LeadingNext ==
  ASSUME NEW s, Leading(s)
  PROVE  /\ s # <<>>
         /\ Leads(Head(s)) \/ (Silent(Head(s)) /\ Leading(Tail(s)))
<1>1. PICK k \in 1 .. Len(s) :
        Leads(s[k]) /\ \A i \in 1 .. k - 1 : Leads(s[i]) \/ Silent(s[i])
  BY DEF Leading
<1>2. s # <<>>
  BY <1>1, SeqFew
<1>3. /\ Len(s) \in Nat /\ Len(s) > 0 /\ Head(s) = s[1]
      /\ IsSeq(Tail(s)) /\ Len(Tail(s)) = Len(s) - 1
      /\ \A i \in 1 .. Len(s) - 1 : Tail(s)[i] = s[i + 1]
  BY <1>2, SeqNext DEF Leading
<1>4. CASE k = 1
  BY <1>1, <1>2, <1>3, <1>4
<1>5. CASE k # 1
  <2>1. PICK j \in 1 .. Len(s) - 1 : k = j + 1
    <3>1. k - 1 \in 1 .. Len(s) - 1 /\ k = (k - 1) + 1
      BY <1>3, <1>5
    <3> QED
      BY <3>1
  <2>2. ASSUME NEW i \in 1 .. j - 1
        PROVE  Leads(Tail(s)[i]) \/ Silent(Tail(s)[i])
    <3>1. i + 1 \in 1 .. k - 1 /\ i \in 1 .. Len(s) - 1
      BY <1>3, <2>1
    <3> QED
      BY <1>1, <1>3, <3>1
  <2>3. Leads(Tail(s)[j])
    BY <1>1, <1>3, <2>1
  <2>4. Leading(Tail(s))
    BY <1>3, <2>1, <2>2, <2>3 DEF Leading
  <2>5. 1 \in 1 .. k - 1
    BY <1>3, <1>5
  <2> QED
    BY <1>1, <1>2, <1>3, <2>4, <2>5
<1> QED
  BY <1>4, <1>5

LEMMA LeadingThen ==
  /\ \A s, t : Leading(s) /\ IsSeq(t) => Leading(s \o t)
  /\ \A s, t : Silence(s) /\ Leading(t) => Leading(s \o t)
<1>1. ASSUME NEW s, NEW t, Leading(s), IsSeq(t)  PROVE Leading(s \o t)
  <2>1. PICK u : u = s \o t
    OBVIOUS
  <2>2. /\ IsSeq(u) /\ Len(s) \in Nat /\ Len(t) \in Nat
        /\ Len(u) = Len(s) + Len(t)
        /\ \A i \in 1 .. Len(s) : u[i] = s[i]
    BY <1>1, <2>1, SeqThen DEF Leading
  <2>3. PICK k \in 1 .. Len(s) :
          Leads(s[k]) /\ \A i \in 1 .. k - 1 : Leads(s[i]) \/ Silent(s[i])
    BY <1>1 DEF Leading
  <2>4. /\ k \in 1 .. Len(u) /\ Leads(u[k])
        /\ \A i \in 1 .. k - 1 : i \in 1 .. Len(s)
    BY <2>2, <2>3
  <2>5. \A i \in 1 .. k - 1 : Leads(u[i]) \/ Silent(u[i])
    BY <2>2, <2>3, <2>4
  <2> QED
    BY <2>1, <2>2, <2>4, <2>5 DEF Leading
<1>2. ASSUME NEW s, NEW t, Silence(s), Leading(t)  PROVE Leading(s \o t)
  <2>1. PICK u : u = s \o t
    OBVIOUS
  <2>2. /\ IsSeq(u) /\ Len(s) \in Nat /\ Len(t) \in Nat
        /\ Len(u) = Len(s) + Len(t)
        /\ \A i \in 1 .. Len(s) : u[i] = s[i]
        /\ \A i \in 1 .. Len(t) : u[Len(s) + i] = t[i]
    BY <1>2, <2>1, SeqThen DEF Leading, Silence
  <2>3. PICK k \in 1 .. Len(t) :
          Leads(t[k]) /\ \A i \in 1 .. k - 1 : Leads(t[i]) \/ Silent(t[i])
    BY <1>2 DEF Leading
  <2>4. Len(s) + k \in 1 .. Len(u) /\ Leads(u[Len(s) + k])
    BY <2>2, <2>3
  <2>5. ASSUME NEW i \in 1 .. Len(s) + k - 1
        PROVE  Leads(u[i]) \/ Silent(u[i])
    <3>1. CASE i \in 1 .. Len(s)
      BY <1>2, <2>2, <3>1 DEF Silence
    <3>2. CASE i \notin 1 .. Len(s)
      <4>1. i - Len(s) \in 1 .. k - 1 /\ i = Len(s) + (i - Len(s))
        BY <2>2, <2>3, <3>2
      <4>2. PICK j \in 1 .. k - 1 : i = Len(s) + j
        BY <4>1
      <4>3. j \in 1 .. Len(t)
        BY <2>2, <2>3, <4>2
      <4> QED
        BY <2>2, <2>3, <4>2, <4>3
    <3> QED
      BY <3>1, <3>2
  <2>6. PICK j : j = Len(s) + k
    OBVIOUS
  <2>7. /\ j \in 1 .. Len(u) /\ Leads(u[j])
        /\ \A i \in 1 .. j - 1 : Leads(u[i]) \/ Silent(u[i])
    BY <2>4, <2>5, <2>6
  <2> QED
    BY <2>1, <2>2, <2>7 DEF Leading
<1> QED
  BY <1>1, <1>2

LEMMA LeadingFew ==
  /\ \A x : Leads(x) => Leading(<<x>>)
  /\ \A x, y : Leads(x) => Leading(<<x, y>>)
<1>1. ASSUME NEW s, IsSeq(s), Len(s) \in Nat, Len(s) > 0, Leads(s[1])
      PROVE  Leading(s)
  <2>1. 1 \in 1 .. Len(s) /\ \A i \in 1 .. 1 - 1 : FALSE
    BY <1>1
  <2> QED
    BY <1>1, <2>1 DEF Leading
<1>2. ASSUME NEW x, Leads(x)  PROVE Leading(<<x>>)
  <2>1. PICK s : s = <<x>>
    OBVIOUS
  <2>2. IsSeq(s) /\ Len(s) = 1 /\ s[1] = x
    BY <2>1, SeqFew
  <2> QED
    BY <1>1, <1>2, <2>1, <2>2
<1>3. ASSUME NEW x, NEW y, Leads(x)  PROVE Leading(<<x, y>>)
  <2>1. PICK s : s = <<x, y>>
    OBVIOUS
  <2>2. IsSeq(s) /\ Len(s) = 2 /\ s[1] = x
    BY <2>1, SeqFew
  <2> QED
    BY <1>1, <1>3, <2>1, <2>2
<1> QED
  BY <1>2, <1>3

\* Nothing comes of a silent item but silent ones.
LEMMA SilentResult ==
  ASSUME NEW x, Silent(x)
  PROVE  Silence(Result(x)) /\ ~IsToken(x)
<1>1. Silence(<<>>)
  BY SeqFew DEF Silence
<1>2. CASE x.do = "handle" /\ ~HasHandler(x.key)
  BY <1>1, <1>2 DEF Result, IsToken
<1>3. CASE x.do = "leave"
  BY <1>1, <1>3 DEF Result, IsToken
<1> QED
  BY <1>2, <1>3 DEF Silent

\* print() comes to the compound before it prints anything else: the document
\* has but attributes besides.
LEMMA DocumentLeads ==
  ASSUME StateInv, ~is_null(compound)
  PROVE  Leading(Result(Visit(job.document)))
<1> DEFINE kids == Json[job.document].kids
<1>1. job.document \in Value /\ job.document \in Documents
  BY JobAssumption DEF StateInv, Documents
<1>2. PICK e \in elements(job.document) :
        e.key = "compounddef" /\ e.value = compound
  <2>1. compound # JsonNull
    BY JsonAssumption DEF is_null
  <2> QED
    BY <1>1, <2>1, ValueFound DEF compound
<1>3. /\ elements(job.document) = {kids[i] : i \in 1 .. Len(kids)}
      /\ elements(job.document) \subseteq Element
  BY <1>1, ElementsOf
<1>4. PICK k \in 1 .. Len(kids) : kids[k] = e
  BY <1>2, <1>3
<1>5. PICK s : s = Children(job.document)
  OBVIOUS
<1>6. /\ Len(s) = Len(kids) /\ IsSeq(s)
      /\ \A i \in 1 .. Len(kids) : s[i] = Handle(kids[i].key, kids[i].value)
  <2>1. Plain(s)
    BY <1>1, <1>5, PlainChildren
  <2> QED
    BY <1>1, <1>5, <2>1, PlainChildren DEF Plain, IsSeq
<1>7. Result(Visit(job.document)) = s
  <2>1. PICK n : n = Len(kids)
    OBVIOUS
  <2>2. kids # <<>>
    <3>1. kids = <<>> => n = 0
      BY <2>1, SeqFew
    <3>2. k \in 1 .. n
      BY <1>4, <2>1
    <3> QED
      BY <3>1, <3>2
  <2>3. ~is_string(job.document)
    BY <1>1, <2>2, JsonAssumption DEF is_string
  <2> QED
    BY <1>5, <2>3, ResultOf
<1>8. Leads(Handle("compounddef", compound))
  BY DEF Leads, ToCompound, Tasks, TheCompound
<1> HIDE DEF kids
<1>9. ASSUME NEW i \in 1 .. Len(kids)  PROVE Leads(s[i]) \/ Silent(s[i])
  <2>1. PICK d : d = kids[i]
    OBVIOUS
  <2>2. d \in elements(job.document) /\ s[i] = Handle(d.key, d.value)
    BY <1>3, <1>6, <2>1
  <2>3. CASE d.key = "compounddef"
    <3>1. d.value = compound
      BY <1>1, <2>2, <2>3, CompoundAssumption DEF compound
    <3> QED
      BY <1>8, <2>2, <2>3, <3>1
  <2>4. CASE d.key # "compounddef"
    <3>1. ~HasHandler(d.key)
      BY <1>1, <2>2, <2>4, CompoundAssumption DEF Documents
    <3> QED
      BY <2>2, <3>1 DEF Silent, Handle, Do
  <2> QED
    BY <2>3, <2>4
<1>10. Leads(s[k])
  BY <1>2, <1>4, <1>6, <1>8
<1>11. PICK n : n = Len(kids)
  OBVIOUS
<1>12. n \in Nat
  BY <1>6, <1>11, SeqThen
<1>13. \A i \in 1 .. k - 1 : i \in 1 .. n
  BY <1>4, <1>11, <1>12
<1> QED
  BY <1>4, <1>6, <1>7, <1>9, <1>10, <1>11, <1>13 DEF Leading

\* In the pass that prints the title, what leads to it goes on to do so.
LEMMA LeadsOn ==
  ASSUME StateInv, ~is_null(compound), Printing, NEW x \in ToCompound
  PROVE  Leading(Result(x)) /\ ~IsToken(x)
<1>1. /\ document = [key |-> "doxygen", value |-> job.document]
      /\ TheCompound = [key |-> "compounddef", value |-> compound]
      /\ HasHandler("doxygen") /\ HasHandler("compounddef")
  BY DEF document, TheCompound, HasHandler, Handled
<1>2. ASSUME NEW key, NEW v, HasHandler(key), Leads(Call(key, v))
      PROVE  Leading(Result(Handle(key, v)))
  <2>1. PICK a, b : a = Call(key, v) /\ b = Leave(key, v)
    OBVIOUS
  <2>2. Leading(<<a, b>>)
    BY <1>2, <2>1, LeadingFew
  <2> QED
    BY <1>2, <2>1, <2>2, ResultOf
<1>3. /\ Leads(Call("doxygen", job.document)) /\ Leads(Visit(job.document))
      /\ Leads(Call("compounddef", compound)) /\ Leads(Title)
  BY <1>1 DEF Leads, ToCompound, Tasks
<1>4. Leading(Result(Handle("doxygen", job.document)))
  BY <1>1, <1>2, <1>3
<1>5. Leading(Result(Handle("compounddef", compound)))
  BY <1>1, <1>2, <1>3
<1>6. Leading(Result(Call("doxygen", job.document)))
  <2>1. PICK y : y = Visit(job.document)
    OBVIOUS
  <2>2. BodyOf("doxygen", job.document) = <<y>>
    BY <2>1 DEF BodyOf
  <2>3. Leading(<<y>>)
    BY <1>3, <2>1, LeadingFew
  <2> QED
    BY <2>2, <2>3, ResultOf
<1>7. Leading(Result(Visit(job.document)))
  BY DocumentLeads
<1>8. Leading(Result(Call("compounddef", compound)))
  <2>1. PICK v, title : v = compound /\ title = EffectiveTitle(compound)
    OBVIOUS
  <2>2. PICK visit, call : /\ visit = Visit(v)
                           /\ call = Call("detaileddescription",
                                          get_value(v, "detaileddescription"))
    OBVIOUS
  <2>3. ASSUME NEW t, NEW s, IsSeq(s)  PROVE IsSeq(Header(t, s))
    <3>1. PICK a, b : a = <<Open("header", t)>> /\ b = <<Close("header")>>
      OBVIOUS
    <3>2. IsSeq(a) /\ IsSeq(b)
      BY <3>1, SeqFew
    <3>3. IsSeq(a \o s \o b)
      BY <2>3, <3>2, SeqThen
    <3> QED
      BY <3>1, <3>3 DEF Header
  <2>4. IsSeq(<<visit>>) /\ IsSeq(<<call>>) /\ IsSeq(<<call>> \o <<visit>>)
    BY SeqFew, SeqThen
  <2>5. ASSUME NEW s, IsSeq(s)  PROVE Leading(Header(title, s))
    <3>1. PICK a, b : a = <<Open("header", title)>> /\ b = <<Close("header")>>
      OBVIOUS
    <3>2. Leading(a)
      <4>1. PICK y : y = Open("header", title)
        OBVIOUS
      <4>2. Leads(y)
        BY <1>3, <2>1, <4>1 DEF Title
      <4> QED
        BY <3>1, <4>1, <4>2, LeadingFew
    <3>3. IsSeq(b)
      BY <3>1, SeqFew
    <3>4. Leading(a \o s)
      BY <2>5, <3>2, LeadingThen
    <3>5. Leading(a \o s \o b)
      BY <3>3, <3>4, LeadingThen
    <3> QED
      BY <3>1, <3>5 DEF Header
  <2>6. PICK both : both = <<call>> \o <<visit>>
    OBVIOUS
  <2>7. CompounddefBody(v) \in
          {Header(title, Header("Summary", <<visit>>)), Header(title, both)}
    BY <2>1, <2>2, <2>6 DEF CompounddefBody, Printing
  <2>8. Leading(CompounddefBody(v))
    BY <2>3, <2>4, <2>5, <2>6, <2>7
  <2>9. BodyOf("compounddef", compound) = CompounddefBody(v)
    BY <2>1 DEF BodyOf
  <2> QED
    BY <2>8, <2>9, ResultOf
<1> QED
  BY <1>1, <1>4, <1>5, <1>6, <1>7, <1>8, NotTokens DEF ToCompound, Tasks

Led == Len(out) > 0 /\ out[1] = Title

\* Once the title is first it stays so.
LEMMA LedStays ==
  ASSUME Printed(out), UNCHANGED job,
         \E x : out' = IF IsToken(x) THEN Append(out, x) ELSE out
  PROVE  /\ Led => Led'
         /\ out = <<>> /\ out' = Append(out, Title) => Led'
<1>1. Title' = Title /\ IsToken(Title)
  BY DEF Title, compound, IsToken, Open
<1>2. PICK S : out \in Seq(S)
  BY DEF Printed
<1>3. ASSUME Led  PROVE Led'
  <2>1. PICK x : out' = IF IsToken(x) THEN Append(out, x) ELSE out
    OBVIOUS
  <2>2. CASE out' = out
    BY <1>1, <1>3, <2>2 DEF Led
  <2>3. CASE out' = Append(out, x)
    <3>1. PICK o : o = out'
      OBVIOUS
    <3>2. out \in Seq(S \cup {x}) /\ x \in S \cup {x}
      BY <1>2
    <3>3. Len(o) = Len(out) + 1 /\ Len(out) \in Nat /\ o[1] = out[1]
      BY <1>3, <2>3, <3>1, <3>2 DEF Led
    <3> QED
      BY <1>1, <1>3, <3>1, <3>3 DEF Led
  <2> QED
    BY <2>1, <2>2, <2>3
<1>4. ASSUME out = <<>>, out' = Append(out, Title)  PROVE Led'
  <2>1. PICK x, o : x = Title /\ o = out'
    OBVIOUS
  <2>2. o = <<x>>
    BY <1>4, <2>1
  <2>3. Len(o) = 1 /\ o[1] = x
    BY <2>2, SeqFew
  <2> QED
    BY <1>1, <2>1, <2>3 DEF Led
<1> QED
  BY <1>3, <1>4

\* The pass that prints the title prints nothing before it.
FirstInv ==
  ~is_null(compound) =>
    /\ pass \in {"summary", "details"} /\ Printing =>
         Led \/ (out = <<>> /\ Leading(work))
    /\ pass = "details" /\ ~Printing => Led
    /\ pass = "done" => Led

LEMMA FirstStep ==
  ASSUME StateInv, FirstInv, ~is_null(compound), UNCHANGED job,
         pass \in {"summary", "details"},
         Dispatch \/ PopName \/ PrintValue \/ Emit \/ Handlers
  PROVE  FirstInv'
<1>1. PICK x, rest : x = Head(work) /\ rest = Tail(work)
  OBVIOUS
<1>2. /\ work # <<>> /\ work' = Result(x) \o rest
      /\ UNCHANGED state
      /\ out' = IF IsToken(x) THEN Append(out, x) ELSE out
  BY <1>1, ItemStep DEF is_add_links
<1>3. /\ UNCHANGED pass /\ Printing' = Printing /\ compound' = compound
      /\ \A s : Leading(s)' = Leading(s)
  <2>1. UNCHANGED <<job, pass>>
    BY <1>2 DEF state
  <2>2. ToCompound' = ToCompound /\ compound' = compound
    BY <2>1, ListingStays
  <2>3. Title' = Title
    BY <2>2 DEF Title
  <2>4. \A y : Leads(y)' = Leads(y)
    BY <2>2, <2>3 DEF Leads
  <2>5. \A s : Leading(s)' = Leading(s)
    BY <2>4 DEF Leading
  <2> QED
    BY <2>1, <2>2, <2>5 DEF Printing, is_summary, config
<1>4. Led => Led'
  BY <1>2, LedStays DEF StateInv
<1>5. CASE Led
  BY <1>3, <1>4, <1>5 DEF FirstInv
<1>6. CASE ~Led
  <2>1. Printing /\ out = <<>> /\ Leading(work)
    <3>1. pass = "summary" => Printing
      BY DEF Printing, is_summary
    <3>2. Printing
      BY <1>6, <3>1 DEF FirstInv
    <3> QED
      BY <1>6, <3>2 DEF FirstInv
  <2>2. Leads(x) \/ (Silent(x) /\ Leading(rest))
    BY <1>1, <2>1, LeadingNext
  <2>3. IsSeq(rest)
    BY <1>1, <1>2, <2>1, SeqNext DEF Leading
  <2>4. CASE Silent(x) /\ Leading(rest)
    <3>1. Silence(Result(x)) /\ out' = out
      BY <1>2, <2>4, SilentResult
    <3>2. Leading(work')
      BY <1>2, <2>4, <3>1, LeadingThen
    <3> QED
      BY <1>3, <2>1, <3>1, <3>2 DEF FirstInv
  <2>5. CASE x \in ToCompound
    <3>1. Leading(Result(x)) /\ out' = out
      BY <1>2, <2>1, <2>5, LeadsOn
    <3>2. Leading(work')
      BY <1>2, <2>3, <3>1, LeadingThen
    <3> QED
      BY <1>3, <2>1, <3>1, <3>2 DEF FirstInv
  <2>6. CASE x = Title
    <3>1. IsToken(x)
      BY <2>6 DEF Title, IsToken, Open
    <3>2. Led'
      BY <1>2, <2>1, <2>6, <3>1, LedStays DEF StateInv
    <3> QED
      BY <1>3, <2>1, <3>2 DEF FirstInv
  <2> QED
    BY <2>2, <2>4, <2>5, <2>6 DEF Leads
<1> QED
  BY <1>5, <1>6

LEMMA FirstNext == StateInv /\ LinksInv /\ FirstInv /\ [Next]_vars => FirstInv'
<1> SUFFICES ASSUME StateInv, LinksInv, FirstInv, [Next]_vars
             PROVE  FirstInv'
  OBVIOUS
<1>1. UNCHANGED job
  BY JobStays
<1>2. compound' = compound /\ Title' = Title /\ config' = config
  BY <1>1 DEF Title, compound, config
<1>3. (UNCHANGED out /\ Led) => Led'
  BY <1>2 DEF Led
<1> SUFFICES ASSUME ~is_null(compound)  PROVE FirstInv'
  BY <1>2 DEF FirstInv, is_null
<1>4. CASE Load
  BY <1>4 DEF Load, FirstInv
<1>5. CASE ProcessSummary \/ ProcessDetails
  <2>1. /\ pass' \in {"summary", "details"} /\ UNCHANGED out
        /\ work = <<>> /\ work' = <<Handle("doxygen", job.document)>>
        /\ \/ pass = "links" /\ (pass' = "summary" \/ ~config.generate_summary)
           \/ pass = "summary" /\ pass' = "details"
    BY <1>5 DEF ProcessSummary, ProcessDetails, StartPass
  <2>2. CASE pass = "summary"
    <3>1. Printing
      BY <2>2 DEF Printing, is_summary
    <3>2. ~Leading(work)
      BY <2>1, LeadingNext
    <3>3. Led
      BY <2>2, <3>1, <3>2 DEF FirstInv
    <3> QED
      BY <1>3, <2>1, <2>2, <3>3 DEF FirstInv
  <2>3. CASE pass = "links"
    <3>1. out' = <<>>
      BY <2>1, <2>3 DEF LinksInv
    <3>2. Printing'
      BY <1>2, <2>1, <2>3 DEF Printing, is_summary
    <3>3. PICK x : x = Handle("doxygen", job.document)
      OBVIOUS
    <3>4. Leads(x)'
      BY <1>1, <3>3, ListingStays DEF Leads, ToCompound, Tasks, document
    <3>5. Leading(<<x>>)'
      <4>1. PICK s : s = <<x>>
        OBVIOUS
      <4>2. IsSeq(s) /\ Len(s) = 1 /\ s[1] = x
        BY <4>1, SeqFew
      <4>3. 1 \in 1 .. Len(s) /\ \A i \in 1 .. 1 - 1 : FALSE
        BY <4>2
      <4>4. Leading(s)'
        BY <3>4, <4>2, <4>3 DEF Leading
      <4> QED
        BY <4>1, <4>4
    <3>6. Leading(work)'
      BY <2>1, <3>3, <3>5
    <3> QED
      BY <2>1, <3>1, <3>2, <3>6 DEF FirstInv
  <2> QED
    BY <2>1, <2>2, <2>3
<1>6. CASE Finish
  <2>1. pass = "details" /\ pass' = "done" /\ work = <<>> /\ UNCHANGED out
    BY <1>6 DEF Finish
  <2>2. ~Leading(work)
    BY <2>1, LeadingNext
  <2>3. Led
    BY <2>1, <2>2 DEF FirstInv
  <2> QED
    BY <1>3, <2>1, <2>3 DEF FirstInv
<1>7. CASE Dispatch \/ PopName \/ PrintValue \/ Emit \/ Handlers
  <2>1. UNCHANGED pass /\ work # <<>>
    BY <1>7, HandlersAre
    DEF Dispatch, PopName, PrintValue, Emit, IsNext, state
  <2>2. CASE pass = "links"
    BY <2>1, <2>2 DEF FirstInv
  <2>3. CASE pass \in {"summary", "details"}
    BY <1>1, <1>7, <2>3, FirstStep
  <2> QED
    BY <2>1, <2>2, <2>3 DEF StateInv
<1>8. CASE AddLinks \/ CompounddefLinks
  <2>1. pass = "links" /\ UNCHANGED pass
    BY <1>8 DEF AddLinks, CompounddefLinks, is_add_links, state
  <2> QED
    BY <2>1 DEF FirstInv
<1>9. CASE UNCHANGED vars
  <2>1. UNCHANGED <<job, pass, work, out>>
    BY <1>9 DEF vars, state
  <2>2. ToCompound' = ToCompound
    BY <2>1, ListingStays
  <2>3. \A y : Leads(y)' = Leads(y)
    BY <1>2, <2>2 DEF Leads
  <2>4. Leading(work)' = Leading(work)
    BY <2>1, <2>3 DEF Leading
  <2>5. Printing' = Printing
    BY <1>2, <2>1 DEF Printing, is_summary
  <2> QED
    BY <1>2, <1>3, <2>1, <2>4, <2>5 DEF FirstInv
<1> QED
  BY <1>4, <1>5, <1>6, <1>7, <1>8, <1>9 DEF Next, Step, Ended

\* The title of a page leads it, with or without a summary: compounddef prints
\* it before anything else, and no other handler, nor the other pass, prints it
\* again, if nothing else in the document is called so (DoxyJson.cpp:258-278).
THEOREM TitlesLead == Spec => []TitleLeads
<1>1. Init => TitleInv /\ FirstInv
  BY DEF Init, TitleInv, OnceInv, FirstInv
<1>2. StateInv /\ TitleInv /\ FirstInv => TitleLeads
  <2> SUFFICES ASSUME StateInv, TitleInv, FirstInv, pass = "done",
                      ~is_null(compound),
                      NEW places, places = {i \in DOMAIN out : out[i] = Title},
                      NEW t, t = EffectiveTitle(compound)
               PROVE  1 \in places /\ (places = {1} \/ t \notin Telltale)
    BY DEF TitleLeads, Title
  <2>1. Len(out) > 0 /\ out[1] = Title
    BY DEF FirstInv, Led
  <2>2. 1 \in places
    <3>1. PICK S : out \in Seq(S)
      BY DEF StateInv, Printed
    <3>2. DOMAIN out = 1 .. Len(out) /\ Len(out) \in Nat
      BY <3>1
    <3>3. 1 \in DOMAIN out
      BY <2>1, <3>2
    <3> QED
      BY <2>1, <3>3
  <2>3. ASSUME t \in Telltale  PROVE places = {1}
    <3>1. EffectiveTitle(compound) # ""
      BY <2>3 DEF Telltale, Words
    <3>2. PICK e : Entitles(e, t)
      BY <3>1, TitleIsIn
    <3>3. PICK c : c = Titling(t, e)
      OBVIOUS
    <3>4. OnceInv(c) /\ c.text = t
      BY <2>3, <3>2, <3>3 DEF TitleInv, Titling, About
    <3>5. PICK k : Places(t) = {k}
      BY <3>4 DEF OnceInv, Single
    <3>6. HasText(Title) /\ Title.text = t
      BY DEF HasText, Title, Open
    <3>7. places \subseteq Places(t)
      BY <3>6 DEF Places
    <3> QED
      BY <2>2, <3>5, <3>7
  <2> QED
    BY <2>2, <2>3
<1> QED
  BY <1>1, <1>2, TitleNext, FirstNext, StateInvariant, LinksInvariant, PTL
  DEF Spec

=============================================================================
