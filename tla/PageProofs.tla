----------------------------- MODULE PageProofs -----------------------------
(***************************************************************************)
(* Proofs about what a page of DoxyJson is made of, item by item, for      *)
(* every document and configuration.                                       *)
(*                                                                         *)
(* First its code fences: no hyperlink is printed inside one.  What        *)
(* remains to be done is read from its next item to its last, and each     *)
(* place of it is outside the fences, inside one, or in a line of code.    *)
(* Then the anchors of its members, each exactly once: the marks that are  *)
(* looked for are counted over what is printed and what remains to be      *)
(* done, together.                                                         *)
(***************************************************************************)
EXTENDS TextProofs

Outside == 0
InFence == 1
InLine == 2
Where == {Outside, InFence, InLine}

----------------------------------------------------------------------------
(* Where the items are *)

\* An element of that name prints nothing.
Silent(key) == ~HasHandler(key)

Lines(v) == \A e \in elements(v) : Silent(e.key) \/ e.key = "codeline"
Code(v) == \A e \in elements(v) : Silent(e.key) \/ e.key \in InCode

\* An element of a listing, if it is one, is made as it should be.
WellMade(key, v) == /\ key = "programlisting" => Lines(v)
                    /\ key \in InCode \cup {"codeline"} => Code(v)

\* What an item may be between a place b and a place c.  In a line of code the
\* name of codeline is yet to be popped.
Moves(x, b, c) ==
  /\ x.do \in {"open", "close"} /\ x.scope # "fence" =>
       b = Outside /\ c = Outside
  /\ x.do = "open" /\ x.scope = "fence" => b = Outside /\ c = InFence
  /\ x.do = "close" /\ x.scope = "fence" => b = InFence /\ c = Outside
  /\ x.do \in {"link", "anchor"} => b = Outside /\ c = Outside
  /\ x.do = "text" => c = b
  /\ x.do = "print" => /\ c = b
                       /\ b = InFence => Lines(x.value)
                       /\ b = InLine => Code(x.value)
  /\ x.do \in {"handle", "call"} =>
       /\ WellMade(x.key, x.value)
       /\ b = InFence => Silent(x.key) \/ x.key = "codeline"
       /\ b = InLine => Silent(x.key) \/ x.key \in InCode
       /\ c = IF x.do = "call" /\ x.key = "codeline" /\ b = InFence
                THEN InLine ELSE b
  /\ x.do = "leave" =>
       c = IF x.key = "codeline" /\ b # Outside THEN InFence ELSE b

\* A way through the items of a sequence.
Way(s, f) == /\ f \in [1 .. Len(s) + 1 -> Where]
             /\ \A i \in 1 .. Len(s) : Moves(s[i], f[i], f[i + 1])

Leads(s, b, c) == \E f : Way(s, f) /\ f[1] = b /\ f[Len(s) + 1] = c

LEMMA WayOfNone ==
  \A b \in Where : Leads(<<>>, b, b)
<1> SUFFICES ASSUME NEW b \in Where  PROVE Leads(<<>>, b, b)
  OBVIOUS
<1> DEFINE s == <<>>
           f == [i \in 1 .. 1 |-> b]
<1>1. Len(s) = 0
  OBVIOUS
<1> HIDE DEF s
<1>2. Way(s, f) /\ f[1] = b /\ f[Len(s) + 1] = b
  BY <1>1 DEF Way
<1>3. Leads(s, b, b)
  <2> HIDE DEF f
  <2> QED
    BY <1>2 DEF Leads
<1> QED
  BY <1>3 DEF s

\* The way through the next item, and the way through the rest.
LEMMA WayOfNext ==
  ASSUME NEW s, Items(s), s # <<>>, NEW b, NEW c, Leads(s, b, c)
  PROVE  \E m \in Where : Moves(Head(s), b, m) /\ Leads(Tail(s), m, c)
<1>1. PICK f : Way(s, f) /\ f[1] = b /\ f[Len(s) + 1] = c
  BY DEF Leads
<1>2. /\ Len(s) \in Nat /\ Len(s) > 0 /\ Head(s) = s[1]
      /\ Len(Tail(s)) = Len(s) - 1
      /\ \A i \in 1 .. Len(s) - 1 : Tail(s)[i] = s[i + 1]
  BY ItemsOf
<1> DEFINE t == Tail(s)
           g == [i \in 1 .. Len(s) |-> f[i + 1]]
<1> HIDE DEF t
<1>3. g \in [1 .. Len(t) + 1 -> Where]
  BY <1>1, <1>2 DEF Way, t
<1>4. ASSUME NEW i \in 1 .. Len(t)  PROVE Moves(t[i], g[i], g[i + 1])
  <2>1. i + 1 \in 1 .. Len(s) /\ t[i] = s[i + 1]
    BY <1>2 DEF t
  <2>2. g[i] = f[i + 1] /\ g[i + 1] = f[i + 1 + 1]
    BY <1>2, <2>1 DEF t
  <2> QED
    BY <1>1, <2>1, <2>2 DEF Way
<1>5. g[1] = f[2] /\ g[Len(t) + 1] = c
  BY <1>1, <1>2 DEF t
<1>6. Way(t, g)
  <2> HIDE DEF g
  <2> QED
    BY <1>3, <1>4 DEF Way
<1>7. Leads(t, f[2], c)
  <2> HIDE DEF g
  <2> QED
    BY <1>5, <1>6 DEF Leads
<1>8. Moves(Head(s), b, f[2]) /\ f[2] \in Where
  <2>1. 1 \in 1 .. Len(s) /\ 2 \in 1 .. Len(s) + 1
    BY <1>2
  <2>2. Moves(s[1], f[1], f[1 + 1])
    BY <1>1, <2>1 DEF Way
  <2> QED
    BY <1>1, <1>2, <2>1, <2>2 DEF Way
<1> QED
  BY <1>7, <1>8 DEF t

\* An item before a sequence.
LEMMA WayOfOne ==
  ASSUME NEW x, NEW b \in Where, NEW c \in Where, Moves(x, b, c)
  PROVE  Leads(<<x>>, b, c)
<1> DEFINE s == <<x>>
           f == [i \in 1 .. 2 |-> IF i = 1 THEN b ELSE c]
<1>1. Len(s) = 1 /\ s[1] = x
  OBVIOUS
<1> HIDE DEF s
<1>2. Way(s, f) /\ f[1] = b /\ f[Len(s) + 1] = c
  <2>1. f \in [1 .. Len(s) + 1 -> Where]
    BY <1>1
  <2>2. \A i \in 1 .. Len(s) : Moves(s[i], f[i], f[i + 1])
    BY <1>1
  <2>3. f[1] = b /\ f[Len(s) + 1] = c
    BY <1>1
  <2> HIDE DEF f
  <2> QED
    BY <2>1, <2>2, <2>3 DEF Way
<1>3. Leads(s, b, c)
  <2> HIDE DEF f
  <2> QED
    BY <1>2 DEF Leads
<1> QED
  BY <1>3 DEF s

LEMMA WayOfTwo ==
  ASSUME NEW x, NEW y, NEW b \in Where, NEW m \in Where, NEW c \in Where,
         Moves(x, b, m), Moves(y, m, c)
  PROVE  Leads(<<x, y>>, b, c)
<1> DEFINE s == <<x, y>>
           f == [i \in 1 .. 3 |-> IF i = 1 THEN b ELSE IF i = 2 THEN m ELSE c]
<1>1. Len(s) = 2 /\ s[1] = x /\ s[2] = y
  OBVIOUS
<1> HIDE DEF s
<1>2. Way(s, f) /\ f[1] = b /\ f[Len(s) + 1] = c
  <2>1. f \in [1 .. Len(s) + 1 -> Where]
    BY <1>1
  <2>2. ASSUME NEW i \in 1 .. Len(s)  PROVE Moves(s[i], f[i], f[i + 1])
    BY <1>1
  <2>3. f[1] = b /\ f[Len(s) + 1] = c
    BY <1>1
  <2> HIDE DEF f
  <2> QED
    BY <2>1, <2>2, <2>3 DEF Way
<1>3. Leads(s, b, c)
  <2> HIDE DEF f
  <2> QED
    BY <1>2 DEF Leads
<1> QED
  BY <1>3 DEF s

\* One sequence after another.
LEMMA WayOfThen ==
  ASSUME NEW b, NEW m, NEW c, NEW s, NEW t, Items(s), Items(t),
         Leads(s, b, m), Leads(t, m, c)
  PROVE  Leads(s \o t, b, c)
<1>1. PICK f : Way(s, f) /\ f[1] = b /\ f[Len(s) + 1] = m
  BY DEF Leads
<1>2. PICK g : Way(t, g) /\ g[1] = m /\ g[Len(t) + 1] = c
  BY DEF Leads
<1>3. PICK u : u = s \o t
  OBVIOUS
<1>4. /\ Len(s) \in Nat /\ Len(t) \in Nat /\ Len(u) = Len(s) + Len(t)
      /\ \A i \in 1 .. Len(s) : u[i] = s[i]
      /\ \A i \in 1 .. Len(t) : u[Len(s) + i] = t[i]
  BY <1>3, ItemsOf, ItemsThen
<1> DEFINE h == [i \in 1 .. Len(u) + 1 |->
                   IF i <= Len(s) THEN f[i] ELSE g[i - Len(s)]]
<1>5. h \in [1 .. Len(u) + 1 -> Where]
  <2> SUFFICES ASSUME NEW i \in 1 .. Len(u) + 1  PROVE h[i] \in Where
    OBVIOUS
  <2>1. CASE i <= Len(s)
    BY <1>1, <1>4, <2>1 DEF Way
  <2>2. CASE ~(i <= Len(s))
    <3>1. i - Len(s) \in 1 .. Len(t) + 1
      BY <1>4, <2>2
    <3> QED
      BY <1>2, <2>2, <3>1 DEF Way
  <2> QED
    BY <2>1, <2>2
<1>6. ASSUME NEW i \in 1 .. Len(u)  PROVE Moves(u[i], h[i], h[i + 1])
  <2>1. CASE i < Len(s)
    <3>1. i \in 1 .. Len(s) /\ i + 1 <= Len(s) /\ i + 1 \in 1 .. Len(u) + 1
      BY <1>4, <2>1
    <3>2. u[i] = s[i] /\ h[i] = f[i] /\ h[i + 1] = f[i + 1]
      BY <1>4, <3>1
    <3> QED
      BY <1>1, <3>1, <3>2 DEF Way
  <2>2. CASE i = Len(s)
    <3>1. /\ i \in 1 .. Len(s) /\ ~(i + 1 <= Len(s))
          /\ i + 1 - Len(s) = 1 /\ i + 1 \in 1 .. Len(u) + 1
      BY <1>4, <2>2
    <3>2. u[i] = s[i] /\ h[i] = f[i] /\ h[i + 1] = g[1]
      BY <1>4, <3>1
    <3>3. h[i + 1] = f[i + 1]
      BY <1>1, <1>2, <2>2, <3>2
    <3> QED
      BY <1>1, <3>1, <3>2, <3>3 DEF Way
  <2>3. CASE i > Len(s)
    <3>1. PICK k \in 1 .. Len(t) : k = i - Len(s)
      BY <1>4, <2>3
    <3>2. /\ Len(s) + k = i /\ i + 1 - Len(s) = k + 1
          /\ ~(i <= Len(s)) /\ ~(i + 1 <= Len(s)) /\ i + 1 \in 1 .. Len(u) + 1
      BY <1>4, <2>3, <3>1
    <3>3. u[i] = t[k]
      BY <1>4, <3>2
    <3>4. h[i] = g[k] /\ h[i + 1] = g[k + 1]
      BY <3>1, <3>2
    <3> QED
      BY <1>2, <3>3, <3>4 DEF Way
  <2> QED
    BY <1>4, <2>1, <2>2, <2>3
<1>7. h[1] = b /\ h[Len(u) + 1] = c
  <2>1. h[1] = b
    <3>1. CASE Len(s) = 0
      <4>1. h[1] = g[1 - 0]
        BY <1>4, <3>1
      <4>2. 1 - 0 = 1 /\ Len(s) + 1 = 1
        BY <3>1
      <4> QED
        BY <1>1, <1>2, <4>1, <4>2
    <3>2. CASE Len(s) > 0
      BY <1>1, <1>4, <3>2
    <3> QED
      BY <1>4, <3>1, <3>2
  <2>2. h[Len(u) + 1] = c
    <3>1. Len(u) + 1 - Len(s) = Len(t) + 1 /\ ~(Len(u) + 1 <= Len(s))
          /\ Len(u) + 1 \in 1 .. Len(u) + 1
      BY <1>4
    <3> QED
      BY <1>2, <3>1
  <2> QED
    BY <2>1, <2>2
<1>8. Way(u, h)
  <2> HIDE DEF h
  <2> QED
    BY <1>5, <1>6 DEF Way
<1>9. Leads(u, b, c)
  <2> HIDE DEF h
  <2> QED
    BY <1>7, <1>8 DEF Leads
<1> QED
  BY <1>3, <1>9

----------------------------------------------------------------------------
(* Sequences that lead back to where they start *)

Flat(s, b) == Plain(s) /\ Leads(s, b, b)

\* Each item leads back.
LEMMA FlatOf ==
  ASSUME NEW b \in Where, NEW S, NEW s \in Seq(S),
         \A x \in S : IsPlain(x) /\ Moves(x, b, b)
  PROVE  Flat(s, b)
<1> DEFINE f == [i \in 1 .. Len(s) + 1 |-> b]
<1>1. Len(s) \in Nat /\ \A i \in 1 .. Len(s) : s[i] \in S
  BY ElementOfSeq
<1>2. Way(s, f) /\ f[1] = b /\ f[Len(s) + 1] = b
  BY <1>1 DEF Way
<1>3. Leads(s, b, b)
  <2> HIDE DEF f
  <2> QED
    BY <1>2 DEF Leads
<1> QED
  BY <1>3, PlainOf DEF Flat

LEMMA FlatThen ==
  ASSUME NEW b
  PROVE  \A s, t : Flat(s, b) /\ Flat(t, b) => Flat(s \o t, b)
BY PlainThen, PlainItems, WayOfThen DEF Flat

LEMMA FlatFew ==
  ASSUME NEW b \in Where
  PROVE  LET Stays(x) == IsPlain(x) /\ Moves(x, b, b)
         IN  /\ Flat(<<>>, b)
             /\ \A x : Stays(x) => Flat(<<x>>, b)
             /\ \A x, y : Stays(x) /\ Stays(y) => Flat(<<x, y>>, b)
             /\ \A x, y, z : Stays(x) /\ Stays(y) /\ Stays(z) =>
                               Flat(<<x, y, z>>, b)
<1> DEFINE Stays(x) == IsPlain(x) /\ Moves(x, b, b)
<1>1. Flat(<<>>, b)
  BY PlainFew, WayOfNone DEF Flat
<1>2. ASSUME NEW x, NEW y, NEW z, Stays(x), Stays(y), Stays(z)
      PROVE  Flat(<<x>>, b) /\ Flat(<<x, y>>, b) /\ Flat(<<x, y, z>>, b)
  <2> DEFINE r == <<x>>
             s == <<x, y>>
             t == <<x, y, z>>
  <2>1. r \in Seq({x, y, z}) /\ s \in Seq({x, y, z}) /\ t \in Seq({x, y, z})
    OBVIOUS
  <2>2. \A w \in {x, y, z} : IsPlain(w) /\ Moves(w, b, b)
    BY <1>2
  <2> HIDE DEF r, s, t
  <2>3. Flat(r, b) /\ Flat(s, b) /\ Flat(t, b)
    BY <2>1, <2>2, FlatOf
  <2> QED
    BY <2>3 DEF r, s, t
<1> QED
  BY <1>1, <1>2

\* Texts are printed anywhere, and markup outside the fences.
LEMMA FlatTasks ==
  /\ \A b : \A t : Moves(Text(t), b, b)
  /\ \A t, url : Moves(Link(t, url), Outside, Outside)
  /\ \A id, form : Moves(Anchor(id, form), Outside, Outside)
  /\ \A scope, t : scope # "fence" =>
                     Moves(Open(scope, t), Outside, Outside)
  /\ \A scope : scope # "fence" => Moves(Close(scope), Outside, Outside)
  /\ \A t : Moves(Open("fence", t), Outside, InFence)
  /\ Moves(Close("fence"), InFence, Outside)
  /\ \A v : Moves(Visit(v), Outside, Outside)
  /\ \A v : Lines(v) => Moves(Visit(v), InFence, InFence)
  /\ \A v : Code(v) => Moves(Visit(v), InLine, InLine)
  /\ \A key, v : WellMade(key, v) => /\ Moves(Handle(key, v), Outside, Outside)
                                     /\ Moves(Call(key, v), Outside, Outside)
BY DEF Moves, Text, Link, Anchor, Open, Close, Visit, Handle, Call, Do,
       Outside, InFence, InLine

LEMMA FlatOutside ==
  /\ Flat(<<>>, Outside)
  /\ \A t : Flat(<<Text(t)>>, Outside)
  /\ \A t, url : Flat(<<Link(t, url)>>, Outside)
  /\ \A id, form : Flat(<<Anchor(id, form)>>, Outside)
  /\ \A v \in Value : Flat(<<Visit(v)>>, Outside)
  /\ \A v \in Value : \A t : Flat(<<Text(t), Visit(v)>>, Outside)
  /\ \A v \in Value : \A t, u : Flat(<<Text(t), Visit(v), Text(u)>>, Outside)
<1>1. Outside \in Where
  BY DEF Where
<1>2. \A t : IsPlain(Text(t)) /\ Moves(Text(t), Outside, Outside)
  BY PlainTasks, FlatTasks
<1>3. \A t, url : IsPlain(Link(t, url)) /\ Moves(Link(t, url), Outside, Outside)
  BY PlainTasks, FlatTasks
<1>4. \A id, form : /\ IsPlain(Anchor(id, form))
                    /\ Moves(Anchor(id, form), Outside, Outside)
  BY PlainTasks, FlatTasks
<1>5. \A v \in Value : IsPlain(Visit(v)) /\ Moves(Visit(v), Outside, Outside)
  BY PlainTasks, FlatTasks
<1> QED
  BY <1>1, <1>2, <1>3, <1>4, <1>5, FlatFew

\* The scopes of the printer; what is in a fence stays in it.
LEMMA FlatScopes ==
  /\ \A b \in Where : \A c : \A s : Flat(s, b) => Flat(When(c, s), b)
  /\ \A t, s : Flat(s, Outside) => Flat(Header(t, s), Outside)
  /\ \A s : Flat(s, Outside) => Flat(List(s), Outside)
  /\ \A s : Flat(s, InFence) => Flat(Fence(s), Outside)
<1>1. ASSUME NEW t, NEW scope, NEW s, NEW b \in Where, NEW c \in Where,
             Moves(Open(scope, t), b, c), Moves(Close(scope), c, b), Flat(s, c)
      PROVE  Flat(<<Open(scope, t)>> \o s \o <<Close(scope)>>, b)
  <2> DEFINE open == <<Open(scope, t)>>
             close == <<Close(scope)>>
  <2>1. Plain(open) /\ Plain(close) /\ Plain(s)
    BY <1>1, PlainTasks, PlainFew DEF Flat
  <2>2. Leads(open, b, c) /\ Leads(close, c, b) /\ Leads(s, c, c)
    BY <1>1, WayOfOne DEF Flat
  <2> HIDE DEF open, close
  <2>3. Plain(open \o s) /\ Leads(open \o s, b, c)
    BY <2>1, <2>2, PlainThen, PlainItems, WayOfThen
  <2>4. Plain(open \o s \o close) /\ Leads(open \o s \o close, b, b)
    BY <2>1, <2>2, <2>3, PlainThen, PlainItems, WayOfThen
  <2> QED
    BY <2>4 DEF Flat, open, close
<1>2. Outside \in Where /\ InFence \in Where
  BY DEF Where
<1>3. \A b \in Where : \A c : \A s : Flat(s, b) => Flat(When(c, s), b)
  BY FlatFew DEF When
<1>4. \A t, s : Flat(s, Outside) => Flat(Header(t, s), Outside)
  BY <1>1, <1>2, FlatTasks DEF Header
<1>5. \A s : Flat(s, Outside) => Flat(List(s), Outside)
  BY <1>1, <1>2, FlatTasks DEF List
<1>6. \A s : Flat(s, InFence) => Flat(Fence(s), Outside)
  BY <1>1, <1>2, FlatTasks DEF Fence
<1> QED
  BY <1>3, <1>4, <1>5, <1>6

LEMMA FlatHelpers ==
  /\ \A t : Flat(print_inline_code(t), Outside)
  /\ \A t, v, id : Flat(print_hyperlink(t, v, id), Outside)
  /\ \A id : Flat(print_anchor(id), Outside)
<1>1. Outside \in Where
  BY DEF Where
<1>2. \A t : Flat(print_inline_code(t), Outside)
  BY <1>1, FlatOutside, FlatScopes DEF print_inline_code
<1>3. \A t, v, id : Flat(print_hyperlink(t, v, id), Outside)
  BY FlatOutside DEF print_hyperlink
<1>4. \A id : Flat(print_anchor(id), Outside)
  BY <1>1, FlatOutside, FlatScopes, FlatThen DEF print_anchor
<1> QED
  BY <1>2, <1>3, <1>4

----------------------------------------------------------------------------
(* The bodies of the handlers *)

\* Outside the fences every handler comes back to where it starts: what it
\* opens it closes, and a listing has lines only.
LEMMA FlatBodies ==
  ASSUME NEW v \in Value
  PROVE  /\ Flat(DetaileddescriptionBody(v), Outside)
         /\ Flat(BriefdescriptionBody(v), Outside)
         /\ Flat(BasecompoundrefBody(v), Outside)
         /\ Flat(InnerclassBody(v), Outside)
         /\ Flat(ListofallmembersBody(v), Outside)
         /\ Flat(MemberBody(v), Outside)
         /\ Flat(SectiondefBody(v), Outside)
         /\ Flat(EnumvalueBody(v), Outside)
         /\ Flat(TypeOf(v), Outside)
         /\ Flat(ParamBody(v), Outside)
         /\ Flat(ItemizedlistBody(v), Outside)
         /\ Flat(SimplesectBody(v), Outside)
         /\ Flat(RefBody(v), Outside)
         /\ Lines(v) => Flat(ProgramlistingBody(v), Outside)
<1> DEFINE visit == <<Visit(v)>>
<1>1. Outside \in Where /\ InFence \in Where
  BY DEF Where
<1>2. Flat(visit, Outside) /\ Flat(<<>>, Outside)
  BY FlatOutside
<1>3. \A t : Flat(<<Text(t)>>, Outside)
  BY FlatOutside
<1>4. Lines(v) => Flat(visit, InFence)
  BY <1>1, PlainTasks, FlatTasks, FlatFew
<1> HIDE DEF visit
<1>5. \A c : \A s : Flat(s, Outside) => Flat(When(c, s), Outside)
  BY <1>1, FlatScopes
<1>6. Flat(DetaileddescriptionBody(v), Outside)
  BY <1>2, <1>5, FlatScopes, FlatThen DEF DetaileddescriptionBody, visit
<1>7. Flat(BriefdescriptionBody(v), Outside)
  BY <1>2, <1>5 DEF BriefdescriptionBody, visit
<1>8. Flat(BasecompoundrefBody(v), Outside)
  BY <1>3, <1>5, FlatHelpers, FlatThen DEF BasecompoundrefBody
<1>9. Flat(InnerclassBody(v), Outside) /\ Flat(MemberBody(v), Outside)
  BY <1>5, FlatHelpers DEF InnerclassBody, MemberBody
<1>10. Flat(ListofallmembersBody(v), Outside)
  BY <1>2, <1>5, FlatScopes DEF ListofallmembersBody, visit
<1>11. Flat(SectiondefBody(v), Outside)
  BY <1>2, <1>5, FlatScopes DEF SectiondefBody, visit
<1>12. Flat(EnumvalueBody(v), Outside)
  BY <1>2, <1>3, FlatOutside, FlatScopes DEF EnumvalueBody, visit
<1>13. Flat(TypeOf(v), Outside)
  <2>1. Flat(<<Visit(get_value(v, "type"))>>, Outside)
    BY ValueFound, FlatOutside
  <2> QED
    BY <2>1, FlatHelpers DEF TypeOf
<1>14. Flat(ParamBody(v), Outside)
  BY <1>2, <1>5, <1>13, FlatHelpers, FlatThen DEF ParamBody, visit
<1>15. Flat(ItemizedlistBody(v), Outside)
  BY <1>2, <1>5, FlatScopes DEF ItemizedlistBody, visit
<1>16. Flat(SimplesectBody(v), Outside)
  BY <1>5, FlatOutside DEF SimplesectBody
<1>17. Flat(RefBody(v), Outside)
  BY <1>3, FlatHelpers DEF RefBody
<1>18. Lines(v) => Flat(ProgramlistingBody(v), Outside)
  BY <1>4, <1>5, FlatScopes DEF ProgramlistingBody, visit
<1> QED
  BY <1>6, <1>7, <1>8, <1>9, <1>10, <1>11, <1>12, <1>13, <1>14, <1>15, <1>16,
     <1>17, <1>18

LEMMA FlatCompound ==
  ASSUME NEW v \in Value
  PROVE  Flat(CompounddefBody(v), Outside)
<1> DEFINE visit == <<Visit(v)>>
           description ==
             <<Call("detaileddescription", get_value(v, "detaileddescription"))>>
<1>1. Flat(visit, Outside)
  BY FlatOutside
<1>2. Flat(description, Outside)
  <2>1. WellMade("detaileddescription", get_value(v, "detaileddescription"))
    BY DEF WellMade, InCode
  <2>2. /\ IsPlain(Call("detaileddescription",
                       get_value(v, "detaileddescription")))
        /\ Outside \in Where
    BY ValueFound, PlainTasks DEF Where
  <2> QED
    BY <2>1, <2>2, FlatTasks, FlatFew
<1> HIDE DEF visit, description
<1>3. Flat(description \o visit, Outside)
  BY <1>1, <1>2, FlatThen
<1>4. \A t : /\ Flat(Header(t, Header("Summary", visit)), Outside)
             /\ Flat(Header(t, description \o visit), Outside)
  BY <1>1, <1>3, FlatScopes
<1> QED
  BY <1>3, <1>4 DEF CompounddefBody, visit, description

LEMMA FlatMember ==
  ASSUME NEW v \in Value
  PROVE  Flat(MemberdefSummary(v), Outside) /\ Flat(MemberdefDetails(v), Outside)
<1> DEFINE visit == <<Visit(v)>>
           flag(key, value, word) ==
             When(get_value_as_string_view(v, key) = value, <<Text(word)>>)
           name == get_value_as_string_view(v, "name")
           definition == get_value_as_string_view(v, "definition")
           typeless == is_null(get_value(v, "type"))
           parameters == When(count_children(v, "param") > 0,
                              <<Text("***Parameters:***")>>)
           type == <<Text("***Type:*** ")>> \o TypeOf(v) \o parameters
<1>1. /\ Flat(visit, Outside)
      /\ \A t : Flat(<<Text(t)>>, Outside)
      /\ \A t, url : Flat(<<Link(t, url)>>, Outside)
  BY FlatOutside
<1>2. \A c : \A s : Flat(s, Outside) => Flat(When(c, s), Outside)
  BY FlatScopes DEF Where
<1>3. Flat(MemberdefSummary(v), Outside)
  <2> DEFINE link == <<Link(name, Url(v, get_id(v)))>>
             rest == IF get_value_as_string_view(v, "@kind") = "enum"
                       THEN List(visit) ELSE visit
  <2>1. Flat(link, Outside)
    BY <1>1
  <2>2. Flat(rest, Outside)
    <3> HIDE DEF visit
    <3> QED
      BY <1>1, FlatScopes
  <2>3. MemberdefSummary(v) = link \o rest
    BY DEF MemberdefSummary
  <2> HIDE DEF link, rest
  <2> QED
    BY <2>1, <2>2, <2>3, FlatThen
<1>4. Flat(MemberdefDetails(v), Outside)
  <2>1. \A key, value, word : Flat(flag(key, value, word), Outside)
    BY <1>1, <1>2
  <2>2. Flat(type, Outside)
    <3>1. Flat(parameters, Outside)
      BY <1>1, <1>2
    <3> HIDE DEF parameters
    <3> QED
      BY <1>1, <3>1, FlatBodies, FlatThen
  <2> DEFINE d == When(definition # "", Fence(<<Text(definition)>>))
             t == When(definition # "" /\ ~typeless, type)
             r == When(definition = "" \/ ~typeless, visit)
             f == flag("@virtual", "virtual", "virtual")
             g == flag("@inline", "yes", "inline")
             h == flag("@explicit", "yes", "explicit")
  <2>3. Flat(d, Outside)
    <3>1. Flat(<<Text(definition)>>, InFence)
      BY PlainTasks, FlatTasks, FlatFew DEF Where
    <3> HIDE DEF definition
    <3>2. Flat(Fence(<<Text(definition)>>), Outside)
      BY <3>1, FlatScopes
    <3> QED
      BY <1>2, <3>2
  <2>4. Flat(t, Outside) /\ Flat(r, Outside)
    <3> HIDE DEF type, visit, definition, typeless
    <3> QED
      BY <1>1, <1>2, <2>2
  <2>5. Flat(f, Outside) /\ Flat(g, Outside) /\ Flat(h, Outside)
    BY <2>1
  <2>6. MemberdefDetails(v) =
          print_anchor(get_id(v)) \o Header(name, f \o g \o h \o d \o t \o r)
    BY DEF MemberdefDetails
  <2> HIDE DEF d, t, r, f, g, h, name
  <2>7. Flat(f \o g \o h \o d \o t \o r, Outside)
    BY <2>3, <2>4, <2>5, FlatThen
  <2> QED
    BY <2>6, <2>7, FlatHelpers, FlatScopes, FlatThen
<1> QED
  BY <1>3, <1>4

\* Outside the fences.
LEMMA HandlerOutside ==
  ASSUME NEW key, NEW v \in Value, WellMade(key, v)
  PROVE  Flat(BodyOf(key, v), Outside)
<1> DEFINE visit == <<Visit(v)>>
<1>1. /\ Flat(visit, Outside) /\ Flat(<<>>, Outside)
      /\ \A t : Flat(<<Text(t), Visit(v)>>, Outside)
      /\ Flat(<<Text("*"), Visit(v), Text("*")>>, Outside)
  BY FlatOutside
<1> HIDE DEF visit
<1>2. Flat(When(~is_summary, visit), Outside)
  BY <1>1, FlatScopes DEF Where
<1>3. Flat(IF is_string(v) THEN print_inline_code(Json[v].text) ELSE visit,
           Outside)
  BY <1>1, FlatHelpers
<1>4. Flat(IF is_summary THEN MemberdefSummary(v) ELSE MemberdefDetails(v),
           Outside)
  BY FlatMember
<1>5. CASE key \in {"compounddef", "detaileddescription", "briefdescription",
                    "basecompoundref", "innerclass", "listofallmembers",
                    "member"}
  BY <1>5, FlatBodies, FlatCompound DEF BodyOf
<1>6. CASE key \in {"sectiondef", "enumvalue", "param", "itemizedlist",
                    "simplesect", "ref"}
  BY <1>6, FlatBodies DEF BodyOf
<1>7. CASE key = "programlisting"
  <2>1. Lines(v)
    BY <1>7 DEF WellMade
  <2> QED
    BY <1>7, <2>1, FlatBodies DEF BodyOf
<1>8. CASE key \in {"memberdef", "codeline", "computeroutput"}
  BY <1>2, <1>3, <1>4, <1>8 DEF BodyOf, visit
<1>9. CASE key \in {"emphasis", "listitem", "sp", "templateparamlist"}
  BY <1>1, <1>9 DEF BodyOf
<1>10. CASE key \in {"doxygen", "highlight", "inbodydescription", "location",
                     "para", "#text"}
  BY <1>1, <1>10 DEF BodyOf, visit
<1> QED
  BY <1>1, <1>5, <1>6, <1>7, <1>8, <1>9, <1>10 DEF BodyOf

\* An element that is silent is so for its handler.
LEMMA SilentBody ==
  ASSUME NEW key, NEW v, Silent(key)
  PROVE  BodyOf(key, v) = <<>> /\ key # "codeline"
BY DEF Silent, BodyOf, HasHandler, Handled

\* In a line of code, where the name of codeline is on the container.
LEMMA HandlerInLine ==
  ASSUME NEW key, NEW v \in Value, Code(v), key \in InCode \cup {"codeline"},
         key = "ref" => has_parent("codeline")
  PROVE  Flat(BodyOf(key, v), InLine)
<1>1. InLine \in Where
  BY DEF Where
<1>2. IsPlain(Visit(v)) /\ Moves(Visit(v), InLine, InLine)
  BY PlainTasks, FlatTasks
<1>3. \A t : IsPlain(Text(t)) /\ Moves(Text(t), InLine, InLine)
  BY PlainTasks, FlatTasks
<1> DEFINE visit == <<Visit(v)>>
<1>4. /\ Flat(visit, InLine)
      /\ Flat(<<Text(" "), Visit(v)>>, InLine)
      /\ \A t : Flat(<<Text(t)>>, InLine)
  BY <1>1, <1>2, <1>3, FlatFew
<1> HIDE DEF visit
<1>5. Flat(When(~is_summary, visit), InLine)
  BY <1>1, <1>4, FlatScopes
<1>6. key = "ref" => Flat(RefBody(v), InLine)
  BY <1>4 DEF RefBody
<1> QED
  BY <1>4, <1>5, <1>6 DEF BodyOf, InCode, visit

\* There is a name to pop where a line of code is left.
LEMMA LineHasParent ==
  ASSUME StateInv, Leads(work, InLine, Outside)
  PROVE  has_parent("codeline")
<1>1. PICK f : /\ Way(work, f) /\ f[1] = InLine
               /\ f[Len(work) + 1] = Outside
  BY DEF Leads
<1>2. Len(work) \in Nat /\ Items(work)
  BY ItemsOf DEF StateInv
<1> DEFINE Left == {i \in 1 .. Len(work) + 1 : f[i] # InLine}
<1>3. PICK m \in Left : \A n \in Left : m <= n
  <2>1. Left \in SUBSET Nat /\ Left # {}
    BY <1>1, <1>2 DEF Outside, InLine
  <2> HIDE DEF Left
  <2> QED
    BY <2>1, LeastNumber
<1>4. m \in 1 .. Len(work) + 1 /\ m # 1 /\ f[m] # InLine
  BY <1>1
<1>5. PICK i \in 1 .. Len(work) : i + 1 = m
  <2>1. m - 1 \in 1 .. Len(work) /\ m - 1 + 1 = m
    BY <1>2, <1>4
  <2> QED
    BY <2>1
<1>6. f[i] = InLine
  <2>1. i \in 1 .. Len(work) + 1 /\ ~(m <= i)
    BY <1>2, <1>4, <1>5
  <2>2. i \notin Left
    BY <1>3, <2>1
  <2> QED
    BY <2>1, <2>2
<1>7. Moves(work[i], InLine, f[m])
  BY <1>1, <1>5, <1>6 DEF Way
<1>8. work[i].do = "leave" /\ work[i].key = "codeline"
  <2>1. IsItem(work[i])
    BY <1>2, ItemsOf
  <2> QED
    BY <1>4, <1>7, <2>1 DEF Moves, IsItem, IsToken, Outside, InFence, InLine
<1>9. PICK at : PoppedAt(names, work, at)
  BY DEF StateInv, Nested
<1>10. PICK n \in 1 .. Len(names) : at[n] = i
  BY <1>8, <1>9 DEF PoppedAt
<1>11. names[n] = "codeline"
  BY <1>8, <1>9, <1>10 DEF PoppedAt
<1> QED
  BY <1>11 DEF has_parent, Contains

----------------------------------------------------------------------------
(* The fences of a page *)

Fences(o, what, i) == {k \in 1 .. i - 1 : o[k].do = what /\ o[k].scope = "fence"}
Opened(o, i) == Cardinality(Fences(o, "open", i))
Closed(o, i) == Cardinality(Fences(o, "close", i))

\* One fence is open, or none, and none where there is a link.
Balanced(o, b) ==
  /\ Opened(o, Len(o) + 1) =
       Closed(o, Len(o) + 1) + (IF b = Outside THEN 0 ELSE 1)
  /\ \A i \in 1 .. Len(o) : o[i].do = "link" => Opened(o, i) = Closed(o, i)

\* The remaining work leads out of the fence the page is in.
Fenced(b) == Leads(work, b, Outside) /\ Balanced(out, b)

ListingInv ==
  pass \in {"summary", "details", "done"} => \E b \in Where : Fenced(b)

\* How one more token counts.
LEMMA FencesMore ==
  ASSUME NEW o, Printed(o), NEW x
  PROVE  LET u == Append(o, x)
             n == Len(o)
         IN  /\ n \in Nat /\ Len(u) = n + 1 /\ u[n + 1] = x
             /\ \A i \in 1 .. n : u[i] = o[i]
             /\ \A i \in 1 .. n + 1 : Opened(u, i) = Opened(o, i)
                                      /\ Closed(u, i) = Closed(o, i)
             /\ Opened(o, n + 1) \in Nat /\ Closed(o, n + 1) \in Nat
             /\ Opened(u, n + 2) =
                  Opened(o, n + 1)
                    + (IF x.do = "open" /\ x.scope = "fence" THEN 1 ELSE 0)
             /\ Closed(u, n + 2) =
                  Closed(o, n + 1)
                    + (IF x.do = "close" /\ x.scope = "fence" THEN 1 ELSE 0)
<1>1. PICK S : o \in Seq(S)
  BY DEF Printed
<1>2. PICK u : u = Append(o, x)
  OBVIOUS
<1>3. PICK n \in Nat : n = Len(o)
  BY <1>1
<1>4. /\ Len(u) = n + 1 /\ u[n + 1] = x
      /\ \A i \in 1 .. n : u[i] = o[i]
  BY <1>1, <1>2, <1>3
<1>5. ASSUME NEW i \in 1 .. n + 1, NEW what
      PROVE  Fences(u, what, i) = Fences(o, what, i)
  BY <1>4 DEF Fences
<1>6. ASSUME NEW what
      PROVE  /\ IsFiniteSet(Fences(o, what, n + 1))
             /\ n + 1 \notin Fences(o, what, n + 1)
             /\ Fences(u, what, n + 2) =
                  Fences(o, what, n + 1)
                    \cup (IF x.do = what /\ x.scope = "fence" THEN {n + 1}
                                                             ELSE {})
  <2>1. IsFiniteSet(Fences(o, what, n + 1))
    <3>1. IsFiniteSet(1 .. n)
      BY FS_Interval
    <3>2. Fences(o, what, n + 1) \subseteq 1 .. n
      BY DEF Fences
    <3> QED
      BY <3>1, <3>2, FS_Subset
  <2>2. n + 1 \notin Fences(o, what, n + 1)
    BY DEF Fences
  <2>3. ASSUME NEW k
        PROVE  k \in Fences(u, what, n + 2) <=>
                 \/ k \in Fences(o, what, n + 1)
                 \/ k = n + 1 /\ x.do = what /\ x.scope = "fence"
    <3>1. k \in 1 .. n + 2 - 1 <=> k \in 1 .. n + 1 - 1 \/ k = n + 1
      OBVIOUS
    <3>2. k \in 1 .. n + 1 - 1 => k \in 1 .. n
      OBVIOUS
    <3> QED
      BY <1>4, <3>1, <3>2 DEF Fences
  <2> QED
    BY <2>1, <2>2, <2>3
<1>7. ASSUME NEW what
      PROVE  /\ Cardinality(Fences(o, what, n + 1)) \in Nat
             /\ Cardinality(Fences(u, what, n + 2)) =
                  Cardinality(Fences(o, what, n + 1))
                    + (IF x.do = what /\ x.scope = "fence" THEN 1 ELSE 0)
  <2>1. Cardinality(Fences(o, what, n + 1)) \in Nat
    BY <1>6, FS_CardinalityType
  <2>2. CASE x.do = what /\ x.scope = "fence"
    <3>1. Fences(u, what, n + 2) = Fences(o, what, n + 1) \cup {n + 1}
      BY <1>6, <2>2
    <3> QED
      BY <1>6, <2>1, <2>2, <3>1, FS_AddElement
  <2>3. CASE ~(x.do = what /\ x.scope = "fence")
    <3>1. Fences(u, what, n + 2) = Fences(o, what, n + 1)
      BY <1>6, <2>3
    <3> QED
      BY <2>1, <2>3, <3>1
  <2> QED
    BY <2>1, <2>2, <2>3
<1> QED
  BY <1>2, <1>3, <1>4, <1>5, <1>7 DEF Opened, Closed

\* A token printed where it may be.
LEMMA BalancedMore ==
  ASSUME NEW o, Printed(o), NEW x, IsToken(x), NEW b \in Where, NEW c \in Where,
         Moves(x, b, c), Balanced(o, b)
  PROVE  Balanced(Append(o, x), c)
<1>1. PICK u : u = Append(o, x)
  OBVIOUS
<1>2. PICK n : n = Len(o)
  OBVIOUS
<1>3. /\ n \in Nat /\ Len(u) = n + 1 /\ u[n + 1] = x
      /\ \A i \in 1 .. n : u[i] = o[i]
      /\ \A i \in 1 .. n + 1 : Opened(u, i) = Opened(o, i)
                               /\ Closed(u, i) = Closed(o, i)
      /\ Opened(o, n + 1) \in Nat /\ Closed(o, n + 1) \in Nat
      /\ Opened(u, n + 2) =
           Opened(o, n + 1)
             + (IF x.do = "open" /\ x.scope = "fence" THEN 1 ELSE 0)
      /\ Closed(u, n + 2) =
           Closed(o, n + 1)
             + (IF x.do = "close" /\ x.scope = "fence" THEN 1 ELSE 0)
  BY <1>1, <1>2, FencesMore
<1>4. Opened(o, n + 1) = Closed(o, n + 1) + (IF b = Outside THEN 0 ELSE 1)
  BY <1>2 DEF Balanced
<1>5. Opened(u, n + 2) = Closed(u, n + 2) + (IF c = Outside THEN 0 ELSE 1)
  <2>1. \/ x.do = "open" /\ x.scope = "fence" /\ b = Outside /\ c = InFence
        \/ x.do = "close" /\ x.scope = "fence" /\ b = InFence /\ c = Outside
        \/ ~(x.do \in {"open", "close"} /\ x.scope = "fence") /\ b = c
    BY DEF IsToken, Moves
  <2>2. Outside # InFence
    BY DEF Outside, InFence
  <2>3. CASE x.do = "open" /\ x.scope = "fence" /\ b = Outside /\ c = InFence
    BY <1>3, <1>4, <2>2, <2>3
  <2>4. CASE x.do = "close" /\ x.scope = "fence" /\ b = InFence /\ c = Outside
    BY <1>3, <1>4, <2>2, <2>4
  <2>5. CASE ~(x.do \in {"open", "close"} /\ x.scope = "fence") /\ b = c
    BY <1>3, <1>4, <2>5
  <2> QED
    BY <2>1, <2>3, <2>4, <2>5
<1>6. ASSUME NEW i \in 1 .. n + 1, u[i].do = "link"
      PROVE  Opened(u, i) = Closed(u, i)
  <2>1. CASE i \in 1 .. n
    <3>1. o[i].do = "link"
      BY <1>3, <1>6, <2>1
    <3>2. Opened(o, i) = Closed(o, i)
      BY <1>2, <2>1, <3>1 DEF Balanced
    <3> QED
      BY <1>3, <3>2
  <2>2. CASE i \notin 1 .. n
    <3>1. i = n + 1
      BY <1>3, <2>2
    <3>2. b = Outside
      BY <1>3, <1>6, <3>1 DEF Moves
    <3> QED
      BY <1>3, <1>4, <3>1, <3>2
  <2> QED
    BY <2>1, <2>2
<1>7. n + 1 + 1 = n + 2
  BY <1>3
<1>8. Balanced(u, c)
  BY <1>3, <1>5, <1>6, <1>7 DEF Balanced
<1> QED
  BY <1>1, <1>8

----------------------------------------------------------------------------
(* The steps of the summary and the details pass *)

\* A step that replaces the next item, on the same side of the fence.
LEMMA FencedReplaced ==
  ASSUME NEW b \in Where, NEW c \in Where, NEW m, Balanced(out, b),
         b = Outside <=> c = Outside, Items(work), work # <<>>,
         Leads(Tail(work), m, Outside), NEW items, Items(items),
         Leads(items, c, m), work' = items \o Tail(work), UNCHANGED out
  PROVE  \E d \in Where : Fenced(d)'
<1>1. Items(Tail(work))
  BY NextItem
<1>2. Leads(items \o Tail(work), c, Outside)
  BY <1>1, WayOfThen
<1>3. Balanced(out, c)
  BY DEF Balanced
<1>4. Fenced(c)'
  BY <1>2, <1>3 DEF Fenced
<1> QED
  BY <1>4

LEMMA FencedDispatch ==
  ASSUME StateInv, NEW b \in Where, Fenced(b), Dispatch
  PROVE  \E d \in Where : Fenced(d)'
<1>1. /\ work # <<>> /\ Head(work).do = "handle" /\ Items(work)
      /\ UNCHANGED out
  BY DEF Dispatch, IsNext, StateInv
<1>2. input \in Value
  BY <1>1, NextItem
<1>3. PICK m \in Where : Moves(Head(work), b, m) /\ Leads(Tail(work), m, Outside)
  BY <1>1, WayOfNext DEF Fenced
<1>4. /\ m = b /\ WellMade(element, input)
      /\ b = InFence => Silent(element) \/ element = "codeline"
      /\ b = InLine => Silent(element) \/ element \in InCode
  BY <1>1, <1>3 DEF Moves, element, input
<1>5. CASE HasHandler(element)
  <2>1. PICK x, y : x = Call(element, input) /\ y = Leave(element, input)
    OBVIOUS
  <2>2. work' = <<x, y>> \o Tail(work)
    BY <1>5, <2>1 DEF Dispatch, Becomes
  <2>3. x.do = "call" /\ x.key = element /\ x.value = input
        /\ y.do = "leave" /\ y.key = element
    BY <2>1 DEF Call, Leave, Do
  <2>4. element = "codeline" => ~Silent(element) /\ element \notin InCode
    BY <1>5, SilentBody DEF InCode
  <2>5. PICK c \in Where : Moves(x, b, c) /\ Moves(y, c, b)
    <3>1. CASE b = InFence /\ element = "codeline"
      <4>1. Moves(x, b, InLine) /\ Moves(y, InLine, b) /\ InLine \in Where
        BY <1>4, <2>3, <3>1 DEF Moves, Where, Outside, InFence, InLine
      <4> QED
        BY <4>1
    <3>2. CASE ~(b = InFence /\ element = "codeline")
      <4>1. b # Outside => element # "codeline"
        BY <1>4, <2>4, <3>2 DEF Where
      <4>2. Moves(x, b, b)
        BY <1>4, <2>3, <3>2 DEF Moves
      <4>3. Moves(y, b, b)
        BY <2>3, <4>1 DEF Moves
      <4> QED
        BY <4>2, <4>3
    <3> QED
      BY <3>1, <3>2
  <2>6. PICK pair : pair = <<x, y>>
    OBVIOUS
  <2>7. Items(pair)
    <3>1. IsItem(x) /\ IsItem(y)
      BY <1>2, <2>1 DEF IsItem, Call, Leave, Do
    <3>2. pair \in Seq({x, y})
      BY <2>6
    <3> QED
      BY <3>1, <3>2 DEF Items
  <2>8. Leads(pair, b, b)
    BY <2>5, <2>6, WayOfTwo
  <2> QED
    BY <1>1, <1>3, <1>4, <2>2, <2>6, <2>7, <2>8, FencedReplaced DEF Fenced
<1>6. CASE ~HasHandler(element)
  <2>1. work' = <<>> \o Tail(work)
    BY <1>6 DEF Dispatch, Becomes
  <2>2. Items(<<>>) /\ Leads(<<>>, b, b)
    BY WayOfNone, NothingYet
  <2> QED
    BY <1>1, <1>3, <1>4, <2>1, <2>2, FencedReplaced DEF Fenced
<1> QED
  BY <1>5, <1>6

LEMMA FencedPop ==
  ASSUME StateInv, NEW b \in Where, Fenced(b), PopName
  PROVE  \E d \in Where : Fenced(d)'
<1>1. /\ work # <<>> /\ Head(work).do = "leave" /\ Items(work)
      /\ work' = <<>> \o Tail(work) /\ UNCHANGED out
  BY DEF PopName, IsNext, Becomes, StateInv
<1>2. PICK m \in Where : Moves(Head(work), b, m) /\ Leads(Tail(work), m, Outside)
  BY <1>1, WayOfNext DEF Fenced
<1>3. b = Outside <=> m = Outside
  BY <1>1, <1>2 DEF Moves, Outside, InFence
<1>4. Items(<<>>) /\ Leads(<<>>, m, m)
  BY WayOfNone, NothingYet
<1> QED
  BY <1>1, <1>2, <1>3, <1>4, FencedReplaced DEF Fenced

\* What is below a value may be where the value is.
LEMMA FlatChildren ==
  ASSUME NEW b \in Where, NEW v \in Value, b = InFence => Lines(v),
         b = InLine => Code(v)
  PROVE  Flat(Children(v), b)
<1> DEFINE kids == Json[v].kids
           S == {Handle(e.key, e.value) : e \in elements(v)}
<1>1. /\ kids \in Seq(Element)
      /\ DOMAIN kids = 1 .. Len(kids)
      /\ elements(v) = {kids[i] : i \in 1 .. Len(kids)}
      /\ elements(v) \subseteq Element
  BY JsonAssumption, ElementsOf DEF Element
<1>2. Children(v) =
        [i \in 1 .. Len(kids) |-> Handle(kids[i].key, kids[i].value)]
  BY <1>1 DEF Children
<1>3. Len(kids) \in Nat
  BY <1>1
<1>4. Children(v) \in Seq(S)
  BY <1>1, <1>2, <1>3
<1>5. ASSUME NEW e \in elements(v)
      PROVE  /\ IsPlain(Handle(e.key, e.value))
             /\ Moves(Handle(e.key, e.value), b, b)
  <2>1. IsPlain(Handle(e.key, e.value))
    BY <1>1, PlainTasks DEF Element
  <2>2. WellMade(e.key, e.value)
    BY ListingAssumption DEF WellMade, Lines, Code, Silent
  <2>3. /\ b = InFence => Silent(e.key) \/ e.key = "codeline"
        /\ b = InLine => Silent(e.key) \/ e.key \in InCode
    BY DEF Lines, Code
  <2>4. Moves(Handle(e.key, e.value), b, b)
    BY <2>2, <2>3 DEF Moves, Handle, Do
  <2> QED
    BY <2>1, <2>4
<1>6. \A x \in S : IsPlain(x) /\ Moves(x, b, b)
  BY <1>5
<1> HIDE DEF S
<1> QED
  BY <1>4, <1>6, FlatOf

LEMMA FencedPrint ==
  ASSUME StateInv, NEW b \in Where, Fenced(b), PrintValue
  PROVE  \E d \in Where : Fenced(d)'
<1> DEFINE items == IF is_string(input)
                      THEN When(~is_add_links, <<Text(Json[input].text)>>)
                      ELSE Children(input)
<1>1. /\ work # <<>> /\ Head(work).do = "print" /\ Items(work)
      /\ UNCHANGED out /\ work' = items \o Tail(work)
  BY DEF PrintValue, IsNext, Becomes, StateInv
<1>2. input \in Value
  BY <1>1, NextItem
<1>3. PICK m \in Where : Moves(Head(work), b, m) /\ Leads(Tail(work), m, Outside)
  BY <1>1, WayOfNext DEF Fenced
<1>4. /\ m = b
      /\ b = InFence => Lines(input)
      /\ b = InLine => Code(input)
  BY <1>1, <1>3 DEF Moves, input
<1>5. Flat(items, b)
  <2>1. \A t : Flat(<<Text(t)>>, b)
    BY PlainTasks, FlatTasks, FlatFew
  <2>2. Flat(When(~is_add_links, <<Text(Json[input].text)>>), b)
    BY <2>1, FlatScopes
  <2> QED
    BY <1>2, <1>4, <2>2, FlatChildren
<1> HIDE DEF items
<1>6. Items(items) /\ Leads(items, b, m)
  BY <1>4, <1>5, PlainItems DEF Flat
<1> QED
  BY <1>1, <1>3, <1>4, <1>6, FencedReplaced DEF Fenced

LEMMA FencedEmit ==
  ASSUME StateInv, NEW b \in Where, Fenced(b), Emit
  PROVE  \E d \in Where : Fenced(d)'
<1>1. /\ work # <<>> /\ IsToken(Head(work)) /\ Items(work) /\ Printed(out)
      /\ work' = <<>> \o Tail(work) /\ out' = Append(out, Head(work))
  BY DEF Emit, Becomes, StateInv
<1>2. PICK m \in Where : Moves(Head(work), b, m) /\ Leads(Tail(work), m, Outside)
  BY <1>1, WayOfNext DEF Fenced
<1>3. Balanced(out', m)
  <2>1. Balanced(Append(out, Head(work)), m)
    BY <1>1, <1>2, BalancedMore DEF Fenced
  <2> QED
    BY <1>1, <2>1
<1>4. Leads(work', m, Outside)
  <2>1. Items(<<>>) /\ Leads(<<>>, m, m) /\ Items(Tail(work))
    BY <1>1, WayOfNone, NothingYet, NextItem
  <2> QED
    BY <1>1, <1>2, <2>1, WayOfThen
<1>5. Fenced(m)'
  BY <1>3, <1>4 DEF Fenced
<1> QED
  BY <1>5

LEMMA FencedHandlers ==
  ASSUME StateInv, NEW b \in Where, Fenced(b), Handlers
  PROVE  \E d \in Where : Fenced(d)'
<1> DEFINE body == BodyOf(element, input)
<1>1. /\ work # <<>> /\ Head(work).do = "call" /\ Items(work)
      /\ UNCHANGED out /\ work' = body \o Tail(work)
  BY HandlersAre DEF StateInv
<1>2. input \in Value
  BY <1>1, NextItem
<1>3. PICK m \in Where : Moves(Head(work), b, m) /\ Leads(Tail(work), m, Outside)
  BY <1>1, WayOfNext DEF Fenced
<1>4. /\ WellMade(element, input)
      /\ b = InFence => Silent(element) \/ element = "codeline"
      /\ b = InLine => Silent(element) \/ element \in InCode
      /\ m = IF element = "codeline" /\ b = InFence THEN InLine ELSE b
  BY <1>1, <1>3 DEF Moves, element, input
<1>5. PICK c \in Where : /\ b = Outside <=> c = Outside
                         /\ Items(body) /\ Leads(body, c, m)
  <2>1. CASE b = Outside
    <3>1. m = b
      BY <1>4, <2>1 DEF Outside, InFence
    <3>2. Flat(body, Outside)
      BY <1>2, <1>4, HandlerOutside
    <3> QED
      BY <2>1, <3>1, <3>2, PlainItems DEF Flat
  <2>2. CASE b # Outside /\ Silent(element)
    <3>1. m = b /\ body = <<>>
      BY <1>4, <2>2, SilentBody
    <3> QED
      BY <2>2, <3>1, WayOfNone, NothingYet
  <2>3. CASE b # Outside /\ ~Silent(element)
    <3>1. m = InLine /\ element \in InCode \cup {"codeline"}
      BY <1>4, <2>3 DEF Where
    <3>2. Code(input)
      BY <1>4, <3>1 DEF WellMade
    <3>3. element = "ref" => has_parent("codeline")
      <4>1. element = "ref" => b = InLine
        BY <1>4, <2>3 DEF Where
      <4> QED
        BY <4>1, LineHasParent DEF Fenced
    <3>4. Flat(body, InLine)
      BY <1>2, <3>1, <3>2, <3>3, HandlerInLine
    <3>5. InLine \in Where /\ InLine # Outside
      BY DEF Where, InLine, Outside
    <3> QED
      BY <2>3, <3>1, <3>4, <3>5, PlainItems DEF Flat
  <2> QED
    BY <2>1, <2>2, <2>3
<1> HIDE DEF body
<1> QED
  BY <1>1, <1>3, <1>5, FencedReplaced DEF Fenced

----------------------------------------------------------------------------
(* The page *)

LEMMA ListingNext ==
  StateInv /\ LinksInv /\ ListingInv /\ [Next]_vars => ListingInv'
<1> SUFFICES ASSUME StateInv, LinksInv, ListingInv, [Next]_vars
             PROVE  ListingInv'
  OBVIOUS
<1>1. CASE Load
  BY <1>1 DEF Load, ListingInv
<1>2. CASE ProcessSummary \/ ProcessDetails
  <2>1. /\ pass \in {"links", "summary"} /\ work = <<>> /\ UNCHANGED out
        /\ work' = <<Handle("doxygen", job.document)>>
        /\ job.document \in Value
    BY <1>2, JobAssumption
    DEF ProcessSummary, ProcessDetails, StartPass, StateInv, Documents
  <2>2. Outside \in Where
    BY DEF Where
  <2>3. Leads(work', Outside, Outside)
    <3>1. WellMade("doxygen", job.document)
      BY DEF WellMade, InCode
    <3> QED
      BY <2>1, <2>2, <3>1, FlatTasks, WayOfOne
  <2>4. Balanced(out, Outside)
    <3>1. CASE pass = "links"
      <4>1. PICK o : o = out
        OBVIOUS
      <4>2. o = <<>>
        BY <3>1, <4>1 DEF LinksInv
      <4>3. Len(o) = 0
        BY <4>2
      <4>4. \A what : Fences(o, what, Len(o) + 1) = {}
        BY <4>3 DEF Fences
      <4>5. Opened(o, Len(o) + 1) = 0 /\ Closed(o, Len(o) + 1) = 0
        BY <4>4, FS_EmptySet DEF Opened, Closed
      <4> QED
        BY <4>1, <4>3, <4>5 DEF Balanced
    <3>2. CASE pass = "summary"
      <4>1. PICK b \in Where : Leads(work, b, Outside) /\ Balanced(out, b)
        BY <3>2 DEF ListingInv, Fenced
      <4>2. PICK w : w = work /\ Len(w) = 0
        BY <2>1
      <4>3. b = Outside
        BY <4>1, <4>2 DEF Leads
      <4> QED
        BY <4>1, <4>3
    <3> QED
      BY <2>1, <3>1, <3>2
  <2>5. Fenced(Outside)'
    BY <2>1, <2>3, <2>4 DEF Fenced
  <2> QED
    BY <2>2, <2>5 DEF ListingInv
<1>3. CASE Finish
  <2>1. pass = "details" /\ UNCHANGED <<work, out>>
    BY <1>3 DEF Finish
  <2>2. \A b \in Where : Fenced(b) => Fenced(b)'
    BY <2>1 DEF Fenced
  <2> QED
    BY <2>1, <2>2 DEF ListingInv
<1>4. CASE Dispatch \/ PopName \/ PrintValue \/ Emit \/ Handlers
  <2>1. UNCHANGED pass
    BY <1>4, HandlersAre DEF Dispatch, PopName, PrintValue, Emit, state
  <2> QED
    BY <1>4, <2>1, FencedDispatch, FencedPop, FencedPrint, FencedEmit,
       FencedHandlers
    DEF ListingInv
<1>5. CASE AddLinks \/ CompounddefLinks
  BY <1>5 DEF AddLinks, CompounddefLinks, is_add_links, state, ListingInv
<1>6. CASE UNCHANGED vars
  <2>1. UNCHANGED <<pass, work, out>>
    BY <1>6 DEF vars, state
  <2>2. \A b \in Where : Fenced(b) => Fenced(b)'
    BY <2>1 DEF Fenced
  <2> QED
    BY <2>1, <2>2 DEF ListingInv
<1> QED
  BY <1>1, <1>2, <1>3, <1>4, <1>5, <1>6 DEF Next, Step, Ended

\* No page has a hyperlink inside a code fence, at any depth below the listing
\* and whatever is around it, for documents whose listings are made of lines
\* (DoxyJson.cpp:534, 604-617, 622).
THEOREM ListingsHaveNoLinks == Spec => []ListingsArePlain
<1>1. Init => ListingInv
  BY DEF Init, ListingInv
<1>2. StateInv /\ ListingInv => ListingsArePlain
  <2> SUFFICES ASSUME StateInv, ListingInv, pass = "done",
                      NEW i \in DOMAIN out, out[i].do = "link"
               PROVE  Opened(out, i) = Closed(out, i)
    BY DEF ListingsArePlain, Opened, Closed, Fences
  <2>1. PICK b \in Where : Balanced(out, b)
    BY DEF ListingInv, Fenced
  <2>2. i \in 1 .. Len(out)
    <3>1. PICK S : out \in Seq(S)
      BY DEF StateInv, Printed
    <3> QED
      BY <3>1
  <2> QED
    BY <2>1, <2>2 DEF Balanced
<1> QED
  BY <1>1, <1>2, ListingNext, StateInvariant, LinksInvariant, PTL DEF Spec

----------------------------------------------------------------------------
(* The marks that items leave *)

\* What is looked for: anchors of a form, texts, and what an element is to
\* leave of both, of[e].  A mark is the id of an anchor, or a text.
Inside(v, g) == ({Json[v].text} \cap g.texts)
                  \cup UNION {g.of[kid] : kid \in elements(v)}

\* A compound without a description has the handler of one called on nothing.
Left(e, g) == IF e \in Element THEN g.of[e] ELSE {}

Marks(x, g) ==
  CASE x.do = "anchor" -> IF x.form = g.form THEN {x.id} ELSE {}
    [] HasText(x) -> {x.text} \cap g.texts
    [] x.do \in {"handle", "call"} -> Left([key |-> x.key, value |-> x.value], g)
    [] x.do = "print" -> Inside(x.value, g)
    [] OTHER -> {}

Apart(s, g) ==
  \A i, j \in 1 .. Len(s) : i # j => Marks(s[i], g) \cap Marks(s[j], g) = {}

AllMarks(s, g) == UNION {Marks(s[i], g) : i \in 1 .. Len(s)}

\* The items leave these marks, and no two the same.
Makes(s, M, g) == Items(s) /\ Apart(s, g) /\ AllMarks(s, g) = M

LEMMA MakesFew ==
  ASSUME NEW g
  PROVE  /\ Makes(<<>>, {}, g)
         /\ \A x : IsItem(x) => Makes(<<x>>, Marks(x, g), g)
<1>1. Makes(<<>>, {}, g)
  <2>1. PICK s : s = <<>>
    OBVIOUS
  <2>2. Items(s) /\ Len(s) = 0
    BY <2>1, NothingYet
  <2>3. Makes(s, {}, g)
    BY <2>2 DEF Makes, Apart, AllMarks
  <2> QED
    BY <2>1, <2>3
<1>2. ASSUME NEW x, IsItem(x)  PROVE Makes(<<x>>, Marks(x, g), g)
  <2>1. PICK s : s = <<x>>
    OBVIOUS
  <2>2. s \in Seq({x}) /\ Len(s) = 1 /\ s[1] = x
    BY <2>1
  <2>3. Items(s)
    BY <1>2, <2>2 DEF Items
  <2>4. Apart(s, g) /\ AllMarks(s, g) = Marks(x, g)
    BY <2>2 DEF Apart, AllMarks
  <2> QED
    BY <2>1, <2>3, <2>4 DEF Makes
<1> QED
  BY <1>1, <1>2

\* Sequences whose marks are apart.
LEMMA MakesThen ==
  ASSUME NEW g
  PROVE  \A s, t, M, N :
           Makes(s, M, g) /\ Makes(t, N, g) /\ M \cap N = {}
             => Makes(s \o t, M \cup N, g)
<1> SUFFICES ASSUME NEW s, NEW t, NEW M, NEW N, Makes(s, M, g),
                    Makes(t, N, g), M \cap N = {}
             PROVE  Makes(s \o t, M \cup N, g)
  OBVIOUS
<1>1. PICK u : u = s \o t
  OBVIOUS
<1>2. /\ Items(s) /\ Items(t) /\ Items(u)
      /\ Len(s) \in Nat /\ Len(t) \in Nat
      /\ Len(u) = Len(s) + Len(t)
      /\ \A i \in 1 .. Len(s) : u[i] = s[i]
      /\ \A i \in 1 .. Len(t) : u[Len(s) + i] = t[i]
  BY <1>1, ItemsOf, ItemsThen DEF Makes
<1>3. ASSUME NEW i \in 1 .. Len(u)
      PROVE  \/ /\ i \in 1 .. Len(s) /\ u[i] = s[i]
                /\ Marks(u[i], g) \subseteq M
             \/ \E k \in 1 .. Len(t) : /\ i = Len(s) + k /\ u[i] = t[k]
                                       /\ Marks(u[i], g) \subseteq N
  <2>1. CASE i <= Len(s)
    <3>1. i \in 1 .. Len(s)
      BY <1>2, <2>1
    <3> QED
      BY <1>2, <3>1 DEF Makes, AllMarks
  <2>2. CASE i > Len(s)
    <3>1. PICK k \in 1 .. Len(t) : i = Len(s) + k
      <4>1. i - Len(s) \in 1 .. Len(t) /\ i = Len(s) + (i - Len(s))
        BY <1>2, <2>2
      <4> QED
        BY <4>1
    <3> QED
      BY <1>2, <3>1 DEF Makes, AllMarks
  <2> QED
    BY <1>2, <2>1, <2>2
<1>4. Apart(u, g)
  <2> SUFFICES ASSUME NEW i \in 1 .. Len(u), NEW j \in 1 .. Len(u), i # j
               PROVE  Marks(u[i], g) \cap Marks(u[j], g) = {}
    BY DEF Apart
  <2>1. CASE i \in 1 .. Len(s) /\ j \in 1 .. Len(s)
    BY <1>2, <2>1 DEF Makes, Apart
  <2>2. ASSUME NEW k \in 1 .. Len(t), NEW l \in 1 .. Len(t),
               i = Len(s) + k, j = Len(s) + l
        PROVE  Marks(u[i], g) \cap Marks(u[j], g) = {}
    BY <1>2, <2>2 DEF Makes, Apart
  <2> QED
    BY <1>3, <2>1, <2>2
<1>5. AllMarks(u, g) = M \cup N
  <2>1. ASSUME NEW m \in M  PROVE m \in AllMarks(u, g)
    <3>1. PICK i \in 1 .. Len(s) : m \in Marks(s[i], g)
      BY DEF Makes, AllMarks
    <3>2. i \in 1 .. Len(u) /\ u[i] = s[i]
      BY <1>2
    <3> QED
      BY <3>1, <3>2 DEF AllMarks
  <2>2. ASSUME NEW m \in N  PROVE m \in AllMarks(u, g)
    <3>1. PICK i \in 1 .. Len(t) : m \in Marks(t[i], g)
      BY DEF Makes, AllMarks
    <3>2. Len(s) + i \in 1 .. Len(u) /\ u[Len(s) + i] = t[i]
      BY <1>2
    <3> QED
      BY <3>1, <3>2 DEF AllMarks
  <2>3. AllMarks(u, g) \subseteq M \cup N
    BY <1>3 DEF AllMarks
  <2> QED
    BY <2>1, <2>2, <2>3
<1> QED
  BY <1>1, <1>2, <1>4, <1>5 DEF Makes

\* The next item and the rest.
LEMMA MakesSplit ==
  ASSUME NEW g, NEW w, NEW M, Makes(w, M, g), w # <<>>
  PROVE  \E N : /\ Makes(Tail(w), N, g)
                /\ M = Marks(Head(w), g) \cup N
                /\ Marks(Head(w), g) \cap N = {}
<1>1. /\ Items(w) /\ Len(w) \in Nat /\ Len(w) > 0 /\ Head(w) = w[1]
      /\ Items(Tail(w)) /\ Len(Tail(w)) = Len(w) - 1
      /\ \A i \in 1 .. Len(w) - 1 : Tail(w)[i] = w[i + 1]
  BY ItemsOf DEF Makes
<1>2. PICK t : t = Tail(w)
  OBVIOUS
<1>3. /\ Items(t) /\ Len(t) = Len(w) - 1
      /\ \A i \in 1 .. Len(t) : /\ t[i] = w[i + 1]
                                /\ i + 1 \in 1 .. Len(w) /\ i + 1 # 1
  BY <1>1, <1>2
<1>4. \A i \in 1 .. Len(w) : i = 1 \/ \E k \in 1 .. Len(t) : i = k + 1
  <2> SUFFICES ASSUME NEW i \in 1 .. Len(w), i # 1
               PROVE  \E k \in 1 .. Len(t) : i = k + 1
    OBVIOUS
  <2>1. i - 1 \in 1 .. Len(t) /\ i = (i - 1) + 1
    BY <1>1, <1>3
  <2> QED
    BY <2>1
<1>5. Apart(t, g)
  <2> SUFFICES ASSUME NEW i \in 1 .. Len(t), NEW j \in 1 .. Len(t), i # j
               PROVE  Marks(t[i], g) \cap Marks(t[j], g) = {}
    BY DEF Apart
  <2>1. i + 1 # j + 1
    OBVIOUS
  <2> QED
    BY <1>3, <2>1 DEF Makes, Apart
<1>6. 1 \in 1 .. Len(w)
  BY <1>1
<1>7. Marks(w[1], g) \cap AllMarks(t, g) = {}
  <2>1. \A i \in 1 .. Len(t) : Marks(w[1], g) \cap Marks(t[i], g) = {}
    BY <1>3, <1>6 DEF Makes, Apart
  <2> QED
    BY <2>1 DEF AllMarks
<1>8. M = Marks(w[1], g) \cup AllMarks(t, g)
  <2>1. M = UNION {Marks(w[i], g) : i \in 1 .. Len(w)}
    BY DEF Makes, AllMarks
  <2>2. ASSUME NEW m \in M  PROVE m \in Marks(w[1], g) \cup AllMarks(t, g)
    BY <1>3, <1>4, <2>1 DEF AllMarks
  <2>3. AllMarks(t, g) \subseteq M /\ Marks(w[1], g) \subseteq M
    BY <1>3, <1>6, <2>1 DEF AllMarks
  <2> QED
    BY <2>2, <2>3
<1> QED
  BY <1>1, <1>2, <1>3, <1>5, <1>7, <1>8 DEF Makes

\* Other items in the place of the next one, with the same marks.
LEMMA MakesReplaced ==
  ASSUME NEW g, NEW w, NEW M, Makes(w, M, g), w # <<>>,
         NEW items, Makes(items, Marks(Head(w), g), g)
  PROVE  Makes(items \o Tail(w), M, g)
<1>1. PICK N : /\ Makes(Tail(w), N, g)
               /\ M = Marks(Head(w), g) \cup N
               /\ Marks(Head(w), g) \cap N = {}
  BY MakesSplit
<1> QED
  BY <1>1, MakesThen


LEMMA MarksOf ==
  ASSUME NEW g
  PROVE  /\ \A t : Marks(Text(t), g) = {t} \cap g.texts
         /\ \A t, url : Marks(Link(t, url), g) = {t} \cap g.texts
         /\ \A scope, t : Marks(Open(scope, t), g) = {t} \cap g.texts
         /\ \A scope : Marks(Close(scope), g) = {}
         /\ \A id, form :
              Marks(Anchor(id, form), g) = IF form = g.form THEN {id} ELSE {}
         /\ \A key, v : Marks(Leave(key, v), g) = {}
         /\ \A key, v :
              /\ Marks(Handle(key, v), g) = Left([key |-> key, value |-> v], g)
              /\ Marks(Call(key, v), g) = Left([key |-> key, value |-> v], g)
         /\ \A v : Marks(Visit(v), g) = Inside(v, g)
BY DEF Marks, HasText, Text, Link, Open, Close, Anchor, Leave, Handle, Call,
       Visit, Do

\* print() makes what is inside a value, where no mark is in two children.
LEMMA MakesChildren ==
  ASSUME NEW g, NEW v \in Value, {Json[v].text} \cap g.texts = {},
         \A i, j \in DOMAIN Json[v].kids :
           i # j => g.of[Json[v].kids[i]] \cap g.of[Json[v].kids[j]] = {}
  PROVE  Makes(Children(v), Inside(v, g), g)
<1> DEFINE kids == Json[v].kids
<1>1. PICK s : s = Children(v)
  OBVIOUS
<1>2. /\ DOMAIN kids = 1 .. Len(kids)
      /\ elements(v) = {kids[i] : i \in 1 .. Len(kids)}
      /\ elements(v) \subseteq Element
      /\ \A i, j \in 1 .. Len(kids) :
           i # j => g.of[kids[i]] \cap g.of[kids[j]] = {}
  BY ElementsOf
<1>3. /\ Plain(s) /\ Len(s) = Len(kids)
      /\ \A i \in 1 .. Len(kids) : s[i] = Handle(kids[i].key, kids[i].value)
  BY <1>1, PlainChildren
<1> HIDE DEF kids
<1>4. ASSUME NEW i \in 1 .. Len(kids)  PROVE Marks(s[i], g) = g.of[kids[i]]
  <2>1. kids[i] \in Element
    BY <1>2
  <2>2. kids[i] = [key |-> kids[i].key, value |-> kids[i].value]
    BY <2>1 DEF Element
  <2> QED
    BY <1>3, <2>1, <2>2, MarksOf DEF Left
<1>5. Apart(s, g)
  BY <1>2, <1>3, <1>4 DEF Apart
<1>6. AllMarks(s, g) = Inside(v, g)
  BY <1>2, <1>3, <1>4 DEF AllMarks, Inside
<1> QED
  BY <1>1, <1>3, <1>5, <1>6, PlainItems DEF Makes

----------------------------------------------------------------------------
(* Where elements are *)

\* An element of a document: the root, or a child.
Occurs(e) == \/ e = [key |-> "doxygen", value |-> e.value]
                /\ e.value \in Documents
             \/ \E v \in Value : e \in elements(v)

AnyText == STRING \cup Words
Nowhere == CHOOSE b : b \notin AnyText
Located == [e \in Element |-> IF Occurs(e) THEN {} ELSE {Nowhere}]

\* The calls are of elements of documents.
PlacedInv == pass \in {"summary", "details"} => Telling(AnyText, Located)

LEMMA LocatedCovers ==
  /\ Covers(AnyText, Located, {}) /\ Quiet({}) /\ Unread({})
  /\ \A e \in Element : Located[e] \subseteq AnyText <=> Occurs(e)
<1>1. Nowhere \notin AnyText
  <2>1. PICK S : S = AnyText
    OBVIOUS
  <2>2. {x \in S : x \notin x} \notin S
    OBVIOUS
  <2> QED
    BY <2>1, <2>2 DEF Nowhere
<1>2. \A e \in Element : Located[e] \subseteq AnyText <=> Occurs(e)
  BY <1>1 DEF Located
<1>3. ASSUME NEW e \in Element  PROVE Within(e.value, AnyText, Located)
  <2>1. e.value \in Value
    BY DEF Element
  <2>2. Json[e.value].text \in AnyText
    BY <2>1, JsonAssumption DEF AnyText
  <2>3. \A kid \in elements(e.value) : kid \in Element /\ Occurs(kid)
    BY <2>1, ElementsOf DEF Occurs
  <2> QED
    BY <1>2, <2>2, <2>3 DEF Within
<1> QED
  BY <1>2, <1>3 DEF Covers, AnyText, Quiet, Unread

\* A step of a pass, and the start of one.
LEMMA PlacedStep ==
  ASSUME StateInv, Telling(AnyText, Located),
         Dispatch \/ PopName \/ PrintValue \/ Emit \/ Handlers
  PROVE  Telling(AnyText, Located)'
<1>1. PICK A, T : A = AnyText /\ T = Located
  OBVIOUS
<1>2. Covers(A, T, {}) /\ Quiet({}) /\ Unread({}) /\ Telling(A, T)
  BY <1>1, LocatedCovers
<1>3. "" \in A
  BY <1>2 DEF Covers, Words
<1>4. Items(work) /\ Printed(out)
  BY DEF StateInv
<1>5. Telling(A, T)'
  BY <1>2, <1>3, <1>4, TellingDispatch, TellingPop, TellingPrint, TellingEmit,
     TellingHandlers
<1>6. AnyText' = A /\ Located' = T
  BY <1>1 DEF AnyText, Located, Occurs
<1> QED
  BY <1>5, <1>6

\* A pass starts with the root of the document.
LEMMA PlacedInvariant == Spec => []PlacedInv
<1>1. Init => PlacedInv
  BY DEF Init, PlacedInv
<1>2. ASSUME StateInv, LinksInv, PlacedInv, [Next]_vars  PROVE PlacedInv'
  <2>1. CASE Load
    BY <1>2, <2>1 DEF Load, PlacedInv
  <2>2. CASE ProcessSummary \/ ProcessDetails
    <3>1. PICK A, T : A = AnyText /\ T = Located
      OBVIOUS
    <3>2. /\ pass \in {"links", "summary"}
          /\ work' = <<Handle("doxygen", job.document)>>
          /\ UNCHANGED out /\ job.document \in Documents
      BY <1>2, <2>2
      DEF ProcessSummary, ProcessDetails, StartPass, StateInv
    <3>3. PrintedTexts' \subseteq A
      <4>1. CASE pass = "links"
        <5>1. PICK o : o = <<>>
          OBVIOUS
        <5>2. out' = o /\ DOMAIN o = {}
          BY <1>2, <3>2, <4>1, <5>1 DEF LinksInv
        <5> QED
          BY <5>2 DEF PrintedTexts
      <4>2. CASE pass = "summary"
        BY <1>2, <3>1, <3>2, <4>2 DEF PlacedInv, Telling, PrintedTexts
      <4> QED
        BY <3>2, <4>1, <4>2
    <3>4. Says(Handle("doxygen", job.document), A, T)
      <4>1. /\ [key |-> "doxygen", value |-> job.document] \in Element
            /\ Occurs([key |-> "doxygen", value |-> job.document])
        BY <3>2, CompoundAssumption DEF Occurs, Documents
      <4>2. T[[key |-> "doxygen", value |-> job.document]] \subseteq A
        BY <3>1, <4>1 DEF Located
      <4> QED
        BY <4>1, <4>2, SpeaksTasks
    <3>5. Speaks(work', A, T)
      BY <3>2, <3>4, SpeaksFew
    <3>6. AnyText' = A /\ Located' = T
      BY <3>1 DEF AnyText, Located, Occurs
    <3>7. Telling(A, T)'
      BY <3>3, <3>5 DEF Telling
    <3> QED
      BY <3>6, <3>7 DEF PlacedInv
  <2>3. CASE Finish
    BY <1>2, <2>3 DEF Finish, PlacedInv
  <2>4. CASE Dispatch \/ PopName \/ PrintValue \/ Emit \/ Handlers
    <3>1. UNCHANGED pass
      BY <2>4, HandlersAre DEF Dispatch, PopName, PrintValue, Emit, state
    <3> QED
      BY <1>2, <2>4, <3>1, PlacedStep DEF PlacedInv
  <2>5. CASE AddLinks \/ CompounddefLinks
    BY <1>2, <2>5
    DEF AddLinks, CompounddefLinks, is_add_links, state, PlacedInv
  <2>6. CASE UNCHANGED vars
    <3>1. UNCHANGED <<pass, work, out>>
      BY <2>6 DEF vars, state
    <3> QED
      BY <1>2, <3>1
      DEF PlacedInv, Telling, PrintedTexts, AnyText, Located, Occurs
  <2> QED
    BY <1>2, <2>1, <2>2, <2>3, <2>4, <2>5, <2>6 DEF Next, Step, Ended
<1> QED
  BY <1>1, <1>2, StateInvariant, LinksInvariant, PTL DEF Spec

----------------------------------------------------------------------------
(* Where members are *)

\* Every element has what its children make it have.
LEMMA ByChildren ==
  ASSUME NEW P, \A e \in Element :
                  (\A kid \in elements(e.value) : kid \in P) => e \in P
  PROVE  \A e \in Element : e \in P
<1> SUFFICES ASSUME NEW e \in Element, e \notin P  PROVE FALSE
  OBVIOUS
<1> DEFINE Sizes == {Size(d) : d \in {d \in Element : d \notin P}}
<1>1. Sizes \in SUBSET Nat /\ Sizes # {}
  BY ChildrenAreSmaller
<1>2. PICK n \in Sizes : \A m \in Sizes : n <= m
  BY <1>1, LeastNumber
<1>3. PICK d \in Element : d \notin P /\ Size(d) = n
  BY <1>2
<1>4. ASSUME NEW kid \in elements(d.value)  PROVE kid \in P
  <2>1. /\ kid \in Element /\ Size(kid) \in Nat /\ Size(d) \in Nat
        /\ Size(kid) < Size(d)
    BY <1>3, <1>4, ChildrenAreSmaller
  <2>2. kid \notin P => n <= Size(kid)
    BY <1>2, <2>1
  <2> QED
    BY <1>3, <2>1, <2>2
<1> QED
  BY <1>3, <1>4

IsChild(e) == \E v \in Value : e \in elements(v)

\* Not a compound, a section or a member.
Other(e) ==
  IsChild(e) /\ e.key \notin {"compounddef", "sectiondef", "memberdef"}

\* Below a member, and below what is none of these, there is none of these.
LEMMA BelowOther ==
  ASSUME NEW e, IsChild(e), e.key \notin {"compounddef", "sectiondef"},
         NEW kid \in elements(e.value)
  PROVE  kid \in Element /\ Other(kid)
<1>1. PICK v \in Value : e \in elements(v)
  BY DEF IsChild
<1>2. e \in Element /\ e.value \in Value
  BY <1>1, ElementsOf DEF Element
<1>3. kid \in Element /\ IsChild(kid)
  BY <1>2, ElementsOf DEF IsChild
<1>4. kid.key \notin {"memberdef", "sectiondef"}
  BY <1>1, MembersAssumption
<1>5. kid.key # "compounddef"
  BY <1>1, <1>2, CompoundAssumption
<1> QED
  BY <1>3, <1>4, <1>5 DEF Other

\* The members of an element, by what it is.
LEMMA MembersByCases ==
  ASSUME NEW set, NEW e \in Element
  PROVE  MembersWithout(set)[e] =
           IF e \in set THEN {}
           ELSE (IF e.key = "memberdef" THEN {get_id(e.value)} ELSE {})
                  \cup UNION {MembersWithout(set)[kid] :
                                kid \in elements(e.value)}
<1> DEFINE own == [d \in Element |->
                     IF d.key = "memberdef" THEN {get_id(d.value)} ELSE {}]
<1>1. MembersWithout(set) = Gathered(own, set)
  BY DEF MembersWithout
<1>2. own[e] = IF e.key = "memberdef" THEN {get_id(e.value)} ELSE {}
  OBVIOUS
<1> HIDE DEF own
<1>3. MembersWithout(set)[e] = GatheredWith(MembersWithout(set), own, set, e)
  BY <1>1, GatheredOfElement
<1> QED
  BY <1>2, <1>3 DEF GatheredWith

LEMMA OthersHaveNoMembers ==
  ASSUME NEW set
  PROVE  \A e \in Element : Other(e) => MembersWithout(set)[e] = {}
<1> DEFINE P == {e \in Element : Other(e) => MembersWithout(set)[e] = {}}
<1>1. ASSUME NEW e \in Element, \A kid \in elements(e.value) : kid \in P
      PROVE  e \in P
  <2> SUFFICES ASSUME Other(e)  PROVE MembersWithout(set)[e] = {}
    OBVIOUS
  <2>1. \A kid \in elements(e.value) : MembersWithout(set)[kid] = {}
    BY <1>1, BelowOther DEF Other
  <2>2. UNION {MembersWithout(set)[kid] : kid \in elements(e.value)} = {}
    BY <2>1
  <2> DEFINE some == UNION {MembersWithout(set)[kid] : kid \in elements(e.value)}
             own == IF e.key = "memberdef" THEN {get_id(e.value)} ELSE {}
  <2>3. own = {}
    BY DEF Other
  <2>4. MembersWithout(set)[e] = IF e \in set THEN {} ELSE own \cup some
    BY MembersByCases
  <2> HIDE DEF own, some
  <2> QED
    BY <2>2, <2>3, <2>4 DEF some
<1> HIDE DEF P
<1>2. \A e \in Element : e \in P
  BY <1>1, ByChildren
<1> QED
  BY <1>2 DEF P

\* Fewer members are outside more elements.
LEMMA FewerMembers ==
  ASSUME NEW set
  PROVE  \A e \in Element :
           MembersWithout(set)[e] \subseteq MembersWithout({})[e]
<1> DEFINE P == {e \in Element :
                   MembersWithout(set)[e] \subseteq MembersWithout({})[e]}
<1>1. ASSUME NEW e \in Element, \A kid \in elements(e.value) : kid \in P
      PROVE  e \in P
  <2> DEFINE some == UNION {MembersWithout(set)[kid] : kid \in elements(e.value)}
             all == UNION {MembersWithout({})[kid] : kid \in elements(e.value)}
             own == IF e.key = "memberdef" THEN {get_id(e.value)} ELSE {}
  <2>1. some \subseteq all
    BY <1>1
  <2>2. MembersWithout(set)[e] = IF e \in set THEN {} ELSE own \cup some
    BY MembersByCases
  <2>3. MembersWithout({})[e] = own \cup all
    BY MembersByCases
  <2> HIDE DEF some, all, own
  <2> QED
    BY <2>1, <2>2, <2>3
<1> HIDE DEF P
<1>2. \A e \in Element : e \in P
  BY <1>1, ByChildren
<1> QED
  BY <1>2 DEF P

\* A member has an id, and the first pass gathers it.
LEMMA MembersAreGathered ==
  ASSUME NEW set, \A d \in Element : ~HasHandler(d.key) => d \in set
  PROVE  \A e \in Element : IsChild(e) \/ e = document =>
           MembersWithout(set)[e] \subseteq AllIds[e]
<1> DEFINE P == {e \in Element :
                   IsChild(e) \/ e = document =>
                     MembersWithout(set)[e] \subseteq AllIds[e]}
<1>1. ASSUME NEW e \in Element, \A kid \in elements(e.value) : kid \in P
      PROVE  e \in P
  <2> SUFFICES ASSUME IsChild(e) \/ e = document,
                      NEW id \in MembersWithout(set)[e]
               PROVE  id \in AllIds[e]
    OBVIOUS
  <2>1. /\ e.key \in STRING /\ e.value \in Value
        /\ e = [key |-> e.key, value |-> e.value]
    BY DEF Element
  <2>2. e \notin set
    BY MembersByCases
  <2>3. HasHandler(e.key)
    BY <2>2
  <2>4. /\ UNION {AllIds[kid] : kid \in elements(e.value)} \subseteq AllIds[e]
        /\ e.key = "memberdef" => {get_id(e.value)} \ {<<>>} \subseteq AllIds[e]
    BY <2>1, <2>3, IdsByCases
  <2>5. CASE e.key = "memberdef" /\ id = get_id(e.value)
    <3>1. IsChild(e)
      BY <2>5 DEF document
    <3>2. id # <<>>
      BY <2>5, <3>1, MembersAssumption DEF IsChild
    <3> QED
      BY <2>4, <2>5, <3>2
  <2>6. CASE \E kid \in elements(e.value) : id \in MembersWithout(set)[kid]
    <3>1. PICK kid \in elements(e.value) : id \in MembersWithout(set)[kid]
      BY <2>6
    <3>2. IsChild(kid)
      BY <2>1 DEF IsChild
    <3>3. id \in AllIds[kid]
      BY <1>1, <3>1, <3>2
    <3> QED
      BY <2>4, <3>3
  <2>7. \/ e.key = "memberdef" /\ id = get_id(e.value)
        \/ \E kid \in elements(e.value) : id \in MembersWithout(set)[kid]
    <3> DEFINE own == IF e.key = "memberdef" THEN {get_id(e.value)} ELSE {}
    <3>1. MembersWithout(set)[e] =
            own \cup UNION {MembersWithout(set)[kid] :
                             kid \in elements(e.value)}
      BY <2>2, MembersByCases
    <3> QED
      BY <3>1
  <2> QED
    BY <2>5, <2>6, <2>7
<1> HIDE DEF P
<1>2. \A e \in Element : e \in P
  BY <1>1, ByChildren
<1> QED
  BY <1>2 DEF P

----------------------------------------------------------------------------
(* What the bodies of the handlers are made of *)

\* Texts, links, scopes, and what is inside the element and its type.
Ordinary(x, v) ==
  \/ x.do \in {"text", "link", "open", "close"}
  \/ x \in {Visit(v), Visit(get_value(v, "type"))}

Ordinaries(s, v) == \E S : s \in Seq(S) /\ \A x \in S : Ordinary(x, v)

LEMMA OrdinaryThen ==
  ASSUME NEW v
  PROVE  \A s, t : Ordinaries(s, v) /\ Ordinaries(t, v) =>
                     Ordinaries(s \o t, v)
<1> SUFFICES ASSUME NEW s, NEW t, Ordinaries(s, v), Ordinaries(t, v)
             PROVE  Ordinaries(s \o t, v)
  OBVIOUS
<1>1. PICK S : s \in Seq(S) /\ \A x \in S : Ordinary(x, v)
  BY DEF Ordinaries
<1>2. PICK R : t \in Seq(R) /\ \A x \in R : Ordinary(x, v)
  BY DEF Ordinaries
<1>3. s \in Seq(S \cup R) /\ t \in Seq(S \cup R)
  BY <1>1, <1>2
<1>4. s \o t \in Seq(S \cup R)
  BY <1>3
<1> QED
  BY <1>1, <1>2, <1>4 DEF Ordinaries

LEMMA OrdinaryFew ==
  ASSUME NEW v
  PROVE  /\ Ordinaries(<<>>, v)
         /\ \A x : Ordinary(x, v) => Ordinaries(<<x>>, v)
<1>1. Ordinaries(<<>>, v)
  <2> DEFINE s == <<>>
  <2>1. s \in Seq({}) /\ \A x \in {} : Ordinary(x, v)
    OBVIOUS
  <2> HIDE DEF s
  <2>2. Ordinaries(s, v)
    BY <2>1 DEF Ordinaries
  <2> QED
    BY <2>2 DEF s
<1>2. ASSUME NEW x, Ordinary(x, v)  PROVE Ordinaries(<<x>>, v)
  <2> DEFINE s == <<x>>
  <2>1. s \in Seq({x}) /\ \A y \in {x} : Ordinary(y, v)
    BY <1>2
  <2> HIDE DEF s
  <2>2. Ordinaries(s, v)
    BY <2>1 DEF Ordinaries
  <2> QED
    BY <2>2 DEF s
<1> QED
  BY <1>1, <1>2

\* Two or three items, as sequences of one.
LEMMA OrdinaryMore ==
  ASSUME NEW v
  PROVE  /\ \A x, y : Ordinary(x, v) /\ Ordinary(y, v) =>
                        Ordinaries(<<x, y>>, v)
         /\ \A x, y, z : Ordinary(x, v) /\ Ordinary(y, v) /\ Ordinary(z, v) =>
                           Ordinaries(<<x, y, z>>, v)
<1> SUFFICES ASSUME NEW x, NEW y, NEW z, Ordinary(x, v), Ordinary(y, v),
                    Ordinary(z, v)
             PROVE  Ordinaries(<<x, y>>, v) /\ Ordinaries(<<x, y, z>>, v)
  OBVIOUS
<1> DEFINE s == <<x, y>>
           t == <<x, y, z>>
<1>1. /\ s \in Seq({x, y, z}) /\ t \in Seq({x, y, z})
      /\ \A w \in {x, y, z} : Ordinary(w, v)
  OBVIOUS
<1> HIDE DEF s, t
<1>2. Ordinaries(s, v) /\ Ordinaries(t, v)
  BY <1>1 DEF Ordinaries
<1> QED
  BY <1>2 DEF s, t

LEMMA OrdinaryTasks ==
  ASSUME NEW v
  PROVE  /\ \A t : Ordinary(Text(t), v)
         /\ \A t, url : Ordinary(Link(t, url), v)
         /\ \A scope, t : Ordinary(Open(scope, t), v)
         /\ \A scope : Ordinary(Close(scope), v)
         /\ Ordinary(Visit(v), v) /\ Ordinary(Visit(get_value(v, "type")), v)
BY DEF Ordinary, Text, Link, Open, Close

LEMMA OrdinaryScopes ==
  ASSUME NEW v
  PROVE  /\ \A c : \A s : Ordinaries(s, v) => Ordinaries(When(c, s), v)
         /\ \A t, s : Ordinaries(s, v) => Ordinaries(Header(t, s), v)
         /\ \A s : Ordinaries(s, v) => /\ Ordinaries(List(s), v)
                                       /\ Ordinaries(Fence(s), v)
<1>1. \A c : \A s : Ordinaries(s, v) => Ordinaries(When(c, s), v)
  BY OrdinaryFew DEF When
<1>2. ASSUME NEW scope, NEW t, NEW s, Ordinaries(s, v)
      PROVE  Ordinaries(<<Open(scope, t)>> \o s \o <<Close(scope)>>, v)
  <2> DEFINE a == <<Open(scope, t)>>
             b == <<Close(scope)>>
  <2>1. Ordinaries(a, v) /\ Ordinaries(b, v)
    BY OrdinaryTasks, OrdinaryFew
  <2> HIDE DEF a, b
  <2>2. Ordinaries(a \o s \o b, v)
    BY <1>2, <2>1, OrdinaryThen
  <2> QED
    BY <2>2 DEF a, b
<1> QED
  BY <1>1, <1>2 DEF Header, List, Fence

LEMMA OrdinaryHelpers ==
  ASSUME NEW v
  PROVE  /\ \A t : Ordinaries(print_inline_code(t), v)
         /\ \A t, u, id : Ordinaries(print_hyperlink(t, u, id), v)
         /\ Ordinaries(TypeOf(v), v)
<1>1. \A t : Ordinaries(print_inline_code(t), v)
  BY OrdinaryTasks, OrdinaryFew, OrdinaryScopes DEF print_inline_code
<1>2. \A t, u, id : Ordinaries(print_hyperlink(t, u, id), v)
  BY OrdinaryTasks, OrdinaryFew DEF print_hyperlink
<1>3. Ordinaries(TypeOf(v), v)
  BY <1>1, OrdinaryTasks, OrdinaryFew DEF TypeOf
<1> QED
  BY <1>1, <1>2, <1>3

LEMMA OrdinaryBodies ==
  ASSUME NEW v
  PROVE  /\ Ordinaries(DetaileddescriptionBody(v), v)
         /\ Ordinaries(BriefdescriptionBody(v), v)
         /\ Ordinaries(BasecompoundrefBody(v), v)
         /\ Ordinaries(InnerclassBody(v), v)
         /\ Ordinaries(ListofallmembersBody(v), v)
         /\ Ordinaries(MemberBody(v), v)
         /\ Ordinaries(SectiondefBody(v), v)
         /\ Ordinaries(MemberdefSummary(v), v)
         /\ Ordinaries(EnumvalueBody(v), v)
         /\ Ordinaries(ParamBody(v), v)
         /\ Ordinaries(ItemizedlistBody(v), v)
         /\ Ordinaries(ProgramlistingBody(v), v)
         /\ Ordinaries(SimplesectBody(v), v)
         /\ Ordinaries(RefBody(v), v)
<1> DEFINE visit == <<Visit(v)>>
<1>1. Ordinaries(visit, v) /\ Ordinaries(<<>>, v)
  BY OrdinaryTasks, OrdinaryFew
<1>2. /\ \A t : Ordinaries(<<Text(t)>>, v)
      /\ \A t, url : Ordinaries(<<Link(t, url)>>, v)
  BY OrdinaryTasks, OrdinaryFew
<1> HIDE DEF visit
<1>3. Ordinaries(DetaileddescriptionBody(v), v)
  BY <1>1, OrdinaryScopes, OrdinaryThen DEF DetaileddescriptionBody, visit
<1>4. Ordinaries(BriefdescriptionBody(v), v)
  BY <1>1, OrdinaryScopes DEF BriefdescriptionBody, visit
<1>5. Ordinaries(BasecompoundrefBody(v), v)
  BY <1>2, OrdinaryScopes, OrdinaryHelpers, OrdinaryThen
  DEF BasecompoundrefBody
<1>6. Ordinaries(InnerclassBody(v), v) /\ Ordinaries(MemberBody(v), v)
  BY OrdinaryScopes, OrdinaryHelpers DEF InnerclassBody, MemberBody
<1>7. Ordinaries(ListofallmembersBody(v), v)
  BY <1>1, OrdinaryScopes DEF ListofallmembersBody, visit
<1>8. Ordinaries(SectiondefBody(v), v)
  BY <1>1, OrdinaryScopes DEF SectiondefBody, visit
<1>9. Ordinaries(MemberdefSummary(v), v)
  <2> DEFINE link == <<Link(get_value_as_string_view(v, "name"),
                            Url(v, get_id(v)))>>
             rest == IF get_value_as_string_view(v, "@kind") = "enum"
                       THEN List(visit) ELSE visit
  <2>1. Ordinaries(link, v) /\ Ordinaries(rest, v)
    BY <1>1, <1>2, OrdinaryScopes
  <2>2. MemberdefSummary(v) = link \o rest
    BY DEF MemberdefSummary, visit
  <2> HIDE DEF link, rest
  <2> QED
    BY <2>1, <2>2, OrdinaryThen
<1>10. Ordinaries(EnumvalueBody(v), v)
  BY <1>1, <1>2, OrdinaryScopes DEF EnumvalueBody, visit
<1>11. Ordinaries(ParamBody(v), v)
  BY <1>1, OrdinaryScopes, OrdinaryHelpers, OrdinaryThen DEF ParamBody, visit
<1>12. /\ Ordinaries(ItemizedlistBody(v), v)
       /\ Ordinaries(ProgramlistingBody(v), v)
  BY <1>1, OrdinaryScopes DEF ItemizedlistBody, ProgramlistingBody, visit
<1>13. Ordinaries(SimplesectBody(v), v)
  BY OrdinaryTasks, OrdinaryMore, OrdinaryScopes DEF SimplesectBody
<1>14. Ordinaries(RefBody(v), v)
  BY <1>2, OrdinaryHelpers DEF RefBody
<1> QED
  BY <1>3, <1>4, <1>5, <1>6, <1>7, <1>8, <1>9, <1>10, <1>11, <1>12, <1>13,
     <1>14

\* The details of a member come after its anchors.
LEMMA OrdinaryMember ==
  ASSUME NEW v
  PROVE  \E s : /\ Ordinaries(s, v)
                /\ MemberdefDetails(v) = print_anchor(get_id(v)) \o s
<1> DEFINE visit == <<Visit(v)>>
           flag(key, value, word) ==
             When(get_value_as_string_view(v, key) = value, <<Text(word)>>)
           name == get_value_as_string_view(v, "name")
           definition == get_value_as_string_view(v, "definition")
           typeless == is_null(get_value(v, "type"))
           parameters == When(count_children(v, "param") > 0,
                              <<Text("***Parameters:***")>>)
           type == <<Text("***Type:*** ")>> \o TypeOf(v) \o parameters
           d == When(definition # "", Fence(<<Text(definition)>>))
           t == When(definition # "" /\ ~typeless, type)
           r == When(definition = "" \/ ~typeless, visit)
           f == flag("@virtual", "virtual", "virtual")
           g == flag("@inline", "yes", "inline")
           h == flag("@explicit", "yes", "explicit")
           s == Header(name, f \o g \o h \o d \o t \o r)
<1>1. Ordinaries(visit, v) /\ \A w : Ordinaries(<<Text(w)>>, v)
  BY OrdinaryTasks, OrdinaryFew
<1>2. \A c : \A q : Ordinaries(q, v) => Ordinaries(When(c, q), v)
  BY OrdinaryScopes
<1>3. Ordinaries(type, v)
  <2>1. Ordinaries(parameters, v)
    BY <1>1, <1>2
  <2> HIDE DEF parameters
  <2> QED
    BY <1>1, <2>1, OrdinaryHelpers, OrdinaryThen
<1>4. Ordinaries(d, v)
  <2> HIDE DEF definition
  <2>1. Ordinaries(Fence(<<Text(definition)>>), v)
    BY <1>1, OrdinaryScopes
  <2> QED
    BY <1>2, <2>1
<1>5. Ordinaries(t, v) /\ Ordinaries(r, v)
  <2> HIDE DEF type, visit, definition, typeless
  <2> QED
    BY <1>1, <1>2, <1>3
<1>6. Ordinaries(f, v) /\ Ordinaries(g, v) /\ Ordinaries(h, v)
  BY <1>1, <1>2
<1>7. MemberdefDetails(v) = print_anchor(get_id(v)) \o s
  BY DEF MemberdefDetails
<1> HIDE DEF d, t, r, f, g, h, name
<1>8. Ordinaries(f \o g \o h \o d \o t \o r, v)
  BY <1>4, <1>5, <1>6, OrdinaryThen
<1>9. Ordinaries(s, v)
  BY <1>8, OrdinaryScopes
<1> HIDE DEF s
<1> QED
  BY <1>7, <1>9

\* The handlers but those of a compound and a member.
LEMMA OrdinaryHandler ==
  ASSUME NEW v, NEW key, key \notin {"compounddef", "memberdef"}
  PROVE  Ordinaries(BodyOf(key, v), v)
<1> DEFINE visit == <<Visit(v)>>
<1>1. Ordinaries(visit, v) /\ Ordinaries(<<>>, v)
  BY OrdinaryTasks, OrdinaryFew
<1>2. /\ Ordinaries(<<Text("*"), Visit(v), Text("*")>>, v)
      /\ Ordinaries(<<Text("- "), Visit(v)>>, v)
      /\ Ordinaries(<<Text(" "), Visit(v)>>, v)
      /\ Ordinaries(<<Text("***Template Parameters***"), Visit(v)>>, v)
  BY OrdinaryTasks, OrdinaryMore
<1> HIDE DEF visit
<1>3. Ordinaries(When(~is_summary, visit), v)
  BY <1>1, OrdinaryScopes
<1>4. Ordinaries(IF is_string(v) THEN print_inline_code(Json[v].text)
                                 ELSE visit, v)
  BY <1>1, OrdinaryHelpers
<1>5. CASE key \in {"detaileddescription", "briefdescription",
                    "basecompoundref", "innerclass", "listofallmembers",
                    "member", "sectiondef", "enumvalue", "param",
                    "itemizedlist", "programlisting", "simplesect", "ref"}
  BY <1>5, OrdinaryBodies DEF BodyOf
<1>6. CASE key \in {"codeline", "computeroutput"}
  BY <1>3, <1>4, <1>6 DEF BodyOf, visit
<1>7. CASE key \in {"emphasis", "listitem", "sp", "templateparamlist"}
  BY <1>2, <1>7 DEF BodyOf
<1>8. CASE key \in {"doxygen", "highlight", "inbodydescription", "location",
                    "para", "#text"}
  BY <1>1, <1>8 DEF BodyOf, visit
<1> QED
  BY <1>1, <1>5, <1>6, <1>7, <1>8 DEF BodyOf

----------------------------------------------------------------------------
(* Looking for the anchors of a form *)

Anchoring(form) == \/ form = "header" /\ config.anchor_headers
                   \/ form = "html" /\ config.anchor_html

\* The elements nothing is printed of.
Unshown == {e \in Element : ~HasHandler(e.key) \/ Hidden(e)}

\* The details have the anchors of the members, the summary has none.
Looking(form) ==
  [form |-> form, texts |-> {},
   of |-> IF pass = "details" /\ Anchoring(form)
            THEN MembersWithout(Unshown) ELSE [e \in Element |-> {}]]

\* What is looked for in an element is in its children, and a member has its id.
LEMMA LookingAt ==
  ASSUME NEW form, NEW g, g = Looking(form)
  PROVE  /\ g.form = form /\ g.texts = {}
         /\ \A e \in Element :
              /\ Other(e) => g.of[e] = {}
              /\ e \in Unshown => g.of[e] = {}
              /\ e \notin Unshown /\ e.key # "memberdef" =>
                   g.of[e] = Inside(e.value, g)
         /\ \A v \in Value : \A i, j \in DOMAIN Json[v].kids :
              i # j => g.of[Json[v].kids[i]] \cap g.of[Json[v].kids[j]] = {}
<1>1. g.form = form /\ g.texts = {}
  BY DEF Looking
<1>2. \A v : Inside(v, g) = UNION {g.of[kid] : kid \in elements(v)}
  BY <1>1 DEF Inside
<1>3. CASE pass = "details" /\ Anchoring(form)
  <2>1. PICK set : set = Unshown
    OBVIOUS
  <2>2. g.of = MembersWithout(set)
    BY <1>3, <2>1 DEF Looking
  <2>3. ASSUME NEW e \in Element
        PROVE  /\ Other(e) => g.of[e] = {}
               /\ e \in Unshown => g.of[e] = {}
               /\ e \notin Unshown /\ e.key # "memberdef" =>
                    g.of[e] = Inside(e.value, g)
    <3> DEFINE own == IF e.key = "memberdef" THEN {get_id(e.value)} ELSE {}
               some == UNION {MembersWithout(set)[kid] :
                                kid \in elements(e.value)}
    <3>1. MembersWithout(set)[e] = IF e \in set THEN {} ELSE own \cup some
      BY MembersByCases
    <3>2. some = Inside(e.value, g)
      BY <1>2, <2>2
    <3>3. Other(e) => g.of[e] = {}
      BY <2>2, OthersHaveNoMembers
    <3> HIDE DEF some
    <3> QED
      BY <2>1, <2>2, <3>1, <3>2, <3>3
  <2>4. ASSUME NEW v \in Value, NEW i \in DOMAIN Json[v].kids,
               NEW j \in DOMAIN Json[v].kids, i # j
        PROVE  g.of[Json[v].kids[i]] \cap g.of[Json[v].kids[j]] = {}
    <3>1. MembersWithout({})[Json[v].kids[i]]
            \cap MembersWithout({})[Json[v].kids[j]] = {}
      BY <2>4, MembersAssumption
    <3>2. Json[v].kids[i] \in Element /\ Json[v].kids[j] \in Element
      BY ElementsOf
    <3> QED
      BY <2>2, <3>1, <3>2, FewerMembers
  <2> QED
    BY <1>1, <2>3, <2>4
<1>4. CASE ~(pass = "details" /\ Anchoring(form))
  <2>1. g.of = [e \in Element |-> {}]
    BY <1>4 DEF Looking
  <2>2. \A v \in Value : \A kid \in elements(v) : kid \in Element
    BY ElementsOf
  <2>3. \A v \in Value : Inside(v, g) = {}
    BY <1>2, <2>1, <2>2
  <2>4. \A e \in Element : e.value \in Value
    BY DEF Element
  <2>5. \A v \in Value : \A i \in DOMAIN Json[v].kids :
          g.of[Json[v].kids[i]] = {}
    BY <2>1, ElementsOf
  <2> QED
    BY <1>1, <2>1, <2>3, <2>4, <2>5
<1> QED
  BY <1>3, <1>4

LEMMA LookingAtMember ==
  ASSUME NEW form, NEW g, g = Looking(form), NEW e \in Element,
         e.key = "memberdef", IsChild(e)
  PROVE  g.of[e] = IF pass = "details" /\ Anchoring(form)
                     THEN {get_id(e.value)} ELSE {}
<1>1. CASE pass = "details" /\ Anchoring(form)
  <2>1. PICK set : set = Unshown
    OBVIOUS
  <2>2. g.of = MembersWithout(set)
    BY <1>1, <2>1 DEF Looking
  <2>3. e \notin set
    BY <2>1 DEF Unshown, HasHandler, Handled, Hidden
  <2> DEFINE some == UNION {MembersWithout(set)[kid] :
                              kid \in elements(e.value)}
  <2>4. \A kid \in elements(e.value) : MembersWithout(set)[kid] = {}
    BY BelowOther, OthersHaveNoMembers
  <2>5. some = {}
    BY <2>4
  <2>6. MembersWithout(set)[e] = {get_id(e.value)} \cup some
    <3> DEFINE own(d) == IF d.key = "memberdef" THEN {get_id(d.value)} ELSE {}
               below(d) == UNION {MembersWithout(set)[kid] :
                                    kid \in elements(d.value)}
    <3>1. \A d \in Element : MembersWithout(set)[d] =
                              IF d \in set THEN {} ELSE own(d) \cup below(d)
      BY MembersByCases
    <3> HIDE DEF below
    <3>2. MembersWithout(set)[e] = {get_id(e.value)} \cup below(e)
      BY <2>3, <3>1
    <3> QED
      BY <3>2 DEF below
  <2> HIDE DEF some
  <2> QED
    BY <1>1, <2>2, <2>5, <2>6
<1>2. CASE ~(pass = "details" /\ Anchoring(form))
  BY <1>2 DEF Looking
<1> QED
  BY <1>1, <1>2

\* There is no member below what is not a compound or a section, nor in its
\* type.
LEMMA NothingBelow ==
  ASSUME NEW form, NEW g, g = Looking(form)
  PROVE  /\ \A e \in Element :
              IsChild(e) /\ e.key \notin {"compounddef", "sectiondef"} =>
                /\ Inside(e.value, g) = {}
                /\ Inside(get_value(e.value, "type"), g) = {}
         /\ Inside(JsonNull, g) = {}
         /\ Inside(get_value(JsonNull, "type"), g) = {}
<1>1. \A v : Inside(v, g) = UNION {g.of[kid] : kid \in elements(v)}
  BY LookingAt DEF Inside
<1>2. Inside(JsonNull, g) = {}
  BY <1>1, NullIsEmpty
<1>3. get_value(JsonNull, "type") = JsonNull
  BY NullIsEmpty, ValueFound
<1>4. ASSUME NEW e, IsChild(e), e.key \notin {"compounddef", "sectiondef"}
      PROVE  Inside(e.value, g) = {}
  <2>1. \A kid \in elements(e.value) : g.of[kid] = {}
    BY <1>4, BelowOther, LookingAt
  <2> QED
    BY <1>1, <2>1
<1>5. ASSUME NEW e \in Element, IsChild(e),
             e.key \notin {"compounddef", "sectiondef"}
      PROVE  Inside(get_value(e.value, "type"), g) = {}
  <2>1. e.value \in Value
    BY DEF Element
  <2>2. CASE get_value(e.value, "type") = JsonNull
    BY <1>2, <2>2
  <2>3. CASE \E t \in elements(e.value) :
               t.key = "type" /\ t.value = get_value(e.value, "type")
    <3>1. PICK t \in elements(e.value) :
            t.key = "type" /\ t.value = get_value(e.value, "type")
      BY <2>3
    <3>2. IsChild(t)
      BY <2>1 DEF IsChild
    <3> QED
      BY <1>4, <3>1, <3>2
  <2> QED
    BY <2>1, <2>2, <2>3, ValueFound
<1> QED
  BY <1>2, <1>3, <1>4, <1>5

----------------------------------------------------------------------------
(* The anchors a handler makes *)

LEMMA MakesNone ==
  ASSUME NEW g, NEW s, Items(s), \A i \in 1 .. Len(s) : Marks(s[i], g) = {}
  PROVE  Makes(s, {}, g)
BY DEF Makes, Apart, AllMarks

\* Texts, links and scopes are no anchors.
LEMMA OrdinaryMakes ==
  ASSUME NEW g, g.texts = {}, NEW v \in Value, Inside(v, g) = {},
         Inside(get_value(v, "type"), g) = {}
  PROVE  \A s : Ordinaries(s, v) => Makes(s, {}, g)
<1> SUFFICES ASSUME NEW s, Ordinaries(s, v)  PROVE Makes(s, {}, g)
  OBVIOUS
<1>1. PICK S : s \in Seq(S) /\ \A x \in S : Ordinary(x, v)
  BY DEF Ordinaries
<1>2. ASSUME NEW x, Ordinary(x, v)  PROVE IsItem(x) /\ Marks(x, g) = {}
  <2>1. CASE x.do \in {"text", "link", "open", "close"}
    BY <2>1 DEF IsItem, IsToken, Marks, HasText
  <2>2. CASE x \in {Visit(v), Visit(get_value(v, "type"))}
    <3>1. IsItem(x)
      <4>1. PICK w \in Value : x = Visit(w)
        BY <2>2, ValueFound
      <4> QED
        BY <4>1, PlainTasks DEF IsPlain, IsItem
    <3> QED
      BY <2>2, <3>1, MarksOf
  <2> QED
    BY <1>2, <2>1, <2>2 DEF Ordinary
<1>3. Items(s)
  BY <1>1, <1>2 DEF Items
<1>4. \A i \in 1 .. Len(s) : s[i] \in S
  BY <1>1, ElementOfSeq
<1> QED
  BY <1>1, <1>2, <1>3, <1>4, MakesNone

\* A scope around items.
LEMMA MakesScoped ==
  ASSUME NEW g, g.texts = {}
  PROVE  \A M, s : Makes(s, M, g) => /\ \A t : Makes(Header(t, s), M, g)
                                     /\ Makes(List(s), M, g)
<1>1. ASSUME NEW M, NEW s, Makes(s, M, g), NEW scope, NEW t
      PROVE  Makes(<<Open(scope, t)>> \o s \o <<Close(scope)>>, M, g)
  <2> DEFINE a == <<Open(scope, t)>>
             b == <<Close(scope)>>
  <2>1. /\ IsItem(Open(scope, t)) /\ IsItem(Close(scope))
        /\ Marks(Open(scope, t), g) = {} /\ Marks(Close(scope), g) = {}
    BY MarksOf DEF IsItem, IsToken, Open, Close
  <2>2. Makes(a, {}, g) /\ Makes(b, {}, g)
    BY <2>1, MakesFew
  <2> HIDE DEF a, b
  <2>3. Makes(a \o s, {} \cup M, g)
    BY <1>1, <2>2, MakesThen
  <2>4. Makes(a \o s \o b, ({} \cup M) \cup {}, g)
    BY <2>2, <2>3, MakesThen
  <2>5. ({} \cup M) \cup {} = M
    OBVIOUS
  <2> QED
    BY <2>4, <2>5 DEF a, b
<1> QED
  BY <1>1 DEF Header, List

LEMMA MakesAnchor ==
  ASSUME NEW form \in {"header", "html"}, NEW g, g.form = form, NEW id
  PROVE  Makes(print_anchor(id), IF Anchoring(form) THEN {id} ELSE {}, g)
<1> DEFINE a == When(config.anchor_headers, <<Anchor(id, "header")>>)
           b == When(config.anchor_html, <<Anchor(id, "html")>>)
           A == IF form = "header" /\ config.anchor_headers THEN {id} ELSE {}
           B == IF form = "html" /\ config.anchor_html THEN {id} ELSE {}
<1>1. \A f : IsItem(Anchor(id, f))
  BY DEF IsItem, IsToken, Anchor
<1>2. \A f : Makes(<<Anchor(id, f)>>, IF f = form THEN {id} ELSE {}, g)
  <2> SUFFICES ASSUME NEW f
               PROVE  Makes(<<Anchor(id, f)>>, IF f = form THEN {id} ELSE {}, g)
    OBVIOUS
  <2>1. PICK x : x = Anchor(id, f)
    OBVIOUS
  <2>2. IsItem(x) /\ Marks(x, g) = IF f = form THEN {id} ELSE {}
    BY <1>1, <2>1, MarksOf
  <2>3. Makes(<<x>>, Marks(x, g), g)
    BY <2>2, MakesFew
  <2> QED
    BY <2>1, <2>2, <2>3
<1>3. Makes(a, A, g)
  BY <1>2, MakesFew DEF When
<1>4. Makes(b, B, g)
  BY <1>2, MakesFew DEF When
<1>5. A \cap B = {}
  OBVIOUS
<1>6. A \cup B = IF Anchoring(form) THEN {id} ELSE {}
  BY DEF Anchoring
<1>7. print_anchor(id) = a \o b
  BY DEF print_anchor
<1> HIDE DEF a, b, A, B
<1> QED
  BY <1>3, <1>4, <1>5, <1>6, <1>7, MakesThen

\* What is left of a value, and of a call.
LEMMA MakesTasks ==
  ASSUME NEW g, NEW v \in Value
  PROVE  /\ Makes(<<Visit(v)>>, Inside(v, g), g)
         /\ \A key : Makes(<<Call(key, v)>>, Left([key |-> key, value |-> v], g), g)
<1>1. ASSUME NEW x, IsPlain(x), NEW M, Marks(x, g) = M
      PROVE  Makes(<<x>>, M, g)
  BY <1>1, MakesFew DEF IsPlain, IsItem
<1>2. /\ IsPlain(Visit(v)) /\ Marks(Visit(v), g) = Inside(v, g)
      /\ \A key : /\ IsPlain(Call(key, v))
                  /\ Marks(Call(key, v), g) = Left([key |-> key, value |-> v], g)
  BY PlainTasks, MarksOf
<1> QED
  BY <1>1, <1>2

\* A compound leaves what is inside it: its description has no member.
LEMMA CompoundMakes ==
  ASSUME NEW form, NEW g, g = Looking(form), NEW v \in Value
  PROVE  Makes(CompounddefBody(v), Inside(v, g), g)
<1> DEFINE visit == <<Visit(v)>>
           d == get_value(v, "detaileddescription")
           description == <<Call("detaileddescription", d)>>
<1>1. g.texts = {}
  BY LookingAt
<1>2. Makes(visit, Inside(v, g), g)
  BY MakesTasks
<1>3. d \in Value
  BY ValueFound
<1>4. Left([key |-> "detaileddescription", value |-> d], g) = {}
  <2> SUFFICES ASSUME NEW e \in Element, e.key = "detaileddescription",
                      e.value = d
               PROVE  g.of[e] = {}
    BY DEF Left
  <2>1. CASE d = JsonNull
    BY <2>1, LookingAt, NothingBelow
  <2>2. CASE \E k \in elements(v) : k.key = "detaileddescription" /\ k.value = d
    <3>1. PICK k \in elements(v) : k.key = "detaileddescription" /\ k.value = d
      BY <2>2
    <3>2. k \in Element /\ Other(k)
      BY <3>1, ElementsOf DEF Other, IsChild
    <3>3. k = e
      BY <3>1, <3>2 DEF Element
    <3> QED
      BY <3>2, <3>3, LookingAt
  <2> QED
    BY <2>1, <2>2, ValueFound
<1> HIDE DEF d
<1>5. Makes(description, {}, g)
  <2>1. Makes(description,
              Left([key |-> "detaileddescription", value |-> d], g), g)
    BY <1>3, MakesTasks
  <2> HIDE DEF description
  <2> QED
    BY <1>4, <2>1
<1> HIDE DEF visit, description
<1>6. Makes(description \o visit, Inside(v, g), g)
  <2>1. Makes(description \o visit, {} \cup Inside(v, g), g)
    BY <1>2, <1>5, MakesThen
  <2>2. {} \cup Inside(v, g) = Inside(v, g)
    OBVIOUS
  <2> QED
    BY <2>1, <2>2
<1>7. \A t : /\ Makes(Header(t, Header("Summary", visit)), Inside(v, g), g)
             /\ Makes(Header(t, description \o visit), Inside(v, g), g)
  BY <1>1, <1>2, <1>6, MakesScoped
<1> QED
  BY <1>6, <1>7 DEF CompounddefBody, visit, description, d

\* A section leaves what is inside it, or nothing when it is hidden.
LEMMA SectionMakes ==
  ASSUME NEW form, NEW g, g = Looking(form), NEW e \in Element,
         e.key = "sectiondef"
  PROVE  Makes(SectiondefBody(e.value), g.of[e], g)
<1> DEFINE v == e.value
           visit == <<Visit(v)>>
<1>1. v \in Value
  BY DEF Element
<1>2. CASE HidesSection(v)
  <2>1. e \in Unshown /\ SectiondefBody(v) = <<>>
    BY <1>2 DEF Unshown, Hidden, SectiondefBody, When
  <2>2. g.of[e] = {} /\ Makes(<<>>, {}, g)
    BY <2>1, LookingAt, MakesFew
  <2> QED
    BY <2>1, <2>2
<1>3. CASE ~HidesSection(v)
  <2>1. e \notin Unshown
    BY <1>3 DEF Unshown, Hidden, HasHandler, Handled
  <2>2. g.of[e] = Inside(v, g) /\ g.texts = {}
    BY <2>1, LookingAt
  <2>3. Makes(visit, Inside(v, g), g)
    BY <1>1, MakesTasks
  <2> HIDE DEF visit
  <2>4. \A t : /\ Makes(Header(t, List(visit)), Inside(v, g), g)
               /\ Makes(Header(t, visit), Inside(v, g), g)
    BY <2>2, <2>3, MakesScoped
  <2> QED
    BY <1>3, <2>2, <2>4 DEF SectiondefBody, When, visit
<1> QED
  BY <1>2, <1>3

\* A member leaves its id, in the details of a page with anchors.
LEMMA MemberMakes ==
  ASSUME NEW form \in {"header", "html"}, NEW g, g = Looking(form),
         pass \in {"summary", "details"}, NEW e \in Element,
         e.key = "memberdef", IsChild(e)
  PROVE  Makes(BodyOf("memberdef", e.value), g.of[e], g)
<1> DEFINE v == e.value
           body == BodyOf("memberdef", v)
<1>1. v \in Value
  BY DEF Element
<1>2. \A s : Ordinaries(s, v) => Makes(s, {}, g)
  BY <1>1, LookingAt, NothingBelow, OrdinaryMakes
<1>3. CASE pass = "summary"
  <2>1. body = MemberdefSummary(v)
    BY <1>3 DEF BodyOf, is_summary
  <2>2. g.of[e] = {}
    BY <1>3, LookingAtMember
  <2> QED
    BY <1>2, <2>1, <2>2, OrdinaryBodies
<1>4. CASE pass = "details"
  <2>1. body = MemberdefDetails(v)
    BY <1>4 DEF BodyOf, is_summary
  <2>2. PICK s : /\ Ordinaries(s, v)
                 /\ MemberdefDetails(v) = print_anchor(get_id(v)) \o s
    BY OrdinaryMember
  <2>3. g.of[e] = IF Anchoring(form) THEN {get_id(v)} ELSE {}
    BY <1>4, LookingAtMember
  <2>4. Makes(print_anchor(get_id(v)), g.of[e], g)
    BY <2>3, LookingAt, MakesAnchor
  <2>5. Makes(s, {}, g)
    BY <1>2, <2>2
  <2>6. Makes(print_anchor(get_id(v)) \o s, g.of[e] \cup {}, g)
    BY <2>4, <2>5, MakesThen
  <2>7. g.of[e] \cup {} = g.of[e]
    OBVIOUS
  <2> QED
    BY <2>1, <2>2, <2>6, <2>7
<1> QED
  BY <1>3, <1>4

\* Every handler leaves what its element is to leave.
LEMMA HandlerMakes ==
  ASSUME NEW form \in {"header", "html"}, NEW g, g = Looking(form),
         pass \in {"summary", "details"}, NEW key, NEW v \in Value,
         Says(Call(key, v), AnyText, Located)
  PROVE  Makes(BodyOf(key, v), Left([key |-> key, value |-> v], g), g)
<1> DEFINE e == [key |-> key, value |-> v]
<1>1. \/ e \in Element /\ Occurs(e)
      \/ key = "detaileddescription" /\ v = JsonNull
  <2>1. \/ e \in Element /\ Located[e] \subseteq AnyText
        \/ key = "detaileddescription" /\ v = JsonNull
    BY DEF Says, Call, Do, HasText
  <2> HIDE DEF e
  <2> QED
    BY <2>1, LocatedCovers
<1>2. CASE key = "detaileddescription" /\ v = JsonNull
  <2>1. Left(e, g) = {}
    <3> SUFFICES ASSUME e \in Element  PROVE g.of[e] = {}
      BY DEF Left
    <3> QED
      BY <1>2, LookingAt, NothingBelow
  <2>2. \A s : Ordinaries(s, v) => Makes(s, {}, g)
    BY <1>2, LookingAt, NothingBelow, OrdinaryMakes
  <2> HIDE DEF e
  <2> QED
    BY <1>2, <2>1, <2>2, OrdinaryHandler DEF e
<1>3. CASE e \in Element /\ IsChild(e)
  <2>1. Left(e, g) = g.of[e] /\ e.key = key /\ e.value = v
    BY <1>3 DEF Left
  <2> HIDE DEF e
  <2>2. CASE key = "compounddef"
    <3>1. e \notin Unshown
      BY <2>1, <2>2 DEF Unshown, Hidden, HasHandler, Handled
    <3>2. g.of[e] = Inside(v, g)
      BY <1>3, <2>1, <2>2, <3>1, LookingAt
    <3> QED
      BY <2>1, <2>2, <3>2, CompoundMakes DEF BodyOf, e
  <2>3. CASE key = "sectiondef"
    BY <1>3, <2>1, <2>3, SectionMakes DEF BodyOf, e
  <2>4. CASE key = "memberdef"
    BY <1>3, <2>1, <2>4, MemberMakes DEF e
  <2>5. CASE key \notin {"compounddef", "sectiondef", "memberdef"}
    <3>1. g.of[e] = {}
      BY <1>3, <2>1, <2>5, LookingAt DEF Other
    <3>2. \A s : Ordinaries(s, v) => Makes(s, {}, g)
      BY <1>3, <2>1, <2>5, LookingAt, NothingBelow, OrdinaryMakes
    <3> QED
      BY <2>1, <2>5, <3>1, <3>2, OrdinaryHandler DEF e
  <2> QED
    BY <2>2, <2>3, <2>4, <2>5
<1>4. CASE e \in Element /\ key = "doxygen"
  <2>1. e \notin Unshown
    BY <1>4 DEF Unshown, Hidden, HasHandler, Handled
  <2>2. Left(e, g) = Inside(v, g)
    BY <1>4, <2>1, LookingAt DEF Left
  <2>3. Makes(<<Visit(v)>>, Inside(v, g), g)
    BY MakesTasks
  <2> QED
    BY <1>4, <2>2, <2>3 DEF BodyOf
<1> QED
  BY <1>1, <1>2, <1>3, <1>4 DEF Occurs, IsChild

----------------------------------------------------------------------------
(* The steps of the summary and the details pass *)

\* What is printed and what is still to be done leave a total, and no mark
\* is left twice.
Shows(g, total) ==
  \E D, R : /\ Makes(out, D, g) /\ Makes(work, R, g)
            /\ D \cap R = {} /\ D \cup R = total

LEMMA ShowsReplaced ==
  ASSUME NEW g, NEW total, Shows(g, total), work # <<>>,
         NEW items, Makes(items, Marks(Head(work), g), g),
         work' = items \o Tail(work), UNCHANGED out
  PROVE  Shows(g, total)'
<1>1. PICK D, R : /\ Makes(out, D, g) /\ Makes(work, R, g)
                  /\ D \cap R = {} /\ D \cup R = total
  BY DEF Shows
<1>2. Makes(items \o Tail(work), R, g)
  BY <1>1, MakesReplaced
<1>3. Makes(out', D, g) /\ Makes(work', R, g)
  BY <1>1, <1>2
<1> QED
  BY <1>1, <1>3 DEF Shows

\* A name is pushed for the handler, which leaves what the element is to
\* leave; an element without a handler leaves nothing.
LEMMA ShowsDispatch ==
  ASSUME StateInv, NEW form, NEW g, g = Looking(form), NEW total,
         Shows(g, total), Dispatch
  PROVE  Shows(g, total)'
<1>1. /\ work # <<>> /\ Head(work).do = "handle" /\ UNCHANGED out
      /\ Items(work)
  BY DEF Dispatch, IsNext, StateInv
<1>2. input \in Value
  BY <1>1, NextItem
<1>3. PICK e, x, y : /\ e = [key |-> element, value |-> input]
                     /\ x = Call(element, input) /\ y = Leave(element, input)
  OBVIOUS
<1>4. Marks(Head(work), g) = Left(e, g)
  BY <1>1, <1>3 DEF Marks, HasText, element, input
<1>5. CASE HasHandler(element)
  <2>1. work' = <<x, y>> \o Tail(work)
    BY <1>3, <1>5 DEF Dispatch, Becomes
  <2>2. IsItem(x) /\ Marks(x, g) = Left(e, g)
    <3>1. IsPlain(x)
      BY <1>2, <1>3, PlainTasks
    <3>2. Marks(x, g) = Left(e, g)
      BY <1>3, MarksOf
    <3> QED
      BY <3>1, <3>2 DEF IsPlain, IsItem
  <2>3. IsItem(y) /\ Marks(y, g) = {}
    BY <1>2, <1>3, MarksOf DEF IsItem, Leave, Do
  <2>4. PICK pair : pair = <<x, y>>
    OBVIOUS
  <2>5. pair \in Seq({x, y}) /\ Len(pair) = 2 /\ pair[1] = x /\ pair[2] = y
    BY <2>4
  <2>6. Makes(pair, Marks(Head(work), g), g)
    <3>1. Items(pair)
      BY <2>2, <2>3, <2>5 DEF Items
    <3>2. Apart(pair, g) /\ AllMarks(pair, g) = Left(e, g)
      BY <2>2, <2>3, <2>5 DEF Apart, AllMarks
    <3> QED
      BY <1>4, <3>1, <3>2 DEF Makes
  <2> QED
    BY <1>1, <2>1, <2>4, <2>6, ShowsReplaced
<1>6. CASE ~HasHandler(element)
  <2>1. work' = <<>> \o Tail(work)
    BY <1>6 DEF Dispatch, Becomes
  <2>2. Left(e, g) = {}
    <3> SUFFICES ASSUME e \in Element  PROVE g.of[e] = {}
      BY DEF Left
    <3>1. e \in Unshown
      BY <1>3, <1>6 DEF Unshown
    <3> QED
      BY <3>1, LookingAt
  <2>3. Makes(<<>>, Marks(Head(work), g), g)
    BY <1>4, <2>2, MakesFew
  <2> QED
    BY <1>1, <2>1, <2>3, ShowsReplaced
<1> QED
  BY <1>5, <1>6

LEMMA ShowsPop ==
  ASSUME NEW g, NEW total, Shows(g, total), PopName
  PROVE  Shows(g, total)'
<1>1. /\ work # <<>> /\ Head(work).do = "leave" /\ UNCHANGED out
      /\ work' = <<>> \o Tail(work)
  BY DEF PopName, IsNext, Becomes
<1>2. Makes(<<>>, Marks(Head(work), g), g)
  <2>1. Marks(Head(work), g) = {}
    BY <1>1 DEF Marks, HasText
  <2> QED
    BY <2>1, MakesFew
<1> QED
  BY <1>1, <1>2, ShowsReplaced

\* What is inside a value is in one of its children; a string has none.
LEMMA ShowsPrint ==
  ASSUME StateInv, pass # "links", NEW form, NEW g, g = Looking(form),
         NEW total, Shows(g, total), PrintValue
  PROVE  Shows(g, total)'
<1>1. /\ work # <<>> /\ Head(work).do = "print" /\ UNCHANGED out
      /\ Items(work)
  BY DEF PrintValue, IsNext, StateInv
<1>2. input \in Value
  BY <1>1, NextItem
<1>3. PICK v \in Value : v = input
  BY <1>2
<1>4. Marks(Head(work), g) = Inside(v, g)
  BY <1>1, <1>3 DEF Marks, HasText, input
<1>5. g.texts = {}
  BY LookingAt
<1>6. CASE is_string(v)
  <2>1. PICK x : x = Text(Json[v].text)
    OBVIOUS
  <2>2. work' = <<x>> \o Tail(work)
    BY <1>3, <1>6, <2>1 DEF PrintValue, Becomes, When, is_add_links
  <2>3. elements(v) = {}
    <3>1. Json[v].kids = <<>>
      BY <1>6, JsonAssumption DEF is_string
    <3> QED
      BY <3>1 DEF elements, ToSet
  <2>4. Inside(v, g) = {}
    BY <1>5, <2>3 DEF Inside
  <2>5. IsItem(x) /\ Marks(x, g) = {}
    BY <1>5, <2>1, MarksOf DEF IsItem, IsToken, Text
  <2>6. Makes(<<x>>, Marks(x, g), g)
    BY <2>5, MakesFew
  <2>7. Makes(<<x>>, Marks(Head(work), g), g)
    BY <1>4, <2>4, <2>5, <2>6
  <2> QED
    BY <1>1, <2>2, <2>7, ShowsReplaced
<1>7. CASE ~is_string(v)
  <2>1. work' = Children(v) \o Tail(work)
    BY <1>3, <1>7 DEF PrintValue, Becomes
  <2>2. Makes(Children(v), Inside(v, g), g)
    <3>1. {Json[v].text} \cap g.texts = {}
      BY <1>5
    <3> QED
      BY <3>1, LookingAt, MakesChildren
  <2>3. Makes(Children(v), Marks(Head(work), g), g)
    BY <1>4, <2>2
  <2> QED
    BY <1>1, <2>1, <2>3, ShowsReplaced
<1> QED
  BY <1>6, <1>7

\* A token takes its mark to the output.
LEMMA ShowsEmit ==
  ASSUME StateInv, NEW g, NEW total, Shows(g, total), Emit
  PROVE  Shows(g, total)'
<1>1. PICK D, R : /\ Makes(out, D, g) /\ Makes(work, R, g)
                  /\ D \cap R = {} /\ D \cup R = total
  BY DEF Shows
<1>2. PICK x : x = Head(work)
  OBVIOUS
<1>3. /\ work # <<>> /\ IsToken(x) /\ work' = <<>> \o Tail(work)
      /\ out' = Append(out, x) /\ Items(work) /\ Printed(out)
  BY <1>2 DEF Emit, Becomes, StateInv
<1>4. PICK N : /\ Makes(Tail(work), N, g)
               /\ R = Marks(x, g) \cup N /\ Marks(x, g) \cap N = {}
  BY <1>1, <1>2, <1>3, MakesSplit
<1>5. work' = Tail(work)
  <2>1. PICK S : work \in Seq(S)
    BY <1>3 DEF Items
  <2>2. Tail(work) \in Seq(S)
    BY <1>3, <2>1
  <2> QED
    BY <1>3, <2>2
<1>6. out' = out \o <<x>>
  <2>1. PICK S : out \in Seq(S)
    BY <1>3 DEF Printed
  <2>2. out \in Seq(S \cup {x}) /\ x \in S \cup {x}
    BY <2>1
  <2>3. Append(out, x) = out \o <<x>>
    BY <2>2
  <2> QED
    BY <1>3, <2>3
<1>7. Makes(<<x>>, Marks(x, g), g)
  BY <1>3, MakesFew DEF IsItem
<1>8. Makes(out \o <<x>>, D \cup Marks(x, g), g)
  BY <1>1, <1>4, <1>7, MakesThen
<1>9. PICK E : E = D \cup Marks(x, g)
  OBVIOUS
<1>10. E \cap N = {} /\ E \cup N = total
  BY <1>1, <1>4, <1>9
<1>11. Makes(out', E, g) /\ Makes(work', N, g)
  BY <1>4, <1>5, <1>6, <1>8, <1>9
<1> QED
  BY <1>10, <1>11 DEF Shows

LEMMA ShowsHandlers ==
  ASSUME StateInv, Telling(AnyText, Located), pass \in {"summary", "details"},
         NEW form \in {"header", "html"}, NEW g, g = Looking(form),
         NEW total, Shows(g, total), Handlers
  PROVE  Shows(g, total)'
<1>1. /\ work # <<>> /\ Head(work).do = "call" /\ UNCHANGED out
      /\ work' = BodyOf(element, input) \o Tail(work) /\ Items(work)
  BY HandlersAre DEF StateInv
<1>2. input \in Value
  BY <1>1, NextItem
<1>3. Says(Head(work), AnyText, Located)
  <2>1. PICK A, T : A = AnyText /\ T = Located
    OBVIOUS
  <2>2. Says(Head(work), A, T)
    BY <1>1, <2>1, SpeaksNext DEF Telling
  <2> QED
    BY <2>1, <2>2
<1>4. Says(Call(element, input), AnyText, Located)
  BY <1>1, <1>3 DEF Says, Call, Do, element, input, HasText
<1>5. PICK key, v : key = element /\ v = input
  OBVIOUS
<1>6. Makes(BodyOf(key, v), Left([key |-> key, value |-> v], g), g)
  BY <1>2, <1>4, <1>5, HandlerMakes
<1>7. Marks(Head(work), g) = Left([key |-> key, value |-> v], g)
  BY <1>1, <1>5 DEF Marks, HasText, element, input
<1>8. PICK items : items = BodyOf(key, v)
  OBVIOUS
<1>9. Makes(items, Marks(Head(work), g), g) /\ work' = items \o Tail(work)
  BY <1>1, <1>5, <1>6, <1>7, <1>8
<1> QED
  BY <1>1, <1>9, ShowsReplaced

\* What is printed does not depend on what is still to be printed.
LEMMA PrintedMarks ==
  ASSUME NEW g, NEW h, h.form = g.form, h.texts = g.texts,
         NEW o, Printed(o), NEW D, Makes(o, D, g)
  PROVE  Makes(o, D, h)
<1>1. PICK S : o \in Seq(S) /\ \A x \in S : IsToken(x)
  BY DEF Printed
<1>2. \A i \in 1 .. Len(o) : IsToken(o[i])
  BY <1>1, ElementOfSeq
<1>3. \A x : IsToken(x) => Marks(x, h) = Marks(x, g)
  BY DEF IsToken, Marks, HasText
<1>4. \A i \in 1 .. Len(o) : Marks(o[i], h) = Marks(o[i], g)
  BY <1>2, <1>3
<1> QED
  BY <1>4 DEF Makes, Apart, AllMarks

----------------------------------------------------------------------------
(* The page *)

\* The anchors of a form that the page has in the end.
Total(form) ==
  IF pass \in {"details", "done"} /\ Anchoring(form) THEN Members ELSE {}

\* In each pass, what is printed and what is still to be printed have the
\* anchors of the members, no one twice.
AnchorInv ==
  pass \in {"summary", "details", "done"} =>
    \A form \in {"header", "html"} : Shows(Looking(form), Total(form))

LEMMA AnchorsLookedFor ==
  ASSUME UNCHANGED job
  PROVE  /\ Members' = Members /\ Unshown' = Unshown
         /\ \A form : Anchoring(form)' = Anchoring(form)
         /\ UNCHANGED pass =>
              \A form : Looking(form)' = Looking(form) /\ Total(form)' = Total(form)
<1>1. config' = config /\ document' = document
  BY DEF config, document
<1>2. \A e : Hidden(e)' = Hidden(e)
  BY <1>1 DEF Hidden, HidesSection, Hides
<1>3. Members' = Members /\ Unshown' = Unshown
  BY <1>1, <1>2 DEF Members, Unshown
<1>4. \A form : Anchoring(form)' = Anchoring(form)
  BY <1>1 DEF Anchoring
<1> QED
  BY <1>3, <1>4 DEF Looking, Total

\* The document leaves the anchors of its members, in the details.
LEMMA AnchorsBegin ==
  ASSUME StateInv, LinksInv, AnchorInv, ProcessSummary \/ ProcessDetails
  PROVE  AnchorInv'
<1>1. /\ pass \in {"links", "summary"} /\ pass' \in {"summary", "details"}
      /\ pass = "summary" => pass' = "details"
      /\ UNCHANGED <<job, out>> /\ work = <<>> /\ Printed(out)
      /\ work' = <<Handle("doxygen", job.document)>>
      /\ job.document \in Documents
  BY DEF ProcessSummary, ProcessDetails, StartPass, StateInv
<1> SUFFICES ASSUME NEW form \in {"header", "html"}
             PROVE  Shows(Looking(form), Total(form))'
  BY DEF AnchorInv
<1>2. PICK set, d : set = Unshown /\ d = document
  OBVIOUS
<1>3. PICK g : g = Looking(form)'
  OBVIOUS
<1>4. /\ g.form = form /\ g.texts = {}
      /\ g.of = IF pass' = "details" /\ Anchoring(form)
                  THEN MembersWithout(set) ELSE [e \in Element |-> {}]
  BY <1>1, <1>2, <1>3, AnchorsLookedFor DEF Looking
<1>5. d \in Element /\ d = [key |-> "doxygen", value |-> job.document]
  BY <1>1, <1>2, CompoundAssumption DEF document, Documents
<1>6. g.of[d] = Total(form)'
  <2>1. Members = MembersWithout(set)[d]
    BY <1>2 DEF Members, Unshown
  <2>2. Total(form)' = IF pass' = "details" /\ Anchoring(form)
                         THEN Members ELSE {}
    BY <1>1, AnchorsLookedFor DEF Total
  <2> QED
    BY <1>4, <1>5, <2>1, <2>2
<1>7. Makes(work', g.of[d], g)
  <2>1. PICK x : x = Handle("doxygen", job.document)
    OBVIOUS
  <2>2. IsItem(x) /\ Marks(x, g) = g.of[d]
    <3>1. d.value \in Value
      BY <1>5 DEF Element
    <3> QED
      BY <1>5, <2>1, <3>1, MarksOf DEF IsItem, Handle, Do, Left
  <2>3. Makes(<<x>>, Marks(x, g), g)
    BY <2>2, MakesFew
  <2> QED
    BY <1>1, <2>1, <2>2, <2>3
<1>8. Makes(out', {}, g)
  <2>1. CASE pass = "links"
    <3>1. out' = <<>>
      BY <1>1, <2>1 DEF LinksInv
    <3> QED
      BY <3>1, MakesFew
  <2>2. CASE pass = "summary"
    <3>1. Total(form) = {}
      BY <2>2 DEF Total
    <3>2. PICK h : h = Looking(form)
      OBVIOUS
    <3>3. PICK D, R : Makes(out, D, h) /\ D \cup R = {}
      BY <2>2, <3>1, <3>2 DEF AnchorInv, Shows
    <3>4. D = {} /\ h.form = form /\ h.texts = {}
      BY <3>2, <3>3 DEF Looking
    <3>5. Makes(out, {}, g)
      BY <1>1, <1>4, <3>3, <3>4, PrintedMarks
    <3> QED
      BY <1>1, <3>5
  <2> QED
    BY <1>1, <2>1, <2>2
<1>9. PICK t : t = g.of[d]
  OBVIOUS
<1>10. /\ Makes(out', {}, g) /\ Makes(work', t, g)
       /\ {} \cap t = {} /\ {} \cup t = t
  BY <1>7, <1>8, <1>9
<1>11. Shows(g, t)'
  BY <1>10 DEF Shows
<1> QED
  BY <1>3, <1>6, <1>9, <1>11

LEMMA AnchorsEnd ==
  ASSUME StateInv, AnchorInv, Finish
  PROVE  AnchorInv'
<1>1. /\ pass = "details" /\ pass' = "done" /\ work = <<>> /\ Printed(out)
      /\ UNCHANGED <<job, work, out>>
  BY DEF Finish, StateInv
<1> SUFFICES ASSUME NEW form \in {"header", "html"}
             PROVE  Shows(Looking(form), Total(form))'
  BY DEF AnchorInv
<1>2. PICK g, h, total : /\ g = Looking(form) /\ h = Looking(form)'
                         /\ total = Total(form)
  OBVIOUS
<1>3. total = Total(form)'
  BY <1>1, <1>2, AnchorsLookedFor DEF Total
<1>4. g.form = h.form /\ g.texts = h.texts
  BY <1>2 DEF Looking
<1>5. PICK D, R : /\ Makes(out, D, g) /\ Makes(work, R, g)
                  /\ D \cap R = {} /\ D \cup R = total
  BY <1>1, <1>2 DEF AnchorInv, Shows
<1>6. Makes(out', D, h)
  BY <1>1, <1>4, <1>5, PrintedMarks
<1>7. R = {}
  <2>1. PICK w : w = work /\ Len(w) = 0
    BY <1>1
  <2> QED
    BY <1>5, <2>1 DEF Makes, AllMarks
<1>8. Makes(work', R, h)
  <2>1. Makes(<<>>, {}, h)
    BY MakesFew
  <2> QED
    BY <1>1, <1>7, <2>1
<1>9. Shows(h, total)'
  BY <1>5, <1>6, <1>8 DEF Shows
<1> QED
  BY <1>2, <1>3, <1>9

LEMMA AnchorNext ==
  StateInv /\ LinksInv /\ PlacedInv /\ AnchorInv /\ [Next]_vars => AnchorInv'
<1> SUFFICES ASSUME StateInv, LinksInv, PlacedInv, AnchorInv, [Next]_vars
             PROVE  AnchorInv'
  OBVIOUS
<1>1. UNCHANGED job
  BY JobStays
<1>2. CASE Load
  BY <1>2 DEF Load, AnchorInv
<1>3. CASE ProcessSummary \/ ProcessDetails
  BY <1>3, AnchorsBegin
<1>4. CASE Finish
  BY <1>4, AnchorsEnd
<1>5. CASE Dispatch \/ PopName \/ PrintValue \/ Emit \/ Handlers
  <2>1. UNCHANGED pass /\ pass \notin {"done", "failed", "load"}
    <3>1. UNCHANGED pass /\ work # <<>>
      BY <1>5, HandlersAre
      DEF Dispatch, PopName, PrintValue, Emit, IsNext, state
    <3> QED
      BY <3>1 DEF StateInv
  <2> SUFFICES ASSUME NEW form \in {"header", "html"},
                      pass \in {"summary", "details"}
               PROVE  Shows(Looking(form), Total(form))'
    BY <2>1 DEF AnchorInv
  <2>2. PICK g, total : g = Looking(form) /\ total = Total(form)
    OBVIOUS
  <2>3. g = Looking(form)' /\ total = Total(form)'
    BY <1>1, <2>1, <2>2, AnchorsLookedFor
  <2>4. Shows(g, total)
    BY <2>2 DEF AnchorInv
  <2>5. Telling(AnyText, Located) /\ pass # "links"
    BY DEF PlacedInv
  <2>6. Shows(g, total)'
    BY <1>5, <2>2, <2>4, <2>5, ShowsDispatch, ShowsPop, ShowsPrint, ShowsEmit,
       ShowsHandlers
  <2> QED
    BY <2>3, <2>6
<1>6. CASE AddLinks \/ CompounddefLinks
  BY <1>6 DEF AddLinks, CompounddefLinks, is_add_links, state, AnchorInv
<1>7. CASE UNCHANGED vars
  <2>1. UNCHANGED <<pass, work, out>>
    BY <1>7 DEF vars, state
  <2> SUFFICES ASSUME NEW form \in {"header", "html"},
                      pass \in {"summary", "details", "done"}
               PROVE  Shows(Looking(form), Total(form))'
    BY <2>1 DEF AnchorInv
  <2>2. PICK g, total : g = Looking(form) /\ total = Total(form)
    OBVIOUS
  <2>3. g = Looking(form)' /\ total = Total(form)'
    BY <1>1, <2>1, <2>2, AnchorsLookedFor
  <2>4. Shows(g, total)'
    BY <2>1, <2>2 DEF AnchorInv, Shows
  <2> QED
    BY <2>3, <2>4
<1> QED
  BY <1>2, <1>3, <1>4, <1>5, <1>6, <1>7 DEF Next, Step, Ended

AnchorPlaces(o, form) ==
  {i \in DOMAIN o : o[i].do = "anchor" /\ o[i].form = form}
AnchorIds(o, form) == {o[i].id : i \in AnchorPlaces(o, form)}

\* Anchors whose marks are apart are as many as their ids.
LEMMA AnchorsCounted ==
  ASSUME NEW form, NEW g, g.form = form, g.texts = {},
         NEW o, Printed(o), NEW M, Makes(o, M, g)
  PROVE  /\ AnchorIds(o, form) = M
         /\ Cardinality(AnchorPlaces(o, form)) = Cardinality(AnchorIds(o, form))
<1> DEFINE places == {i \in DOMAIN o :
                        o[i].do = "anchor" /\ o[i].form = form}
           ids == {o[i].id : i \in places}
           f == [i \in places |-> o[i].id]
<1>1. PICK S : o \in Seq(S) /\ \A x \in S : IsToken(x)
  BY DEF Printed
<1>2. /\ Len(o) \in Nat /\ DOMAIN o = 1 .. Len(o)
      /\ \A i \in 1 .. Len(o) : IsToken(o[i])
  BY <1>1, ElementOfSeq
<1>3. ASSUME NEW i \in 1 .. Len(o)
      PROVE  Marks(o[i], g) = IF i \in places THEN {o[i].id} ELSE {}
  BY <1>2, <1>3 DEF Marks, HasText, IsToken
<1>4. ids = M
  <2>1. M = UNION {Marks(o[i], g) : i \in 1 .. Len(o)}
    BY DEF Makes, AllMarks
  <2>2. places \subseteq 1 .. Len(o)
    BY <1>2
  <2>3. ASSUME NEW m \in M  PROVE m \in ids
    <3>1. PICK i \in 1 .. Len(o) : m \in Marks(o[i], g)
      BY <2>1
    <3>2. i \in places /\ m = o[i].id
      BY <1>3, <3>1
    <3> HIDE DEF places
    <3> QED
      BY <3>2
  <2>4. ASSUME NEW i \in places  PROVE o[i].id \in M
    <3>1. Marks(o[i], g) = {o[i].id} /\ i \in 1 .. Len(o)
      BY <1>3, <2>2
    <3> QED
      BY <2>1, <3>1
  <2> QED
    BY <2>3, <2>4
<1>5. IsFiniteSet(places)
  <2>1. IsFiniteSet(1 .. Len(o))
    BY <1>2, FS_Interval
  <2>2. places \subseteq 1 .. Len(o)
    BY <1>2
  <2> QED
    BY <2>1, <2>2, FS_Subset
<1>6. \A i, j \in places : i # j => o[i].id # o[j].id
  <2> SUFFICES ASSUME NEW i \in places, NEW j \in places, i # j,
                      o[i].id = o[j].id
               PROVE  FALSE
    OBVIOUS
  <2>1. i \in 1 .. Len(o) /\ j \in 1 .. Len(o)
    BY <1>2
  <2>2. Marks(o[i], g) \cap Marks(o[j], g) = {}
    BY <2>1 DEF Makes, Apart
  <2> QED
    BY <1>3, <2>1, <2>2
<1>7. f \in Bijection(places, ids)
  <2> HIDE DEF places
  <2>1. f \in [places -> ids]
    OBVIOUS
  <2>2. \A i, j \in places : f[i] = f[j] => i = j
    BY <1>6
  <2>3. \A t \in ids : \E i \in places : f[i] = t
    OBVIOUS
  <2> HIDE DEF ids, f
  <2> QED
    BY <2>1, <2>2, <2>3 DEF Bijection, Injection, IsInjective, Surjection
<1>8. Cardinality(ids) = Cardinality(places)
  <2> HIDE DEF places, ids, f
  <2>1. ExistsBijection(places, ids)
    BY <1>7 DEF ExistsBijection
  <2> QED
    BY <1>5, <2>1, FS_Bijection
<1> QED
  BY <1>4, <1>8 DEF AnchorIds, AnchorPlaces

\* A page has the anchors of exactly the members it shows, each once in every
\* form asked for, and the catalogue knows them, for documents whose members
\* are in sections and have ids of their own (DoxyJson.hpp:245-256,
\* DoxyJson.cpp:506).
THEOREM AnchorsAreOfMembers == Spec => []AnchorsOfMembers
<1>1. Init => AnchorInv
  BY DEF Init, AnchorInv
<1>2. ASSUME StateInv, LinksInv, AnchorInv  PROVE AnchorsOfMembers
  <2> SUFFICES ASSUME pass = "done", NEW form \in {"header", "html"}
               PROVE  LET places == {i \in DOMAIN out :
                                       /\ out[i].do = "anchor"
                                       /\ out[i].form = form}
                          ids == {out[i].id : i \in places}
                      IN  /\ ids = IF Anchoring(form) THEN Members ELSE {}
                          /\ Cardinality(places) = Cardinality(ids)
                          /\ ids \subseteq link_container
    BY DEF AnchorsOfMembers, Anchoring
  <2> DEFINE places == {i \in DOMAIN out :
                          out[i].do = "anchor" /\ out[i].form = form}
             ids == {out[i].id : i \in places}
  <2>1. PICK g : g = Looking(form)
    OBVIOUS
  <2>2. g.form = form /\ g.texts = {}
    BY <2>1, LookingAt
  <2>3. PICK D, R : /\ Makes(out, D, g) /\ Makes(work, R, g)
                    /\ D \cup R = IF Anchoring(form) THEN Members ELSE {}
    BY <1>2, <2>1 DEF AnchorInv, Shows, Total
  <2>4. R = {}
    <3>1. PICK w : w = work /\ Len(w) = 0
      BY <1>2 DEF StateInv
    <3> QED
      BY <2>3, <3>1 DEF Makes, AllMarks
  <2>5. Printed(out)
    BY <1>2 DEF StateInv
  <2>6. ids = D /\ Cardinality(places) = Cardinality(ids)
    <3>1. PICK o : o = out
      OBVIOUS
    <3>2. Printed(o) /\ Makes(o, D, g)
      BY <2>3, <2>5, <3>1
    <3>3. /\ AnchorIds(o, form) = D
          /\ Cardinality(AnchorPlaces(o, form)) = Cardinality(AnchorIds(o, form))
      BY <2>2, <3>2, AnchorsCounted
    <3>4. AnchorPlaces(o, form) = places /\ AnchorIds(o, form) = ids
      BY <3>1 DEF AnchorPlaces, AnchorIds
    <3> HIDE DEF places, ids
    <3> QED
      BY <3>3, <3>4
  <2>7. ids = IF Anchoring(form) THEN Members ELSE {}
    <3> HIDE DEF ids
    <3> QED
      BY <2>3, <2>4, <2>6
  <2>8. Members \subseteq link_container
    <3>1. PICK set : set = Unshown
      OBVIOUS
    <3>2. document \in Element
      BY <1>2, CompoundAssumption DEF StateInv, Documents, document
    <3>3. MembersWithout(set)[document] \subseteq AllIds[document]
      <4>1. \A d \in Element : ~HasHandler(d.key) => d \in set
        BY <3>1 DEF Unshown
      <4> QED
        BY <3>2, <4>1, MembersAreGathered
    <3>4. Members = MembersWithout(set)[document]
      BY <3>1 DEF Members, Unshown
    <3> QED
      BY <1>2, <3>3, <3>4 DEF LinksInv
  <2> HIDE DEF places, ids
  <2>9. ids \subseteq link_container
    BY <2>7, <2>8
  <2> QED
    BY <2>6, <2>7, <2>9 DEF places, ids
<1> QED
  BY <1>1, <1>2, AnchorNext, StateInvariant, LinksInvariant, PlacedInvariant,
     PTL DEF Spec

=============================================================================
