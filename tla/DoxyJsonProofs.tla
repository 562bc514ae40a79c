--------------------------- MODULE DoxyJsonProofs ---------------------------
(***************************************************************************)
(* Proofs about DoxyJson: every variable keeps its type and the name       *)
(* container follows the calls, whatever the document; and the links pass  *)
(* gathers the ids of the document, all of them and no other.              *)
(*                                                                         *)
(* Documents are of any depth.  What a recursive function is for all of    *)
(* them follows from the smallest value it would not be so for.            *)
(***************************************************************************)
EXTENDS DoxyJson, TLAPS, FiniteSetTheorems, SequenceTheorems,
        WellFoundedInduction

----------------------------------------------------------------------------
(* Least numbers *)

\* Numbers have a least among them.
LEMMA LeastNumber ==
  ASSUME NEW T \in SUBSET Nat, T # {}
  PROVE  \E n \in T : \A m \in T : n <= m
<1> DEFINE Below == {1 .. n : n \in T}
<1>1. \A n \in T : 1 .. n \in FiniteSubsetsOf(Nat)
  BY FS_Interval DEF FiniteSubsetsOf
<1>2. Below \subseteq FiniteSubsetsOf(Nat) /\ Below # {}
  BY <1>1
<1>3. \E S \in Below :
        \A R \in Below : ~ (<<R, S>> \in StrictSubsetOrdering(Nat))
  <2> HIDE DEF Below
  <2> QED
    BY <1>2, FS_StrictSubsetOrderingWellFounded, WFMin
<1>4. PICK n \in T :
        \A m \in T : ~ (<<1 .. m, 1 .. n>> \in StrictSubsetOrdering(Nat))
  BY <1>3
<1>5. ASSUME NEW m \in T, m < n  PROVE FALSE
  <2>1. /\ 1 .. m \subseteq 1 .. n
        /\ n \in 1 .. n /\ n \notin 1 .. m
    BY <1>5
  <2>2. 1 .. m \in SUBSET Nat /\ 1 .. n \in SUBSET Nat /\ 1 .. m # 1 .. n
    BY <2>1
  <2> QED
    BY <1>4, <2>1, <2>2 DEF StrictSubsetOrdering
<1> QED
  BY <1>5

\* The children of a value are elements.
LEMMA ElementsOf ==
  ASSUME NEW v \in Value
  PROVE  /\ elements(v) \subseteq Element
         /\ DOMAIN Json[v].kids = 1 .. Len(Json[v].kids)
         /\ elements(v) = {Json[v].kids[i] : i \in 1 .. Len(Json[v].kids)}
<1> DEFINE kids == Json[v].kids
<1>1. kids \in Seq(Element)
  BY JsonAssumption DEF Element
<1> HIDE DEF kids
<1>2. \A i \in 1 .. Len(kids) : kids[i] \in Element
  BY <1>1, ElementOfSeq
<1>3. DOMAIN kids = 1 .. Len(kids)
  BY <1>1
<1>4. elements(v) = {kids[i] : i \in 1 .. Len(kids)}
  BY <1>3 DEF elements, ToSet, kids
<1> QED
  BY <1>2, <1>3, <1>4 DEF kids

\* The child get_value() finds: one of that name, if there is one.
LEMMA ValueFound ==
  ASSUME NEW v \in Value, NEW key
  PROVE  /\ get_value(v, key) \in Value
         /\ \/ /\ get_value(v, key) = JsonNull
               /\ \A e \in elements(v) : e.key # key
            \/ \E e \in elements(v) :
                e.key = key /\ e.value = get_value(v, key)
<1> DEFINE kids == Json[v].kids
           I == {i \in 1 .. Len(kids) : kids[i].key = key}
<1>1. /\ kids \in Seq([key : STRING, value : Value])
      /\ JsonNull \in Value
  BY JsonAssumption
<1>2. get_value(v, key) =
        LET i == IF I # {} THEN Min(I) ELSE 0
        IN  IF i = 0 THEN JsonNull ELSE kids[i].value
  BY DEF get_value, SelectInSeq
<1>3. /\ elements(v) = {kids[i] : i \in 1 .. Len(kids)}
      /\ \A e \in elements(v) : e.value \in Value
  BY ElementsOf DEF Element
<1>4. CASE I = {}
  <2>1. \A i \in 1 .. Len(kids) : kids[i].key # key
    BY <1>4
  <2>2. get_value(v, key) = JsonNull
    BY <1>2, <1>4
  <2> QED
    BY <1>1, <1>3, <2>1, <2>2
<1>5. CASE I # {}
  <2>1. \E n \in I : \A m \in I : n <= m
    <3>1. I \in SUBSET Nat
      BY <1>1
    <3> HIDE DEF I
    <3> QED
      BY <1>5, <3>1, LeastNumber
  <2>2. Min(I) \in I
    BY <2>1 DEF Min
  <2>3. PICK i \in 1 .. Len(kids) : i = Min(I) /\ kids[i].key = key
    BY <2>2
  <2>4. get_value(v, key) = kids[i].value
    BY <1>2, <1>5, <2>3
  <2> HIDE DEF I, kids
  <2>5. kids[i] \in elements(v)
    BY <1>3, <2>3
  <2> QED
    BY <1>3, <2>3, <2>4, <2>5
<1> QED
  BY <1>4, <1>5

----------------------------------------------------------------------------
(* What the elements of a document have *)

Size(e) == Json[e.value].size
Smaller(n) == {e \in Element : Size(e) < n}

\* What an element has, with that of its children from f.
GatheredWith(f, own, outside, e) ==
  IF e \in outside THEN {}
  ELSE own[e] \cup UNION {f[kid] : kid \in elements(e.value)}

\* Gathered for the elements smaller than n.
UpTo(f, own, outside, n) ==
  f = [e \in Smaller(n) |-> GatheredWith(f, own, outside, e)]

\* The children of an element are elements, and smaller.
LEMMA ChildrenAreSmaller ==
  ASSUME NEW e \in Element
  PROVE  /\ Size(e) \in Nat
         /\ \A kid \in elements(e.value) :
              kid \in Element /\ Size(kid) \in Nat /\ Size(kid) < Size(e)
<1>1. \A d \in Element : d.value \in Value
  BY DEF Element
<1>2. \A d \in Element : Size(d) \in Nat
  BY <1>1, JsonAssumption DEF Size
<1>3. ASSUME NEW kid \in elements(e.value)
      PROVE  kid \in Element /\ Size(kid) < Size(e)
  <2>1. PICK i \in 1 .. Len(Json[e.value].kids) : kid = Json[e.value].kids[i]
    BY <1>1, ElementsOf
  <2>2. DOMAIN Json[e.value].kids = 1 .. Len(Json[e.value].kids)
    BY <1>1, ElementsOf
  <2>3. kid \in Element
    BY <1>1, <1>3, ElementsOf
  <2>4. Json[Json[e.value].kids[i].value].size < Json[e.value].size
    BY <1>1, <2>2, JsonAssumption
  <2> QED
    BY <2>1, <2>3, <2>4 DEF Size
<1> QED
  BY <1>2, <1>3

\* What an element has depends on what its children have only.
LEMMA FromChildren ==
  ASSUME NEW f, NEW g, NEW own, NEW outside, NEW e,
         \A kid \in elements(e.value) : f[kid] = g[kid]
  PROVE  GatheredWith(f, own, outside, e) = GatheredWith(g, own, outside, e)
<1>1. {f[kid] : kid \in elements(e.value)} =
      {g[kid] : kid \in elements(e.value)}
  OBVIOUS
<1> QED
  BY <1>1 DEF GatheredWith

\* Two such functions agree.
LEMMA UpToAgree ==
  ASSUME NEW n \in Nat, NEW m \in Nat, NEW f, NEW g, NEW own, NEW outside,
         UpTo(f, own, outside, n), UpTo(g, own, outside, m)
  PROVE  \A e \in Smaller(n) \cap Smaller(m) : f[e] = g[e]
<1> DEFINE Wrong == {e \in Smaller(n) \cap Smaller(m) : f[e] # g[e]}
           Sizes == {Size(e) : e \in Wrong}
<1>1. SUFFICES ASSUME Wrong # {}  PROVE FALSE
  OBVIOUS
<1>2. Sizes \in SUBSET Nat /\ Sizes # {}
  BY <1>1, ChildrenAreSmaller DEF Smaller
<1>3. PICK e \in Wrong : \A d \in Wrong : Size(e) <= Size(d)
  <2>1. \E s \in Sizes : \A r \in Sizes : s <= r
    <3> HIDE DEF Sizes
    <3> QED
      BY <1>2, LeastNumber
  <2> QED
    BY <2>1
<1>4. e \in Element /\ e \in Smaller(n) /\ e \in Smaller(m) /\ f[e] # g[e]
  BY DEF Smaller
<1>5. ASSUME NEW kid \in elements(e.value)  PROVE f[kid] = g[kid]
  <2>1. kid \in Element /\ Size(kid) \in Nat /\ Size(kid) < Size(e)
    BY <1>4, <1>5, ChildrenAreSmaller
  <2>2. Size(e) \in Nat /\ Size(e) < n /\ Size(e) < m
    BY <1>4, ChildrenAreSmaller DEF Smaller
  <2>3. kid \in Smaller(n) \cap Smaller(m)
    BY <2>1, <2>2 DEF Smaller
  <2>4. kid \notin Wrong
    BY <1>3, <2>1, <2>2
  <2> QED
    BY <2>3, <2>4
<1>6. f[e] = GatheredWith(f, own, outside, e) /\ g[e] = GatheredWith(g, own, outside, e)
  BY <1>4 DEF UpTo
<1> QED
  BY <1>4, <1>5, <1>6, FromChildren

\* There is such a function for every n.
LEMMA UpToExists ==
  ASSUME NEW own, NEW outside
  PROVE  \A n \in Nat : \E f : UpTo(f, own, outside, n)
<1> DEFINE Without == {n \in Nat : ~ \E f : UpTo(f, own, outside, n)}
<1>1. SUFFICES ASSUME Without # {}  PROVE FALSE
  OBVIOUS
<1>2. PICK n \in Without : \A m \in Without : n <= m
  <2>1. Without \in SUBSET Nat
    OBVIOUS
  <2> HIDE DEF Without
  <2> QED
    BY <1>1, <2>1, LeastNumber
<1>3. PICK g : n # 0 => UpTo(g, own, outside, n - 1)
  BY <1>2
<1> DEFINE f == [e \in Smaller(n) |-> GatheredWith(g, own, outside, e)]
<1>4. ASSUME NEW e \in Smaller(n)  PROVE GatheredWith(g, own, outside, e) = GatheredWith(f, own, outside, e)
  <2>1. ASSUME NEW kid \in elements(e.value)  PROVE g[kid] = f[kid]
    <3>1. e \in Element /\ Size(e) < n
      BY DEF Smaller
    <3>2. Size(e) \in Nat
      BY <3>1, ChildrenAreSmaller
    <3>3. kid \in Element /\ Size(kid) \in Nat /\ Size(kid) < Size(e)
      BY <2>1, <3>1, ChildrenAreSmaller
    <3>4. n \in Nat /\ n # 0 /\ kid \in Smaller(n - 1) /\ kid \in Smaller(n)
      BY <3>1, <3>2, <3>3 DEF Smaller
    <3>5. g[kid] = GatheredWith(g, own, outside, kid)
      BY <1>3, <3>4 DEF UpTo
    <3> QED
      BY <3>4, <3>5
  <2> HIDE DEF f
  <2> QED
    BY <2>1, FromChildren
<1>5. f = [e \in Smaller(n) |-> GatheredWith(f, own, outside, e)]
  BY <1>4
<1>6. UpTo(f, own, outside, n)
  <2> HIDE DEF f
  <2> QED
    BY <1>5 DEF UpTo
<1> QED
  BY <1>6

\* What an element has is its own and that of its children: the equation
\* Gathered is defined by holds, for documents of any depth.
LEMMA GatheredOfElement ==
  ASSUME NEW own, NEW outside
  PROVE  LET g == Gathered(own, outside)
         IN  g = [e \in Element |-> GatheredWith(g, own, outside, e)]
<1> DEFINE Of(e) == CHOOSE f : UpTo(f, own, outside, Size(e) + 1)
           F == [e \in Element |-> Of(e)[e]]
<1>1. ASSUME NEW e \in Element
      PROVE  /\ Size(e) + 1 \in Nat
             /\ e \in Smaller(Size(e) + 1)
             /\ UpTo(Of(e), own, outside, Size(e) + 1)
  BY ChildrenAreSmaller, UpToExists DEF Smaller
<1>2. ASSUME NEW e \in Element  PROVE F[e] = GatheredWith(F, own, outside, e)
  <2>1. F[e] = GatheredWith(Of(e), own, outside, e)
    BY <1>1 DEF UpTo
  <2>2. ASSUME NEW kid \in elements(e.value)  PROVE Of(e)[kid] = F[kid]
    <3>1. kid \in Element /\ Size(kid) \in Nat /\ Size(kid) < Size(e)
      BY <2>2, ChildrenAreSmaller
    <3>2. kid \in Smaller(Size(e) + 1) /\ kid \in Smaller(Size(kid) + 1)
      BY <3>1, <1>1, ChildrenAreSmaller DEF Smaller
    <3>3. /\ UpTo(Of(e), own, outside, Size(e) + 1)
          /\ UpTo(Of(kid), own, outside, Size(kid) + 1)
          /\ Size(e) + 1 \in Nat /\ Size(kid) + 1 \in Nat
      BY <1>1, <3>1
    <3>4. F[kid] = Of(kid)[kid]
      BY <3>1
    <3> HIDE DEF Of, F
    <3>5. Of(e)[kid] = Of(kid)[kid]
      BY <3>2, <3>3, UpToAgree
    <3> QED
      BY <3>4, <3>5
  <2> HIDE DEF Of, F
  <2>3. GatheredWith(Of(e), own, outside, e) = GatheredWith(F, own, outside, e)
    BY <2>2, FromChildren
  <2> QED
    BY <2>1, <2>3
<1>3. F = [e \in Element |-> GatheredWith(F, own, outside, e)]
  BY <1>2
<1> DEFINE Is(g) == g = [e \in Element |-> GatheredWith(g, own, outside, e)]
<1>4. Gathered(own, outside) = CHOOSE g : Is(g)
  BY DEF Gathered, GatheredWith
<1>5. \E g : Is(g)
  <2> HIDE DEF F
  <2> QED
    BY <1>3
<1>6. Is(Gathered(own, outside))
  <2> HIDE DEF Is
  <2> QED
    BY <1>4, <1>5
<1> QED
  BY <1>6

----------------------------------------------------------------------------
(* Sequences of items *)

\* A token, or something to do with a value.
IsItem(x) == \/ IsToken(x)
             \/ /\ x.do \in {"handle", "call", "print", "leave"}
                /\ x.value \in Value

Items(s) == \E S : s \in Seq(S) /\ \A x \in S : IsItem(x)

\* What a handler does: all but popping its own name.
IsPlain(x) == \/ IsToken(x)
              \/ x.do \in {"handle", "call", "print"} /\ x.value \in Value

Plain(s) == \E S : s \in Seq(S) /\ \A x \in S : IsPlain(x)

LEMMA PlainOf ==
  ASSUME NEW S, NEW s \in Seq(S), \A x \in S : IsPlain(x)
  PROVE  Plain(s)
BY DEF Plain

LEMMA PlainItems ==
  ASSUME NEW s, Plain(s)
  PROVE  Items(s) /\ \A i \in 1 .. Len(s) : s[i].do # "leave"
<1>1. PICK S : s \in Seq(S) /\ \A x \in S : IsPlain(x)
  BY DEF Plain
<1>2. \A x \in S : IsItem(x) /\ x.do # "leave"
  BY <1>1 DEF IsPlain, IsItem, IsToken
<1>3. \A i \in 1 .. Len(s) : s[i] \in S
  BY <1>1, ElementOfSeq
<1> QED
  BY <1>1, <1>2, <1>3 DEF Items

LEMMA ItemsOf ==
  ASSUME NEW s, Items(s)
  PROVE  /\ Len(s) \in Nat
         /\ DOMAIN s = 1 .. Len(s)
         /\ \A i \in 1 .. Len(s) : IsItem(s[i])
         /\ s # <<>> => /\ Len(s) > 0
                        /\ Head(s) = s[1]
                        /\ IsItem(s[1])
                        /\ Items(Tail(s))
                        /\ Len(Tail(s)) = Len(s) - 1
                        /\ \A i \in 1 .. Len(s) - 1 : Tail(s)[i] = s[i + 1]
<1>1. PICK S : s \in Seq(S) /\ \A x \in S : IsItem(x)
  BY DEF Items
<1>2. \A i \in 1 .. Len(s) : s[i] \in S
  BY <1>1, ElementOfSeq
<1>3. Len(s) \in Nat /\ DOMAIN s = 1 .. Len(s)
  BY <1>1
<1>4. ASSUME s # <<>>
      PROVE  /\ Len(s) > 0 /\ Head(s) = s[1]
             /\ Tail(s) \in Seq(S) /\ Len(Tail(s)) = Len(s) - 1
             /\ \A i \in 1 .. Len(s) - 1 : Tail(s)[i] = s[i + 1]
  BY <1>1, <1>4
<1> QED
  BY <1>1, <1>2, <1>3, <1>4 DEF Items

LEMMA ItemsThen ==
  ASSUME NEW s, NEW t, Items(s), Items(t)
  PROVE  /\ Items(s \o t)
         /\ Len(s \o t) = Len(s) + Len(t)
         /\ \A i \in 1 .. Len(s) : (s \o t)[i] = s[i]
         /\ \A i \in 1 .. Len(t) : (s \o t)[Len(s) + i] = t[i]
<1>1. PICK S : s \in Seq(S) /\ \A x \in S : IsItem(x)
  BY DEF Items
<1>2. PICK T : t \in Seq(T) /\ \A x \in T : IsItem(x)
  BY DEF Items
<1>3. s \in Seq(S \cup T) /\ t \in Seq(S \cup T)
  BY <1>1, <1>2
<1>4. s \o t \in Seq(S \cup T)
  BY <1>3
<1>5. Items(s \o t)
  BY <1>1, <1>2, <1>4 DEF Items
<1> QED
  BY <1>3, <1>5

LEMMA PlainThen ==
  \A s, t : Plain(s) /\ Plain(t) => Plain(s \o t)
<1> SUFFICES ASSUME NEW s, NEW t, Plain(s), Plain(t)
             PROVE  Plain(s \o t)
  OBVIOUS
<1>1. PICK S : s \in Seq(S) /\ \A x \in S : IsPlain(x)
  BY DEF Plain
<1>2. PICK T : t \in Seq(T) /\ \A x \in T : IsPlain(x)
  BY DEF Plain
<1>3. s \in Seq(S \cup T) /\ t \in Seq(S \cup T)
  BY <1>1, <1>2
<1>4. s \o t \in Seq(S \cup T)
  BY <1>3
<1> QED
  BY <1>1, <1>2, <1>4 DEF Plain

LEMMA PlainFew ==
  /\ Plain(<<>>)
  /\ \A x : IsPlain(x) => Plain(<<x>>)
  /\ \A x, y : IsPlain(x) /\ IsPlain(y) => Plain(<<x, y>>)
  /\ \A x, y, z : IsPlain(x) /\ IsPlain(y) /\ IsPlain(z) => Plain(<<x, y, z>>)
<1>1. Plain(<<>>)
  <2> DEFINE s == <<>>
  <2>1. s \in Seq({}) /\ \A x \in {} : IsPlain(x)
    OBVIOUS
  <2> HIDE DEF s
  <2>2. Plain(s)
    BY <2>1, PlainOf
  <2> QED
    BY <2>2 DEF s
<1>2. ASSUME NEW x, NEW y, NEW z, IsPlain(x), IsPlain(y), IsPlain(z)
      PROVE  Plain(<<x>>) /\ Plain(<<x, y>>) /\ Plain(<<x, y, z>>)
  <2> DEFINE a == <<x>>
             b == <<x, y>>
             c == <<x, y, z>>
  <2>1. a \in Seq({x, y, z}) /\ b \in Seq({x, y, z}) /\ c \in Seq({x, y, z})
    OBVIOUS
  <2>2. \A w \in {x, y, z} : IsPlain(w)
    BY <1>2
  <2> HIDE DEF a, b, c
  <2>3. Plain(a) /\ Plain(b) /\ Plain(c)
    BY <2>1, <2>2, PlainOf
  <2> QED
    BY <2>3 DEF a, b, c
<1> QED
  BY <1>1, <1>2

----------------------------------------------------------------------------
(* The name container follows the calls *)

\* The names are those of the handlers that are to be left, the innermost
\* last: where in the remaining work each is popped.
PoppedAt(n, w, at) ==
  /\ at \in [1 .. Len(n) -> 1 .. Len(w)]
  /\ \A i, j \in 1 .. Len(n) : i < j => at[j] < at[i]
  /\ \A i \in 1 .. Len(n) : w[at[i]].do = "leave" /\ w[at[i]].key = n[i]
  /\ \A k \in 1 .. Len(w) :
       w[k].do = "leave" => \E i \in 1 .. Len(n) : at[i] = k

Nested(n, w) == Len(n) \in Nat /\ \E at : PoppedAt(n, w, at)

\* Nothing left to do: no name.
LEMMA NestedEmpty ==
  ASSUME NEW N, NEW n \in Seq(N), Nested(n, <<>>)
  PROVE  n = <<>>
BY DEF Nested, PoppedAt

\* No name, and no name to pop.
LEMMA NestedStart ==
  ASSUME NEW x, x.do # "leave"
  PROVE  Nested(<<>>, <<x>>)
<1> DEFINE at == [i \in 1 .. 0 |-> i]
<1>1. PoppedAt(<<>>, <<x>>, at)
  BY DEF PoppedAt
<1> QED
  BY <1>1 DEF Nested

\* A call is replaced by what its handler does.
LEMMA NestedReplaced ==
  ASSUME NEW n, NEW w, NEW items, Items(w), w # <<>>, Nested(n, w),
         Head(w).do # "leave", Plain(items)
  PROVE  Nested(n, items \o Tail(w))
<1> DEFINE v == items \o Tail(w)
           d == Len(items) - 1
<1>1. /\ Items(items) /\ Items(Tail(w))
      /\ \A i \in 1 .. Len(items) : items[i].do # "leave"
      /\ Len(items) \in Nat /\ Len(w) \in Nat /\ Len(w) > 0
      /\ Len(Tail(w)) = Len(w) - 1
      /\ \A i \in 1 .. Len(w) - 1 : Tail(w)[i] = w[i + 1]
      /\ w[1].do # "leave"
  BY PlainItems, ItemsOf
<1>2. /\ Len(v) = Len(items) + Len(w) - 1
      /\ \A i \in 1 .. Len(items) : v[i] = items[i]
      /\ \A k \in 2 .. Len(w) : v[k + d] = w[k]
  <2>1. /\ Len(v) = Len(items) + Len(Tail(w))
        /\ \A i \in 1 .. Len(items) : v[i] = items[i]
        /\ \A i \in 1 .. Len(Tail(w)) : v[Len(items) + i] = Tail(w)[i]
    BY <1>1, ItemsThen
  <2>2. ASSUME NEW k \in 2 .. Len(w)  PROVE v[k + d] = w[k]
    <3>1. k - 1 \in 1 .. Len(w) - 1 /\ Len(items) + (k - 1) = k + d
      BY <1>1
    <3>2. v[Len(items) + (k - 1)] = Tail(w)[k - 1]
      BY <1>1, <2>1, <3>1
    <3>3. Tail(w)[k - 1] = w[k - 1 + 1]
      BY <1>1, <3>1
    <3>4. k - 1 + 1 = k
      OBVIOUS
    <3> HIDE DEF v, d
    <3> QED
      BY <3>1, <3>2, <3>3, <3>4
  <2> HIDE DEF v
  <2> QED
    BY <1>1, <2>1, <2>2
<1>3. PICK at : Len(n) \in Nat /\ PoppedAt(n, w, at)
  BY DEF Nested
<1> DEFINE new == [i \in 1 .. Len(n) |-> at[i] + d]
<1> HIDE DEF v
<1>4. \A i \in 1 .. Len(n) : at[i] \in 2 .. Len(w)
  <2> SUFFICES ASSUME NEW i \in 1 .. Len(n)  PROVE at[i] \in 2 .. Len(w)
    OBVIOUS
  <2>1. at[i] \in 1 .. Len(w) /\ w[at[i]].do = "leave"
    BY <1>3 DEF PoppedAt
  <2> QED
    BY <1>1, <2>1
<1>5. new \in [1 .. Len(n) -> 1 .. Len(v)]
  BY <1>1, <1>2, <1>4
<1>6. \A i, j \in 1 .. Len(n) : i < j => new[j] < new[i]
  BY <1>1, <1>3, <1>4 DEF PoppedAt
<1>7. \A i \in 1 .. Len(n) : v[new[i]].do = "leave" /\ v[new[i]].key = n[i]
  <2> SUFFICES ASSUME NEW i \in 1 .. Len(n)
               PROVE  v[new[i]].do = "leave" /\ v[new[i]].key = n[i]
    OBVIOUS
  <2>1. v[new[i]] = w[at[i]]
    BY <1>2, <1>4
  <2> QED
    BY <1>3, <2>1 DEF PoppedAt
<1>8. ASSUME NEW k \in 1 .. Len(v), v[k].do = "leave"
      PROVE  \E i \in 1 .. Len(n) : new[i] = k
  <2>1. k \notin 1 .. Len(items)
    BY <1>1, <1>2, <1>8
  <2>2. k - d \in 2 .. Len(w) /\ k - d + d = k
    BY <1>1, <1>2, <2>1
  <2>3. w[k - d].do = "leave"
    BY <1>2, <1>8, <2>2
  <2>4. PICK i \in 1 .. Len(n) : at[i] = k - d
    BY <1>3, <2>2, <2>3 DEF PoppedAt
  <2> QED
    BY <2>2, <2>4
<1>9. PoppedAt(n, v, new)
  <2> HIDE DEF new
  <2> QED
    BY <1>5, <1>6, <1>7, <1>8 DEF PoppedAt
<1> QED
  BY <1>3, <1>9 DEF Nested, v

\* handle() pushes a name, and pops it after the call.
LEMMA NestedPushed ==
  ASSUME NEW N, NEW n \in Seq(N), NEW w, NEW k \in N, NEW v \in Value,
         Items(w), w # <<>>, Nested(n, w), Head(w).do # "leave"
  PROVE  Nested(Append(n, k), <<Call(k, v), Leave(k, v)>> \o Tail(w))
<1>0. PICK pair : pair = <<Call(k, v), Leave(k, v)>>
  OBVIOUS
<1> DEFINE m == Append(n, k)
           u == pair \o Tail(w)
<1>1. /\ Items(Tail(w))
      /\ Len(w) \in Nat /\ Len(w) > 0
      /\ Len(Tail(w)) = Len(w) - 1
      /\ \A i \in 1 .. Len(w) - 1 : Tail(w)[i] = w[i + 1]
      /\ w[1].do # "leave"
  BY ItemsOf
<1>2. Items(pair) /\ Len(pair) = 2
      /\ pair[1].do # "leave" /\ pair[2].do = "leave" /\ pair[2].key = k
  <2>1. pair \in Seq({Call(k, v), Leave(k, v)})
    BY <1>0
  <2>2. \A x \in {Call(k, v), Leave(k, v)} : IsItem(x)
    BY DEF IsItem, Call, Leave, Do
  <2> QED
    BY <1>0, <2>1, <2>2 DEF Items, Call, Leave, Do
<1>3. /\ Len(u) = Len(w) + 1
      /\ u[1].do # "leave" /\ u[2].do = "leave" /\ u[2].key = k
      /\ \A i \in 2 .. Len(w) : u[i + 1] = w[i]
  <2>1. /\ Len(u) = Len(pair) + Len(Tail(w))
        /\ \A i \in 1 .. Len(pair) : u[i] = pair[i]
        /\ \A i \in 1 .. Len(Tail(w)) : u[Len(pair) + i] = Tail(w)[i]
    <3>1. Items(pair) /\ Items(Tail(w))
      BY <1>1, <1>2
    <3> QED
      BY <3>1, ItemsThen
  <2>2. ASSUME NEW i \in 2 .. Len(w)  PROVE u[i + 1] = w[i]
    <3>1. i - 1 \in 1 .. Len(w) - 1 /\ 2 + (i - 1) = i + 1 /\ i - 1 + 1 = i
      BY <1>1
    <3>2. u[2 + (i - 1)] = Tail(w)[i - 1]
      BY <1>1, <1>2, <2>1, <3>1
    <3>3. Tail(w)[i - 1] = w[i - 1 + 1]
      BY <1>1, <3>1
    <3> HIDE DEF u
    <3> QED
      BY <3>1, <3>2, <3>3
  <2> HIDE DEF u
  <2> QED
    BY <1>1, <1>2, <2>1, <2>2
<1> HIDE DEF u
<1>4. /\ Len(n) \in Nat /\ Len(m) = Len(n) + 1
      /\ m[Len(n) + 1] = k
      /\ \A i \in 1 .. Len(n) : m[i] = n[i]
  OBVIOUS
<1> HIDE DEF m
<1>5. PICK at : PoppedAt(n, w, at)
  BY DEF Nested
<1> DEFINE new == [i \in 1 .. Len(m) |->
                     IF i = Len(n) + 1 THEN 2 ELSE at[i] + 1]
<1>6. \A i \in 1 .. Len(n) : at[i] \in 2 .. Len(w)
  <2> SUFFICES ASSUME NEW i \in 1 .. Len(n)  PROVE at[i] \in 2 .. Len(w)
    OBVIOUS
  <2>1. at[i] \in 1 .. Len(w) /\ w[at[i]].do = "leave"
    BY <1>5 DEF PoppedAt
  <2> QED
    BY <1>1, <2>1
<1>7. new \in [1 .. Len(m) -> 1 .. Len(u)]
  BY <1>1, <1>3, <1>4, <1>6
<1>8. ASSUME NEW i \in 1 .. Len(m), NEW j \in 1 .. Len(m), i < j
      PROVE  new[j] < new[i]
  <2>1. i \in 1 .. Len(n) /\ new[i] = at[i] + 1 /\ at[i] \in 2 .. Len(w)
    BY <1>4, <1>6, <1>8
  <2>2. CASE j = Len(n) + 1
    BY <1>1, <1>4, <2>1, <2>2
  <2>3. CASE j # Len(n) + 1
    <3>1. j \in 1 .. Len(n) /\ new[j] = at[j] + 1 /\ at[j] \in 2 .. Len(w)
      BY <1>4, <1>6, <2>3
    <3>2. at[j] < at[i]
      BY <1>5, <1>8, <2>1, <3>1 DEF PoppedAt
    <3> QED
      BY <1>1, <2>1, <3>1, <3>2
  <2> QED
    BY <2>2, <2>3
<1>9. \A i \in 1 .. Len(m) : u[new[i]].do = "leave" /\ u[new[i]].key = m[i]
  <2> SUFFICES ASSUME NEW i \in 1 .. Len(m)
               PROVE  u[new[i]].do = "leave" /\ u[new[i]].key = m[i]
    OBVIOUS
  <2>1. CASE i = Len(n) + 1
    BY <1>3, <1>4, <2>1
  <2>2. CASE i # Len(n) + 1
    <3>1. i \in 1 .. Len(n) /\ new[i] = at[i] + 1
      BY <1>4, <2>2
    <3>2. u[new[i]] = w[at[i]]
      BY <1>3, <1>6, <3>1
    <3> QED
      BY <1>4, <1>5, <3>1, <3>2 DEF PoppedAt
  <2> QED
    BY <2>1, <2>2
<1>10. ASSUME NEW j \in 1 .. Len(u), u[j].do = "leave"
       PROVE  \E i \in 1 .. Len(m) : new[i] = j
  <2>1. CASE j = 2
    BY <1>4, <2>1
  <2>2. CASE j # 2
    <3>1. j - 1 \in 2 .. Len(w) /\ j - 1 + 1 = j
      <4>1. j # 1
        BY <1>3, <1>10
      <4>2. Len(u) = Len(w) + 1 /\ Len(w) \in Nat
        BY <1>1, <1>3
      <4> QED
        BY <2>2, <4>1, <4>2
    <3>2. j - 1 \in 1 .. Len(w)
      BY <1>1, <3>1
    <3>3. w[j - 1].do = "leave"
      BY <1>3, <1>10, <3>1
    <3>4. PICK i \in 1 .. Len(n) : at[i] = j - 1
      BY <1>5, <3>2, <3>3 DEF PoppedAt
    <3> QED
      BY <1>4, <3>1, <3>4
  <2> QED
    BY <2>1, <2>2
<1>11. PoppedAt(m, u, new)
  <2> HIDE DEF new
  <2> QED
    BY <1>7, <1>8, <1>9, <1>10 DEF PoppedAt
<1>12. Nested(m, u)
  BY <1>4, <1>11 DEF Nested
<1> QED
  BY <1>0, <1>12 DEF m, u

\* The name that is popped is the last, and that of the handler.
LEMMA NestedPopped ==
  ASSUME NEW N, NEW n \in Seq(N), NEW w,
         Items(w), w # <<>>, Nested(n, w), Head(w).do = "leave"
  PROVE  /\ Len(n) > 0 /\ n[Len(n)] = Head(w).key
         /\ Front(n) \in Seq(N)
         /\ Nested(Front(n), Tail(w))
<1> DEFINE m == Front(n)
           u == Tail(w)
<1>1. /\ Items(u)
      /\ Len(w) \in Nat /\ Len(w) > 0
      /\ Len(u) = Len(w) - 1
      /\ \A i \in 1 .. Len(w) - 1 : u[i] = w[i + 1]
      /\ w[1] = Head(w)
  BY ItemsOf
<1>2. Len(n) \in Nat
  OBVIOUS
<1>3. PICK at : PoppedAt(n, w, at)
  BY DEF Nested
<1>4. PICK last \in 1 .. Len(n) : at[last] = 1
  BY <1>1, <1>3 DEF PoppedAt
<1>5. last = Len(n)
  <2>1. ASSUME last < Len(n)  PROVE FALSE
    <3>1. Len(n) \in 1 .. Len(n)
      BY <1>2, <1>4
    <3>2. at[Len(n)] < 1 /\ at[Len(n)] \in 1 .. Len(w)
      BY <1>3, <1>4, <2>1, <3>1 DEF PoppedAt
    <3> QED
      BY <1>1, <3>2
  <2> QED
    BY <1>2, <1>4, <2>1
<1>6. Len(n) > 0 /\ n[Len(n)] = Head(w).key
  BY <1>1, <1>2, <1>3, <1>4, <1>5 DEF PoppedAt
<1>7. /\ m \in Seq(N) /\ Len(m) = Len(n) - 1
      /\ \A i \in 1 .. Len(n) - 1 : m[i] = n[i]
  <2>1. \A i \in 1 .. Len(n) - 1 : n[i] \in N
    BY <1>2, <1>6
  <2>2. /\ m \in Seq(N)
        /\ Len(m) = IF 1 <= Len(n) - 1 THEN Len(n) - 1 - 1 + 1 ELSE 0
        /\ \A i \in 1 .. Len(n) - 1 - 1 + 1 : m[i] = n[1 + i - 1]
    BY <1>2, <1>6, <2>1, SubSeqProperties DEF Front
  <2> HIDE DEF m
  <2>3. Len(n) - 1 - 1 + 1 = Len(n) - 1
    BY <1>2
  <2>4. Len(m) = Len(n) - 1
    <3>1. \A k \in Nat : k > 0 =>
            (IF 1 <= k - 1 THEN k - 1 - 1 + 1 ELSE 0) = k - 1
      OBVIOUS
    <3> QED
      BY <1>2, <1>6, <2>2, <3>1
  <2>5. \A i \in 1 .. Len(n) - 1 : 1 + i - 1 = i
    OBVIOUS
  <2> QED
    BY <2>2, <2>3, <2>4, <2>5
<1> HIDE DEF m, u
<1> DEFINE new == [i \in 1 .. Len(m) |-> at[i] - 1]
<1>8. \A i \in 1 .. Len(m) : i \in 1 .. Len(n) /\ at[i] \in 2 .. Len(w)
  <2> SUFFICES ASSUME NEW i \in 1 .. Len(m)
               PROVE  i \in 1 .. Len(n) /\ at[i] \in 2 .. Len(w)
    OBVIOUS
  <2>1. i \in 1 .. Len(n) /\ i < last
    BY <1>2, <1>5, <1>7
  <2>2. at[i] \in 1 .. Len(w) /\ 1 < at[i]
    BY <1>3, <1>4, <2>1 DEF PoppedAt
  <2> QED
    BY <1>1, <2>1, <2>2
<1>9. new \in [1 .. Len(m) -> 1 .. Len(u)]
  BY <1>1, <1>7, <1>8
<1>10. \A i, j \in 1 .. Len(m) : i < j => new[j] < new[i]
  BY <1>1, <1>3, <1>8 DEF PoppedAt
<1>11. \A i \in 1 .. Len(m) : u[new[i]].do = "leave" /\ u[new[i]].key = m[i]
  <2> SUFFICES ASSUME NEW i \in 1 .. Len(m)
               PROVE  u[new[i]].do = "leave" /\ u[new[i]].key = m[i]
    OBVIOUS
  <2>1. at[i] - 1 \in 1 .. Len(w) - 1 /\ at[i] - 1 + 1 = at[i]
    BY <1>1, <1>8
  <2>2. u[new[i]] = w[at[i]]
    BY <1>1, <2>1
  <2>3. i \in 1 .. Len(n) - 1
    BY <1>7
  <2> QED
    BY <1>3, <1>7, <1>8, <2>2, <2>3 DEF PoppedAt
<1>12. ASSUME NEW j \in 1 .. Len(u), u[j].do = "leave"
       PROVE  \E i \in 1 .. Len(m) : new[i] = j
  <2>1. j + 1 \in 1 .. Len(w) /\ w[j + 1].do = "leave"
    BY <1>1, <1>12
  <2>2. PICK i \in 1 .. Len(n) : at[i] = j + 1
    BY <1>3, <2>1 DEF PoppedAt
  <2>3. i # Len(n)
    BY <1>1, <1>4, <1>5, <2>2
  <2>4. i \in 1 .. Len(m) /\ new[i] = j
    BY <1>1, <1>2, <1>7, <2>2, <2>3
  <2> QED
    BY <2>4
<1>13. PoppedAt(m, u, new)
  <2> HIDE DEF new
  <2> QED
    BY <1>9, <1>10, <1>11, <1>12 DEF PoppedAt
<1>14. Nested(m, u)
  BY <1>2, <1>6, <1>7, <1>13 DEF Nested
<1> QED
  BY <1>6, <1>7, <1>14 DEF m, u

----------------------------------------------------------------------------
(* What the handlers do is of the right kind *)

LEMMA PlainTasks ==
  /\ \A t : IsPlain(Text(t))
  /\ \A t, url : IsPlain(Link(t, url))
  /\ \A id, form : IsPlain(Anchor(id, form))
  /\ \A scope, t : IsPlain(Open(scope, t))
  /\ \A scope : IsPlain(Close(scope))
  /\ \A v \in Value : IsPlain(Visit(v))
  /\ \A v \in Value : \A key : IsPlain(Handle(key, v)) /\ IsPlain(Call(key, v))
BY DEF IsPlain, IsToken, Text, Link, Anchor, Open, Close, Visit, Handle, Call, Do

LEMMA PlainScopes ==
  /\ \A c : \A s : Plain(s) => Plain(When(c, s))
  /\ \A t, s : Plain(s) => Plain(Header(t, s))
  /\ \A s : Plain(s) => Plain(List(s)) /\ Plain(Fence(s))
<1>1. \A c : \A s : Plain(s) => Plain(When(c, s))
  BY PlainFew DEF When
<1>2. ASSUME NEW t, NEW scope, NEW s, Plain(s)
      PROVE  Plain(<<Open(scope, t)>> \o s \o <<Close(scope)>>)
  <2> DEFINE a == <<Open(scope, t)>>
             b == <<Close(scope)>>
  <2>1. Plain(a) /\ Plain(b)
    BY PlainTasks, PlainFew
  <2> HIDE DEF a, b
  <2>2. Plain(a \o s \o b)
    BY <1>2, <2>1, PlainThen
  <2> QED
    BY <2>2 DEF a, b
<1> QED
  BY <1>1, <1>2 DEF Header, List, Fence

LEMMA PlainHelpers ==
  /\ \A t : Plain(print_inline_code(t))
  /\ \A t, v, id : Plain(print_hyperlink(t, v, id))
  /\ \A id : Plain(print_anchor(id))
<1>1. \A t : Plain(print_inline_code(t))
  BY PlainTasks, PlainFew, PlainScopes DEF print_inline_code
<1>2. \A t, v, id : Plain(print_hyperlink(t, v, id))
  BY PlainTasks, PlainFew DEF print_hyperlink
<1>3. \A id : Plain(print_anchor(id))
  BY PlainTasks, PlainFew, PlainScopes, PlainThen DEF print_anchor
<1> QED
  BY <1>1, <1>2, <1>3

LEMMA PlainType ==
  ASSUME NEW v \in Value
  PROVE  Plain(TypeOf(v))
<1>1. get_value(v, "type") \in Value
  BY ValueFound
<1> QED
  BY <1>1, PlainTasks, PlainFew, PlainHelpers DEF TypeOf

\* The bodies that are a few tasks, or one scope, or one choice.
LEMMA PlainBodies ==
  ASSUME NEW v \in Value
  PROVE  /\ Plain(DetaileddescriptionBody(v))
         /\ Plain(BriefdescriptionBody(v))
         /\ Plain(BasecompoundrefBody(v))
         /\ Plain(InnerclassBody(v))
         /\ Plain(ListofallmembersBody(v))
         /\ Plain(MemberBody(v))
         /\ Plain(SectiondefBody(v))
         /\ Plain(EnumvalueBody(v))
         /\ Plain(ParamBody(v))
         /\ Plain(ItemizedlistBody(v))
         /\ Plain(ProgramlistingBody(v))
         /\ Plain(SimplesectBody(v))
         /\ Plain(RefBody(v))
<1> DEFINE visit == <<Visit(v)>>
<1>1. Plain(visit) /\ Plain(<<>>)
  BY PlainTasks, PlainFew
<1>2. \A t : Plain(<<Text(t)>>)
  BY PlainTasks, PlainFew
<1> HIDE DEF visit
<1>3. Plain(DetaileddescriptionBody(v))
  BY <1>1, PlainScopes, PlainThen DEF DetaileddescriptionBody, visit
<1>4. Plain(BriefdescriptionBody(v))
  BY <1>1, PlainScopes DEF BriefdescriptionBody, visit
<1>5. Plain(BasecompoundrefBody(v))
  BY <1>2, PlainHelpers, PlainScopes, PlainThen DEF BasecompoundrefBody
<1>6. Plain(InnerclassBody(v)) /\ Plain(MemberBody(v))
  BY PlainHelpers, PlainScopes DEF InnerclassBody, MemberBody
<1>7. Plain(ListofallmembersBody(v))
  BY <1>1, PlainScopes DEF ListofallmembersBody, visit
<1>8. Plain(SectiondefBody(v))
  BY <1>1, PlainScopes DEF SectiondefBody, visit
<1>9. Plain(EnumvalueBody(v))
  BY <1>1, <1>2, PlainTasks, PlainFew, PlainScopes DEF EnumvalueBody, visit
<1>10. Plain(ParamBody(v))
  BY <1>1, PlainType, PlainHelpers, PlainScopes, PlainThen DEF ParamBody, visit
<1>11. Plain(ItemizedlistBody(v)) /\ Plain(ProgramlistingBody(v))
  BY <1>1, PlainScopes DEF ItemizedlistBody, ProgramlistingBody, visit
<1>12. Plain(SimplesectBody(v))
  BY PlainTasks, PlainFew, PlainScopes DEF SimplesectBody
<1>13. Plain(RefBody(v))
  BY <1>2, PlainHelpers DEF RefBody
<1> QED
  BY <1>3, <1>4, <1>5, <1>6, <1>7, <1>8, <1>9, <1>10, <1>11, <1>12, <1>13

LEMMA PlainCompound ==
  ASSUME NEW v \in Value
  PROVE  Plain(CompounddefBody(v))
<1> DEFINE visit == <<Visit(v)>>
           description ==
             <<Call("detaileddescription", get_value(v, "detaileddescription"))>>
<1>1. Plain(visit) /\ Plain(description)
  BY ValueFound, PlainTasks, PlainFew
<1> HIDE DEF visit, description
<1>2. \A t : /\ Plain(Header(t, Header("Summary", visit)))
             /\ Plain(Header(t, description \o visit))
  BY <1>1, PlainScopes, PlainThen
<1>3. Plain(description \o visit)
  BY <1>1, PlainThen
<1> QED
  BY <1>2, <1>3 DEF CompounddefBody, visit, description

LEMMA PlainMember ==
  ASSUME NEW v \in Value
  PROVE  Plain(MemberdefSummary(v)) /\ Plain(MemberdefDetails(v))
<1> DEFINE visit == <<Visit(v)>>
           flag(key, value, word) ==
             When(get_value_as_string_view(v, key) = value, <<Text(word)>>)
           definition == get_value_as_string_view(v, "definition")
           typeless == is_null(get_value(v, "type"))
           parameters == When(count_children(v, "param") > 0,
                              <<Text("***Parameters:***")>>)
           type == <<Text("***Type:*** ")>> \o TypeOf(v) \o parameters
<1>1. Plain(visit) /\ \A t : Plain(<<Text(t)>>)
  BY PlainTasks, PlainFew
<1>2. Plain(MemberdefSummary(v))
  <2> DEFINE link == <<Link(get_value_as_string_view(v, "name"),
                            Url(v, get_id(v)))>>
             rest == IF get_value_as_string_view(v, "@kind") = "enum"
                       THEN List(visit) ELSE visit
  <2>1. Plain(link)
    BY PlainTasks, PlainFew
  <2>2. Plain(rest)
    <3> HIDE DEF visit
    <3> QED
      BY <1>1, PlainScopes
  <2>3. MemberdefSummary(v) = link \o rest
    BY DEF MemberdefSummary
  <2> HIDE DEF link, rest
  <2> QED
    BY <2>1, <2>2, <2>3, PlainThen
<1>3. Plain(MemberdefDetails(v))
  <2>1. \A key, value, word : Plain(flag(key, value, word))
    BY <1>1, PlainScopes
  <2>2. Plain(parameters)
    BY <1>1, PlainScopes
  <2>3. Plain(type)
    <3> HIDE DEF parameters
    <3> QED
      BY <1>1, <2>2, PlainType, PlainThen
  <2> DEFINE d == When(definition # "", Fence(<<Text(definition)>>))
             t == When(definition # "" /\ ~typeless, type)
             r == When(definition = "" \/ ~typeless, visit)
             f == flag("@virtual", "virtual", "virtual")
             g == flag("@inline", "yes", "inline")
             h == flag("@explicit", "yes", "explicit")
  <2>4. Plain(d) /\ Plain(t) /\ Plain(r)
    <3> HIDE DEF type, visit, definition, typeless
    <3> QED
      BY <1>1, <2>3, PlainScopes
  <2>5. Plain(f) /\ Plain(g) /\ Plain(h)
    BY <2>1
  <2>6. MemberdefDetails(v) =
          print_anchor(get_id(v))
            \o Header(get_value_as_string_view(v, "name"),
                      f \o g \o h \o d \o t \o r)
    BY DEF MemberdefDetails
  <2> HIDE DEF d, t, r, f, g, h
  <2>7. Plain(f \o g \o h \o d \o t \o r)
    BY <2>4, <2>5, PlainThen
  <2> QED
    BY <2>6, <2>7, PlainHelpers, PlainScopes, PlainThen
<1> QED
  BY <1>2, <1>3

\* The children of a value, each to be handled.
LEMMA PlainChildren ==
  ASSUME NEW v \in Value
  PROVE  /\ Plain(Children(v))
         /\ Len(Children(v)) = Len(Json[v].kids)
         /\ \A i \in 1 .. Len(Json[v].kids) :
              Children(v)[i] = Handle(Json[v].kids[i].key, Json[v].kids[i].value)
<1> DEFINE kids == Json[v].kids
           S == {Handle(e.key, e.value) : e \in elements(v)}
<1>1. /\ kids \in Seq(Element)
      /\ DOMAIN kids = 1 .. Len(kids)
      /\ elements(v) = {kids[i] : i \in 1 .. Len(kids)}
      /\ elements(v) \subseteq Element
  BY JsonAssumption, ElementsOf DEF Element
<1>2. Children(v) =
        [i \in 1 .. Len(kids) |-> Handle(kids[i].key, kids[i].value)]
  BY <1>1 DEF Children
<1>3. Len(kids) \in Nat
  BY <1>1
<1>4. Children(v) \in Seq(S)
  BY <1>1, <1>2, <1>3
<1>5. \A x \in S : IsPlain(x)
  BY <1>1, PlainTasks DEF Element
<1>6. Plain(Children(v))
  <2> HIDE DEF S
  <2> QED
    BY <1>4, <1>5, PlainOf
<1> QED
  BY <1>2, <1>3, <1>6

----------------------------------------------------------------------------
(* Type correctness *)

\* The names that are pushed.
Names == Handled \cup {"#text"}

\* A sequence of tokens.
Printed(s) == \E S : s \in Seq(S) /\ \A x \in S : IsToken(x)

Documents == {j.document : j \in Jobs}

\* The types, and the names that the remaining work is to pop.
StateInv ==
  /\ job.document \in Documents /\ job.folder \in Seq(STRING)
  /\ pass \in {"load", "links", "summary", "details", "done", "failed"}
  /\ external_prefix \in 0 .. Len(job.folder)
  /\ IsFiniteSet(link_container)
  /\ names \in Seq(Names)
  /\ Items(work)
  /\ Nested(names, work)
  /\ Printed(out)
  /\ pass \in {"load", "done", "failed"} => work = <<>>

LEMMA Replaced ==
  ASSUME NEW n, NEW w, NEW items, Items(w), w # <<>>, Nested(n, w),
         Head(w).do # "leave", Plain(items)
  PROVE  /\ Items(items \o Tail(w))
         /\ Nested(n, items \o Tail(w))
<1>1. Items(items) /\ Items(Tail(w))
  BY PlainItems, ItemsOf
<1>2. Items(items \o Tail(w))
  BY <1>1, ItemsThen
<1> QED
  BY <1>2, NestedReplaced

\* The item that is next, and its value.
LEMMA NextItem ==
  ASSUME Items(work), work # <<>>
  PROVE  /\ IsItem(Head(work))
         /\ Items(Tail(work))
         /\ Head(work).do \in {"handle", "call", "print"} => input \in Value
<1>1. IsItem(Head(work)) /\ Items(Tail(work))
  BY ItemsOf
<1> QED
  BY <1>1 DEF IsItem, IsToken, input

\* The bodies that have no name of their own.
LEMMA PlainOthers ==
  ASSUME NEW v \in Value
  PROVE  /\ Plain(<<>>) /\ Plain(<<Visit(v)>>)
         /\ Plain(IF is_summary THEN MemberdefSummary(v)
                                ELSE MemberdefDetails(v))
         /\ Plain(IF is_string(v) THEN print_inline_code(Json[v].text)
                                  ELSE <<Visit(v)>>)
         /\ Plain(When(~is_summary, <<Visit(v)>>))
         /\ \A t : Plain(<<Text(t), Visit(v)>>)
         /\ \A t, u : Plain(<<Text(t), Visit(v), Text(u)>>)
<1>1. Plain(<<>>) /\ Plain(<<Visit(v)>>)
  BY PlainTasks, PlainFew
<1>2. \A t : Plain(<<Text(t), Visit(v)>>)
  BY PlainTasks, PlainFew
<1>3. \A t, u : Plain(<<Text(t), Visit(v), Text(u)>>)
  BY PlainTasks, PlainFew
<1>4. Plain(IF is_summary THEN MemberdefSummary(v) ELSE MemberdefDetails(v))
  BY PlainMember
<1> DEFINE visit == <<Visit(v)>>
<1>5. Plain(visit)
  BY <1>1
<1> HIDE DEF visit
<1>6. Plain(IF is_string(v) THEN print_inline_code(Json[v].text) ELSE visit)
  BY <1>5, PlainHelpers
<1>7. Plain(When(~is_summary, visit))
  BY <1>5, PlainScopes
<1> QED
  BY <1>1, <1>2, <1>3, <1>4, <1>6, <1>7 DEF visit

\* A handler replaces its call by what it does, and changes nothing else.
LEMMA HandlersReplace ==
  ASSUME Items(work), Handlers
  PROVE  /\ IsNext("call") /\ ~is_add_links
         /\ UNCHANGED <<state, links, names, out>>
         /\ \E items : Plain(items) /\ work' = items \o Tail(work)
<1> DEFINE Goal == /\ IsNext("call") /\ ~is_add_links
                   /\ UNCHANGED <<state, links, names, out>>
                   /\ \E items : Plain(items) /\ work' = items \o Tail(work)
<1>1. IsNext("call") => input \in Value
  BY NextItem DEF IsNext
<1> SUFFICES Goal
  OBVIOUS
<1>2. CASE handle_compounddef
  BY <1>1, <1>2, PlainCompound DEF handle_compounddef, Handler, Becomes
<1>3. CASE handle_detaileddescription
  BY <1>1, <1>3, PlainBodies DEF handle_detaileddescription, Handler, Becomes
<1>4. CASE handle_briefdescription
  BY <1>1, <1>4, PlainBodies DEF handle_briefdescription, Handler, Becomes
<1>5. CASE handle_basecompoundref
  BY <1>1, <1>5, PlainBodies DEF handle_basecompoundref, Handler, Becomes
<1>6. CASE handle_innerclass
  BY <1>1, <1>6, PlainBodies DEF handle_innerclass, Handler, Becomes
<1>7. CASE handle_listofallmembers
  BY <1>1, <1>7, PlainBodies DEF handle_listofallmembers, Handler, Becomes
<1>8. CASE handle_member
  BY <1>1, <1>8, PlainBodies DEF handle_member, Handler, Becomes
<1>9. CASE handle_sectiondef
  BY <1>1, <1>9, PlainBodies DEF handle_sectiondef, Handler, Becomes
<1>10. CASE handle_memberdef
  BY <1>1, <1>10, PlainOthers DEF handle_memberdef, Handler, Becomes
<1>11. CASE handle_enumvalue
  BY <1>1, <1>11, PlainBodies DEF handle_enumvalue, Handler, Becomes
<1>12. CASE handle_param
  BY <1>1, <1>12, PlainBodies DEF handle_param, Handler, Becomes
<1>13. CASE handle_itemizedlist
  BY <1>1, <1>13, PlainBodies DEF handle_itemizedlist, Handler, Becomes
<1>14. CASE handle_programlisting
  BY <1>1, <1>14, PlainBodies DEF handle_programlisting, Handler, Becomes
<1>15. CASE handle_codeline
  BY <1>1, <1>15, PlainOthers DEF handle_codeline, Handler, Becomes
<1>16. CASE handle_simplesect
  BY <1>1, <1>16, PlainBodies DEF handle_simplesect, Handler, Becomes
<1>17. CASE handle_ref
  BY <1>1, <1>17, PlainBodies DEF handle_ref, Handler, Becomes
<1>18. CASE handle_computeroutput
  BY <1>1, <1>18, PlainOthers DEF handle_computeroutput, Handler, Becomes
<1>19. CASE handle_emphasis
  BY <1>1, <1>19, PlainOthers DEF handle_emphasis, Handler, Becomes
<1>20. CASE handle_listitem
  BY <1>1, <1>20, PlainOthers DEF handle_listitem, Handler, Becomes
<1>21. CASE handle_sp
  BY <1>1, <1>21, PlainOthers DEF handle_sp, Handler, Becomes
<1>22. CASE handle_templateparamlist
  BY <1>1, <1>22, PlainOthers DEF handle_templateparamlist, Handler, Becomes
<1>23. CASE \/ handle_doxygen
           \/ handle_highlight
           \/ handle_inbodydescription
           \/ handle_location
           \/ handle_para
           \/ handle_hashtag_text
  BY <1>1, <1>23, PlainOthers
  DEF handle_doxygen, handle_highlight, handle_inbodydescription,
      handle_location, handle_para, handle_hashtag_text,
      Handler, Becomes
<1>24. CASE \/ handle_argsstring
           \/ handle_compoundname
           \/ handle_declname
           \/ handle_definition
           \/ handle_innerfile
           \/ handle_name
           \/ handle_title_type
  BY <1>1, <1>24, PlainOthers
  DEF handle_argsstring, handle_compoundname, handle_declname,
      handle_definition, handle_innerfile, handle_name, handle_title_type,
      Handler, Becomes
<1> QED
  BY <1>2, <1>3, <1>4, <1>5, <1>6, <1>7, <1>8, <1>9, <1>10, <1>11, <1>12,
     <1>13, <1>14, <1>15, <1>16, <1>17, <1>18, <1>19, <1>20, <1>21, <1>22,
     <1>23, <1>24
  DEF Handlers

\* A pass starts with the document and no name.
LEMMA PassStarts ==
  ASSUME names \in Seq(Names), Nested(names, work), work = <<>>,
         job.document \in Documents
  PROVE  /\ Items(<<Handle("doxygen", job.document)>>)
         /\ Nested(names, <<Handle("doxygen", job.document)>>)
<1> DEFINE start == Handle("doxygen", job.document)
<1>1. job.document \in Value
  BY JobAssumption DEF Documents
<1>2. IsPlain(start) /\ start.do # "leave"
  BY <1>1, PlainTasks DEF Handle, Do
<1> HIDE DEF start
<1>3. Items(<<start>>)
  BY <1>2, PlainFew, PlainItems
<1>4. Nested(<<>>, <<start>>)
  BY <1>2, NestedStart
<1>5. names = <<>>
  BY NestedEmpty
<1> QED
  BY <1>3, <1>4, <1>5 DEF start

LEMMA PrintedMore ==
  ASSUME NEW s, NEW x, Printed(s), IsToken(x)
  PROVE  Printed(Append(s, x))
<1>1. PICK S : s \in Seq(S) /\ \A y \in S : IsToken(y)
  BY DEF Printed
<1>2. Append(s, x) \in Seq(S \cup {x})
  BY <1>1
<1>3. \A y \in S \cup {x} : IsToken(y)
  BY <1>1
<1> QED
  BY <1>2, <1>3 DEF Printed

\* What a step of a pass leaves to do.
LEMMA StepReplaces ==
  ASSUME StateInv, work # <<>>, Head(work).do # "leave",
         UNCHANGED <<job, pass, external_prefix, names>>,
         NEW items, Plain(items), work' = items \o Tail(work)
  PROVE  /\ names' \in Seq(Names)
         /\ Items(work') /\ Nested(names', work')
         /\ job'.document \in Documents /\ job'.folder \in Seq(STRING)
         /\ pass' \in {"load", "links", "summary", "details", "done", "failed"}
         /\ external_prefix' \in 0 .. Len(job'.folder)
         /\ pass' \notin {"load", "done", "failed"}
<1>1. Items(items \o Tail(work)) /\ Nested(names, items \o Tail(work))
  BY Replaced DEF StateInv
<1> QED
  BY <1>1 DEF StateInv

\* Nothing is left to do, printed or gathered by a new DoxyJson.
LEMMA NothingYet ==
  /\ Items(<<>>) /\ Printed(<<>>)
  /\ <<>> \in Seq(Names) /\ Nested(<<>>, <<>>)
  /\ IsFiniteSet({})
<1>1. Items(<<>>)
  BY PlainFew, PlainItems
<1>2. PICK n : n = <<>>
  OBVIOUS
<1>3. Nested(n, n)
  <2> DEFINE at == [i \in 1 .. 0 |-> i]
  <2>1. PoppedAt(n, n, at)
    BY <1>2 DEF PoppedAt
  <2> QED
    BY <1>2, <2>1 DEF Nested
<1>4. Printed(n)
  <2>1. n \in Seq({}) /\ \A y \in {} : IsToken(y)
    BY <1>2
  <2> QED
    BY <2>1 DEF Printed
<1> QED
  BY <1>1, <1>2, <1>3, <1>4, FS_EmptySet

\* A step keeps the types.
LEMMA StateNext == StateInv /\ [Next]_vars => StateInv'
<1> SUFFICES ASSUME StateInv, [Next]_vars  PROVE StateInv'
  OBVIOUS
<1>1. CASE Load
  <2>1. /\ job' = job /\ names' = names /\ out' = out
        /\ link_container' = link_container
        /\ work = <<>> /\ job.document \in Documents
        /\ names \in Seq(Names) /\ Nested(names, work)
    BY <1>1 DEF Load, StateInv, links
  <2>2. external_prefix' \in 0 .. Len(job'.folder)
    BY <1>1, <2>1, JobAssumption DEF Load, StateInv
  <2>3. \/ pass' = "failed" /\ work' = work
        \/ pass' = "links" /\ work' = <<Handle("doxygen", job.document)>>
    BY <1>1 DEF Load
  <2>4. Items(work') /\ Nested(names', work')
    BY <2>1, <2>3, PassStarts DEF StateInv
  <2> QED
    BY <2>1, <2>2, <2>3, <2>4 DEF StateInv
<1>2. CASE ProcessSummary \/ ProcessDetails
  <2>1. /\ job' = job /\ names' = names /\ out' = out
        /\ external_prefix' = external_prefix
        /\ link_container' = link_container
        /\ work = <<>> /\ pass' \in {"summary", "details"}
        /\ work' = <<Handle("doxygen", job.document)>>
    BY <1>2 DEF ProcessSummary, ProcessDetails, StartPass, links
  <2>2. Items(work') /\ Nested(names', work')
    BY <2>1, PassStarts DEF StateInv
  <2> QED
    BY <2>1, <2>2 DEF StateInv
<1>3. CASE Finish
  <2>1. IsFiniteSet(link_container')
    BY <1>3, FS_AddElement DEF Finish, StateInv
  <2> QED
    BY <1>3, <2>1 DEF Finish, StateInv
<1>4. CASE Dispatch
  <2>1. /\ work # <<>> /\ Head(work).do = "handle" /\ input \in Value
        /\ UNCHANGED <<job, pass, external_prefix, link_container, out>>
    BY <1>4, NextItem DEF Dispatch, IsNext, StateInv, state, links
  <2>2. CASE HasHandler(element)
    <3>1. /\ names' = Append(names, element)
          /\ work' = <<Call(element, input), Leave(element, input)>>
                       \o Tail(work)
      BY <1>4, <2>2 DEF Dispatch, Becomes
    <3>2. element \in Names
      BY <2>2 DEF Names, HasHandler
    <3>3. Nested(Append(names, element),
                 <<Call(element, input), Leave(element, input)>>
                   \o Tail(work))
      BY <2>1, <3>2, NestedPushed DEF StateInv
    <3>4. Items(<<Call(element, input), Leave(element, input)>>
                  \o Tail(work))
      <4>1. PICK pair : pair = <<Call(element, input), Leave(element, input)>>
        OBVIOUS
      <4>2. \A x \in {Call(element, input), Leave(element, input)} : IsItem(x)
        BY <2>1 DEF IsItem, Call, Leave, Do
      <4>3. pair \in Seq({Call(element, input), Leave(element, input)})
        BY <4>1
      <4>4. Items(pair)
        BY <4>2, <4>3 DEF Items
      <4>5. Items(pair \o Tail(work))
        BY <2>1, <4>4, NextItem, ItemsThen DEF StateInv
      <4> QED
        BY <4>1, <4>5
    <3>5. names' \in Seq(Names)
      BY <3>1, <3>2 DEF StateInv
    <3>6. Items(work') /\ Nested(names', work')
      BY <3>1, <3>3, <3>4
    <3> QED
      BY <2>1, <3>5, <3>6 DEF StateInv
  <2>3. CASE ~HasHandler(element)
    <3>1. names' = names /\ work' = <<>> \o Tail(work)
      BY <1>4, <2>3 DEF Dispatch, Becomes
    <3>2. Plain(<<>>)
      BY PlainFew
    <3> QED
      BY <2>1, <3>1, <3>2, StepReplaces DEF StateInv
  <2> QED
    BY <2>2, <2>3
<1>5. CASE PopName
  <2>1. /\ work # <<>> /\ Head(work).do = "leave"
        /\ names' = Front(names) /\ work' = <<>> \o Tail(work)
        /\ UNCHANGED <<job, pass, external_prefix, link_container, out>>
    BY <1>5 DEF PopName, IsNext, Becomes, state, links
  <2>2. Items(Tail(work))
    BY <2>1, NextItem DEF StateInv
  <2>3. work' = Tail(work)
    BY <2>1, <2>2 DEF Items
  <2>4. Front(names) \in Seq(Names) /\ Nested(Front(names), Tail(work))
    BY <2>1, NestedPopped DEF StateInv
  <2>5. names' \in Seq(Names) /\ Items(work') /\ Nested(names', work')
    BY <2>1, <2>2, <2>3, <2>4
  <2> QED
    BY <2>1, <2>5 DEF StateInv
<1>6. CASE PrintValue
  <2>1. /\ work # <<>> /\ Head(work).do = "print" /\ input \in Value
        /\ UNCHANGED <<job, pass, external_prefix, link_container, out, names>>
    BY <1>6, NextItem DEF PrintValue, IsNext, StateInv, state, links
  <2> DEFINE items == IF is_string(input)
                        THEN When(~is_add_links, <<Text(Json[input].text)>>)
                        ELSE Children(input)
  <2>2. Plain(items)
    <3>1. Plain(<<Text(Json[input].text)>>)
      BY PlainTasks, PlainFew
    <3>2. Plain(When(~is_add_links, <<Text(Json[input].text)>>))
      BY <3>1, PlainScopes
    <3> QED
      BY <2>1, <3>2, PlainChildren
  <2>3. work' = items \o Tail(work)
    BY <1>6 DEF PrintValue, Becomes
  <2> HIDE DEF items
  <2> QED
    BY <2>1, <2>2, <2>3, StepReplaces DEF StateInv
<1>7. CASE Emit
  <2>1. /\ work # <<>> /\ IsToken(Head(work)) /\ work' = <<>> \o Tail(work)
        /\ out' = Append(out, Head(work))
        /\ UNCHANGED <<job, pass, external_prefix, link_container, names>>
    BY <1>7 DEF Emit, Becomes, state, links
  <2>2. Head(work).do # "leave"
    BY <2>1 DEF IsToken
  <2>3. Plain(<<>>)
    BY PlainFew
  <2>4. Printed(Append(out, Head(work)))
    BY <2>1, PrintedMore DEF StateInv
  <2>5. Printed(out')
    BY <2>1, <2>4
  <2> QED
    BY <2>1, <2>2, <2>3, <2>5, StepReplaces DEF StateInv
<1>8. CASE AddLinks \/ CompounddefLinks
  <2>1. /\ work # <<>> /\ Head(work).do = "call" /\ input \in Value
        /\ UNCHANGED <<job, pass, external_prefix, out, names>>
        /\ work' = <<Visit(input)>> \o Tail(work)
    BY <1>8, NextItem
    DEF AddLinks, CompounddefLinks, IsNext, Becomes, StateInv, state
  <2>2. IsFiniteSet(link_container')
    <3>1. IsFiniteSet({get_id(input)} \ {<<>>})
      BY FS_Singleton, FS_Difference
    <3>2. IsFiniteSet(link_container \cup ({get_id(input)} \ {<<>>}))
      BY <3>1, FS_Union DEF StateInv
    <3> QED
      BY <1>8, <3>2 DEF AddLinks, CompounddefLinks, StateInv
  <2>3. Plain(<<Visit(input)>>)
    BY <2>1, PlainTasks, PlainFew
  <2> QED
    BY <2>1, <2>2, <2>3, StepReplaces DEF StateInv
<1>9. CASE Handlers
  <2>1. /\ work # <<>> /\ Head(work).do = "call"
        /\ UNCHANGED <<job, pass, external_prefix, link_container, out, names>>
    BY <1>9, HandlersReplace DEF StateInv, IsNext, state, links
  <2>2. PICK items : Plain(items) /\ work' = items \o Tail(work)
    BY <1>9, HandlersReplace DEF StateInv
  <2> QED
    BY <2>1, <2>2, StepReplaces DEF StateInv
<1>10. CASE UNCHANGED vars
  BY <1>10 DEF StateInv, vars, state, links
<1> QED
  BY <1>1, <1>2, <1>3, <1>4, <1>5, <1>6, <1>7, <1>8, <1>9, <1>10
  DEF Next, Step, Ended

LEMMA StateInvariant == Spec => []StateInv
<1>1. Init => StateInv
  BY NothingYet, JobAssumption DEF Init, StateInv, Documents
<1> QED
  BY <1>1, StateNext, PTL DEF Spec

\* The job stays what it is.
LEMMA JobStays == StateInv /\ [Next]_vars => UNCHANGED job
<1>1. ASSUME StateInv, Handlers  PROVE UNCHANGED job
  BY <1>1, HandlersReplace DEF StateInv, state
<1> QED
  BY <1>1
  DEF Next, Step, Ended, vars, state, Load, ProcessSummary, ProcessDetails,
      StartPass, Finish, Dispatch, PopName, PrintValue, Emit, AddLinks,
      CompounddefLinks

LEMMA JobInvariant == Spec => [](job \in Jobs)
<1>1. Init => job \in Jobs
  BY DEF Init
<1>2. job \in Jobs /\ UNCHANGED job => (job \in Jobs)'
  OBVIOUS
<1> QED
  BY <1>1, <1>2, JobStays, StateInvariant, PTL DEF Spec

----------------------------------------------------------------------------
(* The ids that are still to be gathered *)

\* The ids an item of the remaining work stands for.
PendingIds(x) ==
  IF x.do \in {"handle", "call"}
    THEN AllIds[[key |-> x.key, value |-> x.value]]
  ELSE IF x.do = "print" THEN UNION {AllIds[kid] : kid \in elements(x.value)}
  ELSE {}

Pending(w) == UNION {PendingIds(w[i]) : i \in 1 .. Len(w)}

LEMMA PendingFew ==
  /\ Pending(<<>>) = {}
  /\ \A x : Pending(<<x>>) = PendingIds(x)
  /\ \A x, y : Pending(<<x, y>>) = PendingIds(x) \cup PendingIds(y)
<1>1. Pending(<<>>) = {}
  BY DEF Pending
<1>2. ASSUME NEW x  PROVE Pending(<<x>>) = PendingIds(x)
  <2>1. {PendingIds(<<x>>[i]) : i \in 1 .. Len(<<x>>)} = {PendingIds(x)}
    OBVIOUS
  <2> QED
    BY <2>1 DEF Pending
<1>3. ASSUME NEW x, NEW y
      PROVE  Pending(<<x, y>>) = PendingIds(x) \cup PendingIds(y)
  <2>1. {PendingIds(<<x, y>>[i]) : i \in 1 .. Len(<<x, y>>)} =
          {PendingIds(x), PendingIds(y)}
    OBVIOUS
  <2> QED
    BY <2>1 DEF Pending
<1> QED
  BY <1>1, <1>2, <1>3

LEMMA PendingThen ==
  ASSUME NEW s, NEW t, Items(s), Items(t)
  PROVE  Pending(s \o t) = Pending(s) \cup Pending(t)
<1> DEFINE u == s \o t
<1>1. /\ Len(s) \in Nat /\ Len(t) \in Nat
      /\ Len(u) = Len(s) + Len(t)
      /\ \A i \in 1 .. Len(s) : u[i] = s[i]
      /\ \A i \in 1 .. Len(t) : u[Len(s) + i] = t[i]
  BY ItemsOf, ItemsThen
<1> HIDE DEF u
<1>2. ASSUME NEW id \in Pending(u)  PROVE id \in Pending(s) \cup Pending(t)
  <2>1. PICK i \in 1 .. Len(u) : id \in PendingIds(u[i])
    BY <1>2 DEF Pending
  <2>2. CASE i <= Len(s)
    BY <1>1, <2>1, <2>2 DEF Pending
  <2>3. CASE i > Len(s)
    <3>1. i - Len(s) \in 1 .. Len(t) /\ Len(s) + (i - Len(s)) = i
      BY <1>1, <2>1, <2>3
    <3>2. u[i] = t[i - Len(s)]
      BY <1>1, <3>1
    <3> QED
      BY <2>1, <3>1, <3>2 DEF Pending
  <2> QED
    BY <1>1, <2>1, <2>2, <2>3
<1>3. ASSUME NEW id \in Pending(s)  PROVE id \in Pending(u)
  <2>1. PICK i \in 1 .. Len(s) : id \in PendingIds(s[i])
    BY <1>3 DEF Pending
  <2>2. i \in 1 .. Len(u) /\ u[i] = s[i]
    BY <1>1
  <2> QED
    BY <2>1, <2>2 DEF Pending
<1>4. ASSUME NEW id \in Pending(t)  PROVE id \in Pending(u)
  <2>1. PICK i \in 1 .. Len(t) : id \in PendingIds(t[i])
    BY <1>4 DEF Pending
  <2>2. Len(s) + i \in 1 .. Len(u) /\ u[Len(s) + i] = t[i]
    BY <1>1
  <2> QED
    BY <2>1, <2>2 DEF Pending
<1>5. Pending(u) = Pending(s) \cup Pending(t)
  BY <1>2, <1>3, <1>4
<1> QED
  BY <1>5 DEF u

\* The next item and the rest.
LEMMA PendingSplit ==
  ASSUME NEW w, Items(w), w # <<>>
  PROVE  Pending(w) = PendingIds(Head(w)) \cup Pending(Tail(w))
<1>1. /\ Len(w) \in Nat /\ Len(w) > 0 /\ Head(w) = w[1]
      /\ Len(Tail(w)) = Len(w) - 1
      /\ \A i \in 1 .. Len(w) - 1 : Tail(w)[i] = w[i + 1]
  BY ItemsOf
<1>2. ASSUME NEW id \in Pending(w)
      PROVE  id \in PendingIds(Head(w)) \cup Pending(Tail(w))
  <2>1. PICK i \in 1 .. Len(w) : id \in PendingIds(w[i])
    BY <1>2 DEF Pending
  <2>2. CASE i # 1
    <3>1. i - 1 \in 1 .. Len(w) - 1 /\ i - 1 + 1 = i
      BY <1>1, <2>2
    <3>2. Tail(w)[i - 1] = w[i]
      BY <1>1, <3>1
    <3> QED
      BY <1>1, <2>1, <3>1, <3>2 DEF Pending
  <2> QED
    BY <1>1, <2>1, <2>2
<1>3. ASSUME NEW id \in PendingIds(Head(w))  PROVE id \in Pending(w)
  BY <1>1, <1>3 DEF Pending
<1>4. ASSUME NEW id \in Pending(Tail(w))  PROVE id \in Pending(w)
  <2>1. PICK i \in 1 .. Len(w) - 1 : id \in PendingIds(Tail(w)[i])
    BY <1>1, <1>4 DEF Pending
  <2>2. i + 1 \in 1 .. Len(w) /\ Tail(w)[i] = w[i + 1]
    BY <1>1
  <2> QED
    BY <2>1, <2>2 DEF Pending
<1> QED
  BY <1>2, <1>3, <1>4

\* A call stands for the ids of its element, a value for those of its children.
LEMMA PendingTasks ==
  /\ \A key, v : PendingIds(Handle(key, v)) = AllIds[[key |-> key, value |-> v]]
  /\ \A key, v : PendingIds(Call(key, v)) = AllIds[[key |-> key, value |-> v]]
  /\ \A key, v : PendingIds(Leave(key, v)) = {}
  /\ \A v : PendingIds(Visit(v)) = UNION {AllIds[kid] : kid \in elements(v)}
BY DEF PendingIds, Handle, Call, Leave, Visit, Do

\* The children of a value stand for the ids in it.
LEMMA PendingOfChildren ==
  ASSUME NEW v \in Value
  PROVE  Pending(Children(v)) = UNION {AllIds[kid] : kid \in elements(v)}
<1> DEFINE kids == Json[v].kids
<1>1. /\ elements(v) = {kids[i] : i \in 1 .. Len(kids)}
      /\ elements(v) \subseteq Element
  BY ElementsOf
<1>2. /\ Len(Children(v)) = Len(kids)
      /\ \A i \in 1 .. Len(kids) :
           Children(v)[i] = Handle(kids[i].key, kids[i].value)
  BY PlainChildren
<1>3. ASSUME NEW i \in 1 .. Len(kids)
      PROVE  PendingIds(Children(v)[i]) = AllIds[kids[i]]
  <2>1. kids[i] \in Element
    BY <1>1
  <2>2. kids[i] = [key |-> kids[i].key, value |-> kids[i].value]
    BY <2>1 DEF Element
  <2> QED
    BY <1>2, <2>2, PendingTasks
<1> HIDE DEF kids
<1>4. {PendingIds(Children(v)[i]) : i \in 1 .. Len(Children(v))} =
        {AllIds[kid] : kid \in elements(v)}
  BY <1>1, <1>2, <1>3
<1> QED
  BY <1>4 DEF Pending

----------------------------------------------------------------------------
(* The links pass *)

\* What the links pass over document d has to do: its calls are of elements in
\* the document, and the compound is the one of the document.
LinksItem(x, d) ==
  /\ x.do \in {"handle", "call", "print", "leave"}
  /\ x.do \in {"handle", "call"} =>
       /\ x.key \in STRING
       /\ \/ x.value = d /\ x.key = "doxygen"
          \/ /\ x.value \notin Documents
             /\ x.key = "compounddef" => x.value = get_value(d, "compounddef")
  /\ x.do = "call" => HasHandler(x.key)
  /\ x.do = "print" => x.value = d \/ x.value \notin Documents

Expected(w, d) == \A i \in 1 .. Len(w) : LinksItem(w[i], d)

\* The compound is still to be reached.
LeadsToCompound(x, d) ==
  \/ x.do \in {"handle", "call", "print"} /\ x.value = d
  \/ x.do \in {"handle", "call"} /\ x.key = "compounddef"

CompoundAhead(w, d) == \E i \in 1 .. Len(w) : LeadsToCompound(w[i], d)

\* The gathered ids and those still to be gathered are the ids of the document.
\* The id of the page is known once the compound has been reached.
LinksInv ==
  /\ compound_def_id \in {<<>>, get_id(compound)}
  /\ pass \in {"load", "links"} => out = <<>>
  /\ pass = "load" => link_container = {}
  /\ pass = "links" =>
       /\ Expected(work, job.document)
       /\ link_container \cup Pending(work) = AllIds[document]
       /\ \/ compound_def_id = get_id(compound)
          \/ CompoundAhead(work, job.document)
  /\ pass \in {"summary", "details"} =>
       /\ link_container = AllIds[document]
       /\ compound_def_id = get_id(compound)
  /\ pass = "done" =>
       link_container = AllIds[document] \cup {get_id(compound)}

\* A step that replaces the next item by others.
LEMMA PassContinues ==
  ASSUME NEW w, NEW items, NEW d, Items(w), w # <<>>, Items(items),
         Expected(w, d), Expected(items, d)
  PROVE  /\ Expected(items \o Tail(w), d)
         /\ CompoundAhead(items, d) => CompoundAhead(items \o Tail(w), d)
         /\ CompoundAhead(w, d) /\ ~LeadsToCompound(Head(w), d) =>
              CompoundAhead(items \o Tail(w), d)
<1> DEFINE v == items \o Tail(w)
<1>1. /\ Items(Tail(w)) /\ Len(items) \in Nat
      /\ Len(w) \in Nat /\ Len(w) > 0 /\ Head(w) = w[1]
      /\ Len(Tail(w)) = Len(w) - 1
      /\ \A i \in 1 .. Len(w) - 1 : Tail(w)[i] = w[i + 1]
  BY ItemsOf
<1>2. /\ Len(v) = Len(items) + Len(w) - 1
      /\ \A i \in 1 .. Len(items) : v[i] = items[i]
      /\ \A i \in 1 .. Len(w) - 1 : v[Len(items) + i] = w[i + 1]
  <2>1. /\ Len(v) = Len(items) + Len(Tail(w))
        /\ \A i \in 1 .. Len(items) : v[i] = items[i]
        /\ \A i \in 1 .. Len(Tail(w)) : v[Len(items) + i] = Tail(w)[i]
    BY <1>1, ItemsThen
  <2> HIDE DEF v
  <2> QED
    BY <1>1, <2>1
<1> HIDE DEF v
<1>3. Expected(v, d)
  <2> SUFFICES ASSUME NEW i \in 1 .. Len(v)  PROVE LinksItem(v[i], d)
    BY DEF Expected
  <2>1. CASE i \in 1 .. Len(items)
    BY <1>2, <2>1 DEF Expected
  <2>2. CASE i \notin 1 .. Len(items)
    <3>1. /\ i - Len(items) \in 1 .. Len(w) - 1
          /\ i - Len(items) + 1 \in 1 .. Len(w)
          /\ Len(items) + (i - Len(items)) = i
      BY <1>1, <1>2, <2>2
    <3>2. v[i] = w[i - Len(items) + 1]
      BY <1>2, <3>1
    <3> QED
      BY <3>1, <3>2 DEF Expected
  <2> QED
    BY <2>1, <2>2
<1>4. ASSUME CompoundAhead(items, d)  PROVE CompoundAhead(v, d)
  <2>1. PICK i \in 1 .. Len(items) : LeadsToCompound(items[i], d)
    BY <1>4 DEF CompoundAhead
  <2>2. i \in 1 .. Len(v) /\ v[i] = items[i]
    BY <1>1, <1>2
  <2> QED
    BY <2>1, <2>2 DEF CompoundAhead
<1>5. ASSUME CompoundAhead(w, d), ~LeadsToCompound(Head(w), d)
      PROVE  CompoundAhead(v, d)
  <2>1. PICK i \in 1 .. Len(w) : LeadsToCompound(w[i], d)
    BY <1>5 DEF CompoundAhead
  <2>2. i # 1
    BY <1>1, <1>5, <2>1
  <2>3. PICK k \in 1 .. Len(w) - 1 : k + 1 = i
    <3>1. i - 1 \in 1 .. Len(w) - 1 /\ i - 1 + 1 = i
      BY <1>1, <2>2
    <3> QED
      BY <3>1
  <2>4. Len(items) + k \in 1 .. Len(v)
    BY <1>1, <1>2
  <2>5. v[Len(items) + k] = w[i]
    BY <1>2, <2>3
  <2> QED
    BY <2>1, <2>4, <2>5 DEF CompoundAhead
<1> QED
  BY <1>3, <1>4, <1>5 DEF v

\* A value that is not there has no id, so a page without compound has none.
LEMMA NoCompoundNoId ==
  ASSUME NEW d \in Value
  PROVE  \/ \E e \in elements(d) : e.key = "compounddef"
         \/ get_id(get_value(d, "compounddef")) = <<>>
<1>1. CASE get_value(d, "compounddef") = JsonNull
  <2>1. JsonNull \in Value /\ Json[JsonNull].kids = <<>> /\ Json[JsonNull].id = <<>>
    BY JsonAssumption
  <2>2. elements(JsonNull) = {}
    BY <2>1 DEF elements, ToSet
  <2>3. get_value(JsonNull, "@id") = JsonNull
    BY <2>1, <2>2, ValueFound
  <2> QED
    BY <1>1, <2>1, <2>3 DEF get_id
<1> QED
  BY <1>1, ValueFound

\* The equation of AllIds, by cases.
LEMMA IdsByCases ==
  ASSUME NEW key \in STRING, NEW v \in Value
  PROVE  LET e == [key |-> key, value |-> v]
             inside == UNION {AllIds[kid] : kid \in elements(v)}
         IN  /\ ~HasHandler(key) => AllIds[e] = {}
             /\ HasHandler(key) /\ key = "compounddef" => AllIds[e] = inside
             /\ HasHandler(key) /\ key # "compounddef" =>
                  AllIds[e] = ({get_id(v)} \ {<<>>}) \cup inside
<1>1. [key |-> key, value |-> v] \in Element
  BY DEF Element
<1> DEFINE own == [e \in Element |-> IF e.key = "compounddef" THEN {}
                                    ELSE {get_id(e.value)} \ {<<>>}]
           outside == {e \in Element : ~HasHandler(e.key)}
<1>2. AllIds = Gathered(own, outside)
  BY DEF AllIds
<1> HIDE DEF own, outside
<1>3. AllIds[[key |-> key, value |-> v]] =
        GatheredWith(AllIds, own, outside, [key |-> key, value |-> v])
  BY <1>1, <1>2, GatheredOfElement
<1> QED
  BY <1>1, <1>3 DEF GatheredWith, own, outside

\* A step of the links pass.
LEMMA LinksStep ==
  ASSUME StateInv, LinksInv, pass = "links", work # <<>>,
         UNCHANGED <<job, pass, out>>,
         NEW items, Items(items), Expected(items, job.document),
         work' = items \o Tail(work),
         link_container' \cup Pending(items) =
           link_container \cup PendingIds(Head(work)),
         compound_def_id' \in {<<>>, get_id(compound)},
         \/ compound_def_id' = get_id(compound)
         \/ CompoundAhead(items, job.document)
         \/ /\ CompoundAhead(work, job.document)
            /\ ~LeadsToCompound(Head(work), job.document)
  PROVE  LinksInv'
<1> DEFINE d == job.document
           next == items \o Tail(work)
<1>1. /\ Items(work) /\ Expected(work, d)
      /\ link_container \cup Pending(work) = AllIds[document]
  BY DEF StateInv, LinksInv
<1>2. link_container' \cup Pending(next) = AllIds[document]
  <2>1. Pending(next) = Pending(items) \cup Pending(Tail(work))
    BY <1>1, ItemsOf, PendingThen
  <2>2. Pending(work) = PendingIds(Head(work)) \cup Pending(Tail(work))
    BY <1>1, PendingSplit
  <2> QED
    BY <1>1, <2>1, <2>2
<1>3. /\ Expected(next, d)
      /\ CompoundAhead(items, d) => CompoundAhead(next, d)
      /\ CompoundAhead(work, d) /\ ~LeadsToCompound(Head(work), d) =>
           CompoundAhead(next, d)
  BY <1>1, PassContinues
<1>4. /\ Expected(work', job'.document)
      /\ link_container' \cup Pending(work') = AllIds[document]
      /\ \/ compound_def_id' = get_id(compound)
         \/ CompoundAhead(work', job'.document)
  BY <1>2, <1>3
<1>5. document' = document /\ get_id(compound)' = get_id(compound)
  BY DEF document, compound
<1>6. pass' = "links" /\ out' = <<>>
  BY DEF LinksInv
<1> QED
  BY <1>4, <1>5, <1>6 DEF LinksInv

\* What is next in the links pass.
LEMMA NextLinksItem ==
  ASSUME StateInv, LinksInv, pass = "links", work # <<>>
  PROVE  /\ LinksItem(Head(work), job.document)
         /\ job.document \in Value /\ job.document \in Documents
<1>1. Head(work) = work[1] /\ Len(work) \in Nat /\ Len(work) > 0
  BY ItemsOf DEF StateInv
<1> QED
  BY <1>1, JobAssumption DEF LinksInv, StateInv, Expected, Documents

\* One or two items are what they are one by one.
LEMMA ExpectedFew ==
  ASSUME NEW d
  PROVE  /\ Expected(<<>>, d)
         /\ \A x : LinksItem(x, d) => Expected(<<x>>, d)
         /\ \A x, y : LinksItem(x, d) /\ LinksItem(y, d) => Expected(<<x, y>>, d)
         /\ \A x : LeadsToCompound(x, d) => CompoundAhead(<<x>>, d)
         /\ \A x, y : LeadsToCompound(x, d) => CompoundAhead(<<x, y>>, d)
<1>1. Expected(<<>>, d)
  BY DEF Expected
<1>2. ASSUME NEW x, LinksItem(x, d)  PROVE Expected(<<x>>, d)
  BY <1>2 DEF Expected
<1>3. ASSUME NEW x, NEW y, LinksItem(x, d), LinksItem(y, d)
      PROVE  Expected(<<x, y>>, d)
  <2>1. \A i \in 1 .. Len(<<x, y>>) : <<x, y>>[i] = x \/ <<x, y>>[i] = y
    OBVIOUS
  <2> QED
    BY <1>3, <2>1 DEF Expected
<1>4. ASSUME NEW x, LeadsToCompound(x, d)  PROVE CompoundAhead(<<x>>, d)
  <2>1. 1 \in 1 .. Len(<<x>>) /\ <<x>>[1] = x
    OBVIOUS
  <2> QED
    BY <1>4, <2>1 DEF CompoundAhead
<1>5. ASSUME NEW x, NEW y, LeadsToCompound(x, d)
      PROVE  CompoundAhead(<<x, y>>, d)
  <2>1. 1 \in 1 .. Len(<<x, y>>) /\ <<x, y>>[1] = x
    OBVIOUS
  <2> QED
    BY <1>5, <2>1 DEF CompoundAhead
<1> QED
  BY <1>1, <1>2, <1>3, <1>4, <1>5

\* The children of a value in the document are in the document, and one of them
\* is the compound if the value is the document and has one.
LEMMA ExpectedChildren ==
  ASSUME NEW d \in Value, d \in Documents, NEW v \in Value,
         v = d \/ v \notin Documents
  PROVE  /\ Expected(Children(v), d)
         /\ v = d => \/ CompoundAhead(Children(v), d)
                     \/ get_id(get_value(d, "compounddef")) = <<>>
<1> DEFINE kids == Json[v].kids
<1>1. /\ elements(v) = {kids[i] : i \in 1 .. Len(kids)}
      /\ elements(v) \subseteq Element
  BY ElementsOf
<1>2. /\ Len(Children(v)) = Len(kids)
      /\ \A i \in 1 .. Len(kids) :
           Children(v)[i] = Handle(kids[i].key, kids[i].value)
  BY PlainChildren
<1>3. \A key, w : /\ Handle(key, w).do = "handle"
                    /\ Handle(key, w).key = key
                    /\ Handle(key, w).value = w
  BY DEF Handle, Do
<1>4. \A e \in elements(v) :
        /\ e.key \in STRING /\ e.value \notin Documents
        /\ e.key = "compounddef" => e.value = get_value(d, "compounddef")
  BY <1>1, CompoundAssumption DEF Documents, Element
<1> HIDE DEF kids
<1>5. Expected(Children(v), d)
  <2> SUFFICES ASSUME NEW i \in 1 .. Len(kids)
               PROVE  LinksItem(Children(v)[i], d)
    BY <1>2 DEF Expected
  <2>1. kids[i] \in elements(v)
    BY <1>1
  <2>2. /\ Children(v)[i].do = "handle"
        /\ Children(v)[i].key = kids[i].key
        /\ Children(v)[i].value = kids[i].value
    BY <1>2, <1>3
  <2> QED
    BY <1>4, <2>1, <2>2 DEF LinksItem
<1>6. ASSUME v = d, get_id(get_value(d, "compounddef")) # <<>>
      PROVE  CompoundAhead(Children(v), d)
  <2>1. PICK e \in elements(v) : e.key = "compounddef"
    BY <1>6, NoCompoundNoId
  <2>2. PICK i \in 1 .. Len(kids) : e = kids[i]
    BY <1>1, <2>1
  <2>3. Children(v)[i].do = "handle" /\ Children(v)[i].key = "compounddef"
    BY <1>2, <1>3, <2>1, <2>2
  <2> QED
    BY <1>2, <2>3 DEF CompoundAhead, LeadsToCompound
<1> QED
  BY <1>5, <1>6

\* The steps of the links pass, by the item that is next.
LEMMA LinksDispatch ==
  ASSUME StateInv, LinksInv, pass = "links", Dispatch
  PROVE  LinksInv'
<1> DEFINE d == job.document
<1>1. /\ work # <<>> /\ Head(work).do = "handle"
      /\ input \in Value /\ element \in STRING
      /\ input = Head(work).value /\ element = Head(work).key
      /\ LinksItem(Head(work), d)
      /\ UNCHANGED <<job, pass, out, compound_def_id, link_container>>
      /\ compound_def_id \in {<<>>, get_id(compound)}
      /\ \/ compound_def_id = get_id(compound)
         \/ CompoundAhead(work, d)
  BY NextItem, NextLinksItem
  DEF Dispatch, IsNext, StateInv, LinksInv, state, links, LinksItem, input,
      element
<1>2. PendingIds(Head(work)) = AllIds[[key |-> element, value |-> input]]
  BY <1>1 DEF PendingIds
<1>3. CASE HasHandler(element)
  <2> DEFINE call == Call(element, input)
             leave == Leave(element, input)
             items == <<call, leave>>
  <2>1. work' = items \o Tail(work)
    BY <1>3 DEF Dispatch, Becomes
  <2>2. /\ call.do = "call" /\ call.key = element /\ call.value = input
        /\ leave.do = "leave"
    BY DEF Call, Leave, Do
  <2>3. IsItem(call) /\ IsItem(leave)
    BY <1>1 DEF IsItem, Call, Leave, Do
  <2>4. PendingIds(call) = PendingIds(Head(work)) /\ PendingIds(leave) = {}
    BY <1>2, PendingTasks
  <2> HIDE DEF call, leave
  <2>5. Items(items)
    <3>1. items \in Seq({call, leave})
      OBVIOUS
    <3> HIDE DEF items
    <3> QED
      BY <2>3, <3>1 DEF Items
  <2>6. LinksItem(call, d) /\ LinksItem(leave, d)
    BY <1>1, <1>3, <2>2 DEF LinksItem
  <2>7. Expected(items, d)
    BY <2>6, ExpectedFew
  <2>8. Pending(items) = PendingIds(Head(work))
    BY <2>4, PendingFew
  <2>9. LeadsToCompound(Head(work), d) => LeadsToCompound(call, d)
    BY <1>1, <2>2 DEF LeadsToCompound
  <2>10. LeadsToCompound(Head(work), d) => CompoundAhead(items, d)
    BY <2>9, ExpectedFew
  <2> HIDE DEF items
  <2> QED
    BY <1>1, <2>1, <2>5, <2>7, <2>8, <2>10, LinksStep
<1>4. CASE ~HasHandler(element)
  <2>1. work' = <<>> \o Tail(work)
    BY <1>4 DEF Dispatch, Becomes
  <2>2. Items(<<>>)
    BY PlainFew, PlainItems
  <2>3. PendingIds(Head(work)) = {}
    BY <1>1, <1>2, <1>4, IdsByCases
  <2>4. ~LeadsToCompound(Head(work), d)
    <3>1. HasHandler("doxygen") /\ HasHandler("compounddef")
      BY DEF HasHandler, Handled
    <3>2. d \in Documents
      BY <1>1, NextLinksItem
    <3> QED
      BY <1>1, <1>4, <3>1, <3>2 DEF LeadsToCompound, LinksItem
  <2>5. Pending(<<>>) = {} /\ Expected(<<>>, d)
    BY PendingFew, ExpectedFew
  <2> QED
    BY <1>1, <2>1, <2>2, <2>3, <2>4, <2>5, LinksStep
<1> QED
  BY <1>3, <1>4

LEMMA LinksPop ==
  ASSUME StateInv, LinksInv, pass = "links", PopName
  PROVE  LinksInv'
<1> DEFINE d == job.document
<1>1. /\ work # <<>> /\ Head(work).do = "leave"
      /\ work' = <<>> \o Tail(work)
      /\ UNCHANGED <<job, pass, out, compound_def_id, link_container>>
      /\ compound_def_id \in {<<>>, get_id(compound)}
      /\ \/ compound_def_id = get_id(compound)
         \/ CompoundAhead(work, d)
  BY DEF PopName, IsNext, Becomes, LinksInv, state, links
<1>2. PendingIds(Head(work)) = {} /\ ~LeadsToCompound(Head(work), d)
  BY <1>1 DEF PendingIds, LeadsToCompound
<1>3. Items(<<>>) /\ Pending(<<>>) = {} /\ Expected(<<>>, d)
  BY PlainFew, PlainItems, PendingFew, ExpectedFew
<1> QED
  BY <1>1, <1>2, <1>3, LinksStep

LEMMA LinksPrint ==
  ASSUME StateInv, LinksInv, pass = "links", PrintValue
  PROVE  LinksInv'
<1> DEFINE d == job.document
<1>1. /\ work # <<>> /\ Head(work).do = "print"
      /\ input \in Value /\ input = Head(work).value
      /\ d \in Value /\ d \in Documents
      /\ input = d \/ input \notin Documents
      /\ UNCHANGED <<job, pass, out, compound_def_id, link_container>>
      /\ compound_def_id \in {<<>>, get_id(compound)}
      /\ \/ compound_def_id = get_id(compound)
         \/ CompoundAhead(work, d)
      /\ compound = get_value(d, "compounddef")
  BY NextItem, NextLinksItem
  DEF PrintValue, IsNext, StateInv, LinksInv, state, links, LinksItem, input,
      compound
<1>2. PendingIds(Head(work)) = UNION {AllIds[kid] : kid \in elements(input)}
  BY <1>1 DEF PendingIds
<1>3. LeadsToCompound(Head(work), d) => input = d
  BY <1>1 DEF LeadsToCompound
<1>4. CASE is_string(input)
  <2>1. work' = <<>> \o Tail(work)
    BY <1>4 DEF PrintValue, Becomes, When, is_add_links
  <2>2. Json[input].kids = <<>>
    BY <1>1, <1>4, JsonAssumption DEF is_string
  <2>3. elements(input) = {}
    BY <2>2 DEF elements, ToSet
  <2>4. PendingIds(Head(work)) = {}
    BY <1>2, <2>3
  <2>5. input = d => get_id(compound) = <<>>
    BY <1>1, <2>3, NoCompoundNoId
  <2>6. Items(<<>>) /\ Pending(<<>>) = {} /\ Expected(<<>>, d)
    BY PlainFew, PlainItems, PendingFew, ExpectedFew
  <2>7. \/ compound_def_id' = get_id(compound)
        \/ CompoundAhead(work, d) /\ ~LeadsToCompound(Head(work), d)
    BY <1>1, <1>3, <2>5
  <2> QED
    BY <1>1, <2>1, <2>4, <2>6, <2>7, LinksStep
<1>5. CASE ~is_string(input)
  <2> DEFINE items == Children(input)
  <2>1. work' = items \o Tail(work)
    BY <1>5 DEF PrintValue, Becomes
  <2>2. Items(items)
    BY <1>1, PlainChildren, PlainItems
  <2>3. Pending(items) = PendingIds(Head(work))
    BY <1>1, <1>2, PendingOfChildren
  <2>4. /\ Expected(items, d)
        /\ input = d => CompoundAhead(items, d) \/ get_id(compound) = <<>>
    BY <1>1, ExpectedChildren
  <2> HIDE DEF items
  <2>5. \/ compound_def_id' = get_id(compound)
        \/ CompoundAhead(items, d)
        \/ CompoundAhead(work, d) /\ ~LeadsToCompound(Head(work), d)
    BY <1>1, <1>3, <2>4
  <2> QED
    BY <1>1, <2>1, <2>2, <2>3, <2>4, <2>5, LinksStep
<1> QED
  BY <1>4, <1>5

LEMMA LinksAdd ==
  ASSUME StateInv, LinksInv, pass = "links", AddLinks \/ CompounddefLinks
  PROVE  LinksInv'
<1> DEFINE d == job.document
           visit == Visit(input)
<1>1. /\ work # <<>> /\ Head(work).do = "call"
      /\ input \in Value /\ element \in STRING /\ HasHandler(element)
      /\ input = Head(work).value /\ element = Head(work).key
      /\ d \in Value /\ d \in Documents
      /\ LinksItem(Head(work), d)
      /\ work' = <<visit>> \o Tail(work)
      /\ UNCHANGED <<job, pass, out>>
      /\ compound_def_id \in {<<>>, get_id(compound)}
      /\ \/ compound_def_id = get_id(compound)
         \/ CompoundAhead(work, d)
      /\ compound = get_value(d, "compounddef")
  BY NextItem, NextLinksItem
  DEF AddLinks, CompounddefLinks, IsNext, Becomes, StateInv, LinksInv, state,
      LinksItem, input, element, compound
<1>2. PendingIds(Head(work)) = AllIds[[key |-> element, value |-> input]]
  BY <1>1 DEF PendingIds
<1>3. visit.do = "print" /\ visit.value = input
  BY DEF Visit, Do
<1>4. Items(<<visit>>)
  BY <1>1, PlainTasks, PlainFew, PlainItems
<1>5. Pending(<<visit>>) = UNION {AllIds[kid] : kid \in elements(input)}
  BY PendingFew, PendingTasks
<1> HIDE DEF visit
<1>6. LinksItem(visit, d)
  BY <1>1, <1>3 DEF LinksItem
<1>7. Expected(<<visit>>, d)
  BY <1>6, ExpectedFew
<1>8. input = d => CompoundAhead(<<visit>>, d)
  <2>1. input = d => LeadsToCompound(visit, d)
    BY <1>3 DEF LeadsToCompound
  <2> QED
    BY <2>1, ExpectedFew
<1>9. CASE AddLinks
  <2>1. /\ element # "compounddef" /\ compound_def_id' = compound_def_id
        /\ link_container' = link_container \cup ({get_id(input)} \ {<<>>})
    BY <1>9 DEF AddLinks
  <2>2. link_container' \cup Pending(<<visit>>) =
          link_container \cup PendingIds(Head(work))
    BY <1>1, <1>2, <1>5, <2>1, IdsByCases
  <2>3. LeadsToCompound(Head(work), d) => input = d
    BY <1>1, <2>1 DEF LeadsToCompound
  <2> QED
    BY <1>1, <1>4, <1>7, <1>8, <2>1, <2>2, <2>3, LinksStep
<1>10. CASE CompounddefLinks
  <2>1. /\ element = "compounddef" /\ link_container' = link_container
        /\ compound_def_id' = IF get_id(input) = <<>> THEN compound_def_id
                                                    ELSE get_id(input)
    BY <1>10 DEF CompounddefLinks
  <2>2. link_container' \cup Pending(<<visit>>) =
          link_container \cup PendingIds(Head(work))
    BY <1>1, <1>2, <1>5, <2>1, IdsByCases
  <2>3. input = compound
    BY <1>1, <2>1 DEF LinksItem
  <2>4. compound_def_id' = get_id(compound)
    BY <1>1, <2>1, <2>3
  <2> QED
    BY <1>1, <1>4, <1>7, <2>2, <2>4, LinksStep
<1> QED
  BY <1>9, <1>10

\* The links pass begins with the whole document ahead of it.
LEMMA LinksBegin ==
  ASSUME job.document \in Documents
  PROVE  LET start == <<Handle("doxygen", job.document)>>
         IN  /\ Expected(start, job.document)
             /\ Pending(start) = AllIds[document]
             /\ CompoundAhead(start, job.document)
<1> DEFINE d == job.document
           x == Handle("doxygen", d)
<1>1. x.do = "handle" /\ x.key = "doxygen" /\ x.value = d
  BY DEF Handle, Do
<1>2. PendingIds(x) = AllIds[document]
  BY PendingTasks DEF document
<1> HIDE DEF x
<1>3. LinksItem(x, d) /\ LeadsToCompound(x, d)
  <2>1. "doxygen" \in STRING
    BY CompoundAssumption DEF Element, Documents
  <2>2. x.key \in STRING
    BY <1>1, <2>1
  <2>3. LinksItem(x, d)
    BY <1>1, <2>2 DEF LinksItem
  <2> QED
    BY <1>1, <2>3 DEF LeadsToCompound
<1>4. Expected(<<x>>, d) /\ CompoundAhead(<<x>>, d) /\ Pending(<<x>>) = PendingIds(x)
  BY <1>3, ExpectedFew, PendingFew
<1> QED
  BY <1>2, <1>4 DEF x

\* A step outside the links pass gathers nothing.
LEMMA LinksKept ==
  ASSUME LinksInv, pass # "links", UNCHANGED <<job, pass, links>>,
         pass = "load" => UNCHANGED out
  PROVE  LinksInv'
<1>1. document' = document /\ get_id(compound)' = get_id(compound)
  BY DEF document, compound
<1> QED
  BY <1>1 DEF LinksInv, links

\* A step keeps what the links pass has gathered and has yet to gather.
LEMMA LinksNext == StateInv /\ LinksInv /\ [Next]_vars => LinksInv'
<1> SUFFICES ASSUME StateInv, LinksInv, [Next]_vars  PROVE LinksInv'
  OBVIOUS
<1>1. CASE Load
  <2>1. /\ pass = "load" /\ out = <<>> /\ link_container = {}
          /\ job.document \in Documents
        /\ compound_def_id \in {<<>>, get_id(compound)}
        /\ UNCHANGED <<job, compound_def_id, link_container, out>>
        /\ \/ pass' = "failed"
           \/ pass' = "links" /\ work' = <<Handle("doxygen", job.document)>>
    BY <1>1 DEF Load, StateInv, LinksInv, links
  <2>2. document' = document /\ get_id(compound)' = get_id(compound)
    BY <2>1 DEF document, compound
  <2>3. pass' = "links" =>
          /\ Expected(work', job'.document)
          /\ link_container' \cup Pending(work') = AllIds[document]
          /\ CompoundAhead(work', job'.document)
    BY <2>1, LinksBegin
  <2> QED
    BY <2>1, <2>2, <2>3 DEF LinksInv
<1>2. CASE ProcessSummary \/ ProcessDetails
  <2>1. /\ pass \in {"links", "summary"} /\ pass' \in {"summary", "details"}
        /\ work = <<>>
        /\ UNCHANGED <<job, compound_def_id, link_container, out>>
    BY <1>2 DEF ProcessSummary, ProcessDetails, StartPass, links
  <2>2. document' = document /\ get_id(compound)' = get_id(compound)
    BY <2>1 DEF document, compound
  <2>3. Pending(work) = {} /\ ~CompoundAhead(work, job.document)
    BY <2>1, PendingFew DEF CompoundAhead
  <2>4. link_container = AllIds[document] /\ compound_def_id = get_id(compound)
    BY <2>1, <2>3 DEF LinksInv
  <2> QED
    BY <2>1, <2>2, <2>4 DEF LinksInv
<1>3. CASE Finish
  <2>1. /\ pass = "details" /\ pass' = "done"
        /\ link_container' = link_container \cup {compound_def_id}
        /\ UNCHANGED <<job, compound_def_id>>
    BY <1>3 DEF Finish
  <2>2. document' = document /\ get_id(compound)' = get_id(compound)
    BY <2>1 DEF document, compound
  <2> QED
    BY <2>1, <2>2 DEF LinksInv
<1>4. CASE /\ pass = "links"
           /\ Dispatch \/ PopName \/ PrintValue \/ AddLinks \/ CompounddefLinks
  BY <1>4, LinksDispatch, LinksPop, LinksPrint, LinksAdd
<1>5. CASE pass # "links" /\ (Dispatch \/ PopName \/ PrintValue \/ Emit)
  <2>1. UNCHANGED <<job, pass, links>> /\ work # <<>>
    BY <1>5 DEF Dispatch, PopName, PrintValue, Emit, IsNext, state
  <2> QED
    BY <1>5, <2>1, LinksKept DEF StateInv
<1>6. CASE pass = "links" /\ Emit
  <2>1. LinksItem(Head(work), job.document) /\ IsToken(Head(work))
    BY <1>6, NextLinksItem DEF Emit
  <2> QED
    BY <2>1 DEF LinksItem, IsToken
<1>7. CASE pass # "links" /\ (AddLinks \/ CompounddefLinks)
  BY <1>7 DEF AddLinks, CompounddefLinks, is_add_links
<1>8. CASE Handlers
  <2>1. UNCHANGED <<job, pass, links, out>> /\ pass # "links"
    BY <1>8, HandlersReplace DEF StateInv, state, is_add_links
  <2> QED
    BY <2>1, LinksKept
<1>9. CASE UNCHANGED vars
  <2>1. UNCHANGED <<job, pass, compound_def_id, link_container, work, out>>
    BY <1>9 DEF vars, state, links
  <2>2. document' = document /\ get_id(compound)' = get_id(compound)
    BY <2>1 DEF document, compound
  <2> QED
    BY <2>1, <2>2 DEF LinksInv
<1> QED
  BY <1>1, <1>2, <1>3, <1>4, <1>5, <1>6, <1>7, <1>8, <1>9
  DEF Next, Step, Ended

LEMMA LinksInvariant == Spec => []LinksInv
<1>1. Init => LinksInv
  <2> SUFFICES ASSUME Init  PROVE LinksInv
    OBVIOUS
  <2>1. /\ pass = "load" /\ out = <<>> /\ compound_def_id = <<>>
        /\ link_container = {}
    BY DEF Init
  <2> QED
    BY <2>1 DEF LinksInv
<1> QED
  BY <1>1, LinksNext, StateInvariant, PTL DEF Spec

----------------------------------------------------------------------------
(* The theorems *)

\* Every variable of a DoxyJson keeps its kind through every pass over every
\* document, and when nothing is left to do the name container is empty: each
\* name handle() pushed has been popped (DoxyJson.cpp:122-181).
THEOREM DoxyJsonTypeCorrect == Spec => []TypeOK
<1>1. job \in Jobs /\ StateInv /\ LinksInv => TypeOK
  <2> SUFFICES ASSUME job \in Jobs, StateInv, LinksInv  PROVE TypeOK
    OBVIOUS
  <2>1. \A i \in DOMAIN names : HasHandler(names[i])
    BY DEF StateInv, Names, HasHandler
  <2>2. \A i \in DOMAIN work :
          \/ IsToken(work[i])
          \/ /\ work[i].do \in {"handle", "call", "print", "leave"}
             /\ work[i].value \in Value
    BY ItemsOf DEF StateInv, IsItem
  <2>3. \A i \in DOMAIN out : IsToken(out[i])
    <3>1. PICK S : out \in Seq(S) /\ \A x \in S : IsToken(x)
      BY DEF StateInv, Printed
    <3> QED
      BY <3>1
  <2>4. work = <<>> => names = <<>>
    BY NestedEmpty DEF StateInv
  <2> QED
    BY <2>1, <2>2, <2>3, <2>4 DEF TypeOK, StateInv, LinksInv
<1> QED
  BY <1>1, JobInvariant, StateInvariant, LinksInvariant, PTL

\* The links pass prints nothing, and gathers the ids of the document: all of
\* them and no other, however deep the document; a finished page has added its
\* own, which is known from before the summary on (DoxyJson.cpp:68, 88,
\* 110-120, 227-236, DoxyJson.hpp:204).
THEOREM PageIdsGathered == Spec => []IdsGathered
<1>1. StateInv /\ LinksInv => IdsGathered
  <2> SUFFICES ASSUME StateInv, LinksInv  PROVE IdsGathered
    OBVIOUS
  <2>1. work = <<>> => Pending(work) = {}
    BY PendingFew
  <2> QED
    BY <2>1 DEF IdsGathered, LinksInv
<1> QED
  BY <1>1, StateInvariant, LinksInvariant, PTL

=============================================================================
