----------------------------- MODULE TextProofs -----------------------------
(***************************************************************************)
(* Proofs about what DoxyJson prints: every text of a page is a word of    *)
(* the program or a text of the document, and none is found only inside    *)
(* what the page is to leave out, for every document and configuration.    *)
(***************************************************************************)
EXTENDS DoxyJsonProofs

----------------------------------------------------------------------------
(* The bodies of the handlers *)

\* What the handler of an element does in the summary and the details pass.
BodyOf(key, v) ==
  CASE key = "compounddef" -> CompounddefBody(v)
    [] key = "detaileddescription" -> DetaileddescriptionBody(v)
    [] key = "briefdescription" -> BriefdescriptionBody(v)
    [] key = "basecompoundref" -> BasecompoundrefBody(v)
    [] key = "innerclass" -> InnerclassBody(v)
    [] key = "listofallmembers" -> ListofallmembersBody(v)
    [] key = "member" -> MemberBody(v)
    [] key = "sectiondef" -> SectiondefBody(v)
    [] key = "memberdef" -> IF is_summary THEN MemberdefSummary(v)
                                          ELSE MemberdefDetails(v)
    [] key = "enumvalue" -> EnumvalueBody(v)
    [] key = "param" -> ParamBody(v)
    [] key = "itemizedlist" -> ItemizedlistBody(v)
    [] key = "programlisting" -> ProgramlistingBody(v)
    [] key = "codeline" -> When(~is_summary, <<Visit(v)>>)
    [] key = "simplesect" -> SimplesectBody(v)
    [] key = "ref" -> RefBody(v)
    [] key = "computeroutput" ->
         IF is_string(v) THEN print_inline_code(Json[v].text) ELSE <<Visit(v)>>
    [] key = "emphasis" -> <<Text("*"), Visit(v), Text("*")>>
    [] key = "listitem" -> <<Text("- "), Visit(v)>>
    [] key = "sp" -> <<Text(" "), Visit(v)>>
    [] key = "templateparamlist" ->
         <<Text("***Template Parameters***"), Visit(v)>>
    [] key \in {"doxygen", "highlight", "inbodydescription", "location",
                "para", "#text"} -> <<Visit(v)>>
    [] OTHER -> <<>>

\* Handlers are told apart by the name of the element: each does what BodyOf
\* says, and there is nothing else a call can do.
LEMMA HandlersAre ==
  ASSUME Handlers
  PROVE  /\ work # <<>> /\ Head(work).do = "call" /\ ~is_add_links
         /\ UNCHANGED <<state, links, names, out>>
         /\ work' = BodyOf(element, input) \o Tail(work)
<1> DEFINE Goal == /\ work # <<>> /\ Head(work).do = "call" /\ ~is_add_links
                   /\ UNCHANGED <<state, links, names, out>>
                   /\ work' = BodyOf(element, input) \o Tail(work)
<1> SUFFICES Goal
  OBVIOUS
<1>1. CASE handle_compounddef
  BY <1>1 DEF handle_compounddef, Handler, IsNext, Becomes, BodyOf
<1>2. CASE handle_detaileddescription
  BY <1>2 DEF handle_detaileddescription, Handler, IsNext, Becomes, BodyOf
<1>3. CASE handle_briefdescription
  BY <1>3 DEF handle_briefdescription, Handler, IsNext, Becomes, BodyOf
<1>4. CASE handle_basecompoundref
  BY <1>4 DEF handle_basecompoundref, Handler, IsNext, Becomes, BodyOf
<1>5. CASE handle_innerclass
  BY <1>5 DEF handle_innerclass, Handler, IsNext, Becomes, BodyOf
<1>6. CASE handle_listofallmembers
  BY <1>6 DEF handle_listofallmembers, Handler, IsNext, Becomes, BodyOf
<1>7. CASE handle_member
  BY <1>7 DEF handle_member, Handler, IsNext, Becomes, BodyOf
<1>8. CASE handle_sectiondef
  BY <1>8 DEF handle_sectiondef, Handler, IsNext, Becomes, BodyOf
<1>9. CASE handle_memberdef
  BY <1>9 DEF handle_memberdef, Handler, IsNext, Becomes, BodyOf
<1>10. CASE handle_enumvalue
  BY <1>10 DEF handle_enumvalue, Handler, IsNext, Becomes, BodyOf
<1>11. CASE handle_param
  BY <1>11 DEF handle_param, Handler, IsNext, Becomes, BodyOf
<1>12. CASE handle_itemizedlist
  BY <1>12 DEF handle_itemizedlist, Handler, IsNext, Becomes, BodyOf
<1>13. CASE handle_programlisting
  BY <1>13 DEF handle_programlisting, Handler, IsNext, Becomes, BodyOf
<1>14. CASE handle_codeline
  BY <1>14 DEF handle_codeline, Handler, IsNext, Becomes, BodyOf
<1>15. CASE handle_simplesect
  BY <1>15 DEF handle_simplesect, Handler, IsNext, Becomes, BodyOf
<1>16. CASE handle_ref
  BY <1>16 DEF handle_ref, Handler, IsNext, Becomes, BodyOf
<1>17. CASE handle_computeroutput
  BY <1>17 DEF handle_computeroutput, Handler, IsNext, Becomes, BodyOf
<1>18. CASE handle_emphasis
  BY <1>18 DEF handle_emphasis, Handler, IsNext, Becomes, BodyOf
<1>19. CASE handle_listitem
  BY <1>19 DEF handle_listitem, Handler, IsNext, Becomes, BodyOf
<1>20. CASE handle_sp
  BY <1>20 DEF handle_sp, Handler, IsNext, Becomes, BodyOf
<1>21. CASE handle_templateparamlist
  BY <1>21 DEF handle_templateparamlist, Handler, IsNext, Becomes, BodyOf
<1>22. CASE \/ handle_doxygen \/ handle_highlight
            \/ handle_inbodydescription \/ handle_location
            \/ handle_para \/ handle_hashtag_text
  BY <1>22
  DEF handle_doxygen, handle_highlight, handle_inbodydescription,
      handle_location, handle_para, handle_hashtag_text, Handler, IsNext,
      Becomes, BodyOf
<1>23. CASE \/ handle_argsstring \/ handle_compoundname \/ handle_declname
            \/ handle_definition \/ handle_innerfile \/ handle_name
            \/ handle_title_type
  BY <1>23
  DEF handle_argsstring, handle_compoundname, handle_declname,
      handle_definition, handle_innerfile, handle_name, handle_title_type,
      Handler, IsNext, Becomes, BodyOf
<1> QED
  BY <1>1, <1>2, <1>3, <1>4, <1>5, <1>6, <1>7, <1>8, <1>9, <1>10, <1>11,
     <1>12, <1>13, <1>14, <1>15, <1>16, <1>17, <1>18, <1>19, <1>20, <1>21,
     <1>22, <1>23
  DEF Handlers

----------------------------------------------------------------------------
(* Sequences of items that print texts of a set *)

\* The texts T has for a value are in A: its own, and those of its children.
Within(v, A, T) == /\ Json[v].text \in A
                   /\ \A kid \in elements(v) : T[kid] \subseteq A

\* All that an item prints, now or later, is in A.  A compound without a
\* description has the handler of one called on JsonNull().
Says(x, A, T) ==
  /\ HasText(x) => x.text \in A
  /\ x.do \in {"handle", "call"} =>
       \/ /\ [key |-> x.key, value |-> x.value] \in Element
          /\ T[[key |-> x.key, value |-> x.value]] \subseteq A
       \/ x.key = "detaileddescription" /\ x.value = JsonNull
  /\ x.do = "print" => Within(x.value, A, T)

Speaks(s, A, T) == \E S : s \in Seq(S) /\ \A x \in S : Says(x, A, T)

LEMMA SpeaksOf ==
  ASSUME NEW A, NEW T, NEW S, NEW s \in Seq(S), \A x \in S : Says(x, A, T)
  PROVE  Speaks(s, A, T)
BY DEF Speaks

LEMMA SpeaksThen ==
  ASSUME NEW A, NEW T
  PROVE  \A s, t : Speaks(s, A, T) /\ Speaks(t, A, T) => Speaks(s \o t, A, T)
<1> SUFFICES ASSUME NEW s, NEW t, Speaks(s, A, T), Speaks(t, A, T)
             PROVE  Speaks(s \o t, A, T)
  OBVIOUS
<1>1. PICK S : s \in Seq(S) /\ \A x \in S : Says(x, A, T)
  BY DEF Speaks
<1>2. PICK R : t \in Seq(R) /\ \A x \in R : Says(x, A, T)
  BY DEF Speaks
<1>3. s \o t \in Seq(S \cup R)
  <2>1. s \in Seq(S \cup R) /\ t \in Seq(S \cup R)
    BY <1>1, <1>2
  <2> QED
    BY <2>1
<1> QED
  BY <1>1, <1>2, <1>3 DEF Speaks

LEMMA SpeaksFew ==
  ASSUME NEW A, NEW T
  PROVE  /\ Speaks(<<>>, A, T)
         /\ \A x : Says(x, A, T) => Speaks(<<x>>, A, T)
         /\ \A x, y : Says(x, A, T) /\ Says(y, A, T) => Speaks(<<x, y>>, A, T)
         /\ \A x, y, z : Says(x, A, T) /\ Says(y, A, T) /\ Says(z, A, T) =>
                          Speaks(<<x, y, z>>, A, T)
<1>1. Speaks(<<>>, A, T)
  <2> DEFINE s == <<>>
  <2>1. s \in Seq({}) /\ \A x \in {} : Says(x, A, T)
    OBVIOUS
  <2> HIDE DEF s
  <2>2. Speaks(s, A, T)
    BY <2>1, SpeaksOf
  <2> QED
    BY <2>2 DEF s
<1>2. ASSUME NEW x, NEW y, NEW z, Says(x, A, T), Says(y, A, T), Says(z, A, T)
      PROVE  /\ Speaks(<<x>>, A, T) /\ Speaks(<<x, y>>, A, T)
             /\ Speaks(<<x, y, z>>, A, T)
  <2> DEFINE a == <<x>>
             b == <<x, y>>
             c == <<x, y, z>>
  <2>1. a \in Seq({x, y, z}) /\ b \in Seq({x, y, z}) /\ c \in Seq({x, y, z})
    OBVIOUS
  <2>2. \A w \in {x, y, z} : Says(w, A, T)
    BY <1>2
  <2> HIDE DEF a, b, c
  <2>3. Speaks(a, A, T) /\ Speaks(b, A, T) /\ Speaks(c, A, T)
    BY <2>1, <2>2, SpeaksOf
  <2> QED
    BY <2>3 DEF a, b, c
<1> QED
  BY <1>1, <1>2

\* What is next says what it may, and so does the rest.
LEMMA SpeaksNext ==
  ASSUME NEW A, NEW T, NEW s, Speaks(s, A, T), s # <<>>
  PROVE  Says(Head(s), A, T) /\ Speaks(Tail(s), A, T)
<1>1. PICK S : s \in Seq(S) /\ \A x \in S : Says(x, A, T)
  BY DEF Speaks
<1>2. Head(s) \in S /\ Tail(s) \in Seq(S)
  BY <1>1
<1> QED
  BY <1>1, <1>2 DEF Speaks

LEMMA SpeaksTasks ==
  ASSUME NEW A, NEW T
  PROVE  /\ \A t \in A : Says(Text(t), A, T)
         /\ \A t \in A : \A url : Says(Link(t, url), A, T)
         /\ \A id, form : Says(Anchor(id, form), A, T)
         /\ \A scope : \A t \in A : Says(Open(scope, t), A, T)
         /\ \A scope : Says(Close(scope), A, T)
         /\ \A key, v : Says(Leave(key, v), A, T)
         /\ \A v : Within(v, A, T) => Says(Visit(v), A, T)
         /\ \A key, v :
              /\ [key |-> key, value |-> v] \in Element
              /\ T[[key |-> key, value |-> v]] \subseteq A
              => Says(Handle(key, v), A, T) /\ Says(Call(key, v), A, T)
         /\ Says(Call("detaileddescription", JsonNull), A, T)
BY DEF Says, HasText, Text, Link, Anchor, Open, Close, Leave, Visit, Handle,
       Call, Do

LEMMA SpeaksScopes ==
  ASSUME NEW A, NEW T, "" \in A
  PROVE  /\ \A c : \A s : Speaks(s, A, T) => Speaks(When(c, s), A, T)
         /\ \A t \in A : \A s : Speaks(s, A, T) => Speaks(Header(t, s), A, T)
         /\ \A s : Speaks(s, A, T) => /\ Speaks(List(s), A, T)
                                      /\ Speaks(Fence(s), A, T)
<1>1. \A c : \A s : Speaks(s, A, T) => Speaks(When(c, s), A, T)
  BY SpeaksFew DEF When
<1>2. ASSUME NEW t \in A, NEW scope, NEW s, Speaks(s, A, T)
      PROVE  Speaks(<<Open(scope, t)>> \o s \o <<Close(scope)>>, A, T)
  <2> DEFINE a == <<Open(scope, t)>>
             b == <<Close(scope)>>
  <2>1. Speaks(a, A, T) /\ Speaks(b, A, T)
    BY SpeaksTasks, SpeaksFew
  <2> HIDE DEF a, b
  <2>2. Speaks(a \o s \o b, A, T)
    BY <1>2, <2>1, SpeaksThen
  <2> QED
    BY <2>2 DEF a, b
<1> QED
  BY <1>1, <1>2 DEF Header, List, Fence

LEMMA SpeaksHelpers ==
  ASSUME NEW A, NEW T, "" \in A
  PROVE  /\ \A t \in A : Speaks(print_inline_code(t), A, T)
         /\ \A t \in A : \A v, id : Speaks(print_hyperlink(t, v, id), A, T)
         /\ \A id : Speaks(print_anchor(id), A, T)
<1>1. \A t \in A : Speaks(print_inline_code(t), A, T)
  BY SpeaksTasks, SpeaksFew, SpeaksScopes DEF print_inline_code
<1>2. \A t \in A : \A v, id : Speaks(print_hyperlink(t, v, id), A, T)
  BY SpeaksTasks, SpeaksFew DEF print_hyperlink
<1>3. \A id : Speaks(print_anchor(id), A, T)
  BY SpeaksTasks, SpeaksFew, SpeaksScopes, SpeaksThen DEF print_anchor
<1> QED
  BY <1>1, <1>2, <1>3

----------------------------------------------------------------------------
(* What the bodies of the handlers print *)

\* The children a handler reads: what they say is printed by their parents.
ReadKeys == {"title", "compoundname", "#text", "name", "definition", "type",
             "declname", "@prot", "@virt", "@kind"}

\* A handler reads nothing that is in the set.
Unread(set) == \A e \in set : e.key \notin ReadKeys

\* An element of the set is not printed by its handler.
Quiet(set) == \A e \in set : BodyOf(e.key, e.value) = <<>>

\* A has the words of the program and, of an element that T has nothing to
\* say of outside A, all that is in it unless the element is in the set.
Covers(A, T, set) ==
  /\ Words \subseteq A
  /\ \A e \in Element \ set : T[e] \subseteq A => Within(e.value, A, T)

\* There is nothing in a value that is not there.
LEMMA NullIsEmpty ==
  JsonNull \in Value /\ Json[JsonNull].text = "" /\ elements(JsonNull) = {}
<1>1. JsonNull \in Value /\ Json[JsonNull].text = ""
  BY JsonAssumption
<1>2. Json[JsonNull].kids = <<>>
  BY JsonAssumption
<1>3. elements(JsonNull) = {}
  BY <1>2 DEF elements, ToSet
<1> QED
  BY <1>1, <1>3

\* The texts outside the elements of a set do.
LEMMA TextsCover ==
  ASSUME NEW set, NEW A, Words \subseteq A
  PROVE  Covers(A, TextsWithout(set), set)
<1> DEFINE own == [e \in Element |-> {Json[e.value].text}]
           T == TextsWithout(set)
<1>1. T = [e \in Element |-> GatheredWith(T, own, set, e)]
  BY GatheredOfElement DEF TextsWithout
<1>2. T = TextsWithout(set)
  OBVIOUS
<1> HIDE DEF T
<1>3. \A e \in Element : T[e] = GatheredWith(T, own, set, e)
  BY <1>1
<1>4. ASSUME NEW e \in Element \ set, T[e] \subseteq A
      PROVE  Within(e.value, A, T)
  <2>1. T[e] = {Json[e.value].text}
                 \cup UNION {T[kid] : kid \in elements(e.value)}
    BY <1>3 DEF GatheredWith
  <2> QED
    BY <1>4, <2>1 DEF Within
<1> QED
  BY <1>2, <1>4 DEF Covers

\* What a handler reads of an element is in A with the element.
LEMMA ReadWithin ==
  ASSUME NEW A, NEW T, NEW set, Covers(A, T, set), Unread(set),
         NEW v \in Value, Within(v, A, T), NEW key \in ReadKeys
  PROVE  /\ get_value_as_string_view(v, key) \in A
         /\ Within(get_value(v, key), A, T)
<1>1. CASE get_value(v, key) = JsonNull
  <2>1. "" \in A
    BY DEF Covers, Words
  <2> QED
    BY <1>1, <2>1, NullIsEmpty DEF Within, get_value_as_string_view
<1>2. CASE \E e \in elements(v) : e.key = key /\ e.value = get_value(v, key)
  <2>1. PICK e \in elements(v) : e.key = key /\ e.value = get_value(v, key)
    BY <1>2
  <2>2. e \in Element /\ e \notin set
    BY <2>1, ElementsOf DEF Unread
  <2>3. T[e] \subseteq A
    BY DEF Within
  <2>4. Within(get_value(v, key), A, T)
    BY <2>1, <2>2, <2>3 DEF Covers
  <2> QED
    BY <2>4 DEF Within, get_value_as_string_view
<1> QED
  BY <1>1, <1>2, ValueFound

\* So is the description a compound has, or not.
LEMMA DescriptionWithin ==
  ASSUME NEW A, NEW T, NEW v \in Value, Within(v, A, T)
  PROVE  Says(Call("detaileddescription", get_value(v, "detaileddescription")),
              A, T)
<1> DEFINE d == get_value(v, "detaileddescription")
<1>1. CASE d = JsonNull
  BY <1>1, SpeaksTasks
<1>2. CASE \E e \in elements(v) : e.key = "detaileddescription" /\ e.value = d
  <2>1. PICK e \in elements(v) : e.key = "detaileddescription" /\ e.value = d
    BY <1>2
  <2>2. e \in Element /\ e = [key |-> "detaileddescription", value |-> d]
    BY <2>1, ElementsOf DEF Element
  <2>3. T[e] \subseteq A
    BY <2>1 DEF Within
  <2> HIDE DEF d
  <2>4. Says(Call("detaileddescription", d), A, T)
    BY <2>2, <2>3, SpeaksTasks
  <2> QED
    BY <2>4 DEF d
<1> QED
  BY <1>1, <1>2, ValueFound

\* What is printed of an element, where its texts are in A.
LEMMA BodiesSpeak ==
  ASSUME NEW A, NEW T, NEW set, Covers(A, T, set), Unread(set),
         NEW v \in Value, Within(v, A, T)
  PROVE  /\ Speaks(DetaileddescriptionBody(v), A, T)
         /\ Speaks(BriefdescriptionBody(v), A, T)
         /\ Speaks(BasecompoundrefBody(v), A, T)
         /\ Speaks(InnerclassBody(v), A, T)
         /\ Speaks(ListofallmembersBody(v), A, T)
         /\ Speaks(MemberBody(v), A, T)
         /\ Speaks(SectiondefBody(v), A, T)
         /\ Speaks(EnumvalueBody(v), A, T)
         /\ Speaks(ParamBody(v), A, T)
         /\ Speaks(ItemizedlistBody(v), A, T)
         /\ Speaks(ProgramlistingBody(v), A, T)
         /\ Speaks(SimplesectBody(v), A, T)
         /\ Speaks(RefBody(v), A, T)
         /\ Speaks(TypeOf(v), A, T)
<1> DEFINE visit == <<Visit(v)>>
<1>1. Speaks(visit, A, T) /\ Speaks(<<>>, A, T)
  BY SpeaksTasks, SpeaksFew
<1>2. \A t \in A : Speaks(<<Text(t)>>, A, T)
  BY SpeaksTasks, SpeaksFew
<1>3. \A t \in Words : t \in A
  BY DEF Covers
<1>4. \A key \in ReadKeys : get_value_as_string_view(v, key) \in A
  BY ReadWithin
<1>5. "" \in A
  BY <1>3 DEF Words
<1> HIDE DEF visit
<1>6. Speaks(DetaileddescriptionBody(v), A, T)
  <2>1. "Details" \in A
    BY <1>3 DEF Words
  <2>2. Speaks(When(config.details_title, Header("Details", <<>>)) \o visit, A, T)
    BY <1>1, <1>5, <2>1, SpeaksScopes, SpeaksThen
  <2> QED
    BY <1>5, <2>2, SpeaksScopes DEF DetaileddescriptionBody, visit
<1>7. Speaks(BriefdescriptionBody(v), A, T)
  BY <1>1, <1>5, SpeaksScopes DEF BriefdescriptionBody, visit
<1>8. Speaks(BasecompoundrefBody(v), A, T)
  <2> DEFINE url == print_hyperlink(get_value_as_string_view(v, "#text"), v,
                                    get_ref_id(v))
             prot == print_inline_code(get_value_as_string_view(v, "@prot"))
             virt == When(get_value_as_string_view(v, "@virt") # "non-virtual",
                          <<Text("virtual")>>)
  <2>1. "#text" \in ReadKeys /\ "@prot" \in ReadKeys
    BY DEF ReadKeys
  <2>2. Speaks(url, A, T) /\ Speaks(prot, A, T)
    BY <1>4, <1>5, <2>1, SpeaksHelpers
  <2>3. "virtual" \in A
    BY <1>3 DEF Words
  <2>4. Speaks(virt, A, T)
    BY <1>2, <1>5, <2>3, SpeaksScopes
  <2> HIDE DEF url, prot, virt
  <2>5. Speaks(url \o prot \o virt, A, T)
    BY <2>2, <2>4, SpeaksThen
  <2> QED
    BY <1>5, <2>5, SpeaksScopes DEF BasecompoundrefBody, url, prot, virt
<1>9. Speaks(InnerclassBody(v), A, T) /\ Speaks(MemberBody(v), A, T)
  <2>1. "#text" \in ReadKeys /\ "name" \in ReadKeys
    BY DEF ReadKeys
  <2> QED
    BY <1>4, <1>5, <2>1, SpeaksHelpers, SpeaksScopes
    DEF InnerclassBody, MemberBody
<1>10. Speaks(ListofallmembersBody(v), A, T)
  <2>1. "List of All Members" \in A
    BY <1>3 DEF Words
  <2> QED
    BY <1>1, <1>5, <2>1, SpeaksScopes DEF ListofallmembersBody, visit
<1>11. Speaks(SectiondefBody(v), A, T)
  <2>1. "@kind" \in ReadKeys
    BY DEF ReadKeys
  <2> QED
    BY <1>1, <1>4, <1>5, <2>1, SpeaksScopes DEF SectiondefBody, visit
<1>12. Speaks(EnumvalueBody(v), A, T)
  <2>1. get_value_as_string_view(v, "name") \in A
    BY <1>4 DEF ReadKeys
  <2> QED
    BY <1>1, <1>2, <1>5, <2>1, SpeaksTasks, SpeaksFew, SpeaksScopes
    DEF EnumvalueBody, visit
<1>13. Speaks(TypeOf(v), A, T)
  <2>1. "type" \in ReadKeys
    BY DEF ReadKeys
  <2>2. Json[get_value(v, "type")].text \in A
        /\ Within(get_value(v, "type"), A, T)
    BY <2>1, ReadWithin DEF Within
  <2> QED
    BY <1>5, <2>2, SpeaksHelpers, SpeaksTasks, SpeaksFew DEF TypeOf
<1>14. Speaks(ParamBody(v), A, T)
  <2> DEFINE name == print_inline_code(get_value_as_string_view(v, "declname"))
             brief == When(~is_null(get_value(v, "briefdescription")), visit)
  <2>1. "declname" \in ReadKeys
    BY DEF ReadKeys
  <2>2. Speaks(name, A, T)
    BY <1>4, <1>5, <2>1, SpeaksHelpers
  <2>3. Speaks(brief, A, T)
    BY <1>1, <1>5, SpeaksScopes
  <2> HIDE DEF name, brief
  <2>4. Speaks(TypeOf(v) \o name \o brief, A, T)
    BY <1>13, <2>2, <2>3, SpeaksThen
  <2> QED
    BY <1>5, <2>4, SpeaksScopes DEF ParamBody, visit, name, brief
<1>15. Speaks(ItemizedlistBody(v), A, T) /\ Speaks(ProgramlistingBody(v), A, T)
  BY <1>1, <1>5, SpeaksScopes DEF ItemizedlistBody, ProgramlistingBody, visit
<1>16. Speaks(SimplesectBody(v), A, T)
  <2>1. "***" \in A
    BY <1>3 DEF Words
  <2>2. Speaks(<<Text("***"), Visit(v)>>, A, T)
    BY <2>1, SpeaksTasks, SpeaksFew
  <2> QED
    BY <1>5, <2>2, SpeaksScopes DEF SimplesectBody
<1>17. Speaks(RefBody(v), A, T)
  <2>1. "#text" \in ReadKeys
    BY DEF ReadKeys
  <2> QED
    BY <1>2, <1>4, <1>5, <2>1, SpeaksHelpers DEF RefBody
<1> QED
  BY <1>6, <1>7, <1>8, <1>9, <1>10, <1>11, <1>12, <1>13, <1>14,
     <1>15, <1>16, <1>17

LEMMA CompoundSpeaks ==
  ASSUME NEW A, NEW T, NEW set, Covers(A, T, set), Unread(set),
         NEW v \in Value, Within(v, A, T)
  PROVE  Speaks(CompounddefBody(v), A, T)
<1> DEFINE visit == <<Visit(v)>>
           description ==
             <<Call("detaileddescription", get_value(v, "detaileddescription"))>>
<1>1. Speaks(visit, A, T) /\ Speaks(description, A, T)
  BY DescriptionWithin, SpeaksTasks, SpeaksFew
<1> HIDE DEF visit, description
<1>2. "" \in A /\ "Summary" \in A
  BY DEF Covers, Words
<1>3. EffectiveTitle(v) \in A
  BY ReadWithin DEF EffectiveTitle, ReadKeys
<1>4. Speaks(description \o visit, A, T)
  BY <1>1, SpeaksThen
<1>5. /\ Speaks(Header(EffectiveTitle(v), Header("Summary", visit)), A, T)
      /\ Speaks(Header(EffectiveTitle(v), description \o visit), A, T)
  BY <1>1, <1>2, <1>3, <1>4, SpeaksScopes
<1> QED
  BY <1>4, <1>5 DEF CompounddefBody, visit, description

LEMMA MemberSpeaks ==
  ASSUME NEW A, NEW T, NEW set, Covers(A, T, set), Unread(set),
         NEW v \in Value, Within(v, A, T)
  PROVE  Speaks(MemberdefSummary(v), A, T) /\ Speaks(MemberdefDetails(v), A, T)
<1> DEFINE visit == <<Visit(v)>>
           flag(key, value, word) ==
             When(get_value_as_string_view(v, key) = value, <<Text(word)>>)
           name == get_value_as_string_view(v, "name")
           definition == get_value_as_string_view(v, "definition")
           typeless == is_null(get_value(v, "type"))
           parameters == When(count_children(v, "param") > 0,
                              <<Text("***Parameters:***")>>)
           type == <<Text("***Type:*** ")>> \o TypeOf(v) \o parameters
<1>1. /\ Speaks(visit, A, T)
      /\ \A t \in A : Speaks(<<Text(t)>>, A, T)
      /\ \A t \in A : \A url : Speaks(<<Link(t, url)>>, A, T)
  BY SpeaksTasks, SpeaksFew
<1>2. name \in A /\ definition \in A
  BY ReadWithin DEF ReadKeys
<1>3. \A t \in Words : t \in A
  BY DEF Covers
<1>4. "" \in A
  BY <1>3 DEF Words
<1>5. Speaks(MemberdefSummary(v), A, T)
  <2> DEFINE link == <<Link(name, Url(v, get_id(v)))>>
             rest == IF get_value_as_string_view(v, "@kind") = "enum"
                       THEN List(visit) ELSE visit
  <2>1. Speaks(link, A, T)
    <3> HIDE DEF name
    <3> QED
      BY <1>1, <1>2
  <2>2. Speaks(rest, A, T)
    <3> HIDE DEF visit
    <3> QED
      BY <1>1, <1>4, SpeaksScopes
  <2>3. MemberdefSummary(v) = link \o rest
    BY DEF MemberdefSummary
  <2> HIDE DEF link, rest
  <2> QED
    BY <2>1, <2>2, <2>3, SpeaksThen
<1>6. Speaks(MemberdefDetails(v), A, T)
  <2>1. \A key, value : \A word \in A : Speaks(flag(key, value, word), A, T)
    BY <1>1, <1>4, SpeaksScopes
  <2>2. Speaks(parameters, A, T)
    <3>1. "***Parameters:***" \in A
      BY <1>3 DEF Words
    <3> QED
      BY <1>1, <1>4, <3>1, SpeaksScopes
  <2>3. Speaks(type, A, T)
    <3>1. Speaks(TypeOf(v), A, T)
      BY BodiesSpeak
    <3>2. "***Type:*** " \in A
      BY <1>3 DEF Words
    <3> HIDE DEF parameters
    <3> QED
      BY <1>1, <2>2, <3>1, <3>2, SpeaksThen
  <2> DEFINE d == When(definition # "", Fence(<<Text(definition)>>))
             t == When(definition # "" /\ ~typeless, type)
             r == When(definition = "" \/ ~typeless, visit)
             f == flag("@virtual", "virtual", "virtual")
             g == flag("@inline", "yes", "inline")
             h == flag("@explicit", "yes", "explicit")
  <2>4. Speaks(d, A, T) /\ Speaks(t, A, T) /\ Speaks(r, A, T)
    <3> HIDE DEF type, visit, definition, typeless
    <3> QED
      BY <1>1, <1>2, <1>4, <2>3, SpeaksScopes
  <2>5. Speaks(f, A, T) /\ Speaks(g, A, T) /\ Speaks(h, A, T)
    <3>1. "virtual" \in A /\ "inline" \in A /\ "explicit" \in A
      BY <1>3 DEF Words
    <3> QED
      BY <2>1, <3>1
  <2>6. MemberdefDetails(v) =
          print_anchor(get_id(v)) \o Header(name, f \o g \o h \o d \o t \o r)
    BY DEF MemberdefDetails
  <2> HIDE DEF d, t, r, f, g, h, name
  <2>7. Speaks(f \o g \o h \o d \o t \o r, A, T)
    BY <2>4, <2>5, SpeaksThen
  <2>8. Speaks(Header(name, f \o g \o h \o d \o t \o r), A, T)
    BY <1>2, <1>4, <2>7, SpeaksScopes
  <2>9. Speaks(print_anchor(get_id(v)), A, T)
    BY <1>4, SpeaksHelpers
  <2> QED
    BY <2>6, <2>8, <2>9, SpeaksThen
<1> QED
  BY <1>5, <1>6

\* The handler of an element prints what it may: nothing of an element of the
\* set, and of another one what its texts and those of its children say.
LEMMA HandlerSpeaks ==
  ASSUME NEW A, NEW T, NEW set, Covers(A, T, set), Unread(set), Quiet(set),
         NEW key, NEW v \in Value, Says(Call(key, v), A, T)
  PROVE  Speaks(BodyOf(key, v), A, T)
<1>1. CASE key = "detaileddescription" /\ v = JsonNull
  <2>1. is_null(v)
    BY <1>1, JsonAssumption DEF is_null
  <2>2. BodyOf(key, v) = <<>>
    BY <1>1, <2>1 DEF BodyOf, DetaileddescriptionBody, When
  <2> QED
    BY <2>2, SpeaksFew
<1>2. CASE [key |-> key, value |-> v] \in set
  <2>1. BodyOf(key, v) = <<>>
    BY <1>2 DEF Quiet
  <2> QED
    BY <2>1, SpeaksFew
<1>3. CASE /\ ~(key = "detaileddescription" /\ v = JsonNull)
           /\ [key |-> key, value |-> v] \notin set
  <2>1. Within(v, A, T)
    BY <1>3 DEF Says, Covers, Call, Do
  <2> DEFINE visit == <<Visit(v)>>
  <2>2. Speaks(visit, A, T) /\ Speaks(<<>>, A, T)
    BY <2>1, SpeaksTasks, SpeaksFew
  <2>3. \A t \in Words : t \in A
    BY DEF Covers
  <2>4. "" \in A
    BY <2>3 DEF Words
  <2> HIDE DEF visit
  <2>5. Speaks(When(~is_summary, visit), A, T)
    BY <2>2, <2>4, SpeaksScopes
  <2>6. Speaks(IF is_string(v) THEN print_inline_code(Json[v].text)
                              ELSE visit, A, T)
    BY <2>1, <2>2, <2>4, SpeaksHelpers DEF Within
  <2>7. Speaks(IF is_summary THEN MemberdefSummary(v)
                            ELSE MemberdefDetails(v), A, T)
    BY <2>1, MemberSpeaks
  <2>8. \A t \in Words : Speaks(<<Text(t), Visit(v)>>, A, T)
    BY <2>1, <2>3, SpeaksTasks, SpeaksFew
  <2>9. Speaks(<<Text("*"), Visit(v), Text("*")>>, A, T)
    <3>1. "*" \in A
      BY <2>3 DEF Words
    <3> QED
      BY <2>1, <3>1, SpeaksTasks, SpeaksFew
  <2>10. "- " \in Words /\ " " \in Words /\ "***Template Parameters***" \in Words
    BY DEF Words
  <2>11. CASE key \in {"compounddef", "detaileddescription",
                       "briefdescription", "basecompoundref", "innerclass",
                       "listofallmembers", "member"}
    BY <2>1, <2>11, BodiesSpeak, CompoundSpeaks DEF BodyOf
  <2>12. CASE key \in {"sectiondef", "enumvalue", "param", "itemizedlist",
                       "programlisting", "simplesect", "ref"}
    BY <2>1, <2>12, BodiesSpeak DEF BodyOf
  <2>13. CASE key \in {"memberdef", "codeline", "computeroutput"}
    BY <2>5, <2>6, <2>7, <2>13 DEF BodyOf, visit
  <2>14. CASE key \in {"emphasis", "listitem", "sp", "templateparamlist"}
    BY <2>8, <2>9, <2>10, <2>14 DEF BodyOf
  <2>15. CASE key \in {"doxygen", "highlight", "inbodydescription",
                       "location", "para", "#text"}
    BY <2>2, <2>15 DEF BodyOf, visit
  <2> QED
    BY <2>2, <2>11, <2>12, <2>13, <2>14, <2>15 DEF BodyOf
<1> QED
  BY <1>1, <1>2, <1>3

\* print() says what there is below a value.
LEMMA ChildrenSpeak ==
  ASSUME NEW A, NEW T, NEW v \in Value, Within(v, A, T)
  PROVE  Speaks(Children(v), A, T)
<1> DEFINE kids == Json[v].kids
           S == {Handle(e.key, e.value) : e \in elements(v)}
<1>1. /\ kids \in Seq(Element)
      /\ DOMAIN kids = 1 .. Len(kids)
      /\ elements(v) = {kids[i] : i \in 1 .. Len(kids)}
      /\ elements(v) \subseteq Element
  BY JsonAssumption, ElementsOf DEF Element
<1>2. Children(v) =
        [i \in 1 .. Len(kids) |-> Handle(kids[i].key, kids[i].value)]
  BY <1>1 DEF Children
<1>3. Len(kids) \in Nat
  BY <1>1
<1>4. Children(v) \in Seq(S)
  BY <1>1, <1>2, <1>3
<1>5. ASSUME NEW e \in elements(v)
      PROVE  Says(Handle(e.key, e.value), A, T)
  <2>1. e \in Element /\ e = [key |-> e.key, value |-> e.value]
    BY <1>1, <1>5 DEF Element
  <2>2. T[e] \subseteq A
    BY DEF Within
  <2> QED
    BY <2>1, <2>2, SpeaksTasks
<1>6. \A x \in S : Says(x, A, T)
  BY <1>5
<1> HIDE DEF S
<1> QED
  BY <1>4, <1>6, SpeaksOf

----------------------------------------------------------------------------
(* The steps of the summary and the details pass *)

\* What is printed and what is still to be printed is in A.
Telling(A, T) == Speaks(work, A, T) /\ PrintedTexts \subseteq A

\* A step that replaces the next item.
LEMMA TellingReplaced ==
  ASSUME NEW A, NEW T, Telling(A, T), work # <<>>,
         NEW items, Speaks(items, A, T), work' = items \o Tail(work),
         UNCHANGED out
  PROVE  Telling(A, T)'
<1>1. Speaks(items \o Tail(work), A, T)
  BY SpeaksNext, SpeaksThen DEF Telling
<1>2. PrintedTexts' = PrintedTexts
  BY DEF PrintedTexts
<1> QED
  BY <1>1, <1>2 DEF Telling

LEMMA TellingDispatch ==
  ASSUME NEW A, NEW T, Telling(A, T), Dispatch
  PROVE  Telling(A, T)'
<1>1. /\ work # <<>> /\ Head(work).do = "handle"
      /\ UNCHANGED out
      /\ \/ work' = <<Call(element, input), Leave(element, input)>>
                      \o Tail(work)
         \/ work' = <<>> \o Tail(work)
  BY DEF Dispatch, IsNext, Becomes
<1>2. Says(Head(work), A, T)
  BY <1>1, SpeaksNext DEF Telling
<1>3. Says(Call(element, input), A, T) /\ Says(Leave(element, input), A, T)
  <2>1. Says(Call(element, input), A, T)
    BY <1>1, <1>2 DEF Says, Call, Do, element, input, HasText
  <2> QED
    BY <2>1, SpeaksTasks
<1>4. PICK pair : pair = <<Call(element, input), Leave(element, input)>>
  OBVIOUS
<1>5. Speaks(pair, A, T) /\ Speaks(<<>>, A, T)
  BY <1>3, <1>4, SpeaksFew
<1>6. CASE work' = pair \o Tail(work)
  BY <1>1, <1>5, <1>6, TellingReplaced
<1>7. CASE work' = <<>> \o Tail(work)
  BY <1>1, <1>5, <1>7, TellingReplaced
<1> QED
  BY <1>1, <1>4, <1>6, <1>7

LEMMA TellingPop ==
  ASSUME NEW A, NEW T, Telling(A, T), PopName
  PROVE  Telling(A, T)'
<1>1. work # <<>> /\ work' = <<>> \o Tail(work) /\ UNCHANGED out
  BY DEF PopName, IsNext, Becomes
<1> QED
  BY <1>1, SpeaksFew, TellingReplaced

LEMMA TellingPrint ==
  ASSUME NEW A, NEW T, "" \in A, Items(work), Telling(A, T), PrintValue
  PROVE  Telling(A, T)'
<1> DEFINE items == IF is_string(input)
                      THEN When(~is_add_links, <<Text(Json[input].text)>>)
                      ELSE Children(input)
<1>1. /\ work # <<>> /\ Head(work).do = "print" /\ UNCHANGED out
      /\ work' = items \o Tail(work)
  BY DEF PrintValue, IsNext, Becomes
<1>2. input \in Value
  BY <1>1, NextItem
<1>3. Within(input, A, T)
  BY <1>1, SpeaksNext DEF Telling, Says, input
<1>4. Speaks(items, A, T)
  <2>1. Speaks(<<Text(Json[input].text)>>, A, T)
    BY <1>3, SpeaksTasks, SpeaksFew DEF Within
  <2>2. Speaks(When(~is_add_links, <<Text(Json[input].text)>>), A, T)
    BY <2>1, SpeaksScopes
  <2> QED
    BY <1>2, <1>3, <2>2, ChildrenSpeak
<1> HIDE DEF items
<1> QED
  BY <1>1, <1>4, TellingReplaced

LEMMA TellingEmit ==
  ASSUME NEW A, NEW T, Printed(out), Telling(A, T), Emit
  PROVE  Telling(A, T)'
<1>1. /\ work # <<>> /\ work' = <<>> \o Tail(work)
      /\ out' = Append(out, Head(work))
  BY DEF Emit, Becomes
<1>2. Says(Head(work), A, T) /\ Speaks(Tail(work), A, T)
  BY <1>1, SpeaksNext DEF Telling
<1>3. Speaks(work', A, T)
  BY <1>1, <1>2, SpeaksFew, SpeaksThen
<1>4. PrintedTexts' \subseteq A
  <2>1. PICK S : out \in Seq(S)
    BY DEF Printed
  <2>2. PICK x : x = Head(work)
    OBVIOUS
  <2>3. /\ DOMAIN out = 1 .. Len(out) /\ Len(out) \in Nat
        /\ DOMAIN Append(out, x) = 1 .. Len(out) + 1
        /\ \A i \in 1 .. Len(out) : Append(out, x)[i] = out[i]
        /\ Append(out, x)[Len(out) + 1] = x
    BY <2>1
  <2>4. out' = Append(out, x)
    BY <1>1, <2>2
  <2>5. ASSUME NEW i \in DOMAIN out', HasText(out'[i])
        PROVE  out'[i].text \in A
    <3>1. CASE i \in 1 .. Len(out)
      <4>1. out'[i] = out[i] /\ i \in DOMAIN out
        BY <2>3, <2>4, <3>1
      <4> QED
        BY <2>5, <4>1 DEF Telling, PrintedTexts
    <3>2. CASE i \notin 1 .. Len(out)
      <4>1. out'[i] = x
        BY <2>3, <2>4, <2>5, <3>2
      <4> QED
        BY <1>2, <2>2, <2>5, <4>1 DEF Says
    <3> QED
      BY <3>1, <3>2
  <2> QED
    BY <2>5 DEF PrintedTexts
<1> QED
  BY <1>3, <1>4 DEF Telling

LEMMA TellingHandlers ==
  ASSUME NEW A, NEW T, NEW set, Covers(A, T, set), Unread(set), Quiet(set),
         Items(work), Telling(A, T), Handlers
  PROVE  Telling(A, T)'
<1>1. /\ work # <<>> /\ Head(work).do = "call" /\ UNCHANGED out
      /\ work' = BodyOf(element, input) \o Tail(work)
  BY HandlersAre
<1>2. input \in Value
  BY <1>1, NextItem
<1>3. Says(Head(work), A, T)
  BY <1>1, SpeaksNext DEF Telling
<1>4. Says(Call(element, input), A, T)
  BY <1>1, <1>3 DEF Says, Call, Do, element, input, HasText
<1>5. Speaks(BodyOf(element, input), A, T)
  BY <1>2, <1>4, HandlerSpeaks
<1> QED
  BY <1>1, <1>5, TellingReplaced

----------------------------------------------------------------------------
(* The page *)

\* The elements a summary, and a page, says nothing of.
Details == {e \in Element : e.key \in Detail}
HiddenElements == {e \in Element : Hidden(e)}

\* The words of the program, and the texts outside the elements of a set.
TextsAllowed(set) == Words \cup TextsWithout(set)[document]

TellsWithout(set) == Telling(TextsAllowed(set), TextsWithout(set))

\* What is printed, and what is still to be printed by the pass, comes from
\* outside what the page, and the summary, leave out.
PageInv ==
  /\ pass = "summary" => TellsWithout(Details)
  /\ pass \in {"summary", "details", "done"} =>
       TellsWithout(HiddenElements)

\* None of these elements is printed by its handler, or read by its parent's.
LEMMA NotPrinted ==
  /\ is_summary => Quiet(Details)
  /\ Quiet(HiddenElements)
  /\ Unread(Details) /\ Unread(HiddenElements)
<1>1. is_summary => Quiet(Details)
  BY DEF Quiet, Details, Detail, BodyOf, BriefdescriptionBody,
         DetaileddescriptionBody, ParamBody, ItemizedlistBody,
         ProgramlistingBody, SimplesectBody, When
<1>2. Quiet(HiddenElements)
  <2> SUFFICES ASSUME NEW e \in HiddenElements
               PROVE  BodyOf(e.key, e.value) = <<>>
    BY DEF Quiet
  <2>1. Hidden(e)
    BY DEF HiddenElements
  <2>2. CASE e.key = "sectiondef" /\ HidesSection(e.value)
    BY <2>2 DEF BodyOf, SectiondefBody, When
  <2>3. CASE /\ e.key \in {"member", "innerclass"}
             /\ Hides(get_value_as_string_view(e.value, "@prot"))
    BY <2>3 DEF BodyOf, MemberBody, InnerclassBody, When
  <2> QED
    BY <2>1, <2>2, <2>3 DEF Hidden
<1>3. Unread(Details) /\ Unread(HiddenElements)
  BY DEF Unread, ReadKeys, Details, Detail, HiddenElements, Hidden
<1> QED
  BY <1>1, <1>2, <1>3

\* A pass starts with a page that says nothing else.
LEMMA TellingBegins ==
  ASSUME NEW set, NEW A, NEW T, A = TextsAllowed(set), T = TextsWithout(set),
         job.document \in Documents, PrintedTexts \subseteq A,
         work' = <<Handle("doxygen", job.document)>>, UNCHANGED out
  PROVE  Telling(A, T)'
<1>1. document \in Element /\ T[document] \subseteq A
  BY CompoundAssumption DEF document, Documents, TextsAllowed
<1>2. Says(Handle("doxygen", job.document), A, T)
  BY <1>1, SpeaksTasks DEF document
<1>3. Speaks(work', A, T)
  BY <1>2, SpeaksFew
<1>4. PrintedTexts' = PrintedTexts
  BY DEF PrintedTexts
<1> QED
  BY <1>3, <1>4 DEF Telling

\* A step of a pass tells nothing else.
LEMMA TellingStep ==
  ASSUME NEW set, NEW A, NEW T, A = TextsAllowed(set), T = TextsWithout(set),
         Quiet(set), Unread(set), StateInv, Telling(A, T),
         Dispatch \/ PopName \/ PrintValue \/ Emit \/ Handlers
  PROVE  Telling(A, T)'
<1>1. Covers(A, T, set)
  BY TextsCover DEF TextsAllowed
<1>2. "" \in A
  BY <1>1 DEF Covers, Words
<1>3. Items(work) /\ Printed(out)
  BY DEF StateInv
<1> QED
  BY <1>1, <1>2, <1>3, TellingDispatch, TellingPop, TellingPrint, TellingEmit,
     TellingHandlers

\* The sets do not change with a step, and so what may be printed.
LEMMA SetsStay ==
  ASSUME UNCHANGED job
  PROVE  /\ HiddenElements' = HiddenElements
         /\ \A set : TextsAllowed(set)' = TextsAllowed(set)
         /\ document' = document
<1>1. config' = config /\ document' = document
  BY DEF config, document
<1>2. \A e : Hidden(e)' = Hidden(e)
  BY <1>1 DEF Hidden, HidesSection, Hides
<1>3. HiddenElements' = HiddenElements
  BY <1>2 DEF HiddenElements
<1>4. \A set : TextsAllowed(set)' = TextsAllowed(set)
  BY <1>1 DEF TextsAllowed
<1> QED
  BY <1>1, <1>3, <1>4

LEMMA PageNext == StateInv /\ LinksInv /\ PageInv /\ [Next]_vars => PageInv'
<1> SUFFICES ASSUME StateInv, LinksInv, PageInv, [Next]_vars  PROVE PageInv'
  OBVIOUS
<1>0. UNCHANGED job
  BY JobStays
<1>1. PICK d, h : d = Details /\ h = HiddenElements
  OBVIOUS
<1>2. PICK D, H : D = TextsAllowed(d) /\ H = TextsAllowed(h)
  OBVIOUS
<1>3. /\ Details' = d /\ HiddenElements' = h
      /\ TextsAllowed(d)' = D /\ TextsAllowed(h)' = H
  BY <1>0, <1>1, <1>2, SetsStay DEF Details
<1> DEFINE T(set) == TextsWithout(set)
<1>4. /\ pass' = "summary" => Telling(D, T(d))'
      /\ pass' \in {"summary", "details", "done"} =>
           Telling(H, T(h))'
      => PageInv'
  BY <1>3 DEF PageInv, TellsWithout
<1>5. /\ pass = "summary" => Telling(D, T(d))
      /\ pass \in {"summary", "details", "done"} =>
           Telling(H, T(h))
  BY <1>1, <1>2 DEF PageInv, TellsWithout
<1>6. CASE Load
  BY <1>4, <1>6 DEF Load
<1>7. CASE ProcessSummary \/ ProcessDetails
  <2>1. /\ \/ pass = "links"
           \/ pass = "summary" /\ pass' = "details"
        /\ pass' \in {"summary", "details"}
        /\ work' = <<Handle("doxygen", job.document)>>
        /\ UNCHANGED out /\ job.document \in Documents
    BY <1>7 DEF ProcessSummary, ProcessDetails, StartPass, StateInv
  <2>2. pass = "links" => PrintedTexts = {}
    BY DEF LinksInv, PrintedTexts
  <2>3. pass = "links" => Telling(D, T(d))'
    BY <1>2, <2>1, <2>2, TellingBegins
  <2>4. Telling(H, T(h))'
    <3>1. PrintedTexts \subseteq H
      BY <1>5, <2>1, <2>2 DEF Telling
    <3> QED
      BY <1>2, <2>1, <3>1, TellingBegins
  <2> HIDE DEF T
  <2> QED
    BY <1>4, <2>1, <2>3, <2>4
<1>8. CASE Finish
  <2>1. pass = "details" /\ pass' = "done" /\ UNCHANGED <<work, out>>
    BY <1>8 DEF Finish
  <2>2. \A A, S : Telling(A, S) => Telling(A, S)'
    BY <2>1 DEF Telling, PrintedTexts
  <2> HIDE DEF T
  <2> QED
    BY <1>4, <1>5, <2>1, <2>2
<1>9. CASE Dispatch \/ PopName \/ PrintValue \/ Emit \/ Handlers
  <2>1. /\ UNCHANGED pass
        /\ pass \notin {"load", "done", "failed"}
    <3>1. UNCHANGED pass /\ work # <<>>
      BY <1>9, HandlersAre
      DEF Dispatch, PopName, PrintValue, Emit, IsNext, state
    <3> QED
      BY <3>1 DEF StateInv
  <2>2. ASSUME pass = "summary"  PROVE Telling(D, T(d))'
    <3>1. Quiet(d) /\ Unread(d)
      BY <1>1, <2>2, NotPrinted DEF is_summary
    <3> QED
      BY <1>2, <1>5, <1>9, <2>2, <3>1, TellingStep
  <2>3. ASSUME pass \in {"summary", "details"}
        PROVE  Telling(H, T(h))'
    <3>1. Quiet(h) /\ Unread(h)
      BY <1>1, NotPrinted
    <3> QED
      BY <1>2, <1>5, <1>9, <2>3, <3>1, TellingStep
  <2> HIDE DEF T
  <2> QED
    BY <1>4, <2>1, <2>2, <2>3
<1>10. CASE AddLinks \/ CompounddefLinks
  <2>1. pass = "links" /\ UNCHANGED pass
    BY <1>10 DEF AddLinks, CompounddefLinks, is_add_links, state
  <2> QED
    BY <1>4, <2>1
<1>11. CASE UNCHANGED vars
  <2>1. UNCHANGED <<pass, work, out>>
    BY <1>11 DEF vars, state
  <2>2. \A A, S : Telling(A, S) => Telling(A, S)'
    BY <2>1 DEF Telling, PrintedTexts
  <2> HIDE DEF T
  <2> QED
    BY <1>4, <1>5, <2>1, <2>2
<1> QED
  BY <1>6, <1>7, <1>8, <1>9, <1>10, <1>11 DEF Next, Step, Ended

LEMMA PageInvariant == Spec => []PageInv
<1>1. Init => PageInv
  BY DEF Init, PageInv
<1> QED
  BY <1>1, PageNext, StateInvariant, LinksInvariant, PTL DEF Spec

----------------------------------------------------------------------------
(* The theorems *)

\* The summary of every document says nothing of its brief and detailed
\* descriptions, parameters, lists, listings and simple sections, however deep
\* they are and whatever is in them: all it prints are words of the program
\* and texts found outside them, an inbodydescription among these
\* (DoxyJson.cpp:208, 220, 308, 402, 582, 606, 670).
THEOREM SummariesAreBrief == Spec => []SummaryIsBrief
<1>1. PageInv => SummaryIsBrief
  BY DEF PageInv, SummaryIsBrief, TellsWithout, Telling, TextsAllowed,
         PrintedWithout, Details
<1> QED
  BY <1>1, PageInvariant, PTL

\* No page prints what is only in the sections, inner classes and listed
\* members that its configuration hides, at any depth below them
\* (DoxyJson.cpp:384-390, 447-453, 635-647).
THEOREM HiddenIsNotPrinted == Spec => []HiddenStaysHidden
<1>1. PageInv => HiddenStaysHidden
  BY DEF PageInv, HiddenStaysHidden, TellsWithout, Telling, TextsAllowed,
         PrintedWithout, HiddenElements
<1> QED
  BY <1>1, PageInvariant, PTL

=============================================================================
