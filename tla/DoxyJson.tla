------------------------------ MODULE DoxyJson ------------------------------
(***************************************************************************)
(* DoxyJson::process_file and the handlers of DoxyJson.cpp: three passes   *)
(* over one doxygen document.  The first gathers the ids of the page, the  *)
(* second prints its summary, the third its details.                       *)
(*                                                                         *)
(* The handlers call each other through print() and handle().  The call    *)
(* stack is explicit here: work holds what remains to be done, innermost   *)
(* first, and a handler replaces its call by what its body does, in order. *)
(* What a handler prints is kept as tokens; blank lines are left out.      *)
(***************************************************************************)
EXTENDS LinkUrl, FiniteSets

CONSTANTS
  Value,     \* the JSON values of the documents under study
  Json,      \* what is in a value
  JsonNull,  \* json::JsonNull()
  Jobs       \* what a DoxyJson object is built with and called on

\* An element as JsonDocument::from_xml_string() delivers it with
\* IsXmlFlat::no: null without content, a string when it is nothing but text,
\* otherwise an array of single-key objects: its attributes, whose keys start
\* with "@", and its children.  The id of a string is its parts between
\* underscores, for the strings that are ids.  The size of a value is the number
\* of values in it: a document is finite.
ASSUME JsonAssumption ==
  /\ JsonNull \in Value
  /\ Json[JsonNull].form = "null"
  /\ \A v \in Value :
       /\ Json[v].form \in {"null", "string", "array"}
       /\ Json[v].text \in STRING
       /\ Json[v].kids \in Seq([key : STRING, value : Value])
       /\ Json[v].form # "array" => Json[v].kids = <<>>
       /\ Json[v].id \in Seq(STRING)
       /\ Json[v].form # "string" => Json[v].text = "" /\ Json[v].id = <<>>
       /\ Json[v].size \in Nat
       /\ \A i \in DOMAIN Json[v].kids :
            Json[Json[v].kids[i].value].size < Json[v].size

\* document, configuration, output folder, and the catalogue of link tags.
ASSUME JobAssumption ==
  \A j \in Jobs :
    /\ j.document \in Value
    /\ j.folder \in Seq(STRING)

\* What a page depends on in the configuration: switches, and the suffix of
\* its links, which is empty by default (Configuration.cpp:15).
Config ==
  [generate_summary : BOOLEAN, show_private : BOOLEAN,
   show_protected : BOOLEAN, anchor_headers : BOOLEAN, anchor_html : BOOLEAN,
   use_relative_paths : BOOLEAN, details_title : BOOLEAN,
   members_title : BOOLEAN, link_suffix : {"", ".md"}]

VARIABLES
  job,              \* document, configuration, output folder, catalogue
  pass,             \* "load", then the passes, then "done" or "failed"
  external_prefix,  \* m_external_prefix: how many "../"
  compound_def_id,  \* m_compound_def_id
  link_container,   \* m_link_container, as a set
  names,            \* m_name_container
  work,             \* what remains to be done in this pass
  out               \* m_printer.output()

state == <<job, pass, external_prefix>>
links == <<compound_def_id, link_container>>
vars == <<state, links, names, work, out>>

config == job.config

is_add_links == pass = "links"
is_summary == pass = "summary"

\* The elements handle() dispatches on; attributes, whose lines are inside
\* "#if 0", are not among them.
Handled ==
  {"argsstring", "basecompoundref", "briefdescription", "codeline",
   "compounddef", "compoundname", "computeroutput", "declname", "definition",
   "detaileddescription", "doxygen", "emphasis", "enumvalue", "highlight",
   "inbodydescription", "innerclass", "innerfile", "itemizedlist",
   "listitem", "listofallmembers", "location", "member", "memberdef", "name",
   "para", "param", "programlisting", "ref", "sectiondef", "simplesect",
   "sp", "templateparamlist", "title", "type"}

HasHandler(key) == key \in Handled \/ key = "#text"

----------------------------------------------------------------------------
(* What the handlers read *)

\* The first child of that name.
get_value(v, key) ==
  LET i == SelectInSeq(Json[v].kids, LAMBDA kid : kid.key = key)
  IN  IF i = 0 THEN JsonNull ELSE Json[v].kids[i].value

is_null(v) == Json[v].form = "null"
is_string(v) == Json[v].form = "string"

get_value_as_string_view(v, key) == Json[get_value(v, key)].text

get_id(v) == Json[get_value(v, "@id")].id
get_ref_id(v) == Json[get_value(v, "@refid")].id

count_children(v, key) == Len(Json[get_value(v, key)].kids)

get_parent_name == IF Len(names) > 1 THEN names[Len(names) - 1] ELSE ""

has_parent(name) == Contains(names, name)

\* What the configuration keeps out of a page.
Hides(prot) == \/ prot = "private" /\ ~config.show_private
               \/ prot = "protected" /\ ~config.show_protected

\* The section kinds of doxygen whose name contains "private" or "protected";
\* "user-defined" sections and the public ones contain neither.
is_private(kind) ==
  kind \in {"private-type", "private-func", "private-attrib", "private-slot",
            "private-static-func", "private-static-attrib"}
is_proteted(kind) ==
  kind \in {"protected-type", "protected-func", "protected-attrib",
            "protected-slot", "protected-static-func",
            "protected-static-attrib"}

HidesSection(v) ==
  LET kind == get_value_as_string_view(v, "@kind")
  IN  \/ is_private(kind) /\ ~config.show_private
      \/ is_proteted(kind) /\ ~config.show_protected

----------------------------------------------------------------------------
(* What the handlers do: tokens to print, and calls *)

Do(what, key, v) == [do |-> what, key |-> key, value |-> v]
Handle(key, v) == Do("handle", key, v)  \* handle(): push, call, pop
Call(key, v) == Do("call", key, v)      \* the handler of the element
Leave(key, v) == Do("leave", key, v)    \* m_name_container.pop_back()
Visit(v) == Do("print", "", v)          \* print(json::JsonValue)

Text(t) == [do |-> "text", text |-> t]
Link(t, url) == [do |-> "link", text |-> t, url |-> url]
Anchor(id, form) == [do |-> "anchor", id |-> id, form |-> form]
Open(scope, t) == [do |-> "open", scope |-> scope, text |-> t]
Close(scope) == [do |-> "close", scope |-> scope]
IsToken(item) == item.do \in {"text", "link", "anchor", "open", "close"}

When(condition, items) == IF condition THEN items ELSE <<>>

\* A MarkdownPrinter scope, closed by its destructor.
Header(t, items) == <<Open("header", t)>> \o items \o <<Close("header")>>
List(items) == <<Open("list", "")>> \o items \o <<Close("list")>>
Fence(items) == <<Open("fence", "")>> \o items \o <<Close("fence")>>

print_inline_code(t) == When(t # "", <<Text(t)>>)

Url(v, id) ==
  get_link_url(LinkAttributes(get_value_as_string_view(v, "@kindref"),
                              ~is_null(get_value(v, "@external"))),
               id, external_prefix, config.link_suffix, job.tags,
               compound_def_id)

\* print_hyperlink(): the text alone when there is no url.
print_hyperlink(t, v, id) ==
  IF Url(v, id) = EmptyUrl THEN <<Text(t)>> ELSE <<Link(t, Url(v, id))>>

\* A wrong print_anchor, for the mutation runs: one form or the other.
print_anchor_either(id) ==
  IF config.anchor_headers THEN <<Anchor(id, "header")>>
  ELSE When(config.anchor_html, <<Anchor(id, "html")>>)

print_anchor(id) == When(config.anchor_headers, <<Anchor(id, "header")>>)
                      \o When(config.anchor_html, <<Anchor(id, "html")>>)

----------------------------------------------------------------------------
(* The bodies of the handlers in the summary and the details pass *)

EffectiveTitle(v) ==
  LET title == get_value_as_string_view(v, "title")
  IN  IF title = "" THEN get_value_as_string_view(v, "compoundname")
                    ELSE title

\* A wrong CompounddefBody: the details repeat the title after a summary.
CompounddefTitled(v) ==
  Header(EffectiveTitle(v),
         IF is_summary THEN Header("Summary", <<Visit(v)>>)
         ELSE <<Call("detaileddescription",
                     get_value(v, "detaileddescription")), Visit(v)>>)

CompounddefBody(v) ==
  LET description ==
        <<Call("detaileddescription", get_value(v, "detaileddescription"))>>
  IN  CASE is_summary ->
             Header(EffectiveTitle(v), Header("Summary", <<Visit(v)>>))
        [] ~is_summary /\ ~config.generate_summary ->
             Header(EffectiveTitle(v), description \o <<Visit(v)>>)
        [] OTHER -> description \o <<Visit(v)>>

\* A wrong DetaileddescriptionBody: no look at the parent.
DetaileddescriptionAgain(v) ==
  When(~is_summary /\ ~is_null(v),
       When(config.details_title, Header("Details", <<>>)) \o <<Visit(v)>>)

\* The description of a compound is printed by compounddef itself, which
\* calls this handler without pushing its name.
DetaileddescriptionBody(v) ==
  When(~is_summary /\ ~is_null(v) /\ get_parent_name # "compounddef",
       When(config.details_title, Header("Details", <<>>)) \o <<Visit(v)>>)

BriefdescriptionAlways(v) == <<Visit(v)>>  \* mutant
BriefdescriptionBody(v) == When(~is_summary, <<Visit(v)>>)

BasecompoundrefBody(v) ==
  When(is_summary \/ ~config.generate_summary,
       print_hyperlink(get_value_as_string_view(v, "#text"), v, get_ref_id(v))
         \o print_inline_code(get_value_as_string_view(v, "@prot"))
         \o When(get_value_as_string_view(v, "@virt") # "non-virtual",
                 <<Text("virtual")>>))

InnerclassAlways(v) ==  \* mutant
  When(~Hides(get_value_as_string_view(v, "@prot")),
       print_hyperlink(get_value_as_string_view(v, "#text"), v, get_ref_id(v)))

InnerclassBody(v) ==
  When(/\ is_summary \/ ~config.generate_summary
       /\ ~Hides(get_value_as_string_view(v, "@prot")),
       print_hyperlink(get_value_as_string_view(v, "#text"), v, get_ref_id(v)))

ListofallmembersBody(v) ==
  When(is_summary,
       IF config.members_title THEN Header("List of All Members", <<Visit(v)>>)
                               ELSE <<Visit(v)>>)

MemberBody(v) ==
  When(~Hides(get_value_as_string_view(v, "@prot")),
       print_hyperlink(get_value_as_string_view(v, "name"), v, get_ref_id(v)))

SectiondefAlways(v) ==  \* mutant
  Header(get_value_as_string_view(v, "@kind"),
         IF is_summary THEN List(<<Visit(v)>>) ELSE <<Visit(v)>>)

SectiondefBody(v) ==
  When(~HidesSection(v),
       Header(get_value_as_string_view(v, "@kind"),
              IF is_summary THEN List(<<Visit(v)>>) ELSE <<Visit(v)>>))

\* The type of a member or a parameter: code when it is a string.
TypeOf(v) ==
  LET type == get_value(v, "type")
  IN  IF is_string(type) THEN print_inline_code(Json[type].text)
                        ELSE <<Visit(type)>>

MemberdefSummary(v) ==
  <<Link(get_value_as_string_view(v, "name"), Url(v, get_id(v)))>>
    \o IF get_value_as_string_view(v, "@kind") = "enum" THEN List(<<Visit(v)>>)
                                        ELSE <<Visit(v)>>

\* A member whose definition has no type ends with the definition.
MemberdefDetails(v) ==
  LET flag(key, value, word) ==
        When(get_value_as_string_view(v, key) = value, <<Text(word)>>)
      definition == get_value_as_string_view(v, "definition")
      typeless == is_null(get_value(v, "type"))
  IN  print_anchor(get_id(v))
        \o Header(get_value_as_string_view(v, "name"),
             flag("@virtual", "virtual", "virtual")
               \o flag("@inline", "yes", "inline")
               \o flag("@explicit", "yes", "explicit")
               \o When(definition # "", Fence(<<Text(definition)>>))
               \o When(definition # "" /\ ~typeless,
                       <<Text("***Type:*** ")>> \o TypeOf(v)
                         \o When(count_children(v, "param") > 0,
                                 <<Text("***Parameters:***")>>))
               \o When(definition = "" \/ ~typeless, <<Visit(v)>>))

EnumvalueBody(v) ==
  LET name == get_value_as_string_view(v, "name")
      bare == \A key \in {"briefdescription", "detaileddescription"} :
                is_null(get_value(v, key))
  IN  CASE is_summary         -> <<Link(name, Url(v, get_id(v)))>>
        [] ~is_summary /\ bare -> <<Text(name)>>
        [] OTHER              -> Header(name, <<Visit(v)>>)

ParamBody(v) ==
  When(~is_summary,
       TypeOf(v) \o print_inline_code(get_value_as_string_view(v, "declname"))
         \o When(~is_null(get_value(v, "briefdescription")), <<Visit(v)>>))

ItemizedlistBody(v) == When(~is_summary, List(<<Visit(v)>>))

ProgramlistingBody(v) == When(~is_summary, Fence(<<Visit(v)>>))

SimplesectBody(v) == When(~is_summary, <<Text("***"), Visit(v)>>)

\* A wrong RefBody: it looks for the codeline in the parent only.
RefInParent(v) ==
  LET text == get_value_as_string_view(v, "#text")
  IN  IF get_parent_name = "codeline" THEN <<Text(text)>>
      ELSE print_hyperlink(text, v, get_ref_id(v))

\* Inside a listing, where Markdown has no links, a reference is its text.
RefBody(v) ==
  LET text == get_value_as_string_view(v, "#text")
  IN  IF has_parent("codeline") THEN <<Text(text)>>
      ELSE print_hyperlink(text, v, get_ref_id(v))

----------------------------------------------------------------------------
(* process_file *)

Init ==
  /\ job \in Jobs
  /\ pass = "load"
  /\ external_prefix = 0
  /\ compound_def_id = <<>>
  /\ link_container = {}
  /\ names = <<>>
  /\ work = <<>>
  /\ out = <<>>

\* A wrong Load, for the mutation runs: the prefix is assigned, not extended.
LoadOneUp ==
  /\ pass = "load"
  /\ \/ /\ pass' = "failed"
        /\ UNCHANGED <<external_prefix, work>>
     \/ /\ external_prefix' =
             IF config.use_relative_paths /\ job.folder # <<".">>
               THEN 1 ELSE 0
        /\ \/ /\ pass' = "links"
              /\ work' = <<Handle("doxygen", job.document)>>
           \/ /\ pass' = "failed"
              /\ UNCHANGED work
  /\ UNCHANGED <<job, links, names, out>>

\* The file is missing; or the prefix is set, and the file parses and (at
\* trace level) its JSON can be saved, or an error is pending and no pass does
\* anything.
Load ==
  /\ pass = "load"
  /\ \/ /\ pass' = "failed"
        /\ UNCHANGED <<external_prefix, work>>
     \/ /\ external_prefix' =
             IF config.use_relative_paths /\ job.folder # <<".">>
               THEN Len(job.folder) ELSE 0
        /\ \/ /\ pass' = "links"
              /\ work' = <<Handle("doxygen", job.document)>>
           \/ /\ pass' = "failed"
              /\ UNCHANGED work
  /\ UNCHANGED <<job, links, names, out>>

\* The next pass starts over with the document.
StartPass(next) ==
  /\ work = <<>>
  /\ pass' = next
  /\ work' = <<Handle("doxygen", job.document)>>
  /\ UNCHANGED <<job, external_prefix, links, names, out>>

ProcessSummary ==
  pass = "links" /\ config.generate_summary /\ StartPass("summary")

ProcessDetails ==
  /\ pass = IF config.generate_summary THEN "summary" ELSE "links"
  /\ StartPass("details")

Finish ==
  /\ pass = "details"
  /\ work = <<>>
  /\ pass' = "done"
  /\ link_container' = link_container \cup {compound_def_id}
  /\ UNCHANGED <<job, external_prefix, compound_def_id, names, work, out>>

----------------------------------------------------------------------------
(* print() and handle() *)

IsNext(what) == work # <<>> /\ Head(work).do = what
element == Head(work).key
input == Head(work).value
Becomes(items) == work' = items \o Tail(work)

\* handle(): HANDLE pushes the name, calls the handler, pops; an element
\* without a handler is dropped.
Dispatch ==
  /\ IsNext("handle")
  /\ IF HasHandler(element)
       THEN /\ names' = Append(names, element)
            /\ Becomes(<<Call(element, input), Leave(element, input)>>)
       ELSE Becomes(<<>>) /\ UNCHANGED names
  /\ UNCHANGED <<state, links, out>>

\* A wrong PopName: a handler that returns early leaves its name.
KeepName ==
  /\ IsNext("leave")
  /\ Becomes(<<>>)
  /\ UNCHANGED <<state, links, names, out>>

PopName ==
  /\ IsNext("leave")
  /\ names' = Front(names)
  /\ Becomes(<<>>)
  /\ UNCHANGED <<state, links, out>>

Children(v) ==
  LET kids == Json[v].kids
  IN  [i \in DOMAIN kids |-> Handle(kids[i].key, kids[i].value)]

\* print(): the string, or the children in order.
PrintValue ==
  /\ IsNext("print")
  /\ Becomes(IF is_string(input)
               THEN When(~is_add_links, <<Text(Json[input].text)>>)
               ELSE Children(input))
  /\ UNCHANGED <<state, links, names, out>>

\* m_printer takes what a handler printed.
Emit ==
  /\ work # <<>>
  /\ IsToken(Head(work))
  /\ out' = Append(out, Head(work))
  /\ Becomes(<<>>)
  /\ UNCHANGED <<state, links, names>>

----------------------------------------------------------------------------
(* The handlers *)

\* A wrong AddLinks: the children are not looked at.
AddLinksHere ==
  /\ IsNext("call") /\ is_add_links /\ element # "compounddef"
  /\ link_container' =
       link_container \cup ({get_id(input)} \ {<<>>})
  /\ Becomes(<<>>)
  /\ UNCHANGED <<state, compound_def_id, names, out>>

\* In the links pass every handler but one starts and ends with add_links().
AddLinks ==
  /\ IsNext("call") /\ is_add_links /\ element # "compounddef"
  /\ link_container' =
       link_container \cup ({get_id(input)} \ {<<>>})
  /\ Becomes(<<Visit(input)>>)
  /\ UNCHANGED <<state, compound_def_id, names, out>>

\* The id of the page itself is kept apart until the page is done.
CompounddefLinks ==
  /\ IsNext("call") /\ is_add_links /\ element = "compounddef"
  /\ compound_def_id' =
       IF get_id(input) = <<>> THEN compound_def_id ELSE get_id(input)
  /\ Becomes(<<Visit(input)>>)
  /\ UNCHANGED <<state, link_container, names, out>>

\* Otherwise the handler of the element's name runs its body.
Handler(keys, body) ==
  /\ IsNext("call") /\ ~is_add_links /\ element \in keys
  /\ Becomes(body)
  /\ UNCHANGED <<state, links, names, out>>

handle_compounddef == Handler({"compounddef"}, CompounddefBody(input))
handle_detaileddescription ==
  Handler({"detaileddescription"}, DetaileddescriptionBody(input))
handle_briefdescription ==
  Handler({"briefdescription"}, BriefdescriptionBody(input))
handle_basecompoundref ==
  Handler({"basecompoundref"}, BasecompoundrefBody(input))
handle_innerclass == Handler({"innerclass"}, InnerclassBody(input))
handle_listofallmembers ==
  Handler({"listofallmembers"}, ListofallmembersBody(input))
handle_member == Handler({"member"}, MemberBody(input))
handle_sectiondef == Handler({"sectiondef"}, SectiondefBody(input))
handle_memberdef ==
  Handler({"memberdef"},
          IF is_summary THEN MemberdefSummary(input)
                        ELSE MemberdefDetails(input))
handle_enumvalue == Handler({"enumvalue"}, EnumvalueBody(input))
handle_param == Handler({"param"}, ParamBody(input))
handle_itemizedlist == Handler({"itemizedlist"}, ItemizedlistBody(input))
handle_programlisting ==
  Handler({"programlisting"}, ProgramlistingBody(input))
handle_codeline == Handler({"codeline"}, When(~is_summary, <<Visit(input)>>))
handle_simplesect == Handler({"simplesect"}, SimplesectBody(input))
handle_ref == Handler({"ref"}, RefBody(input))
handle_computeroutput ==
  Handler({"computeroutput"},
          IF is_string(input) THEN print_inline_code(Json[input].text)
                                  ELSE <<Visit(input)>>)
handle_emphasis ==
  Handler({"emphasis"}, <<Text("*"), Visit(input), Text("*")>>)
handle_listitem == Handler({"listitem"}, <<Text("- "), Visit(input)>>)
handle_sp == Handler({"sp"}, <<Text(" "), Visit(input)>>)
handle_templateparamlist ==
  Handler({"templateparamlist"},
          <<Text("***Template Parameters***"), Visit(input)>>)

\* Handlers that only print their element.
handle_doxygen == Handler({"doxygen"}, <<Visit(input)>>)
handle_highlight == Handler({"highlight"}, <<Visit(input)>>)
handle_inbodydescription == Handler({"inbodydescription"}, <<Visit(input)>>)
handle_location == Handler({"location"}, <<Visit(input)>>)
handle_para == Handler({"para"}, <<Visit(input)>>)
handle_hashtag_text == Handler({"#text"}, <<Visit(input)>>)

\* Handlers that print nothing: their parents read these elements.
handle_argsstring == Handler({"argsstring"}, <<>>)
handle_compoundname == Handler({"compoundname"}, <<>>)
handle_declname == Handler({"declname"}, <<>>)
handle_definition == Handler({"definition"}, <<>>)
handle_innerfile == Handler({"innerfile"}, <<>>)
handle_name == Handler({"name"}, <<>>)
handle_title_type == Handler({"title", "type"}, <<>>)

\* Every handler that is called: not those of the attributes,
\* handle_derivedcompoundref and handle_amp_refid, which handle() never names.
Handlers ==
  \/ handle_compounddef \/ handle_detaileddescription
  \/ handle_briefdescription \/ handle_basecompoundref
  \/ handle_innerclass \/ handle_listofallmembers \/ handle_member
  \/ handle_sectiondef \/ handle_memberdef \/ handle_enumvalue
  \/ handle_param \/ handle_itemizedlist \/ handle_programlisting
  \/ handle_codeline \/ handle_simplesect \/ handle_ref
  \/ handle_computeroutput \/ handle_emphasis \/ handle_listitem
  \/ handle_sp \/ handle_templateparamlist
  \/ handle_doxygen \/ handle_highlight \/ handle_inbodydescription
  \/ handle_location \/ handle_para \/ handle_hashtag_text
  \/ handle_argsstring \/ handle_compoundname \/ handle_declname
  \/ handle_definition \/ handle_innerfile \/ handle_name
  \/ handle_title_type

Ended == pass \in {"done", "failed"} /\ UNCHANGED vars

\* One step of process_file.
Step ==
  \/ Load \/ ProcessSummary \/ ProcessDetails \/ Finish
  \/ Dispatch \/ PopName \/ PrintValue \/ Emit
  \/ AddLinks \/ CompounddefLinks \/ Handlers

Next == Step \/ Ended

Spec == Init /\ [][Next]_vars

----------------------------------------------------------------------------
(* What a document asks for, read off the document alone *)

\* An element of a document: a key and its value.
Element == [key : STRING, value : Value]
elements(v) == ToSet(Json[v].kids)
document == [key |-> "doxygen", value |-> job.document]
compound == get_value(job.document, "compounddef")

\* The document is the doxygen element of its file.  It holds one compound
\* besides its attributes (the DoxygenType of doxygen), and a compound is
\* nowhere else: a DoxyJson object has one m_compound_def_id.
ASSUME CompoundAssumption ==
  LET documents == {j.document : j \in Jobs}
  IN  /\ \A d \in documents : [key |-> "doxygen", value |-> d] \in Element
      /\ \A d \in documents : \A e \in elements(d) :
           HasHandler(e.key) => e.key = "compounddef"
      /\ \A v \in Value : \A e \in elements(v) :
           /\ e.value \notin documents
           /\ e.key = "compounddef" =>
                v \in documents /\ e.value = get_value(v, "compounddef")

\* A listing has lines of code, and a line has runs of text, spaces and
\* references (the listingType, codelineType, highlightType, spType and
\* refTextType of doxygen).
InCode == {"highlight", "sp", "ref", "#text"}
ASSUME ListingAssumption ==
  \A v \in Value : \A e \in elements(v) : \A kid \in elements(e.value) :
    HasHandler(kid.key) =>
      /\ e.key = "programlisting" => kid.key = "codeline"
      /\ e.key \in InCode \cup {"codeline"} => kid.key \in InCode

\* What an element and those below it have, without what is inside the
\* elements of a set.
Gathered(own, outside) ==
  LET g[e \in Element] ==
        IF e \in outside THEN {}
        ELSE own[e] \cup UNION {g[kid] : kid \in elements(e.value)}
  IN  g

\* The texts of an element outside those of a set.
TextsWithout(set) ==
  Gathered([e \in Element |-> {Json[e.value].text}], set)

\* The ids the elements of a document have, where every element around them
\* has a handler; not the page's own.
AllIds ==
  Gathered([e \in Element |-> IF e.key = "compounddef" THEN {}
                             ELSE {get_id(e.value)} \ {<<>>}],
           {e \in Element : ~HasHandler(e.key)})

\* Elements that are never printed for themselves.
Read == {"argsstring", "compoundname", "declname", "definition", "innerfile",
         "name", "title", "type"}

\* The text of a description.
Prose[e \in Element] ==
  IF e.key \notin (Handled \cup {"#text"}) \ Read THEN {}
  ELSE ({Json[e.value].text} \ {""})
         \cup UNION {Prose[kid] : kid \in elements(e.value)}

Hidden(e) ==
  \/ e.key = "sectiondef" /\ HidesSection(e.value)
  \/ /\ e.key \in {"member", "innerclass"}
     /\ Hides(get_value_as_string_view(e.value, "@prot"))

\* A member the printing of which ends with its definition
\* (DoxyJson.cpp:540): a constructor, a destructor, a macro.
Typeless(e) == /\ e.key = "memberdef"
               /\ get_value_as_string_view(e.value, "definition") # ""
               /\ is_null(get_value(e.value, "type"))

\* The brief and detailed descriptions that are to be in the page.
Descriptions ==
  LET in[e \in Element] ==
        CASE ~HasHandler(e.key) \/ Hidden(e) \/ Typeless(e) -> {}
          [] e.key \in {"briefdescription", "detaileddescription"} -> Prose[e]
          [] OTHER -> UNION {in[kid] : kid \in elements(e.value)}
  IN  in[document]

\* The ids of the members of an element outside those of a set.
MembersWithout(set) ==
  Gathered([e \in Element |-> IF e.key = "memberdef" THEN {get_id(e.value)}
                             ELSE {}], set)

\* The ids of the members that are to be in the page.
Members ==
  MembersWithout({e \in Element : ~HasHandler(e.key) \/ Hidden(e)})[document]

\* A member is in a section and a section in a compound, a member has an id, and
\* no two have the same (the compounddefType and the sectiondefType of doxygen).
ASSUME MembersAssumption ==
  /\ \A d \in {j.document : j \in Jobs} : \A e \in elements(d) :
       e.key \notin {"memberdef", "sectiondef"}
  /\ \A v \in Value : \A e \in elements(v) :
       /\ e.key = "memberdef" => get_id(e.value) # <<>>
       /\ \A kid \in elements(e.value) :
            /\ kid.key = "memberdef" => e.key = "sectiondef"
            /\ kid.key = "sectiondef" => e.key = "compounddef"
  /\ \A v \in Value : \A i, j \in DOMAIN Json[v].kids :
       i # j =>
         MembersWithout({})[Json[v].kids[i]]
           \cap MembersWithout({})[Json[v].kids[j]] = {}

\* The places in the output where a text is, and the texts there are.
HasText(token) == token.do \in {"text", "link", "open"}
Places(t) == {i \in DOMAIN out : HasText(out[i]) /\ out[i].text = t}
PrintedTexts ==
  {out[i].text : i \in {i \in DOMAIN out : HasText(out[i])}}

\* The words a page has from the program, not from its document.
Words ==
  {"", "Summary", "Details", "List of All Members", "virtual", "inline",
   "explicit", "***Type:*** ", "***Parameters:***",
   "***Template Parameters***", "***", "*", "- ", " "}

\* What a value has, by a function of elements, in two of its children.
Shared(v, g) ==
  LET kids == Json[v].kids
      of   == [i \in DOMAIN kids |-> g[kids[i]]]
  IN  UNION {UNION {of[i] \cap of[j] : j \in DOMAIN kids \ {i}} :
               i \in DOMAIN kids}

\* The texts a document has in one place, where no word of the program can be
\* taken for them.
Telltale ==
  LET texts == TextsWithout({})
      twice == Gathered([e \in Element |-> Shared(e.value, texts)], {})
  IN  texts[document] \ (Words \cup twice[document])

\* Nothing is printed but the words of the program and the texts of the
\* document that are not inside the elements of a set.
PrintedWithout(set) ==
  PrintedTexts \subseteq Words \cup TextsWithout(set)[document]

----------------------------------------------------------------------------
(* Properties.  The output only grows, so what must never be printed is     *)
(* looked for at the end of a pass.                                         *)

\* Every variable holds a value of its kind.
TypeOK ==
  /\ job \in Jobs
  /\ pass \in {"load", "links", "summary", "details", "done", "failed"}
  /\ external_prefix \in 0 .. Len(job.folder)
  /\ IsFiniteSet(link_container)
  /\ compound_def_id \in {<<>>, get_id(compound)}
  /\ \A i \in DOMAIN names : HasHandler(names[i])
  /\ \A i \in DOMAIN work :
       \/ IsToken(work[i])
       \/ /\ work[i].do \in {"handle", "call", "print", "leave"}
          /\ work[i].value \in Value
  /\ \A i \in DOMAIN out : IsToken(out[i])
  /\ pass \in {"load", "done", "failed"} => work = <<>>
  /\ work = <<>> => names = <<>>

\* A finished page has the text of every brief and detailed description
\* exactly once, whichever handler reaches it: the compound's own description
\* is reached twice, by compounddef and by print() (DoxyJson.cpp:271-277,
\* 316), a parameter's by memberdef and param, and the passes share the
\* handlers.
DescriptionsOnce ==
  pass = "done" => \A t \in Descriptions : Cardinality(Places(t)) = 1

\* The elements that have no place in a summary: brief and detailed
\* descriptions, parameters, and the lists, listings and sections a text is
\* made of.
Detail ==
  {"briefdescription", "detaileddescription", "param", "itemizedlist",
   "programlisting", "codeline", "simplesect"}

\* Nothing of these is in a summary, at whatever depth and inside whatever a
\* summary prints: each of its texts is found outside them (the is_summary()
\* tests of DoxyJson.cpp:208, 220, 308, 349, 402, 582, 606, 670).  It is not free
\* of descriptions: the running text of inbodydescription is printed in it,
\* whose handler has no such test (DoxyJson.cpp:375-378).
SummaryIsBrief ==
  pass = "summary" /\ work = <<>> =>
    PrintedWithout({e \in Element : e.key \in Detail})

\* Nothing of a section, an inner class or a listed member that the
\* configuration hides is printed, in any pass, not even inside what is
\* printed around it: every text of a page is found outside them
\* (DoxyJson.cpp:384-390, 447-453, 635-647).
HiddenStaysHidden ==
  pass = "done" => PrintedWithout({e \in Element : Hidden(e)})

\* There is no hyperlink inside a code fence, where Markdown would show its
\* markup, at any depth below the listing (DoxyJson.cpp:534, 604-617, 622).
ListingsArePlain ==
  pass = "done" =>
    \A i \in DOMAIN out :
      out[i].do = "link" =>
        LET fences(what) == {k \in 1 .. i - 1 : /\ out[k].do = what
                                                /\ out[k].scope = "fence"}
        IN  Cardinality(fences("open")) = Cardinality(fences("close"))

\* A finished page starts with its title, and has it as a header only there,
\* with or without a summary (DoxyJson.cpp:258-278).  A constructor has the name
\* of its class: of a title that something else is called the place is not told.
TitleLeads ==
  pass = "done" /\ ~is_null(compound) =>
    LET title == Open("header", EffectiveTitle(compound))
        places == {i \in DOMAIN out : out[i] = title}
    IN  /\ 1 \in places
        /\ places = {1} \/ EffectiveTitle(compound) \notin Telltale

\* The base and inner classes that are shown are listed once, by the summary
\* or by the details when there is no summary (DoxyJson.cpp:188, 382), if their
\* names tell them from everything else in the document.
ListedOnce ==
  pass = "done" =>
    LET listed == {e \in elements(compound) :
                     /\ e.key \in {"basecompoundref", "innerclass"}
                     /\ ~Hidden(e)}
        listing == {get_value_as_string_view(e.value, "#text") : e \in listed}
    IN  \A t \in listing : Cardinality(Places(t)) = 1 \/ t \notin Telltale

\* The links pass prints nothing and gathers every id of the document, which
\* the catalogue has for later sources; the page's own id is known before the
\* first url is made, since get_link_url tells a link to the page by it, and
\* joins the others last (DoxyJson.cpp:68, 88, 110-120, 227-236,
\* DoxyJson.hpp:204).
IdsGathered ==
  /\ pass = "links" => out = <<>>
  /\ pass \in {"summary", "details"} => compound_def_id = get_id(compound)
  /\ pass \in {"links", "summary", "details"} /\ work = <<>> =>
       link_container = AllIds[document]
  /\ pass = "done" =>
       link_container = AllIds[document] \cup {get_id(compound)}

\* A finished page has the anchors of exactly the members it shows, each once
\* in every form the configuration asks for, and the catalogue knows them
\* (DoxyJson.hpp:245-256, DoxyJson.cpp:506).
AnchorsOfMembers ==
  pass = "done" =>
    \A form \in {"header", "html"} :
      LET places == {i \in DOMAIN out :
                       out[i].do = "anchor" /\ out[i].form = form}
          ids    == {out[i].id : i \in places}
          wanted == \/ form = "header" /\ config.anchor_headers
                    \/ form = "html" /\ config.anchor_html
      IN  /\ ids = IF wanted THEN Members ELSE {}
          /\ Cardinality(places) = Cardinality(ids)
          /\ ids \subseteq link_container

=============================================================================
