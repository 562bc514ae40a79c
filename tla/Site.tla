-------------------------------- MODULE Site --------------------------------
(***************************************************************************)
(* The whole of a run: the batch of Application with the documents made    *)
(* into pages by DoxyJson, step by step, instead of in one step, and with  *)
(* what the pages hold kept on disk.  This is where the catalogue that one *)
(* component builds and the urls the other makes from it meet, and where   *)
(* one can ask whether a link leads anywhere.                              *)
(*                                                                         *)
(* Names of files are ids, as doxygen names the file of a compound after   *)
(* it, and output folders and base urls are sequences of components.       *)
(***************************************************************************)
EXTENDS DoxyJson

CONSTANTS
  \* The constants of Application.
  File, Folder, Pattern, Output, BaseUrl, Id, Xml, PatternsIn, Listing, Ids,
  Configurations, NoFile, NoPage, NoUrl,
  Document,               \* what is in a file of a folder
  Settings,               \* the configurations apart from the sources
  HashLength,             \* the length of example_hash (34 in the program)
  ServedSuffix,           \* what the site that is made of the pages puts behind
                          \* their names, which are files with .md behind
  AnchorForms,            \* the forms of anchors that site can be led to
  MaxFailures             \* a bound on the calls that fail in a run

VARIABLES
  \* The variables of Application: those of DoxyJson are those of the DoxyJson
  \* object of the entry, so that link_container is its container, and
  \* source_links the one of run().
  sources, phase, source, pending, file, error, saved, source_links,
  link_tag_container, disk, rendered, failed, unwritten, unreadable,
  general,  \* the switches of the configuration
  pages,    \* what the output pages hold
  failures  \* how many calls failed, up to MaxFailures

Run == INSTANCE Application WITH
         doxy_links <- link_container, link_container <- source_links

\* The batch with process_file in one step: the ids are seen when it returns.
Batch == INSTANCE Application WITH
           doxy_links <- IF phase = "page" THEN {} ELSE link_container,
           link_container <- source_links

site_vars == <<Run!vars, vars, general, pages, failures>>

source_object == sources[source]

ASSUME SiteAssumption ==
  /\ Configurations \subseteq Seq(Run!Source)
  /\ Listing \in [Folder -> SUBSET File]
  /\ NoFile \notin File
  /\ NoPage \notin Run!PageState
  /\ Output \subseteq Seq(STRING)
  /\ BaseUrl \subseteq Seq(STRING)
  /\ File \subseteq Seq(STRING)
  /\ Id \subseteq Seq(STRING)
  /\ Document \in [Folder \X File -> Value]
  /\ ServedSuffix \in {"", ".md"}
  /\ AnchorForms \subseteq {"header", "html"}
  /\ MaxFailures \in Nat

\* The ids a document gives to the catalogue.
IdsOf(v) == {get_id(get_value(v, "compounddef"))}
              \cup AllIds[[key |-> "doxygen", value |-> v]]

\* The jobs are the documents of the listed files, and Ids are their ids.
ASSUME DocumentsAssumption ==
  \A folder \in Folder : \A f \in Listing[folder] :
    LET v == Document[<<folder, f>>]
    IN  /\ v \in {j.document : j \in Jobs}
        /\ Ids[<<folder, f>>] = IdsOf(v)

\* The path a finished source has in the catalogue.
TagUrl(path) ==
  (IF path.base = NoUrl THEN <<>> ELSE path.base) \o path.folder

\* What the DoxyJson of an entry is built with and called on, and the job of
\* none.
JobOf(s, f) ==
  [document |-> Document[<<s.input, f>>],
   folder   |-> s.output,
   config   |-> general,
   tags     |-> [t \in DOMAIN link_tag_container |->
                   [links |-> link_tag_container[t].links,
                    path  |-> TagUrl(link_tag_container[t].path)]]]
no_job ==
  [document |-> JsonNull, folder |-> <<".">>, config |-> general,
   tags |-> <<>>]

----------------------------------------------------------------------------
SiteInit ==
  /\ Run!Init
  /\ general \in Settings
  /\ pages = [p \in Run!Page |-> <<>>]
  /\ failures = 0
  /\ job = no_job
  /\ pass = "load"
  /\ external_prefix = 0
  /\ compound_def_id = <<>>
  /\ names = <<>>
  /\ work = <<>>
  /\ out = <<>>

\* The bound on failing calls.
Budget ==
  /\ failures' = failures + IF error' /\ ~error THEN 1 ELSE 0
  /\ failures' <= MaxFailures

\* A DoxyJson as its constructor leaves it; link_container' is empty, too
\* (OpenPage, EndScope).
NewDoxyJson ==
  /\ pass' = "load"
  /\ external_prefix' = 0
  /\ compound_def_id' = <<>>
  /\ names' = <<>>
  /\ work' = <<>>
  /\ out' = <<>>

\* The steps of the batch between pages.
Elsewhere ==
  /\ \/ Run!CheckOptions \/ Run!ReadDirectory \/ Run!SkipEntry
     \/ Run!Discard \/ Run!PushLinkTag \/ Run!Return
  /\ Budget
  /\ UNCHANGED <<vars, general, pages>>

\* An entry is opened with a new DoxyJson, which goes with the entry.
OpenEntry ==
  /\ Run!OpenPage
  /\ NewDoxyJson
  /\ job' = JobOf(source_object, file')
  /\ Budget
  /\ UNCHANGED <<general, pages>>

CloseEntry ==
  /\ Run!EndScope
  /\ NewDoxyJson
  /\ job' = no_job
  /\ Budget
  /\ UNCHANGED <<general, pages>>

\* process_file: a step of the DoxyJson of the entry.  With an error pending
\* it fails at once; the step that ends it returns to the batch.
Render ==
  /\ phase = "page"
  /\ UNCHANGED <<sources, source, pending, file, saved, source_links,
                 link_tag_container, disk, unwritten, unreadable,
                 general, pages>>
  /\ Step
  /\ error => pass' = "failed"
  /\ phase' = IF pass' \in {"done", "failed"} THEN "rendered" ELSE phase
  /\ error' = (error \/ pass' = "failed")
  /\ rendered' =
       rendered \cup IF pass' = "done" THEN {<<source, file>>} ELSE {}
  /\ failed' =
       failed \cup IF pass' = "failed" THEN {<<source, file>>} ELSE {}
  /\ Budget

\* A page that is torn has lost what it was to hold.
PublishPage ==
  /\ Run!Publish
  /\ LET p == Run!PageOf(source_object, file)
     IN  pages' = CASE disk' = disk -> pages
                    [] disk' # disk /\ disk'[p].state = "whole" ->
                         [pages EXCEPT ![p] = out]
                    [] OTHER -> [pages EXCEPT ![p] = <<>>]
  /\ Budget
  /\ UNCHANGED <<vars, general>>

SiteNext ==
  \/ Elsewhere
  \/ OpenEntry
  \/ Render
  \/ PublishPage
  \/ CloseEntry
  \/ Run!Terminated /\ UNCHANGED site_vars

SiteSpec == SiteInit /\ [][SiteNext]_site_vars

----------------------------------------------------------------------------
(* Where a link leads *)

\* A folder as a file system reads it.
Normal(folder) == SelectSeq(folder, LAMBDA c : c \notin {".", ""})

nowhere == <<"..">>

\* The folder an url leads to from a page in a folder, in a site that is
\* published at the base urls.  Above a base url there is nothing.
Resolve(folder, url) ==
  LET here == Normal(folder)
      base == {b \in BaseUrl : IsPrefix(b, url.path)}
  IN  CASE base # {} /\ url.up = 0 ->
             LET b == CHOOSE b \in base : TRUE
             IN  Normal(SubSeq(url.path, Len(b) + 1, Len(url.path)))
        [] base = {} /\ url.up <= Len(here) ->
             SubSeq(here, 1, Len(here) - url.up) \o Normal(url.path)
        [] OTHER -> nowhere

\* The whole pages on disk that are called name in a folder.
PagesAt(folder, name) ==
  {p \in Run!Page : /\ Normal(p[1]) = folder
                /\ p[2] = name
                /\ disk[p] # NoPage
                /\ disk[p].state = "whole"}

\* The anchors of a page that the site can be led to.
Anchors(p) == {pages[p][i].id : i \in {i \in DOMAIN pages[p] :
                                         /\ pages[p][i].do = "anchor"
                                         /\ pages[p][i].form \in AnchorForms}}

\* A link on a page lands on a page, or at an anchor, that is there.  Pages
\* are called as the site serves them.
Lands(p, url) ==
  CASE url.to = "page itself" -> TRUE
    [] url.to = "anchor" -> url.anchor \in Anchors(p)
    [] url.to = "page" ->
         /\ url.suffix = ServedSuffix
         /\ PagesAt(Resolve(p[1], url), url.page) # {}
    [] url.to = "page anchor" ->
         /\ url.suffix = ServedSuffix
         /\ \E q \in PagesAt(Resolve(p[1], url), url.page) :
              url.anchor \in Anchors(q)

----------------------------------------------------------------------------
(* Properties *)

\* The members that a page of a document shows: those of its public sections
\* and of the others shown.
ShownIn(v) ==
  LET parts(w, key) == {e.value : e \in {e \in elements(w) : e.key = key}}
      sections == {w \in parts(get_value(v, "compounddef"), "sectiondef") :
                     ~HidesSection(w)}
  IN  {get_id(m) : m \in UNION {parts(w, "memberdef") : w \in sections}}

DocumentOf(t, f) == Document[<<sources[t].input, f>>]

\* The urls from source s that go through the catalogue entry of source t hold:
\* from the root always; from a folder in normal form if they are relative, or
\* from any if they are absolute, but not if they are both.
Connected(s, t) ==
  LET folder == sources[s].output
  IN  \/ folder = <<".">>
      \/ /\ general.use_relative_paths
         /\ sources[t].base_url = NoUrl
         /\ folder = Normal(folder)
      \/ /\ ~general.use_relative_paths
         /\ sources[t].base_url # NoUrl

\* What the configuration must fit the site in: the suffix of links to other
\* pages, and a form of anchors.
SuffixFits == general.link_suffix = ServedSuffix
AnchorsFit == \/ general.anchor_headers /\ "header" \in AnchorForms
              \/ general.anchor_html /\ "html" \in AnchorForms

\* The links of a page of source s that should lead somewhere: to the page of
\* a compound of the same source or of the first earlier source that has it,
\* where the configuration has the suffix of the site, and to a member that is
\* shown there, where it has anchors for the site, but for the members of the
\* other pages of the same source, which get_link_url looks for on the page
\* itself (DoxyJson.hpp:199-201).
Promised(s, f, url) ==
  LET first(id) ==
        {t \in 1 .. s - 1 :
           /\ id \in link_tag_container[t].links
           /\ \A u \in 1 .. t - 1 : id \notin link_tag_container[u].links}
  IN  CASE url.to = "page itself" -> TRUE
        [] url.to = "anchor" ->
             /\ AnchorsFit
             /\ is_internal_link(url.anchor, HashLength, f)
             /\ url.anchor \in ShownIn(DocumentOf(s, f))
        [] url.to = "page" ->
             /\ SuffixFits
             /\ IF first(url.page) = {}
                  THEN Run!Written(s, url.page) /\ url.up = 0
                  ELSE \A t \in first(url.page) :
                         Run!Written(t, url.page) /\ Connected(s, t)
        [] url.to = "page anchor" ->
             /\ SuffixFits
             /\ AnchorsFit
             /\ \E t \in first(url.anchor) :
                  /\ Run!Written(t, url.page) /\ Connected(s, t)
                  /\ url.anchor \in ShownIn(DocumentOf(t, url.page))

\* At the end of a run the links of the pages on disk lead where they say,
\* whatever failed on the way, and Promised names all that do, unless sources
\* share a folder and one finds by accident what another wrote.  So the dead
\* links are those: to a page that was not written or was written over, to a
\* hidden member, to another page's member of the same source, to a later
\* source, from a folder not in normal form, with a base url behind "../",
\* the links a summary makes to its members, which name a page called as the
\* member, every link to another page where the linkSuffix is not the one the
\* site serves them with, and every link to a member where neither form of
\* anchors is generated (DoxyJson.cpp:24-33, 501, DoxyJson.hpp:169-208,
\* 245-256, Application.cpp:85, 110, Configuration.cpp:15).
LinksLand ==
  phase = "done" =>
    \A p \in Run!Page : \A i \in DOMAIN pages[p] :
      pages[p][i].do = "link" =>
        LET url == pages[p][i].url
            promised == Promised(disk[p].source, p[2], url)
            apart == \A t, u \in DOMAIN sources :
                       sources[t].output = sources[u].output => t = u
        IN  /\ promised => Lands(p, url)
            /\ apart /\ Lands(p, url) => promised

\* The batch with the passes and handlers in full is the batch of Application,
\* where a page is one step: each file gives the catalogue the ids Ids says,
\* and nothing of one page is left when the next is opened
\* (Application.cpp:89-99).
ImplementsApplication == Batch!Spec

=============================================================================
