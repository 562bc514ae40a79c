------------------------- MODULE ApplicationProofs -------------------------
(***************************************************************************)
(* Theorems about Application for every configuration, every folder        *)
(* content and every pattern of failures: type correctness, error scoping, *)
(* and that the batch implements Publication.                              *)
(***************************************************************************)
EXTENDS Application, TLAPS, SequenceTheorems

InPage == phase \in {"page", "rendered", "scope"}

\* Error scoping.  Between entries the pending error is that of an unlisted
\* folder; within one, the ErrorScope holds it.
ErrorInv ==
  /\ phase = "start" => unreadable = {}
  /\ phase \in {"source", "file"} => (error <=> unreadable # {})
  /\ InPage => (saved <=> unreadable # {})

\* The files of source t that process_file succeeded on.
RenderedOf(t) == {f \in File : <<t, f>> \in rendered}

\* A file leaves pending before it is rendered, and only the files of the
\* sources seen so far are rendered.
VisitInv ==
  /\ \A r \in rendered : r[1] <= source
  /\ phase \in {"start", "source"} => RenderedOf(source) = {}
  /\ \A f \in pending : <<source, f>> \notin rendered
  /\ phase = "page" => file \notin pending /\ <<source, file>> \notin rendered
  /\ phase \in {"file", "page", "rendered", "scope"} =>
       pending \subseteq Listing[source_object.input]
  /\ phase = "page" => /\ file \in Listing[source_object.input]
                       /\ Selected(source_object, file)

\* The ids on their way to the catalogue are those of the rendered pages.
LinkInv ==
  /\ Len(link_tag_container) = source - 1
  /\ phase \in {"file", "page", "scope"} =>
       link_container = Catalog!IdsOf(source_object, RenderedOf(source))
  /\ phase = "rendered" =>
       IF error
         THEN link_container =
                Catalog!IdsOf(source_object, RenderedOf(source))
         ELSE link_container \cup doxy_links =
                Catalog!IdsOf(source_object, RenderedOf(source))

\* Up to the first folder that cannot be listed, the chosen files of a source
\* are those tried, those still to be tried and the one in hand.  From there
\* on nothing is left to try.
ToTry == {f \in pending : Selected(source_object, f)}
InHand == IF phase = "page" THEN {file} ELSE {}

TriedInv ==
  /\ FailuresAreIsolated
  /\ \A r \in rendered \cup failed : r[1] <= source
  /\ unreadable \subseteq 1 .. source
  /\ phase \in {"start", "source"} =>
       Tried(source) = {} /\ source \notin unreadable
  /\ phase \in {"file", "page", "rendered", "scope"} =>
       IF unreadable = {}
         THEN Tried(source) \cup ToTry \cup InHand =
                Catalog!Chosen(source_object)
         ELSE phase = "file" /\ pending = {} /\ Tried(source) = {}

\* Whether the page in hand was rendered is what the error tells.
PageInv ==
  /\ PagesAreAccountedFor
  /\ phase = "rendered" => (error <=> <<source, file>> \notin rendered)

\* The entry of a finished source is that of its rendered pages.
EntryInv ==
  /\ \A r \in rendered : r[1] <= Len(sources)
  /\ \A t \in DOMAIN link_tag_container :
       link_tag_container[t].links = Catalog!IdsOf(sources[t], RenderedOf(t))

----------------------------------------------------------------------------
\* Type correctness.

\* Every step keeps every variable in its kind, for any configuration, folder
\* content and pattern of failures (all of Application::run).
THEOREM TypeCorrect == Spec => []TypeOK
<1>1. Init => TypeOK
  <2> SUFFICES ASSUME Init PROVE TypeOK
    OBVIOUS
  <2>1. sources \in Seq(Source)
    BY InputAssumption DEF Init
  <2>2. Len(sources) \in Nat
    BY <2>1
  <2>3. disk \in [Page -> {NoPage} \cup PageState]
    BY DEF Init
  <2>4. link_tag_container \in Seq(LinkTag)
    BY DEF Init
  <2>5. source \in 1 .. Len(sources) + 1
    BY <2>2 DEF Init
  <2>6. /\ phase = "start"
        /\ phase \notin {"file", "page", "rendered", "scope"}
        /\ file \in File \cup {NoFile}
    BY DEF Init
  <2> QED BY <2>1, <2>3, <2>4, <2>5, <2>6 DEF Init, TypeOK
<1>2. TypeOK /\ [Next]_vars => TypeOK'
  <2> SUFFICES ASSUME TypeOK, [Next]_vars
               PROVE  TypeOK'
    OBVIOUS
  <2> USE DEF TypeOK
  <2>0. source <= Len(sources) => source_object \in Source
    BY DEF source_object
  <2>1. CASE CheckOptions
    BY <2>1 DEF CheckOptions, error_vars, link_vars, history
  <2>2. CASE ReadDirectory
    <3>1. pending' \subseteq File
      <4>1. source_object.input \in Folder
        BY <2>0, <2>2 DEF ReadDirectory, Source
      <4> QED BY <4>1, <2>2, InputAssumption DEF ReadDirectory
    <3>2. unreadable' \subseteq Nat
      BY <2>2 DEF ReadDirectory
    <3> QED BY <2>2, <3>1, <3>2 DEF ReadDirectory
  <2>3. CASE SkipEntry
    BY <2>3 DEF SkipEntry, error_vars, link_vars, history
  <2>4. CASE OpenPage
    BY <2>4 DEF OpenPage, history
  <2>5. CASE ProcessFile
    <3>1. Ids[<<source_object.input, file>>] \subseteq Id
      <4>1. source_object.input \in Folder /\ file \in File
        BY <2>0, <2>5 DEF ProcessFile, Source
      <4> QED BY <4>1, InputAssumption
    <3>2. doxy_links' \subseteq Id
      BY <2>5, <3>1 DEF ProcessFile
    <3>3. rendered' \subseteq Nat \X File /\ failed' \subseteq Nat \X File
      BY <2>5 DEF ProcessFile
    <3> QED BY <2>5, <3>2, <3>3 DEF ProcessFile
  <2>6. CASE Publish
    <3> DEFINE p == PageOf(source_object, file)
               page(state) == [source |-> source, state |-> state,
                               seen   |-> Len(link_tag_container)]
    <3>1. p \in Page
      BY <2>0, <2>6 DEF Publish, PageOf, Page, Source
    <3>2. page("whole") \in PageState /\ page("torn") \in PageState
      BY DEF PageState
    <3>3. disk' \in {disk, [disk EXCEPT ![p] = page("whole")],
                          [disk EXCEPT ![p] = page("torn")]}
      BY <2>6 DEF Publish
    <3> HIDE DEF p, page
    <3>4. disk' \in [Page -> {NoPage} \cup PageState]
      BY <3>1, <3>2, <3>3
    <3>5. unwritten' \subseteq Nat \X File
      BY <2>6 DEF Publish
    <3>6. link_container' \subseteq Id /\ error' \in BOOLEAN
      BY <2>6 DEF Publish
    <3> QED BY <2>6, <3>4, <3>5, <3>6 DEF Publish
  <2>7. CASE Discard
    BY <2>7 DEF Discard, error_vars, link_vars, history
  <2>8. CASE EndScope
    BY <2>8 DEF EndScope, history
  <2>9. CASE PushLinkTag
    <3>1. source_object \in Source
      BY <2>0, <2>9 DEF PushLinkTag
    <3> DEFINE tag == [links |-> link_container,
                       path  |-> TagPath(source_object)]
    <3>2. tag \in LinkTag
      BY <3>1 DEF TagPath, Source, LinkTag
    <3>3. link_tag_container' \in Seq(LinkTag)
      BY <2>9, <3>2 DEF PushLinkTag
    <3> QED BY <2>9, <3>3 DEF PushLinkTag, error_vars, history
  <2>10. CASE Return
    BY <2>10 DEF Return, error_vars, link_vars, history
  <2>11. CASE UNCHANGED vars
    BY <2>11 DEF vars, run_vars, error_vars, link_vars, history
  <2> QED
    BY <2>1, <2>2, <2>3, <2>4, <2>5, <2>6, <2>7, <2>8, <2>9, <2>10, <2>11
       DEF Next, Terminated
<1>3. QED BY <1>1, <1>2, PTL DEF Spec

----------------------------------------------------------------------------
\* Error scoping.

\* ErrorInv is inductive on its own: only the listing of a folder adds to the
\* error outside the scopes, and a scope gives back what it found.
LEMMA ErrorInvariant == Spec => []ErrorInv
<1>1. Init => ErrorInv
  BY DEF Init, ErrorInv, InPage
<1>2. ErrorInv /\ [Next]_vars => ErrorInv'
  <2> SUFFICES ASSUME ErrorInv, [Next]_vars
               PROVE  ErrorInv'
    OBVIOUS
  <2> USE DEF ErrorInv, InPage
  <2>1. CASE CheckOptions
    BY <2>1 DEF CheckOptions, error_vars, history
  <2>2. CASE ReadDirectory
    BY <2>2 DEF ReadDirectory
  <2>3. CASE SkipEntry
    BY <2>3 DEF SkipEntry, error_vars, history
  <2>4. CASE OpenPage
    BY <2>4 DEF OpenPage, history
  <2>5. CASE ProcessFile
    BY <2>5 DEF ProcessFile
  <2>6. CASE Publish
    BY <2>6 DEF Publish
  <2>7. CASE Discard
    BY <2>7 DEF Discard, error_vars, history
  <2>8. CASE EndScope
    BY <2>8 DEF EndScope, history
  <2>9. CASE PushLinkTag
    BY <2>9 DEF PushLinkTag, error_vars, history
  <2>10. CASE Return
    BY <2>10 DEF Return, error_vars, history
  <2>11. CASE UNCHANGED vars
    BY <2>11 DEF vars, run_vars, error_vars, history
  <2> QED
    BY <2>1, <2>2, <2>3, <2>4, <2>5, <2>6, <2>7, <2>8, <2>9, <2>10, <2>11
       DEF Next, Terminated
<1>3. QED BY <1>1, <1>2, PTL DEF Spec

\* Between two entries an error is pending exactly when a source folder could
\* not be listed: no error of one page reaches another (Application.cpp:44).
THEOREM ErrorScoping == Spec => []ErrorsAreScoped
<1>1. ErrorInv => ErrorsAreScoped
  BY DEF ErrorInv, ErrorsAreScoped
<1> QED BY <1>1, ErrorInvariant, PTL

----------------------------------------------------------------------------
\* The files of a source are visited once each.

LEMMA VisitInvariant == Spec => []VisitInv
<1>1. Init => VisitInv
  BY DEF Init, VisitInv, RenderedOf
<1>2. TypeOK /\ VisitInv /\ [Next]_vars => VisitInv'
  <2> SUFFICES ASSUME TypeOK, VisitInv, [Next]_vars
               PROVE  VisitInv'
    OBVIOUS
  <2> USE DEF VisitInv, RenderedOf, source_object
  <2>1. CASE CheckOptions
    BY <2>1 DEF CheckOptions, history
  <2>2. CASE ReadDirectory
    <3>1. \A f \in File : <<source, f>> \notin rendered
      BY <2>2 DEF ReadDirectory
    <3>2. pending' \subseteq File /\ pending' \subseteq Listing[source_object.input]
      <4>1. source_object \in Source
        BY <2>2 DEF ReadDirectory, TypeOK
      <4>2. source_object.input \in Folder
        BY <4>1 DEF Source
      <4> QED BY <4>2, <2>2, InputAssumption DEF ReadDirectory
    <3> QED BY <2>2, <3>1, <3>2 DEF ReadDirectory
  <2>3. CASE SkipEntry
    BY <2>3 DEF SkipEntry, history
  <2>4. CASE OpenPage
    BY <2>4 DEF OpenPage, history
  <2>5. CASE ProcessFile
    <3>1. source \in Nat /\ file \in File /\ file \notin pending
      BY <2>5 DEF ProcessFile, TypeOK
    <3>2. rendered' \subseteq rendered \cup {<<source, file>>}
      BY <2>5 DEF ProcessFile
    <3> QED BY <2>5, <3>1, <3>2 DEF ProcessFile
  <2>6. CASE Publish
    BY <2>6 DEF Publish
  <2>7. CASE Discard
    BY <2>7 DEF Discard, history
  <2>8. CASE EndScope
    BY <2>8 DEF EndScope, history
  <2>9. CASE PushLinkTag
    <3>1. source \in Nat
      BY DEF TypeOK
    <3>2. \A f \in File : <<source + 1, f>> \notin rendered
      BY <3>1
    <3> QED BY <2>9, <3>1, <3>2 DEF PushLinkTag, history, TypeOK
  <2>10. CASE Return
    BY <2>10 DEF Return, history
  <2>11. CASE UNCHANGED vars
    BY <2>11 DEF vars, run_vars, history
  <2> QED
    BY <2>1, <2>2, <2>3, <2>4, <2>5, <2>6, <2>7, <2>8, <2>9, <2>10, <2>11
       DEF Next, Terminated
<1>3. QED BY <1>1, <1>2, TypeCorrect, PTL DEF Spec

----------------------------------------------------------------------------
\* The ids on their way to the catalogue.

LEMMA AddIds ==
  ASSUME NEW s, NEW A, NEW f
  PROVE  Catalog!IdsOf(s, A \cup {f}) =
           Catalog!IdsOf(s, A) \cup Ids[<<s.input, f>>]
BY DEF Catalog!IdsOf

LEMMA NoIds == ASSUME NEW s PROVE Catalog!IdsOf(s, {}) = {}
BY DEF Catalog!IdsOf

LEMMA LinkInvariant == Spec => []LinkInv
<1>1. TypeOK /\ Init => LinkInv
  BY DEF Init, LinkInv
<1>2. TypeOK /\ VisitInv /\ LinkInv /\ [Next]_vars => LinkInv'
  <2> SUFFICES ASSUME TypeOK, VisitInv, LinkInv, [Next]_vars
               PROVE  LinkInv'
    OBVIOUS
  <2> USE DEF LinkInv, RenderedOf, source_object
  <2>1. CASE CheckOptions
    BY <2>1 DEF CheckOptions, link_vars
  <2>2. CASE ReadDirectory
    <3>1. RenderedOf(source)' = {}
      BY <2>2 DEF ReadDirectory, VisitInv
    <3> QED BY <2>2, <3>1, NoIds DEF ReadDirectory
  <2>3. CASE SkipEntry
    BY <2>3 DEF SkipEntry, link_vars, history
  <2>4. CASE OpenPage
    BY <2>4 DEF OpenPage, history
  <2>5. CASE ProcessFile
    <3>1. CASE /\ ~error'
               /\ doxy_links' = Ids[<<source_object.input, file>>]
               /\ rendered' = rendered \cup {<<source, file>>}
      <4>1. file \in File
        BY <2>5 DEF ProcessFile, TypeOK
      <4>2. RenderedOf(source)' = RenderedOf(source) \cup {file}
        BY <2>5, <3>1, <4>1 DEF ProcessFile
      <4>3. Catalog!IdsOf(source_object, RenderedOf(source) \cup {file}) =
              Catalog!IdsOf(source_object, RenderedOf(source))
                \cup Ids[<<source_object.input, file>>]
        BY AddIds
      <4>4. link_container = Catalog!IdsOf(source_object, RenderedOf(source))
        BY <2>5 DEF ProcessFile
      <4>5. /\ phase' = "rendered" /\ ~error'
            /\ link_container' \cup doxy_links' =
                 Catalog!IdsOf(source_object, RenderedOf(source) \cup {file})
        BY <2>5, <3>1, <4>3, <4>4 DEF ProcessFile
      <4>6. UNCHANGED <<source, source_object, link_tag_container>>
        BY <2>5 DEF ProcessFile
      <4> HIDE DEF source_object, RenderedOf
      <4> QED BY <4>2, <4>5, <4>6
    <3>2. CASE error' /\ UNCHANGED rendered
      BY <2>5, <3>2 DEF ProcessFile
    <3> QED BY <2>5, <3>1, <3>2 DEF ProcessFile
  <2>6. CASE Publish
    BY <2>6 DEF Publish
  <2>7. CASE Discard
    BY <2>7 DEF Discard, error_vars, link_vars, history
  <2>8. CASE EndScope
    BY <2>8 DEF EndScope, history
  <2>9. CASE PushLinkTag
    BY <2>9 DEF PushLinkTag, TypeOK
  <2>10. CASE Return
    BY <2>10 DEF Return, link_vars
  <2>11. CASE UNCHANGED vars
    BY <2>11 DEF vars, run_vars, error_vars, link_vars, history
  <2> QED
    BY <2>1, <2>2, <2>3, <2>4, <2>5, <2>6, <2>7, <2>8, <2>9, <2>10, <2>11
       DEF Next, Terminated
<1>3. QED BY <1>1, <1>2, TypeCorrect, VisitInvariant, PTL DEF Spec

----------------------------------------------------------------------------
\* The batch implements Publication.

\* The two lambdas of the loop body select what their comments say: a file
\* an include item names, or one no exclude item names when there is an
\* exclude list or no list at all (Application.cpp:49-75).
LEMMA SelectedIsChosen ==
  ASSUME NEW s \in Source, NEW f \in Listing[s.input], f \in File
  PROVE  Selected(s, f) <=> f \in Catalog!Chosen(s)
BY DEF Selected, is_excluded, is_included, Matches,
       Catalog!Chosen, Catalog!Occurs

\* Every catalogue the batch builds is one Publication allows: a page is
\* rendered at most once and only when chosen, and the entry of a source is
\* appended whole, from the ids of exactly the pages that were rendered
\* (Application.cpp:92-97, 108-113).
THEOREM ImplementsPublication == Spec => Publishes
<1>1. Init => Catalog!Init
  BY DEF Init, Catalog!Init
<1>2. TypeOK /\ VisitInv /\ LinkInv /\ VisitInv' /\ [Next]_vars
        => [Catalog!Next]_Catalog!vars
  <2> SUFFICES ASSUME TypeOK, VisitInv, LinkInv, VisitInv', [Next]_vars
               PROVE  [Catalog!Next]_Catalog!vars
    OBVIOUS
  <2> DEFINE quiet == UNCHANGED <<sources, source, link_tag_container, rendered>>
  <2>0. ASSUME quiet PROVE [Catalog!Next]_Catalog!vars
    BY <2>0 DEF Catalog!vars
  <2>a. Catalog!open = source
    BY DEF Catalog!open, LinkInv, TypeOK
  <2>1. CASE CheckOptions
    BY <2>0, <2>1 DEF CheckOptions, link_vars, history
  <2>2. CASE ReadDirectory
    BY <2>0, <2>2 DEF ReadDirectory
  <2>3. CASE SkipEntry
    BY <2>0, <2>3 DEF SkipEntry, link_vars, history
  <2>4. CASE OpenPage
    BY <2>0, <2>4 DEF OpenPage, history
  <2>5. CASE ProcessFile
    <3>1. CASE rendered' = rendered \cup {<<source, file>>}
      <4>1. file \in File /\ source \in DOMAIN sources
        BY <2>5 DEF ProcessFile, TypeOK
      <4>2. source_object \in Source
        BY <4>1 DEF TypeOK, source_object
      <4>3. file \in Catalog!Chosen(source_object)
        BY <2>5, <4>1, <4>2, SelectedIsChosen DEF ProcessFile, VisitInv
      <4>4. file \notin RenderedOf(source)
        BY <2>5 DEF ProcessFile, VisitInv, RenderedOf
      <4>5. RenderedOf(source)' = RenderedOf(source) \cup {file}
        BY <2>5, <3>1, <4>1 DEF ProcessFile, RenderedOf
      <4>6. Catalog!Render
        BY <2>5, <2>a, <4>1, <4>3, <4>4, <4>5
           DEF ProcessFile, Catalog!Render, RenderedOf, source_object
      <4> QED BY <4>6 DEF Catalog!Next
    <3>2. CASE UNCHANGED rendered
      BY <2>0, <2>5, <3>2 DEF ProcessFile
    <3> QED BY <2>5, <3>1, <3>2 DEF ProcessFile
  <2>6. CASE Publish
    BY <2>0, <2>6 DEF Publish
  <2>7. CASE Discard
    BY <2>0, <2>7 DEF Discard, link_vars, history
  <2>8. CASE EndScope
    BY <2>0, <2>8 DEF EndScope, history
  <2>9. CASE PushLinkTag
    <3>1. source \in DOMAIN sources
      BY <2>9 DEF PushLinkTag, TypeOK
    <3>2. link_container = Catalog!IdsOf(source_object, RenderedOf(source))
      BY <2>9 DEF PushLinkTag, LinkInv
    <3>3. RenderedOf(source)' = {}
      BY <2>9 DEF PushLinkTag, VisitInv
    <3>4. Catalog!Close
      BY <2>9, <2>a, <3>1, <3>2, <3>3
         DEF PushLinkTag, Catalog!Close, Catalog!Entry, TagPath,
             RenderedOf, source_object
    <3> QED BY <3>4 DEF Catalog!Next
  <2>10. CASE Return
    BY <2>0, <2>10 DEF Return, link_vars, history
  <2>11. CASE UNCHANGED vars
    BY <2>0, <2>11 DEF vars, run_vars, link_vars, history
  <2> QED
    BY <2>1, <2>2, <2>3, <2>4, <2>5, <2>6, <2>7, <2>8, <2>9, <2>10, <2>11
       DEF Next, Terminated
<1>3. QED
  BY <1>1, <1>2, TypeCorrect, VisitInvariant, LinkInvariant, PTL
     DEF Spec, Publishes, Catalog!Spec

----------------------------------------------------------------------------
\* What a page could see.

\* A page on disk was rendered against the entries of exactly the sources
\* before its own, whatever failed and however often a later source wrote
\* over it (Application.cpp:89, 98, 111).
THEOREM EarlierSources == Spec => []PagesSeeEarlierSources
<1>1. Init => PagesSeeEarlierSources
  BY DEF Init, PagesSeeEarlierSources
<1>2. TypeOK /\ LinkInv /\ PagesSeeEarlierSources /\ [Next]_vars
        => PagesSeeEarlierSources'
  <2> SUFFICES ASSUME TypeOK, LinkInv, PagesSeeEarlierSources, [Next]_vars
               PROVE  PagesSeeEarlierSources'
    OBVIOUS
  <2>0. ASSUME UNCHANGED disk PROVE PagesSeeEarlierSources'
    BY <2>0 DEF PagesSeeEarlierSources
  <2>1. CASE Publish
    <3> DEFINE p == PageOf(source_object, file)
               page(state) == [source |-> source, state |-> state,
                               seen   |-> Len(link_tag_container)]
    <3>1. \/ UNCHANGED disk
          \/ disk' = [disk EXCEPT ![p] = page("whole")]
          \/ disk' = [disk EXCEPT ![p] = page("torn")]
      BY <2>1 DEF Publish
    <3>2. \A state \in {"whole", "torn"} :
            page(state).seen = page(state).source - 1
      BY DEF LinkInv
    <3>3. disk \in [Page -> {NoPage} \cup PageState]
      BY DEF TypeOK
    <3> HIDE DEF p, page
    <3> QED BY <2>0, <3>1, <3>2, <3>3 DEF PagesSeeEarlierSources
  <2>2. CASE UNCHANGED disk
    BY <2>0, <2>2
  <2> QED
    BY <2>1, <2>2
       DEF Next, vars, CheckOptions, ReadDirectory, SkipEntry, OpenPage,
           ProcessFile, Discard, EndScope, PushLinkTag, Return, Terminated
<1>3. QED
  BY <1>1, <1>2, TypeCorrect, LinkInvariant, PTL DEF Spec

----------------------------------------------------------------------------
\* Every chosen file is tried.

\* Nothing is chosen that is not listed, and what is chosen is selected.
LEMMA ChosenOfListing ==
  ASSUME NEW s \in Source
  PROVE  Catalog!Chosen(s) = {f \in Listing[s.input] : Selected(s, f)}
<1>1. Listing[s.input] \subseteq File
  BY InputAssumption DEF Source
<1>2. Catalog!Chosen(s) \subseteq Listing[s.input]
  BY DEF Catalog!Chosen
<1> QED BY <1>1, <1>2, SelectedIsChosen

\* The files of the source at hand are tried, to be tried or in hand, and what
\* a finished source has tried is settled.
LEMMA TriedInvariant == Spec => []TriedInv
<1>1. TypeOK /\ Init => TriedInv
  BY DEF Init, TriedInv, FailuresAreIsolated, Tried
<1>2. TypeOK /\ TriedInv /\ ErrorInv /\ [Next]_vars => TriedInv'
  <2> SUFFICES ASSUME TypeOK, TriedInv, ErrorInv, [Next]_vars
               PROVE  TriedInv'
    OBVIOUS
  <2>0. source \in Nat /\ source >= 1
    BY DEF TypeOK
  <2>a. ASSUME UNCHANGED <<sources, source, rendered, failed>>
        PROVE  \A t : UNCHANGED Tried(t)
    BY <2>a DEF Tried
  <2>b. ASSUME UNCHANGED <<sources, source, rendered, failed, unreadable>>
        PROVE  /\ FailuresAreIsolated'
               /\ \A r \in (rendered \cup failed)' : r[1] <= source'
               /\ unreadable' \subseteq 1 .. source'
    BY <2>b DEF TriedInv, FailuresAreIsolated, Tried
  <2>1. CASE CheckOptions
    BY <2>a, <2>b, <2>1 DEF CheckOptions, history, TriedInv
  <2>2. CASE ReadDirectory
    <3>0. UNCHANGED <<sources, source, source_object, rendered, failed>>
      BY <2>2 DEF ReadDirectory, source_object
    <3>1. \A t : UNCHANGED Tried(t)
      BY <2>a, <3>0
    <3>2. Tried(source) = {} /\ source \notin unreadable
      BY <2>2 DEF ReadDirectory, TriedInv
    <3>3. unreadable' \in {unreadable, unreadable \cup {source}}
      BY <2>2 DEF ReadDirectory
    <3>4. FailuresAreIsolated'
      BY <2>0, <3>0, <3>1, <3>3 DEF TriedInv, FailuresAreIsolated
    <3>5. unreadable' \subseteq 1 .. source
      BY <2>0, <3>3 DEF TriedInv
    <3>6. CASE unreadable' = {}
      <4>1. pending' = Listing[source_object.input]
        BY <2>2, <3>6 DEF ReadDirectory, ErrorInv
      <4>2. source_object \in Source
        BY <2>2 DEF ReadDirectory, TypeOK, source_object
      <4>3. (Tried(source) \cup ToTry \cup InHand)' =
              Catalog!Chosen(source_object)
        BY <2>2, <3>0, <3>1, <3>2, <4>1, <4>2, ChosenOfListing
           DEF ReadDirectory, ToTry, InHand, Selected, is_excluded,
               is_included, Matches
      <4> QED BY <2>2, <3>0, <3>4, <3>5, <3>6, <4>3 DEF ReadDirectory, TriedInv
    <3>7. CASE unreadable' # {}
      <4>1. pending' = {}
        BY <2>2, <3>7 DEF ReadDirectory, ErrorInv
      <4> QED BY <2>2, <3>0, <3>1, <3>2, <3>4, <3>5, <3>7, <4>1
              DEF ReadDirectory, TriedInv
    <3> QED BY <3>6, <3>7
  <2>3. CASE SkipEntry
    <3>1. UNCHANGED <<sources, source, rendered, failed, unreadable, phase,
                      source_object, InHand>>
      BY <2>3 DEF SkipEntry, history, source_object, InHand
    <3>2. UNCHANGED ToTry
      BY <2>3 DEF SkipEntry, ToTry, source_object, Selected, is_excluded,
                  is_included, Matches
    <3> QED BY <2>a, <2>b, <2>3, <3>1, <3>2 DEF SkipEntry, TriedInv
  <2>4. CASE OpenPage
    <3>1. UNCHANGED <<sources, source, source_object, rendered, failed,
                      unreadable>>
      BY <2>4 DEF OpenPage, history, source_object
    <3>2. ToTry' \cup InHand' = ToTry \cup InHand
      BY <2>4, <3>1
         DEF OpenPage, ToTry, InHand, Selected, is_excluded, is_included,
             Matches
    <3>3. unreadable = {}
      BY <2>4 DEF OpenPage, TriedInv
    <3>4. (Tried(source) \cup ToTry \cup InHand)' =
            Catalog!Chosen(source_object)
      BY <2>a, <2>4, <3>1, <3>2, <3>3 DEF OpenPage, TriedInv
    <3> QED BY <2>b, <2>4, <3>1, <3>3, <3>4 DEF OpenPage, TriedInv
  <2>5. CASE ProcessFile
    <3>1. (rendered \cup failed)' =
            (rendered \cup failed) \cup {<<source, file>>}
      BY <2>5 DEF ProcessFile
    <3>2. UNCHANGED <<sources, source, source_object, pending, file,
                      unreadable>>
      BY <2>5 DEF ProcessFile, source_object
    <3>3. file \in File /\ unreadable = {}
      BY <2>5 DEF ProcessFile, TypeOK, TriedInv
    <3>4. /\ \A t \in 1 .. source - 1 : UNCHANGED Tried(t)
          /\ Tried(source)' = Tried(source) \cup {file}
      BY <2>0, <3>1, <3>2, <3>3 DEF Tried
    <3>5. FailuresAreIsolated'
      BY <3>2, <3>4 DEF TriedInv, FailuresAreIsolated
    <3>6. (Tried(source) \cup ToTry \cup InHand)' =
            Catalog!Chosen(source_object)
      BY <2>5, <3>2, <3>3, <3>4
         DEF ProcessFile, TriedInv, ToTry, InHand, Selected, is_excluded,
             is_included, Matches
    <3>7. \A r \in (rendered \cup failed)' : r[1] <= source
      BY <2>0, <3>1 DEF TriedInv
    <3> QED BY <2>5, <3>2, <3>3, <3>5, <3>6, <3>7 DEF ProcessFile, TriedInv
  <2>6. CASE Publish
    BY <2>a, <2>b, <2>6 DEF Publish, TriedInv, ToTry, InHand, source_object
  <2>7. CASE Discard
    BY <2>a, <2>b, <2>7
       DEF Discard, history, TriedInv, ToTry, InHand, source_object
  <2>8. CASE EndScope
    BY <2>a, <2>b, <2>8
       DEF EndScope, history, TriedInv, ToTry, InHand, source_object
  <2>9. CASE PushLinkTag
    <3>1. UNCHANGED <<sources, rendered, failed, unreadable>>
      BY <2>9 DEF PushLinkTag, history
    <3>2. \A t : UNCHANGED Tried(t)
      BY <3>1 DEF Tried
    <3>3. Tried(source) = IF \E u \in unreadable : u <= source
                            THEN {} ELSE Catalog!Chosen(source_object)
      BY <2>0, <2>9 DEF PushLinkTag, TriedInv, ToTry, InHand
    <3>4. FailuresAreIsolated'
      <4>1. source' = source + 1
        BY <2>9 DEF PushLinkTag
      <4>2. SUFFICES ASSUME NEW t \in 1 .. source
                     PROVE  Tried(t) = IF \E u \in unreadable : u <= t
                                         THEN {} ELSE Catalog!Chosen(sources[t])
        BY <2>0, <3>1, <3>2, <4>1 DEF FailuresAreIsolated
      <4>3. CASE t = source
        BY <3>3, <4>3 DEF source_object
      <4>4. CASE t \in 1 .. source - 1
        BY <4>4 DEF TriedInv, FailuresAreIsolated
      <4> QED BY <2>0, <4>3, <4>4
    <3>5. source' = source + 1 /\ phase' = "source"
      BY <2>9 DEF PushLinkTag
    <3>6. Tried(source)' = {}
      BY <2>0, <3>1, <3>5 DEF TriedInv, Tried
    <3>7. /\ \A r \in (rendered \cup failed)' : r[1] <= source'
          /\ unreadable' \subseteq 1 .. source'
          /\ source' \notin unreadable'
      <4>1. \A r \in rendered \cup failed : r[1] \in Nat
        BY DEF TypeOK
      <4> QED BY <2>0, <3>1, <3>5, <4>1 DEF TriedInv
    <3> QED BY <3>4, <3>5, <3>6, <3>7 DEF TriedInv
  <2>10. CASE Return
    BY <2>a, <2>b, <2>10 DEF Return, history, TriedInv
  <2>11. CASE UNCHANGED vars
    BY <2>a, <2>b, <2>11
       DEF vars, run_vars, history, TriedInv, ToTry, InHand, source_object
  <2> QED
    BY <2>1, <2>2, <2>3, <2>4, <2>5, <2>6, <2>7, <2>8, <2>9, <2>10, <2>11
       DEF Next, Terminated
<1>3. QED BY <1>1, <1>2, TypeCorrect, ErrorInvariant, PTL DEF Spec

\* For any configuration and any pattern of failures, a failing file costs
\* the batch that file only, and a folder that cannot be listed the files of
\* every source from it on (Application.cpp:38-44).
THEOREM IsolatedFailures == Spec => []FailuresAreIsolated
<1>1. TriedInv => FailuresAreIsolated
  BY DEF TriedInv
<1> QED BY <1>1, TriedInvariant, PTL

----------------------------------------------------------------------------
\* What is on disk.

\* Two sources that write the same page have the same output folder, and a
\* file of the same name.
LEMMA SamePage ==
  ASSUME NEW s, NEW t, NEW f, NEW g
  PROVE  PageOf(s, f) = PageOf(t, g) <=> s.output = t.output /\ f = g
BY DEF PageOf

\* Every rendered page can be found again, or the reason why it cannot: its
\* write failed, or a later source wrote over it; and every file on disk is of
\* a page that its source rendered (Application.cpp:84, 94-98).
THEOREM AccountedFor == Spec => []PagesAreAccountedFor
<1>1. Init => PageInv
  BY DEF Init, PageInv, PagesAreAccountedFor, RenderedIsWritten,
         WrittenIsRendered
<1>2. TypeOK /\ VisitInv /\ PageInv /\ [Next]_vars => PageInv'
  <2> SUFFICES ASSUME TypeOK, VisitInv, PageInv, [Next]_vars
               PROVE  PageInv'
    OBVIOUS
  <2>0. ASSUME UNCHANGED <<sources, source, rendered, unwritten, disk>>,
               phase # "rendered", phase' # "rendered"
        PROVE  PageInv'
    BY <2>0 DEF PageInv, PagesAreAccountedFor, RenderedIsWritten,
                WrittenIsRendered
  <2>1. CASE CheckOptions
    BY <2>0, <2>1 DEF CheckOptions, history
  <2>2. CASE ReadDirectory
    BY <2>0, <2>2 DEF ReadDirectory
  <2>3. CASE SkipEntry
    BY <2>0, <2>3 DEF SkipEntry, history
  <2>4. CASE OpenPage
    BY <2>0, <2>4 DEF OpenPage, history
  <2>5. CASE ProcessFile
    <3>1. UNCHANGED <<sources, source, file, unwritten, disk>>
      BY <2>5 DEF ProcessFile
    <3>2. /\ rendered \subseteq rendered'
          /\ rendered' \subseteq rendered \cup {<<source, file>>}
      BY <2>5 DEF ProcessFile
    <3>3. phase = "page" /\ phase' = "rendered"
      BY <2>5 DEF ProcessFile
    <3>4. RenderedIsWritten'
      BY <3>1, <3>2, <3>3 DEF PageInv, PagesAreAccountedFor, RenderedIsWritten
    <3>5. WrittenIsRendered'
      BY <3>1, <3>2 DEF PageInv, PagesAreAccountedFor, WrittenIsRendered
    <3>6. error' <=> <<source, file>> \notin rendered'
      BY <2>5 DEF ProcessFile, VisitInv
    <3> QED BY <3>1, <3>4, <3>5, <3>6 DEF PageInv, PagesAreAccountedFor
  <2>6. CASE Publish
    <3> DEFINE p == PageOf(source_object, file)
               whole == [source |-> source, state |-> "whole",
                         seen |-> Len(link_tag_container)]
    <3>1. UNCHANGED <<sources, source, file, rendered>> /\ phase' = "scope"
      BY <2>6 DEF Publish
    <3>2. /\ \/ disk' = [disk EXCEPT ![p] = whole]
             \/ <<source, file>> \in unwritten'
          /\ unwritten \subseteq unwritten'
          /\ \A q \in Page \ {p} : disk'[q] = disk[q]
      BY <2>6 DEF Publish, TypeOK
    <3>3. /\ file \in File /\ source \in DOMAIN sources
          /\ p \in Page /\ disk \in [Page -> {NoPage} \cup PageState]
          /\ whole # NoPage /\ source \in Nat
      <4>1. file \in File /\ source \in DOMAIN sources /\ source \in Nat
        BY <2>6 DEF Publish, TypeOK
      <4>2. p \in Page
        <5>1. source_object \in Source
          BY <4>1 DEF TypeOK, source_object
        <5> QED BY <4>1, <5>1 DEF Source, PageOf, Page
      <4>3. whole \in PageState
        BY <4>1 DEF PageState, TypeOK
      <4> QED BY <4>1, <4>2, <4>3, NoPageAssumption DEF TypeOK
    <3>4. <<source, file>> \in rendered
      BY <2>6 DEF Publish, PageInv
    <3>5. RenderedIsWritten'
      <4> SUFFICES ASSUME NEW t \in DOMAIN sources, NEW f \in File,
                          <<t, f>> \in rendered
                   PROVE  \/ <<t, f>> \in unwritten'
                          \/ LET q == PageOf(sources[t], f)
                             IN  /\ disk'[q] # NoPage
                                 /\ disk'[q].source = t
                                 /\ disk'[q].state = "whole"
                          \/ \E u \in t + 1 .. source :
                               /\ sources[u].output = sources[t].output
                               /\ <<u, f>> \in rendered
        BY <3>1 DEF RenderedIsWritten
      <4> DEFINE q == PageOf(sources[t], f)
      <4>0. t \in Nat
        BY DEF TypeOK
      <4>1. CASE t = source /\ f = file
        <5>1. q = p
          BY <4>1 DEF source_object
        <5> HIDE DEF p, q
        <5> QED BY <3>2, <3>3, <4>1, <5>1 DEF q
      <4>2. CASE ~(t = source /\ f = file) /\ q = p
        <5>1. f = file /\ sources[t].output = sources[source].output
          BY <4>2, SamePage DEF source_object
        <5>2. t <= source /\ t # source
          BY <4>2, <5>1 DEF VisitInv
        <5>3. source \in t + 1 .. source
          BY <3>3, <4>0, <5>2
        <5> QED BY <3>4, <5>1, <5>3
      <4>3. CASE ~(t = source /\ f = file) /\ q # p
        <5>1. disk'[q] = disk[q]
          <6>1. sources[t] \in Source
            BY DEF TypeOK
          <6>2. q \in Page
            BY <6>1 DEF Source, PageOf, Page
          <6> QED BY <3>2, <4>3, <6>2
        <5> QED BY <3>1, <3>2, <4>3, <5>1
                DEF PageInv, PagesAreAccountedFor, RenderedIsWritten
      <4> QED BY <4>1, <4>2, <4>3
    <3>6. WrittenIsRendered'
      <4> SUFFICES ASSUME NEW q \in Page, disk'[q] # NoPage
                   PROVE  \E r \in rendered :
                            /\ r[1] = disk'[q].source
                            /\ r[1] \in DOMAIN sources
                            /\ q = PageOf(sources[r[1]], r[2])
        BY <3>1 DEF WrittenIsRendered
      <4>1. CASE disk'[q] = disk[q]
        BY <4>1 DEF PageInv, PagesAreAccountedFor, WrittenIsRendered
      <4>2. CASE disk'[q] # disk[q]
        <5>1. q = p
          BY <3>2, <4>2
        <5>2. disk'[p].source = source
          BY <2>6, <3>3, <4>2, <5>1 DEF Publish
        <5>3. p = PageOf(sources[<<source, file>>[1]], <<source, file>>[2])
          BY DEF source_object
        <5> HIDE DEF p
        <5> QED BY <3>3, <3>4, <5>1, <5>2, <5>3
      <4> QED BY <4>1, <4>2
    <3> QED BY <3>1, <3>5, <3>6 DEF PageInv, PagesAreAccountedFor
  <2>7. CASE Discard
    <3>1. UNCHANGED <<sources, source, file, rendered, unwritten, disk>>
      BY <2>7 DEF Discard, history
    <3>2. <<source, file>> \notin rendered /\ phase' = "scope"
      BY <2>7 DEF Discard, PageInv
    <3> QED BY <3>1, <3>2
            DEF PageInv, PagesAreAccountedFor, RenderedIsWritten,
                WrittenIsRendered
  <2>8. CASE EndScope
    BY <2>0, <2>8 DEF EndScope, history
  <2>9. CASE PushLinkTag
    <3>1. UNCHANGED <<sources, rendered, unwritten, disk>>
      BY <2>9 DEF PushLinkTag, history
    <3>2. phase # "rendered" /\ phase' # "rendered" /\ source' = source + 1
      BY <2>9 DEF PushLinkTag
    <3>3. \A t \in Nat : t + 1 .. source \subseteq t + 1 .. source'
      BY <3>2 DEF TypeOK
    <3>4. RenderedIsWritten'
      BY <3>1, <3>2, <3>3
         DEF PageInv, PagesAreAccountedFor, RenderedIsWritten, TypeOK
    <3>5. WrittenIsRendered'
      BY <3>1 DEF PageInv, PagesAreAccountedFor, WrittenIsRendered
    <3> QED BY <3>2, <3>4, <3>5 DEF PageInv, PagesAreAccountedFor
  <2>10. CASE Return
    BY <2>0, <2>10 DEF Return, history
  <2>11. CASE UNCHANGED vars
    BY <2>11 DEF vars, run_vars, error_vars, history, PageInv,
                 PagesAreAccountedFor, RenderedIsWritten, WrittenIsRendered
  <2> QED
    BY <2>1, <2>2, <2>3, <2>4, <2>5, <2>6, <2>7, <2>8, <2>9, <2>10, <2>11
       DEF Next, Terminated
<1>3. PageInv => PagesAreAccountedFor
  BY DEF PageInv
<1> QED
  BY <1>1, <1>2, <1>3, TypeCorrect, VisitInvariant, PTL DEF Spec

----------------------------------------------------------------------------
\* Where the catalogue leads.

\* The ids a source entered are those of the pages rendered for it, from then
\* on.
LEMMA EntryInvariant == Spec => []EntryInv
<1>1. Init => EntryInv
  BY DEF Init, EntryInv
<1>2. TypeOK /\ LinkInv /\ EntryInv /\ [Next]_vars => EntryInv'
  <2> SUFFICES ASSUME TypeOK, LinkInv, EntryInv, [Next]_vars
               PROVE  EntryInv'
    OBVIOUS
  <2>0. /\ source \in Nat /\ Len(link_tag_container) = source - 1
        /\ link_tag_container \in Seq(LinkTag)
        /\ DOMAIN link_tag_container = 1 .. source - 1
    BY DEF TypeOK, LinkInv
  <2>1. CASE UNCHANGED <<sources, rendered, link_tag_container>>
    BY <2>1 DEF EntryInv, RenderedOf
  <2>2. CASE ProcessFile
    <3>1. UNCHANGED <<sources, link_tag_container>>
      BY <2>2 DEF ProcessFile
    <3>2. rendered' \in {rendered, rendered \cup {<<source, file>>}}
      BY <2>2 DEF ProcessFile
    <3>3. source <= Len(sources)
      BY <2>2 DEF ProcessFile, TypeOK
    <3>4. \A t \in 1 .. source - 1 : UNCHANGED RenderedOf(t)
      BY <2>0, <3>2 DEF RenderedOf
    <3> QED BY <2>0, <3>1, <3>2, <3>3, <3>4 DEF EntryInv
  <2>3. CASE PushLinkTag
    <3> DEFINE tag == [links |-> link_container,
                       path  |-> TagPath(source_object)]
    <3>1. /\ UNCHANGED <<sources, rendered>>
          /\ link_tag_container' = Append(link_tag_container, tag)
      BY <2>3 DEF PushLinkTag, history
    <3>2. /\ DOMAIN link_tag_container' = 1 .. source
          /\ link_tag_container'[source] = tag
          /\ \A t \in 1 .. source - 1 :
               link_tag_container'[t] = link_tag_container[t]
      BY <2>0, <3>1
    <3>3. tag.links = Catalog!IdsOf(sources[source], RenderedOf(source))
      BY <2>3 DEF PushLinkTag, LinkInv, source_object
    <3>4. \A t : UNCHANGED RenderedOf(t)
      BY <3>1 DEF RenderedOf
    <3> HIDE DEF tag
    <3> QED BY <2>0, <3>1, <3>2, <3>3, <3>4 DEF EntryInv
  <2> QED
    BY <2>1, <2>2, <2>3
       DEF Next, vars, run_vars, link_vars, history, CheckOptions,
           ReadDirectory, SkipEntry, OpenPage, Publish, Discard, EndScope,
           Return, Terminated
<1>3. QED BY <1>1, <1>2, TypeCorrect, LinkInvariant, PTL DEF Spec

\* Whatever failed, an id in the catalogue is on a page of its source, or the
\* page is known to be lost: its write failed, or a later source wrote over it
\* (Application.cpp:94-98, 111).
THEOREM CatalogueLeads == Spec => []CatalogueLeadsToPages
<1>1. TypeOK /\ LinkInv /\ EntryInv /\ PagesAreAccountedFor
        => CatalogueLeadsToPages
  <2> SUFFICES ASSUME TypeOK, LinkInv, EntryInv, PagesAreAccountedFor,
                      NEW t \in DOMAIN link_tag_container,
                      NEW id \in link_tag_container[t].links
               PROVE  \E f \in File :
                        /\ id \in Ids[<<sources[t].input, f>>]
                        /\ \/ Written(t, f)
                           \/ <<t, f>> \in unwritten
                           \/ \E u \in t + 1 .. Len(sources) :
                                /\ sources[u].output = sources[t].output
                                /\ <<u, f>> \in rendered
    BY DEF CatalogueLeadsToPages
  <2>1. t \in 1 .. source - 1 /\ t \in DOMAIN sources /\ t # source
    BY DEF TypeOK, LinkInv
  <2>2. PICK f \in RenderedOf(t) : id \in Ids[<<sources[t].input, f>>]
    BY DEF EntryInv, Catalog!IdsOf
  <2>3. f \in File /\ <<t, f>> \in rendered
    BY <2>2 DEF RenderedOf
  <2>4. PageOf(sources[t], f) \in Page
    <3>1. sources[t] \in Source
      BY <2>1 DEF TypeOK
    <3> QED BY <2>3, <3>1 DEF Source, PageOf, Page
  <2>5. \/ <<t, f>> \in unwritten
        \/ Written(t, f)
        \/ \E u \in t + 1 .. source :
             /\ sources[u].output = sources[t].output
             /\ <<u, f>> \in rendered
    BY <2>1, <2>3, <2>4 DEF PagesAreAccountedFor, RenderedIsWritten, Written
  <2>6. ASSUME NEW u \in t + 1 .. source, <<u, f>> \in rendered
        PROVE  u \in t + 1 .. Len(sources)
    <3>1. <<u, f>>[1] <= Len(sources)
      BY <2>6 DEF EntryInv
    <3>2. t \in Nat /\ source \in Nat /\ Len(sources) \in Nat
      BY <2>1 DEF TypeOK
    <3> QED BY <2>6, <3>1, <3>2
  <2> QED BY <2>2, <2>3, <2>5, <2>6
<1> QED
  BY <1>1, TypeCorrect, LinkInvariant, EntryInvariant, AccountedFor, PTL

=============================================================================
