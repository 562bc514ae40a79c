----------------------------- MODULE SiteProofs -----------------------------
(***************************************************************************)
(* That the batch with its pages made step by step is the batch of         *)
(* Application, for every set of sources and documents and every failure.  *)
(***************************************************************************)
EXTENDS Site, DoxyJsonProofs

\* Where the batch stands: between two sources, or at an entry of a folder.
PlaceInv ==
  /\ sources \in Seq(Run!Source)
  /\ source \in Nat \ {0}
  /\ error \in BOOLEAN /\ saved \in BOOLEAN
  /\ phase \in {"file", "page", "rendered", "scope"} =>
       /\ source <= Len(sources)
       /\ pending \subseteq Listing[source_object.input]
  /\ phase = "page" => file \in Listing[source_object.input]

\* While a page is made the DoxyJson of the entry is at a step of the passes
\* over the document of the entry.
EntryInv ==
  phase = "page" =>
    /\ job.document = Document[<<source_object.input, file>>]
    /\ pass \notin {"done", "failed"}
    /\ StateInv
    /\ LinksInv

----------------------------------------------------------------------------
\* The invariant.

\* The source in hand, and what its folder lists.
LEMMA SourceInHand ==
  ASSUME sources \in Seq(Run!Source), source \in Nat \ {0},
         source <= Len(sources)
  PROVE  /\ source_object.input \in Folder
         /\ source_object.output \in Seq(STRING)
         /\ Listing[source_object.input] \subseteq File
<1>1. source \in 1 .. Len(sources)
  OBVIOUS
<1>2. source_object \in Run!Source
  BY <1>1 DEF source_object
<1> QED
  BY <1>2, SiteAssumption DEF Run!Source

LEMMA PlaceInvariant == SiteSpec => []PlaceInv
<1>1. SiteInit => PlaceInv
  <2> SUFFICES ASSUME SiteInit  PROVE PlaceInv
    OBVIOUS
  <2>1. sources \in Seq(Run!Source)
    BY SiteAssumption DEF SiteInit, Run!Init
  <2>2. /\ phase = "start" /\ source = 1
        /\ error \in BOOLEAN /\ saved = FALSE
    BY DEF SiteInit, Run!Init
  <2>3. /\ source \in Nat \ {0}
        /\ phase \notin {"file", "page", "rendered", "scope"}
    BY <2>2
  <2>4. saved \in BOOLEAN
    BY <2>2
  <2> QED
    BY <2>1, <2>2, <2>3, <2>4 DEF PlaceInv
<1>2. PlaceInv /\ [SiteNext]_site_vars => PlaceInv'
  <2> SUFFICES ASSUME PlaceInv, [SiteNext]_site_vars  PROVE PlaceInv'
    OBVIOUS
  <2>1. CASE Elsewhere
    <3>1. CASE Run!CheckOptions
      BY <3>1 DEF Run!CheckOptions, Run!error_vars, PlaceInv
    <3>2. CASE Run!ReadDirectory
      BY <3>2 DEF Run!ReadDirectory, Run!source_object, source_object, PlaceInv
    <3>3. CASE Run!SkipEntry
      BY <3>3 DEF Run!SkipEntry, Run!error_vars, source_object, PlaceInv
    <3>4. CASE Run!Discard
      BY <3>4 DEF Run!Discard, Run!error_vars, source_object, PlaceInv
    <3>5. CASE Run!PushLinkTag
      BY <3>5 DEF Run!PushLinkTag, Run!error_vars, PlaceInv
    <3>6. CASE Run!Return
      BY <3>6 DEF Run!Return, Run!error_vars, PlaceInv
    <3> QED
      BY <2>1, <3>1, <3>2, <3>3, <3>4, <3>5, <3>6 DEF Elsewhere
  <2>2. CASE OpenEntry
    BY <2>2 DEF OpenEntry, Run!OpenPage, source_object, PlaceInv
  <2>3. CASE Render
    BY <2>3 DEF Render, source_object, PlaceInv
  <2>4. CASE PublishPage
    BY <2>4 DEF PublishPage, Run!Publish, source_object, PlaceInv
  <2>5. CASE CloseEntry
    BY <2>5 DEF CloseEntry, Run!EndScope, source_object, PlaceInv
  <2>6. CASE UNCHANGED site_vars
    BY <2>6
    DEF site_vars, Run!vars, Run!run_vars, Run!error_vars, source_object,
        PlaceInv
  <2> QED
    BY <2>1, <2>2, <2>3, <2>4, <2>5, <2>6 DEF SiteNext
<1> QED
  BY <1>1, <1>2, PTL DEF SiteSpec

\* The document of an entry is one of those under study.
LEMMA DocumentInHand ==
  ASSUME PlaceInv, phase \in {"file", "page"},
         NEW f \in Listing[source_object.input]
  PROVE  LET v == Document[<<source_object.input, f>>]
         IN  /\ v \in Documents
             /\ Ids[<<source_object.input, f>>] = IdsOf(v)
<1>1. source_object.input \in Folder
  BY SourceInHand DEF PlaceInv
<1> QED
  BY <1>1, DocumentsAssumption DEF Documents

LEMMA EntryInvariant == SiteSpec => []EntryInv
<1>1. SiteInit => EntryInv
  BY DEF SiteInit, Run!Init, EntryInv
<1>2. PlaceInv /\ EntryInv /\ [SiteNext]_site_vars => EntryInv'
  <2> SUFFICES ASSUME PlaceInv, EntryInv, [SiteNext]_site_vars,
                      phase' = "page"
               PROVE  EntryInv'
    BY DEF EntryInv
  <2>1. CASE OpenEntry
    <3>1. /\ file' \in Listing[source_object.input]
          /\ source_object' = source_object
          /\ phase = "file" /\ source <= Len(sources)
      BY <2>1 DEF OpenEntry, Run!OpenPage, source_object, PlaceInv
    <3>2. /\ job' = JobOf(source_object, file')
          /\ pass' = "load" /\ external_prefix' = 0 /\ names' = <<>>
          /\ work' = <<>> /\ out' = <<>> /\ compound_def_id' = <<>>
          /\ link_container' = {}
      BY <2>1 DEF OpenEntry, NewDoxyJson, Run!OpenPage
    <3>3. /\ job'.document = Document[<<source_object.input, file'>>]
          /\ job'.folder = source_object.output
      BY <3>2 DEF JobOf
    <3>4. job'.document \in Documents /\ job'.folder \in Seq(STRING)
      BY <3>1, <3>3, DocumentInHand, SourceInHand DEF PlaceInv
    <3>5. external_prefix' \in 0 .. Len(job'.folder)
      BY <3>2, <3>4
    <3>6. StateInv'
      BY <3>2, <3>4, <3>5, NothingYet DEF StateInv
    <3>7. LinksInv'
      BY <3>2 DEF LinksInv
    <3> QED
      BY <3>1, <3>2, <3>3, <3>6, <3>7 DEF EntryInv
  <2>2. CASE Render
    <3>1. /\ phase = "page" /\ Step /\ pass' \notin {"done", "failed"}
          /\ source_object' = source_object /\ file' = file
      BY <2>2 DEF Render, source_object
    <3>2. StateInv' /\ LinksInv'
      BY <3>1, StateNext, LinksNext DEF EntryInv, Next
    <3>3. job' = job
      BY <3>1, JobStays DEF EntryInv, Next
    <3> QED
      BY <3>1, <3>2, <3>3 DEF EntryInv
  <2>3. CASE UNCHANGED site_vars
    <3>1. UNCHANGED vars
      BY <2>3 DEF site_vars
    <3>2. phase = "page" /\ file' = file /\ source_object' = source_object
      BY <2>3 DEF site_vars, Run!vars, Run!run_vars, source_object
    <3>3. StateInv' /\ LinksInv'
      BY <3>1, <3>2, StateNext, LinksNext DEF EntryInv
    <3>4. job' = job /\ pass' = pass
      BY <3>1 DEF vars, state
    <3> QED
      BY <3>2, <3>3, <3>4 DEF EntryInv
  <2>4. CASE Elsewhere \/ PublishPage \/ CloseEntry
    BY <2>4
    DEF Elsewhere, PublishPage, CloseEntry, Run!CheckOptions,
        Run!ReadDirectory, Run!SkipEntry, Run!Discard, Run!PushLinkTag,
        Run!Return, Run!Publish, Run!EndScope
  <2> QED
    BY <2>1, <2>2, <2>3, <2>4 DEF SiteNext
<1> QED
  BY <1>1, <1>2, PlaceInvariant, PTL DEF SiteSpec

----------------------------------------------------------------------------
\* The refinement.

\* A page fails before the first pass, so with no ids, or not at all.
LEMMA FailsEarly ==
  ASSUME StateInv, LinksInv, Step, pass # "failed", pass' = "failed"
  PROVE  link_container' = {}
<1>1. ~Handlers
  BY HandlersReplace DEF StateInv, state
<1>2. Load
  BY <1>1
  DEF Step, ProcessSummary, ProcessDetails, StartPass, Finish, Dispatch,
      PopName, PrintValue, Emit, AddLinks, CompounddefLinks, state
<1> QED
  BY <1>2 DEF Load, LinksInv, links

\* A step of the passes is nothing to the batch, or the one step in which it
\* has the page made.
LEMMA RenderRefines ==
  ASSUME PlaceInv, EntryInv, Render
  PROVE  [Batch!Next]_Batch!vars
<1>1. /\ phase = "page" /\ Step /\ StateInv /\ LinksInv
      /\ pass \notin {"done", "failed"}
      /\ job.document = Document[<<source_object.input, file>>]
      /\ job.document \in Documents
      /\ Ids[<<source_object.input, file>>] = IdsOf(job.document)
  BY DocumentInHand DEF Render, EntryInv, PlaceInv
<1>2. /\ UNCHANGED <<sources, source, pending, file, saved, source_links,
                     link_tag_container, disk, unwritten, unreadable>>
      /\ error \in BOOLEAN
      /\ error => pass' = "failed"
  BY DEF Render, PlaceInv
<1>3. CASE pass' = "done"
  <2>1. LinksInv' /\ job' = job
    BY <1>1, LinksNext, JobStays DEF Next
  <2>2. link_container' = Ids[<<source_object.input, file>>]
    BY <1>1, <1>3, <2>1 DEF LinksInv, IdsOf, document, compound
  <2>3. /\ phase' = "rendered" /\ ~error /\ ~error'
        /\ rendered' = rendered \cup {<<source, file>>}
        /\ failed' = failed /\ error' \in BOOLEAN
    BY <1>2, <1>3 DEF Render
  <2>4. error' = error
    BY <1>2, <2>3
  <2>5. (IF phase' = "page" THEN {} ELSE link_container')
          = Ids[<<sources[source].input, file>>]
    BY <2>2, <2>3 DEF source_object
  <2>6. Batch!ProcessFile
    BY <1>1, <1>2, <2>3, <2>4, <2>5
    DEF Batch!ProcessFile, Batch!source_object
  <2> QED
    BY <2>6 DEF Batch!Next
<1>4. CASE pass' = "failed"
  <2>1. link_container' = {}
    BY <1>1, <1>4, FailsEarly
  <2>2. /\ phase' = "rendered" /\ error' = TRUE
        /\ failed' = failed \cup {<<source, file>>}
        /\ rendered' = rendered
    BY <1>2, <1>4 DEF Render
  <2>3. (IF phase' = "page" THEN {} ELSE link_container') = {}
    BY <2>1, <2>2
  <2>4. Batch!ProcessFile
    <3>1. CASE error
      BY <1>1, <1>2, <2>2, <2>3, <3>1
      DEF Batch!ProcessFile, Batch!source_object, source_object
    <3>2. CASE ~error
      BY <1>1, <1>2, <2>2, <2>3, <3>2
      DEF Batch!ProcessFile, Batch!source_object, source_object
    <3> QED
      BY <3>1, <3>2
  <2> QED
    BY <2>4 DEF Batch!Next
<1>5. CASE pass' \notin {"done", "failed"}
  <2>1. UNCHANGED <<phase, error, rendered, failed>>
    BY <1>2, <1>5 DEF Render
  <2> QED
    BY <1>1, <1>2, <2>1
    DEF Batch!vars, Batch!run_vars, Batch!error_vars, Batch!link_vars,
        Batch!history
<1> QED
  BY <1>3, <1>4, <1>5

\* The other steps are those of the batch.
LEMMA ElsewhereRefines ==
  ASSUME Elsewhere
  PROVE  Batch!Next
<1>1. ASSUME Run!CheckOptions  PROVE Batch!CheckOptions
  BY <1>1
  DEF Run!CheckOptions, Batch!CheckOptions, Run!error_vars, Batch!error_vars,
      Run!link_vars, Batch!link_vars, Run!history, Batch!history
<1>2. ASSUME Run!ReadDirectory  PROVE Batch!ReadDirectory
  BY <1>2
  DEF Run!ReadDirectory, Batch!ReadDirectory, Run!source_object,
      Batch!source_object
<1>3. ASSUME Run!SkipEntry  PROVE Batch!SkipEntry
  BY <1>3
  DEF Run!SkipEntry, Batch!SkipEntry, Run!source_object, Batch!source_object,
      Run!Selected, Batch!Selected, Run!is_excluded, Batch!is_excluded,
      Run!is_included, Batch!is_included, Run!Matches, Batch!Matches,
      Run!error_vars, Batch!error_vars, Run!link_vars, Batch!link_vars,
      Run!history, Batch!history
<1>4. ASSUME Run!Discard  PROVE Batch!Discard
  BY <1>4
  DEF Run!Discard, Batch!Discard, Run!error_vars, Batch!error_vars,
      Run!link_vars, Batch!link_vars, Run!history, Batch!history
<1>5. ASSUME Run!PushLinkTag  PROVE Batch!PushLinkTag
  BY <1>5
  DEF Run!PushLinkTag, Batch!PushLinkTag, Run!source_object,
      Batch!source_object, Run!TagPath, Batch!TagPath, Run!error_vars,
      Batch!error_vars, Run!history, Batch!history
<1>6. ASSUME Run!Return  PROVE Batch!Return
  BY <1>6
  DEF Run!Return, Batch!Return, Run!error_vars, Batch!error_vars,
      Run!link_vars, Batch!link_vars, Run!history, Batch!history
<1> QED
  BY <1>1, <1>2, <1>3, <1>4, <1>5, <1>6 DEF Elsewhere, Batch!Next

\* The batch with the passes and handlers in full implements the batch of
\* Application, in which a page is one step that gives the catalogue the ids
\* of its document: the catalogue, the pages and the errors of a run are as if
\* each page had been made at once (Application.cpp:89-99, DoxyJson.cpp:35-108).
THEOREM PagesStepByStep == SiteSpec => ImplementsApplication
<1>1. SiteInit => Batch!Init
  BY DEF SiteInit, Run!Init, Batch!Init, Run!Page, Batch!Page
<1>2. PlaceInv /\ EntryInv /\ [SiteNext]_site_vars => [Batch!Next]_Batch!vars
  <2> SUFFICES ASSUME PlaceInv, EntryInv, [SiteNext]_site_vars
               PROVE  [Batch!Next]_Batch!vars
    OBVIOUS
  <2>1. CASE Elsewhere
    BY <2>1, ElsewhereRefines
  <2>2. CASE OpenEntry
    <3>1. Batch!OpenPage
      BY <2>2
      DEF OpenEntry, Run!OpenPage, Batch!OpenPage, Run!source_object,
          Batch!source_object, Run!Selected, Batch!Selected, Run!is_excluded,
          Batch!is_excluded, Run!is_included, Batch!is_included, Run!Matches,
          Batch!Matches, Run!history, Batch!history
    <3> QED
      BY <3>1 DEF Batch!Next
  <2>3. CASE Render
    BY <2>3, RenderRefines
  <2>4. CASE PublishPage
    <3>1. Batch!Publish
      BY <2>4
      DEF PublishPage, Run!Publish, Batch!Publish, Run!source_object,
          Batch!source_object, Run!PageOf, Batch!PageOf
    <3> QED
      BY <3>1 DEF Batch!Next
  <2>5. CASE CloseEntry
    <3>1. Batch!EndScope
      BY <2>5
      DEF CloseEntry, Run!EndScope, Batch!EndScope, Run!history,
          Batch!history
    <3> QED
      BY <3>1 DEF Batch!Next
  <2>6. CASE UNCHANGED site_vars
    BY <2>6
    DEF site_vars, vars, links, Run!vars, Run!run_vars, Run!error_vars,
        Run!link_vars, Run!history, Batch!vars, Batch!run_vars,
        Batch!error_vars, Batch!link_vars, Batch!history
  <2> QED
    BY <2>1, <2>2, <2>3, <2>4, <2>5, <2>6 DEF SiteNext
<1> QED
  BY <1>1, <1>2, PlaceInvariant, EntryInvariant, PTL
  DEF SiteSpec, ImplementsApplication, Batch!Spec

=============================================================================
