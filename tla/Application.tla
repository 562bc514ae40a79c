---------------------------- MODULE Application ----------------------------
(***************************************************************************)
(* Application::run (app/src/Application.cpp): the batch that turns every  *)
(* selected XML file of every configured source folder into a page and     *)
(* builds, source by source, the catalogue of link ids                     *)
(* (link_tag_container) that later sources resolve their references with.  *)
(*                                                                         *)
(* The rendering of one page (DoxyJson::process_file) is one step here: it *)
(* succeeds with the file's ids or fails before or after it gathered them. *)
(* Every file system call may fail.  A pending error of the API library's  *)
(* execution context turns the library's calls into no-ops, the convention *)
(* API_RETURN_IF_ERROR in DoxyJson.cpp:93 follows; api::ErrorScope puts    *)
(* back, when it is destroyed, the error it found when it was built.       *)
(***************************************************************************)
EXTENDS Naturals, Sequences

CONSTANTS
  File,            \* names of directory entries
  Folder,          \* input folders
  Pattern,         \* strings of the exclude and include lists
  Output,          \* output folders, relative to the destination
  BaseUrl,         \* non-empty values of baseUrl
  Id,              \* doxygen ids
  Xml,             \* the entries whose suffix is xml
  PatternsIn,      \* the patterns that occur in a name
  Listing,         \* the entries of a folder
  Ids,             \* the ids process_file gathers from a file of a folder
  Configurations,  \* the values of input.sources under study
  NoFile, NoPage, NoUrl

\* An object of the configuration's input.sources array.
Source == [input    : Folder,
           output   : Output,
           base_url : BaseUrl \cup {NoUrl},
           exclude  : SUBSET Pattern,
           include  : SUBSET Pattern]

ASSUME InputAssumption ==
  /\ Xml \subseteq File
  /\ PatternsIn \in [File -> SUBSET Pattern]
  /\ Listing \in [Folder -> SUBSET File]
  /\ Ids \in [Folder \X File -> SUBSET Id]
  /\ Configurations \subseteq Seq(Source)
  /\ NoFile \notin File

VARIABLES
  sources,             \* options.configuration().input().get_sources()
  phase,               \* where Application::run stands
  source,              \* index of source_object in sources
  pending,             \* entries of source_path_container not yet visited
  file,                \* source_path while its page is being made
  error,               \* is_error() of the execution context
  saved,               \* the error the ErrorScope of this entry found
  doxy_links,          \* doxy_json.link_container()
  link_container,      \* ids of the pages of this source so far
  link_tag_container,  \* catalogue: ids and path of every finished source
  disk,                \* the output pages, by folder and name
  rendered,            \* history: <<source, file>> process_file succeeded on
  failed,              \* history: <<source, file>> it failed on
  unwritten,           \* history: rendered, but File::write failed
  unreadable           \* history: sources whose folder could not be listed

run_vars == <<sources, phase, source, pending, file>>
error_vars == <<error, saved>>
link_vars == <<doxy_links, link_container, link_tag_container>>
history == <<rendered, failed, unwritten, unreadable>>
vars == <<run_vars, error_vars, link_vars, disk, history>>

----------------------------------------------------------------------------
source_object == sources[source]

\* Some item of a list occurs in the file's name.
Matches(f, items) == items \cap PatternsIn[f] # {}

\* A wrong is_excluded, for the mutation runs: an include list alone excludes
\* nothing.
is_excluded_by_list_only(s, f) == Matches(f, s.exclude)

\* The two lambdas of the loop body.  An include list alone excludes every
\* other file, and an included file is processed whatever excludes it.
is_excluded(s, f) ==
  \/ s.exclude = {} /\ s.include # {}
  \/ Matches(f, s.exclude)

is_included(s, f) == Matches(f, s.include)

Selected(s, f) == f \in Xml /\ (~is_excluded(s, f) \/ is_included(s, f))

\* DoxyJson::LinkTag, and the path a finished source is entered under.
LinkTag == [links : SUBSET Id,
            path  : [base : BaseUrl \cup {NoUrl}, folder : Output]]
TagPathSwapped(s) == [base |-> s.output, folder |-> s.base_url]  \* mutant
TagPath(s) == [base |-> s.base_url, folder |-> s.output]

\* The output path of a file: two sources that share an output folder share
\* the pages of the files that have the same name.
PageOfFlat(s, f) == <<CHOOSE o \in Output : TRUE, f>>  \* mutant
Page == Output \X File
PageOf(s, f) == <<s.output, f>>

\* What a page holds: the source that wrote it, whether the write went
\* through, and how many catalogue entries its rendering could see.
PageState == [source : Nat, state : {"whole", "torn"}, seen : Nat]

ASSUME NoPageAssumption == NoPage \notin PageState

----------------------------------------------------------------------------
Init ==
  /\ sources \in Configurations
  /\ phase = "start"
  /\ source = 1
  /\ pending = {}
  /\ file = NoFile
  /\ error \in BOOLEAN       \* what Options left in the execution context
  /\ saved = FALSE
  /\ doxy_links = {}
  /\ link_container = {}
  /\ link_tag_container = <<>>
  /\ disk = [p \in Page |-> NoPage]
  /\ rendered = {}
  /\ failed = {}
  /\ unwritten = {}
  /\ unreadable = {}

\* check_error() right after the options were read: return or go on.
CheckOptions ==
  /\ phase = "start"
  /\ phase' = IF error THEN "done" ELSE "source"
  /\ UNCHANGED <<sources, source, pending, file,
                 error_vars, link_vars, disk, history>>

\* FileSystem().read_directory(): it lists the folder, fails and leaves an
\* error pending, or does nothing because an error is pending already.
ReadDirectory ==
  /\ phase = "source"
  /\ source <= Len(sources)
  /\ phase' = "file"
  /\ link_container' = {}
  /\ \/ /\ ~error
        /\ pending' = Listing[source_object.input]
        /\ UNCHANGED <<error, unreadable>>
     \/ /\ ~error
        /\ pending' = {}
        /\ error' = TRUE
        /\ unreadable' = unreadable \cup {source}
     \/ /\ error
        /\ pending' = {}
        /\ UNCHANGED <<error, unreadable>>
  /\ UNCHANGED <<sources, source, file, saved, doxy_links,
                 link_tag_container, disk, rendered, failed, unwritten>>

\* An entry that is not XML, or is excluded.  Its ErrorScope, if it has one,
\* opens and closes with nothing in between.
SkipEntry ==
  /\ phase = "file"
  /\ \E f \in pending :
       /\ ~Selected(source_object, f)
       /\ pending' = pending \ {f}
  /\ UNCHANGED <<sources, phase, source, file,
                 error_vars, link_vars, disk, history>>

\* A wrong OpenPage: the entry stays in the list while its page is made.
OpenPageAgain ==
  /\ phase = "file"
  /\ \E f \in pending : Selected(source_object, f) /\ file' = f
  /\ saved' = error
  /\ error' \in {error, TRUE}
  /\ doxy_links' = {}
  /\ phase' = "page"
  /\ UNCHANGED <<sources, source, pending, link_container,
                 link_tag_container, disk, history>>

\* A selected entry: the ErrorScope opens, create_directory() succeeds or
\* fails, and a fresh DoxyJson is built on the catalogue.
OpenPage ==
  /\ phase = "file"
  /\ \E f \in pending :
       /\ Selected(source_object, f)
       /\ file' = f
       /\ pending' = pending \ {f}
  /\ saved' = error
  /\ error' \in {error, TRUE}
  /\ doxy_links' = {}
  /\ phase' = "page"
  /\ UNCHANGED <<sources, source, link_container, link_tag_container,
                 disk, history>>

\* doxy_json.process_file(): it returns at its first test when an error is
\* pending; otherwise it succeeds, or fails with or without the ids.
ProcessFile ==
  LET ids == Ids[<<source_object.input, file>>]
  IN  /\ phase = "page"
      /\ phase' = "rendered"
      /\ \/ /\ ~error
            /\ doxy_links' = ids
            /\ rendered' = rendered \cup {<<source, file>>}
            /\ UNCHANGED <<error, failed>>
         \/ /\ error' = TRUE
            /\ doxy_links' \in IF error THEN {{}} ELSE {{}, ids}
            /\ failed' = failed \cup {<<source, file>>}
            /\ UNCHANGED rendered
      /\ UNCHANGED <<sources, source, pending, file, saved, link_container,
                     link_tag_container, disk, unwritten, unreadable>>

\* The is_success() branch: the ids join link_container first, the page is
\* written after that.  A write that fails leaves the old page or a torn one.
Publish ==
  LET p == PageOf(source_object, file)
      page(state) == [source |-> source, state |-> state,
                      seen   |-> Len(link_tag_container)]
  IN  /\ phase = "rendered"
      /\ ~error
      /\ phase' = "scope"
      /\ link_container' = link_container \cup doxy_links
      /\ \/ /\ disk' = [disk EXCEPT ![p] = page("whole")]
            /\ UNCHANGED <<error, unwritten>>
         \/ /\ disk' \in {disk, [disk EXCEPT ![p] = page("torn")]}
            /\ error' = TRUE
            /\ unwritten' = unwritten \cup {<<source, file>>}
      /\ UNCHANGED <<sources, source, pending, file, saved, doxy_links,
                     link_tag_container, rendered, failed, unreadable>>

\* A wrong Discard: the ids are taken over without asking is_success().
DiscardKeepsIds ==
  /\ phase = "rendered"
  /\ error
  /\ phase' = "scope"
  /\ link_container' = link_container \cup doxy_links
  /\ UNCHANGED <<sources, source, pending, file, error_vars, doxy_links,
                 link_tag_container, disk, history>>

\* The branch not taken: a page that failed publishes nothing.
Discard ==
  /\ phase = "rendered"
  /\ error
  /\ phase' = "scope"
  /\ UNCHANGED <<sources, source, pending, file,
                 error_vars, link_vars, disk, history>>

\* A wrong EndScope: no ErrorScope, the error of a page stays pending.
EndScopeLeaks ==
  /\ phase = "scope"
  /\ doxy_links' = {}
  /\ file' = NoFile
  /\ phase' = "file"
  /\ UNCHANGED <<sources, source, pending, error_vars, link_container,
                 link_tag_container, disk, history>>

\* check_error() reports, and the end of the loop body destroys doxy_json
\* and the ErrorScope.
EndScope ==
  /\ phase = "scope"
  /\ error' = saved
  /\ doxy_links' = {}
  /\ file' = NoFile
  /\ phase' = "file"
  /\ UNCHANGED <<sources, source, pending, saved, link_container,
                 link_tag_container, disk, history>>

\* A wrong PushLinkTag: a source without ids gets no entry.
PushLinkTagUnlessEmpty ==
  /\ phase = "file"
  /\ pending = {}
  /\ link_tag_container' =
       IF link_container = {}
         THEN link_tag_container
         ELSE Append(link_tag_container, [links |-> link_container,
                                          path  |-> TagPath(source_object)])
  /\ source' = source + 1
  /\ phase' = "source"
  /\ UNCHANGED <<sources, pending, file, error_vars, doxy_links,
                 link_container, disk, history>>

\* The end of a source: its ids enter the catalogue, be there any or none.
PushLinkTag ==
  /\ phase = "file"
  /\ pending = {}
  /\ link_tag_container' = Append(link_tag_container,
                                  [links |-> link_container,
                                   path  |-> TagPath(source_object)])
  /\ source' = source + 1
  /\ phase' = "source"
  /\ UNCHANGED <<sources, pending, file, error_vars, doxy_links,
                 link_container, disk, history>>

Return ==
  /\ phase = "source"
  /\ source > Len(sources)
  /\ phase' = "done"
  /\ UNCHANGED <<sources, source, pending, file,
                 error_vars, link_vars, disk, history>>

Terminated == phase = "done" /\ UNCHANGED vars

Next ==
  \/ CheckOptions
  \/ ReadDirectory
  \/ SkipEntry
  \/ OpenPage
  \/ ProcessFile
  \/ Publish
  \/ Discard
  \/ EndScope
  \/ PushLinkTag
  \/ Return
  \/ Terminated

Spec == Init /\ [][Next]_vars

\* One thread runs the batch to its end: it never stops between two steps.
FairSpec == Spec /\ WF_vars(Next)

----------------------------------------------------------------------------
(* Properties *)

\* Every variable holds a value of its kind.
TypeOK ==
  /\ sources \in Seq(Source)
  /\ phase \in {"start", "source", "file", "page", "rendered", "scope", "done"}
  /\ source \in 1 .. Len(sources) + 1
  /\ phase \in {"file", "page", "rendered", "scope"} => source <= Len(sources)
  /\ pending \subseteq File
  /\ file \in File \cup {NoFile}
  /\ phase \in {"page", "rendered", "scope"} => file \in File
  /\ error \in BOOLEAN
  /\ saved \in BOOLEAN
  /\ doxy_links \subseteq Id
  /\ link_container \subseteq Id
  /\ link_tag_container \in Seq(LinkTag)
  /\ disk \in [Page -> {NoPage} \cup PageState]
  /\ rendered \subseteq Nat \X File
  /\ failed \subseteq Nat \X File
  /\ unwritten \subseteq Nat \X File
  /\ unreadable \subseteq Nat

\* The catalogue the abstract specification talks about.
Catalog == INSTANCE Publication WITH
             catalog <- link_tag_container,
             pages   <- {f \in File : <<source, f>> \in rendered}

\* The run keeps the promise of Publication: entries of the catalogue appear
\* complete, in order, and only from pages that process_file succeeded on,
\* whatever call failed (Application.cpp:94-97, 108-113).
Publishes == Catalog!Spec

\* Errors stay inside the entry that caused them: between two entries an
\* error is pending exactly when a source folder could not be listed, because
\* the ErrorScope of every entry gives back what it found
\* (Application.cpp:39, 44, 100).
ErrorsAreScoped ==
  phase \in {"source", "file"} => (error <=> unreadable # {})

\* The files of a finished source that process_file was called on.
Tried(t) == {f \in File : <<t, f>> \in rendered \cup failed}

\* A file that fails costs the batch that file only: process_file is called
\* on all chosen files of a finished source, up to the first source whose
\* folder cannot be listed, and on no file from there on, because that error
\* is outside every ErrorScope and stays pending (Application.cpp:38-44).
FailuresAreIsolated ==
  \A t \in 1 .. source - 1 :
    Tried(t) = IF \E u \in unreadable : u <= t
                 THEN {}
                 ELSE Catalog!Chosen(sources[t])

\* A rendered page is on disk as its source wrote it, unless the write itself
\* failed, or a later source with the same output folder rendered a file of
\* the same name over it; and there is no file on disk that is not of a page
\* its source rendered, not even a torn one (Application.cpp:84, 94-98).
RenderedIsWritten ==
  \A t \in DOMAIN sources, f \in File :
    LET p == PageOf(sources[t], f)
    IN  /\ <<t, f>> \in rendered
        /\ ~(phase = "rendered" /\ t = source /\ f = file)
        => \/ <<t, f>> \in unwritten
           \/ /\ disk[p] # NoPage
              /\ disk[p].source = t
              /\ disk[p].state = "whole"
           \/ \E u \in t + 1 .. source :
                /\ sources[u].output = sources[t].output
                /\ <<u, f>> \in rendered
WrittenIsRendered ==
  \A p \in Page :
    disk[p] # NoPage =>
      \E r \in rendered : /\ r[1] = disk[p].source
                          /\ r[1] \in DOMAIN sources
                          /\ p = PageOf(sources[r[1]], r[2])
PagesAreAccountedFor == RenderedIsWritten /\ WrittenIsRendered

\* The page of a file is there as a source wrote it.
Written(t, f) ==
  LET p == PageOf(sources[t], f)
  IN  /\ p \in Page
      /\ disk[p] # NoPage
      /\ disk[p].source = t
      /\ disk[p].state = "whole"

\* An id in the catalogue is on a page of the source that entered it, unless
\* the write of that page failed or a later source wrote over it
\* (Application.cpp:94-98, 111).
CatalogueLeadsToPages ==
  \A t \in DOMAIN link_tag_container :
    \A id \in link_tag_container[t].links :
      \E f \in File :
        /\ id \in Ids[<<sources[t].input, f>>]
        /\ \/ Written(t, f)
           \/ <<t, f>> \in unwritten
           \/ \E u \in t + 1 .. Len(sources) :
                /\ sources[u].output = sources[t].output
                /\ <<u, f>> \in rendered

\* A page on disk was rendered against the catalogue entries of all sources
\* before its own and of no other, so the entry at a source's index is that
\* source's even when a folder could not be listed (Application.cpp:89, 111).
PagesSeeEarlierSources ==
  \A p \in Page : disk[p] # NoPage => disk[p].seen = disk[p].source - 1

\* The batch ends, whatever fails (Application.cpp:31-114).
Termination == <>(phase = "done")

=============================================================================
