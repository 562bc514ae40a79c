---------------------------- MODULE Publication ----------------------------
(***************************************************************************)
(* What Application::run promises about its link catalogue, whatever fails *)
(* on the way: sources are closed one after the other in the order of the  *)
(* configuration, a page of a source is rendered against the entries of    *)
(* the sources closed before it and no others, and the entry of a source   *)
(* is complete when it appears, never changes after that, and holds        *)
(* exactly the ids of the pages that were rendered.                        *)
(***************************************************************************)
EXTENDS Naturals, Sequences

CONSTANTS File, Xml, PatternsIn, Listing, Ids, Configurations

VARIABLES
  sources,   \* the configured sources
  catalog,   \* one entry for every closed source
  pages      \* the files of the open source that have been rendered

vars == <<sources, catalog, pages>>

Occurs(f, items) == \E item \in items : item \in PatternsIn[f]

\* The files of a source that are to be rendered, in the words of the
\* comments of Application.cpp:53 and Application.cpp:67.
Chosen(s) ==
  {f \in Listing[s.input] \cap Xml :
     \/ Occurs(f, s.include)
     \/ s.exclude # {} /\ ~Occurs(f, s.exclude)
     \/ s.exclude = {} /\ s.include = {}}

IdsOf(s, files) == UNION {Ids[<<s.input, f>>] : f \in files}

Entry(s, files) == [links |-> IdsOf(s, files),
                    path  |-> [base |-> s.base_url, folder |-> s.output]]

open == Len(catalog) + 1

Init ==
  /\ sources \in Configurations
  /\ catalog = <<>>
  /\ pages = {}

\* A file of the open source is rendered, at most once.
Render ==
  /\ open \in DOMAIN sources
  /\ \E f \in Chosen(sources[open]) \ pages : pages' = pages \cup {f}
  /\ UNCHANGED <<sources, catalog>>

\* The open source is closed.
Close ==
  /\ open \in DOMAIN sources
  /\ catalog' = Append(catalog, Entry(sources[open], pages))
  /\ pages' = {}
  /\ UNCHANGED sources

Next == Render \/ Close

Spec == Init /\ [][Next]_vars

=============================================================================
