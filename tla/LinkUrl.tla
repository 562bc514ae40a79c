------------------------------ MODULE LinkUrl ------------------------------
(***************************************************************************)
(* The link urls of a page (get_link_url and its helpers, DoxyJson.hpp).   *)
(*                                                                         *)
(* An id is the sequence of its parts between underscores, so that         *)
(* <<"classA", "1f">> is the id classA_1f; <<>> is the empty string.  A    *)
(* path is the sequence of its components; a prefix is a number of "../"   *)
(* followed by a path.                                                     *)
(***************************************************************************)
EXTENDS Naturals, Sequences, SequencesExt

\* The attributes of the XML element a link is made from.
LinkAttributes(kindref, external) ==
  [kindref |-> kindref, external |-> external]

\* All parts but the last.
get_id_without_hash(id) == IF id = <<>> THEN <<>> ELSE Front(id)

\* A part as long as a hash after an underscore; the id of a member of the
\* page: what the "#" links of a page are for.  Neither is called.
is_link_with_hash(id, hash_length) ==
  Len(id) > 1 /\ Len(Last(id)) = hash_length
is_internal_link(id, hash_length, compound_def_id) ==
  /\ is_link_with_hash(id, hash_length)
  /\ get_id_without_hash(id) = compound_def_id

\* The path of the first tag that has the id among its links, or none.
get_external_path(tags, id) ==
  LET i == SelectInSeq(tags, LAMBDA tag : id \in tag.links)
  IN  IF i = 0 THEN <<>> ELSE tags[i].path

\* A url: nothing, the page itself, an anchor of the page itself, another
\* page, or an anchor of another page.  Other pages are named with the suffix
\* of the configuration.
EmptyUrl == [to |-> "nothing"]
SamePage == [to |-> "page itself"]
SameAnchor(id) == [to |-> "anchor", anchor |-> id]
PageAt(up, path, page, suffix) ==
  [to |-> "page", up |-> up, path |-> path, page |-> page, suffix |-> suffix]
AnchorAt(up, path, page, suffix, id) ==
  [to |-> "page anchor", up |-> up, path |-> path, page |-> page,
   suffix |-> suffix, anchor |-> id]

\* Links of an external project, or of an earlier source, go through the
\* prefix; the others stay where the page is.
get_link_url(attributes, id, up, file_suffix, tags, compound_def_id) ==
  LET path        == get_external_path(tags, id)
      is_external == attributes.external \/ path # <<>>
      is_member   == attributes.kindref = "member"
  IN  CASE id = <<>> -> EmptyUrl
        [] id # <<>> /\ is_external /\ is_member ->
             AnchorAt(up, path, get_id_without_hash(id), file_suffix, id)
        [] id # <<>> /\ is_external /\ ~is_member ->
             PageAt(up, path, id, file_suffix)
        [] id # <<>> /\ ~is_external /\ is_member -> SameAnchor(id)
        [] id = compound_def_id /\ id # <<>> /\ ~is_external /\ ~is_member ->
             SamePage
        [] OTHER -> PageAt(0, <<>>, id, file_suffix)

=============================================================================
