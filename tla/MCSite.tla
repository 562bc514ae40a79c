------------------------------- MODULE MCSite -------------------------------
(* A library of two classes that refer to each other, an application that  *)
(* refers to both, and a folder with another document of the same name.    *)
EXTENDS Site

CONSTANTS lib, app, part, pa

Rows == INSTANCE MCDocuments

cA == <<"classA">>
cB == <<"classB">>
cC == <<"classC">>

Table ==
  << <<0, "", "">>,
     \* lib/classA.xml
     <<0, "doxygen">>, <<1, "compounddef">>, <<2, "@id", "classA", cA>>,
     <<2, "compoundname", "A">>,
     <<2, "innerclass">>, <<3, "@refid", "classB", cB>>, <<3, "#text", "B">>,
     <<2, "sectiondef">>, <<3, "@kind", "public-func">>,
     <<3, "memberdef">>, <<4, "@id", "classA_1f", <<"classA", "1f">> >>,
     <<4, "name", "f">>,
     <<2, "detaileddescription">>,
     <<3, "ref">>, <<4, "@refid", "classA_1f", <<"classA", "1f">> >>,
     <<4, "@kindref", "member">>, <<4, "#text", "f here">>,
     <<3, "ref">>, <<4, "@refid", "classB_2a", <<"classB", "2a">> >>,
     <<4, "@kindref", "member">>, <<4, "#text", "g there">>,
     \* lib/classB.xml
     <<0, "doxygen">>, <<1, "compounddef">>, <<2, "@id", "classB", cB>>,
     <<2, "compoundname", "B">>,
     <<2, "basecompoundref">>, <<3, "@refid", "classA", cA>>,
     <<3, "#text", "A">>,
     <<2, "sectiondef">>, <<3, "@kind", "public-func">>,
     <<3, "memberdef">>, <<4, "@id", "classB_2a", <<"classB", "2a">> >>,
     <<4, "name", "g">>,
     <<2, "sectiondef">>, <<3, "@kind", "private-attrib">>,
     <<3, "memberdef">>, <<4, "@id", "classB_3b", <<"classB", "3b">> >>,
     <<4, "name", "hidden">>,
     \* app/classC.xml
     <<0, "doxygen">>, <<1, "compounddef">>, <<2, "@id", "classC", cC>>,
     <<2, "compoundname", "C">>,
     <<2, "basecompoundref">>, <<3, "@refid", "classB", cB>>,
     <<3, "#text", "B">>,
     <<2, "detaileddescription">>,
     <<3, "ref">>, <<4, "@refid", "classA_1f", <<"classA", "1f">> >>,
     <<4, "@kindref", "member">>, <<4, "#text", "f">>,
     <<3, "ref">>, <<4, "@refid", "classB_3b", <<"classB", "3b">> >>,
     <<4, "@kindref", "member">>, <<4, "#text", "private">>,
     <<3, "ref">>, <<4, "@refid", "classC", cC>>,
     <<4, "@kindref", "compound">>, <<4, "#text", "C itself">>,
     <<3, "ref">>, <<4, "@refid", "classX", <<"classX">> >>,
     <<4, "@kindref", "compound">>, <<4, "@external", "x.tag">>,
     <<4, "#text", "outside">>,
     \* part/classA.xml
     <<0, "doxygen">>, <<1, "compounddef">>, <<2, "@id", "classA", cA>>,
     <<2, "compoundname", "A">>,
     <<2, "innerclass">>, <<3, "@refid", "classB", cB>>,
     <<3, "#text", "B">> >>

MCJsonNull == 1
MCJson == Rows!JsonOf(Table)
MCValue == DOMAIN MCJson

MCFile == {cA, cB, cC}
MCFolder == {lib, app, part}
MCListing == [d \in MCFolder |-> CASE d = lib -> {cA, cB}
                                   [] d = app -> {cC}
                                   [] d = part -> {cA}]

\* The document of a folder and a file, by its order in the table.
MCDocument ==
  LET root(n) == CHOOSE v \in Rows!RootsOf(Table) :
                   Cardinality({w \in Rows!RootsOf(Table) : w < v}) = n
  IN  [df \in MCFolder \X MCFile |->
         CASE df = <<lib, cA>>  -> root(1)
           [] df = <<lib, cB>>  -> root(2)
           [] df = <<app, cC>>  -> root(3)
           [] df = <<part, cA>> -> root(4)
           [] OTHER -> MCJsonNull]

\* The jobs, but for the catalogue, which the run makes.
MCJobs ==
  {[document |-> MCDocument[df], folder |-> <<".">>] :
     df \in {df \in MCFolder \X MCFile : df[2] \in MCListing[df[1]]}}

MCIds == [df \in MCFolder \X MCFile |-> IdsOf(MCDocument[df])]
MCId == UNION {MCIds[df] : df \in DOMAIN MCIds}

api == <<"api">>
deep == <<"docs", "md">>
dotted == <<".", "ext">>
here == <<".">>
MCOutput == {api, deep, dotted, here}
web == <<"https://host">>
MCBaseUrl == {web}
MCPattern == {pa}
MCPatternsIn == [f \in MCFile |-> IF f = cA THEN {pa} ELSE {}]

From(in, output, base) ==
  [input |-> in, output |-> output, base_url |-> base,
   exclude |-> {}, include |-> {}]

\* A library and an application: in folders in normal form, under a base url,
\* in a folder that is not in normal form, and the other way round; a class
\* written over by a later source, and a class listed alone.
MCConfigurations ==
  { <<From(lib, api, NoUrl), From(app, deep, NoUrl)>>,
    <<From(lib, api, web), From(app, deep, NoUrl)>>,
    <<From(lib, api, NoUrl), From(app, dotted, NoUrl)>>,
    <<From(app, here, NoUrl), From(lib, api, NoUrl)>>,
    <<From(lib, here, NoUrl), From(part, here, NoUrl)>>,
    <<[From(lib, deep, NoUrl) EXCEPT !.include = {pa}],
      From(app, here, NoUrl)>> }

\* A summary, nothing private; anchors that the site can be led to, that it
\* cannot, and none; the suffix of the site and another.
MCSettings ==
  LET with(relative, header, html, suffix) ==
        [generate_summary |-> TRUE, show_private |-> FALSE,
         show_protected |-> FALSE, anchor_headers |-> header,
         anchor_html |-> html, use_relative_paths |-> relative,
         link_suffix |-> suffix, details_title |-> FALSE,
         members_title |-> FALSE]
  IN  {with(relative, FALSE, TRUE, "") : relative \in BOOLEAN}
        \cup {with(TRUE, TRUE, FALSE, ""), with(FALSE, FALSE, FALSE, ""),
              with(TRUE, FALSE, TRUE, ".md")}

=============================================================================
