---------------------------- MODULE MCDoxyJson ----------------------------
(* Documents for DoxyJson, put together from the parts of a doxygen file:  *)
(* every part alone, pairs of parts whose handlers meet, and all of them.  *)
EXTENDS DoxyJson, MCDocuments

cA == <<"classA">>
cB == <<"classB">>
ext == <<"classExt">>
member(hash) == Append(cA, hash)

Bases ==
  << <<2, "basecompoundref">>, <<3, "@refid", "classExt", ext>>,
     <<3, "@prot", "public">>, <<3, "@virt", "non-virtual">>,
     <<3, "#text", "base1">>,
     <<2, "basecompoundref">>, <<3, "@prot", "private">>,
     <<3, "@virt", "virtual">>,
     <<3, "#text", "base2">> >>

Inner(prot) ==
  << <<2, "innerclass">>, <<3, "@refid", "classB", cB>>, <<3, "@prot", prot>>,
     <<3, "#text", "inner " \o prot>> >>
Inners == Inner("public") \o Inner("protected") \o Inner("private")
            \o << <<2, "innerfile", "a.hpp">> >>

Listed(prot) ==
  << <<3, "member">>, <<4, "@refid", "classA_1f", member("1f")>>,
     <<4, "@prot", prot>>,
     <<4, "scope", "in A">>, <<4, "name", "listed " \o prot>> >>
MemberList == << <<2, "listofallmembers">> >> \o Listed("public")
                \o Listed("protected") \o Listed("private")

\* A function with everything a member can have, and one without a type.
Public ==
  << <<2, "sectiondef">>, <<3, "@kind", "public-func">>,
     <<3, "memberdef">>, <<4, "@id", "classA_1f", member("1f")>>,
     <<4, "@kind", "function">>, <<4, "@inline", "yes">>,
     <<4, "@explicit", "no">>, <<4, "@virt", "virtual">>,
     <<4, "templateparamlist">>,
     <<5, "param">>, <<6, "type", "typename">>, <<6, "declname", "T">>,
     <<6, "defval", "int">>,
     <<4, "type">>, <<5, "#text", "const">>,
     <<5, "ref">>, <<6, "@refid", "classA", cA>>,
     <<6, "@kindref", "compound">>, <<6, "#text", "A">>,
     <<4, "definition", "A f">>, <<4, "argsstring", "(int x)">>,
     <<4, "name", "f">>,
     <<4, "param">>, <<5, "type", "int">>, <<5, "declname", "x">>,
     <<5, "briefdescription">>, <<6, "para", "x brief">>,
     <<4, "param">>, <<5, "type">>,
     <<6, "ref">>, <<7, "@refid", "classB", cB>>,
     <<7, "@kindref", "compound">>, <<7, "#text", "B">>,
     <<5, "declname", "y">>, <<5, "briefdescription", "">>,
     <<4, "briefdescription">>, <<5, "para", "f brief">>,
     <<4, "detaileddescription">>, <<5, "para", "f detailed">>,
     <<4, "inbodydescription">>, <<5, "para", "f inside">>,
     <<4, "location">>, <<5, "@file", "b.hpp">>, <<5, "@line", "7">>,
     <<3, "memberdef">>, <<4, "@id", "classA_2c", member("2c")>>,
     <<4, "@kind", "function">>, <<4, "@inline", "no">>,
     <<4, "@explicit", "yes">>,
     <<4, "type", "">>, <<4, "definition", "A::A">>, <<4, "name", "ctor">>,
     <<4, "briefdescription">>, <<5, "para", "ctor brief">> >>

Section(prot) ==
  << <<2, "sectiondef">>, <<3, "@kind", prot \o "-attrib">>,
     <<3, "memberdef">>, <<4, "@id", "classA_" \o prot, member(prot)>>,
     <<4, "@kind", "variable">>,
     <<4, "type", "type of " \o prot>>, <<4, "definition", "long " \o prot>>,
     <<4, "name", "my " \o prot>>,
     <<4, "briefdescription">>, <<5, "para", prot \o " brief">>,
     <<4, "detaileddescription", "">> >>
Attributes == Section("private") \o Section("protected")

Enum ==
  << <<2, "sectiondef">>, <<3, "@kind", "user-defined">>,
     <<3, "memberdef">>, <<4, "@id", "classA_3e", member("3e")>>,
     <<4, "@kind", "enum">>,
     <<4, "type", "">>, <<4, "name", "Kind">>,
     <<4, "enumvalue">>, <<5, "@id", "classA_3e1", member("3e1")>>,
     <<5, "@prot", "public">>,
     <<5, "name", "bare">>, <<5, "briefdescription", "">>,
     <<5, "detaileddescription", "">>,
     <<4, "enumvalue">>, <<5, "@id", "classA_3e2", member("3e2")>>,
     <<5, "@prot", "public">>,
     <<5, "name", "told">>,
     <<5, "briefdescription">>, <<6, "para", "told brief">>,
     <<5, "detaileddescription", "">> >>

Brief == << <<2, "briefdescription">>, <<3, "para", "A brief">> >>

Detailed ==
  << <<2, "detaileddescription">>, <<3, "para">>,
     <<4, "#text", "A detailed">>,
     <<4, "ref">>, <<5, "@refid", "classA", cA>>,
     <<5, "@kindref", "compound">>,
     <<5, "#text", "A page">>,
     <<4, "ref">>, <<5, "@refid", "classA_9a", member("9a")>>,
     <<5, "@kindref", "member">>,
     <<5, "#text", "g here">>,
     <<4, "itemizedlist">>,
     <<5, "listitem">>, <<6, "para", "item">>,
     <<5, "listitem">>, <<6, "para">>,
     <<7, "emphasis", "stressed">>, <<7, "computeroutput", "word">>,
     <<4, "programlisting">>, <<5, "codeline">>,
     <<6, "highlight">>, <<7, "#text", "code">>, <<7, "sp", "">>,
     <<7, "ref">>, <<8, "@refid", "classA_9a", member("9a")>>,
     <<8, "@kindref", "member">>,
     <<8, "#text", "g">>, <<7, "#text", "more">>,
     <<4, "simplesect">>, <<5, "@kind", "return">>, <<5, "para", "returned">>,
     <<4, "computeroutput">>,
     <<5, "ref">>, <<6, "@refid", "classExt", ext>>,
     <<6, "@kindref", "compound">>, <<6, "#text", "Ext">>,
     <<4, "ref">>, <<5, "@refid", "classExt_1x", Append(ext, "1x")>>,
     <<5, "@kindref", "member">>,
     <<5, "#text", "m there">>,
     <<4, "anchor">>, <<5, "@id", "classA_7q", <<"classA", "7q">>>>,
     <<4, "parameterlist">>, <<5, "para", "dropped">> >>

Title == << <<2, "title", "A Page">> >>

\* A part alone, pairs of parts, and the whole.
Contents ==
  <<Bases, Inners, MemberList, Public, Attributes, Enum, Brief, Detailed,
    Title, Title \o Bases, Detailed \o Public, Brief \o Inners \o Enum,
    Title \o Bases \o Inners \o MemberList \o Public \o Attributes \o Enum
      \o Brief \o Detailed>>

\* JsonNull, the file of each content, and a file that is not a compound (the
\* index doxygen writes beside the others).
Table ==
  LET File(content) ==
        << <<0, "doxygen">>,
           <<1, "compounddef">>, <<2, "@id", "classA", cA>>,
           <<2, "@kind", "class">>,
           <<2, "compoundname", "A">> >> \o content
  IN  << <<0, "", "">> >>
        \o FlattenSeq([i \in DOMAIN Contents |-> File(Contents[i])])
        \o << <<0, "doxygen", "">> >>

MCJsonNull == 1
MCJson == JsonOf(Table)
MCValue == DOMAIN MCJson
Roots == RootsOf(Table) \ {MCJsonNull}

\* Protection in every combination; all anchors and titles, or none.
MCConfig == {c \in Config : /\ c.anchor_headers = c.anchor_html
                            /\ c.details_title = c.anchor_html
                            /\ c.members_title = c.anchor_html
                            /\ c.use_relative_paths
                            /\ c.link_suffix = ""}

\* The catalogue of an earlier source, with the base class.
MCTags == <<[links |-> {ext, <<>>}, path |-> <<"api">>]>>

MCJobs == [document : Roots, config : MCConfig,
           folder : {<<"docs", "md">>}, tags : {MCTags}]

=============================================================================
