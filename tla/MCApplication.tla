--------------------------- MODULE MCApplication ---------------------------
(* Values for the constants of Application: two XML files and one entry   *)
(* that is not XML, in a folder that two sources may share.               *)
EXTENDS Application

CONSTANTS a, b, dox, all, part, here, api, pa, pb, i1, i2, i3, url

MCFile == {a, b, dox}
MCXml == {a, b}
MCFolder == {all, part}
MCOutput == {here, api}
MCPattern == {pa, pb}
MCBaseUrl == {url}
MCId == {i1, i2, i3}

MCPatternsIn == [f \in MCFile |-> CASE f = a -> {pa}
                                  [] f = b -> {pb}
                                  [] OTHER -> {pa, pb}]
MCListing == [d \in MCFolder |-> IF d = all THEN MCFile ELSE {a}]
\* The same file name stands for different documents in different folders,
\* and documents share ids, as the members of a namespace do.
MCIds == [df \in MCFolder \X MCFile |->
            CASE df = <<all, a>>  -> {i1, i2}
              [] df = <<all, b>>  -> {i2, i3}
              [] df = <<part, a>> -> {i3}
              [] OTHER            -> {}]

One(in, out, ex, inc, base) ==
  [input |-> in, output |-> out, base_url |-> base,
   exclude |-> ex, include |-> inc]

\* Every pair of lists, alone; and pairs of sources that share a folder, an
\* output, both or neither, with selections that overlap.
MCLists == {{}, {pa}, {pb}, {pa, pb}}
MCSingle == {<<One(all, here, ex, inc, NoUrl)>> : ex, inc \in MCLists}
MCFirst == {One(all, here, {}, {}, NoUrl), One(part, here, {}, {}, NoUrl)}
MCSecond == {One(all, o, ex, {pa}, bs) : o \in MCOutput,
                                         ex \in {{}, {pa, pb}},
                                         bs \in {NoUrl, url}}
MCConfigurations ==
  {<<>>} \cup MCSingle
         \cup {<<s, t>> : s \in MCFirst, t \in MCSecond}
         \cup {<<s, t, u>> : s, t \in MCFirst, u \in MCSecond}

=============================================================================
