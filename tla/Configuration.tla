--------------------------- MODULE Configuration ---------------------------
(***************************************************************************)
(* Configuration (app/src/Configuration.hpp, Configuration.cpp): the       *)
(* defaults, the accessors, and the configuration file of a user, who may  *)
(* show the active configuration, save it as the file, and edit it         *)
(* (README.md, "Running").                                                 *)
(*                                                                         *)
(* The texts of the labels are left out: what counts is whether a value is *)
(* the default, the user's or none.                                        *)
(***************************************************************************)
EXTENDS Naturals, Sequences

CONSTANTS
  UserFiles,  \* the JSON objects a user may write
  MaxEdits    \* a bound on how often the user writes

\* The JSON values of a configuration.
String(text) == [form |-> "string", text |-> text]
Bool(value) == [form |-> "bool", value |-> value]
Array(items) == [form |-> "array", items |-> items]
Object(members) == [form |-> "object", members |-> members]
Null == [form |-> "null"]

\* to_object() of anything else is an object without members.
Keys(v) == IF v.form = "object" THEN DOMAIN v.members ELSE {}
At(v, key) == IF key \in Keys(v) THEN v.members[key] ELSE Null

----------------------------------------------------------------------------
(* The accessors *)

Labels(keys) == [key \in keys |-> "string"]

\* The accessors of each part and the form of what they read.
BaseCompoundRef == Labels({"label"})
DetailedDescription == Labels({"title"})
General ==
  [linkSuffix |-> "string", generateSummary |-> "bool",
   generateAnchorHeaders |-> "bool", generateAnchorHtml |-> "bool",
   frontMatter |-> "bool", showPrivate |-> "bool", showProtected |-> "bool",
   useRelativePaths |-> "bool"]
InnerClass == Labels({"label"})
Input == [sources |-> "array"]
ListOfAllMembers == Labels({"title"})
MemberDef ==
  Labels({"function", "variable", "define", "friend", "typedef", "enum",
          "typeLabel", "parametersLabel"})
ProgramListing == Labels({"language"})
SectionDef ==
  Labels({"define", "enum", "friend", "func", "typedef", "private-attrib",
          "private-func", "private-static-attrib", "private-static-func",
          "private-type", "protected-attrib", "protected-func",
          "protected-static-func", "protected-type", "public-attrib",
          "public-func", "public-static-attrib", "public-static-func",
          "public-type"})
SimpleSect == Labels({"return", "see"})

Accessors ==
  [basecompoundref |-> BaseCompoundRef,
   detaileddescription |-> DetailedDescription, general |-> General,
   innerclass |-> InnerClass, input |-> Input,
   listofallmembers |-> ListOfAllMembers, memberdef |-> MemberDef,
   programlisting |-> ProgramListing, sectiondef |-> SectionDef,
   simplesect |-> SimpleSect]

\* What an accessor returns where there is nothing to read.
Nothing(form) == CASE form = "string" -> String("")
                   [] form = "bool" -> Bool(FALSE)
                   [] form = "array" -> Array(<<>>)

\* Parts are read by accessors; the titles of sections and the labels of
\* simple sections also by a kind that has no accessor.
Form(part, key) ==
  IF key \in DOMAIN Accessors[part] THEN Accessors[part][key] ELSE "string"

Get(configuration, part, key) ==
  LET v == At(At(configuration, part), key)
  IN  IF v.form = Form(part, key) THEN v ELSE Nothing(Form(part, key))

\* The values of a part have the form they are read in, or are null.
InForm(part, v) ==
  \A key \in Keys(v) :
    At(v, key) = Null \/ At(v, key).form = Form(part, key)

\* That is what a user gives them.
ASSUME UserFilesAssumption ==
  /\ MaxEdits \in Nat
  /\ \A u \in UserFiles :
       /\ u.form = "object"
       /\ \A part \in Keys(u) \cap DOMAIN Accessors : InForm(part, At(u, part))

----------------------------------------------------------------------------
(* The defaults *)

default == String("default")
Defaults(keys) == Object([key \in keys |-> default])

make_defaults ==
  Object(
    [basecompoundref     |-> Defaults({"label"}),
     detaileddescription |-> Defaults({"title"}),
     general |->
       Object([linkSuffix |-> String(""),
               generateAnchorHeaders |-> Bool(FALSE),
               generateAnchorHtml |-> Bool(TRUE),
               generateSummary |-> Bool(TRUE),
               useRelativePaths |-> Bool(TRUE),
               frontMatter |-> Bool(FALSE)]),
     innerclass |-> Defaults({"label"}),
     input |->
       Object([sources |-> Array(<<Object([input |-> String("."),
                                           output |-> String(".")])>>)]),
     listofallmembers |-> Defaults({"title"}),
     memberdef        |-> Defaults(DOMAIN MemberDef),
     programlisting   |-> Defaults({"language"}),
     sectiondef       |-> Defaults(DOMAIN SectionDef),
     simplesect       |-> Defaults({"return", "see"})])

\* JsonObject::update() with UpdateFlags::recursive: the members of objects
\* are merged, anything else is replaced.  No member of a part of the
\* defaults is an object, so there is no third level.
UpdatePart(d, u) ==
  IF d.form # "object" \/ u.form # "object" THEN u
  ELSE Object([key \in Keys(d) \cup Keys(u) |->
                 At(IF key \in Keys(u) THEN u ELSE d, key)])

\* A wrong update, for the mutation runs: it is not recursive.
update_shallow(d, u) ==
  Object([part \in Keys(d) \cup Keys(u) |->
            At(IF part \in Keys(u) THEN u ELSE d, part)])

update(d, u) ==
  Object([part \in Keys(d) \cup Keys(u) |->
            IF part \in Keys(d) \cap Keys(u)
              THEN UpdatePart(At(d, part), At(u, part))
              ELSE At(IF part \in Keys(u) THEN u ELSE d, part)])

----------------------------------------------------------------------------
VARIABLES
  file,           \* the configuration file, Null if there is none
  edits,          \* how often the user has written
  process,        \* "none", or how it was started: "with file", "without"
  configuration,  \* Options::m_configuration of the process
  shown           \* what was shown last

vars == <<file, edits, process, configuration, shown>>

Init ==
  /\ file = Null
  /\ edits = 0
  /\ process = "none"
  /\ configuration = Null
  /\ shown = Null

\* The user writes a file, or changes some of the values in the one there is.
Edit ==
  /\ process = "none"
  /\ edits < MaxEdits
  /\ edits' = edits + 1
  /\ \E u \in UserFiles : file' \in {u, update(file, u)}
  /\ UNCHANGED <<process, configuration, shown>>

\* The user saves what was shown as the file (README.md:52-58).
Save ==
  /\ process = "none"
  /\ shown # Null
  /\ file' = shown
  /\ UNCHANGED <<edits, process, configuration, shown>>

\* A process starts without --configuration, or with the file.
StartWithout ==
  /\ process = "none"
  /\ process' = "without"
  /\ configuration' = make_defaults
  /\ UNCHANGED <<file, edits, shown>>

StartWithFile ==
  /\ process = "none"
  /\ file # Null
  /\ process' = "with file"
  /\ configuration' = update(make_defaults, file)
  /\ UNCHANGED <<file, edits, shown>>

\* --showConfiguration shows it and ends the process; any other run ends too.
ShowConfiguration ==
  /\ process # "none"
  /\ shown' = configuration
  /\ process' = "none"
  /\ configuration' = Null
  /\ UNCHANGED <<file, edits>>

End ==
  /\ process # "none"
  /\ process' = "none"
  /\ configuration' = Null
  /\ UNCHANGED <<file, edits, shown>>

Next ==
  \/ Edit
  \/ Save
  \/ StartWithout
  \/ StartWithFile
  \/ ShowConfiguration
  \/ End

Spec == Init /\ [][Next]_vars

----------------------------------------------------------------------------
(* Properties *)

\* What a run reads is, value by value, what the file says where it says
\* something and the default where it is silent; but a part that is not an
\* object in the file has lost all its defaults, and a value that is null its
\* own.  Without a file it is the defaults (Options.hpp:68-84,
\* Configuration.hpp:9-141).
UserValueFirst ==
  process # "none" =>
    \A part \in DOMAIN Accessors :
      \A key \in DOMAIN Accessors[part] \cup {"user-defined"} :
        LET user == IF process = "with file" THEN file ELSE Object(<<>>)
            silent == /\ part \in Keys(user) => At(user, part).form = "object"
                      /\ key \notin Keys(At(user, part))
            value == At(At(IF silent THEN make_defaults ELSE user, part), key)
        IN  Get(configuration, part, key) =
              IF value = Null THEN Nothing(Form(part, key)) ELSE value

=============================================================================
