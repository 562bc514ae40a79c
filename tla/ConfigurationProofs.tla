------------------------ MODULE ConfigurationProofs ------------------------
(***************************************************************************)
(* Theorems about Configuration for every set of files a user may write    *)
(* and any number of edits.                                                *)
(***************************************************************************)
EXTENDS Configuration, TLAPS

\* A configuration file all of whose known parts are in the form they are
\* read in.
WellFormed(f) ==
  /\ f.form = "object"
  /\ \A part \in Keys(f) \cap DOMAIN Accessors : InForm(part, At(f, part))

\* The file, and what was shown and may become the file, are in form.
FileInv ==
  /\ file # Null => WellFormed(file)
  /\ shown # Null => WellFormed(shown)

\* What a process has as its configuration while it runs.
ProcessInv ==
  /\ process \in {"none", "without", "with file"}
  /\ process = "without" => configuration = make_defaults
  /\ process = "with file" =>
       file # Null /\ configuration = update(make_defaults, file)

----------------------------------------------------------------------------
\* Objects and update().

\* What a key of an object holds.
LEMMA Members ==
  ASSUME NEW m
  PROVE  /\ Object(m).form = "object"
         /\ Keys(Object(m)) = DOMAIN m
         /\ \A key : At(Object(m), key) =
                       IF key \in DOMAIN m THEN m[key] ELSE Null
BY DEF Object, Keys, At

\* No key of what is not an object holds anything.
LEMMA NoMembers ==
  ASSUME NEW v, v.form # "object"
  PROVE  Keys(v) = {} /\ \A key : At(v, key) = Null
BY DEF Keys, At

\* Updating a part with an object gives the values of the object, and those
\* of the part where it has none.
LEMMA UpdatedPart ==
  ASSUME NEW d, NEW u, d.form = "object", u.form = "object"
  PROVE  /\ UpdatePart(d, u).form = "object"
         /\ Keys(UpdatePart(d, u)) = Keys(d) \cup Keys(u)
         /\ \A key : At(UpdatePart(d, u), key) =
                       At(IF key \in Keys(u) THEN u ELSE d, key)
<1> DEFINE m == [key \in Keys(d) \cup Keys(u) |->
                   At(IF key \in Keys(u) THEN u ELSE d, key)]
<1>1. UpdatePart(d, u) = Object(m)
  BY DEF UpdatePart
<1>2. \A key : key \notin Keys(d) \cup Keys(u) =>
                 At(IF key \in Keys(u) THEN u ELSE d, key) = Null
  BY DEF At
<1>3. /\ DOMAIN m = Keys(d) \cup Keys(u)
      /\ \A key \in DOMAIN m : m[key] = At(IF key \in Keys(u) THEN u ELSE d, key)
  OBVIOUS
<1> HIDE DEF m
<1> QED BY <1>1, <1>2, <1>3, Members

\* The parts of an updated configuration.
LEMMA UpdatedParts ==
  ASSUME NEW d, NEW u
  PROVE  /\ update(d, u).form = "object"
         /\ Keys(update(d, u)) = Keys(d) \cup Keys(u)
         /\ \A part \in Keys(d) \cup Keys(u) :
              At(update(d, u), part) =
                IF part \in Keys(d) \cap Keys(u)
                  THEN UpdatePart(At(d, part), At(u, part))
                  ELSE At(IF part \in Keys(u) THEN u ELSE d, part)
<1> DEFINE m == [part \in Keys(d) \cup Keys(u) |->
                   IF part \in Keys(d) \cap Keys(u)
                     THEN UpdatePart(At(d, part), At(u, part))
                     ELSE At(IF part \in Keys(u) THEN u ELSE d, part)]
<1>1. update(d, u) = Object(m)
  BY DEF update
<1>2. /\ DOMAIN m = Keys(d) \cup Keys(u)
      /\ \A part \in DOMAIN m :
           m[part] = IF part \in Keys(d) \cap Keys(u)
                       THEN UpdatePart(At(d, part), At(u, part))
                       ELSE At(IF part \in Keys(u) THEN u ELSE d, part)
  OBVIOUS
<1> HIDE DEF m
<1> QED BY <1>1, <1>2, Members

----------------------------------------------------------------------------
\* The defaults.

\* The defaults have the parts that have accessors, each an object with
\* values in the form they are read in.
LEMMA DefaultParts ==
  /\ make_defaults.form = "object"
  /\ Keys(make_defaults) = DOMAIN Accessors
  /\ \A part \in DOMAIN Accessors :
       /\ At(make_defaults, part).form = "object"
       /\ InForm(part, At(make_defaults, part))
<1> DEFINE Part == {"basecompoundref", "detaileddescription", "general",
                    "innerclass", "input", "listofallmembers", "memberdef",
                    "programlisting", "sectiondef", "simplesect"}
<1>1. DOMAIN Accessors = Part
  BY DEF Accessors
<1> DEFINE general == Object([linkSuffix |-> String(""),
                              generateAnchorHeaders |-> Bool(FALSE),
                              generateAnchorHtml |-> Bool(TRUE),
                              generateSummary |-> Bool(TRUE),
                              useRelativePaths |-> Bool(TRUE),
                              frontMatter |-> Bool(FALSE)])
           items == <<Object([input |-> String("."), output |-> String(".")])>>
           input == Object([sources |-> Array(items)])
<1>2. /\ Keys(make_defaults) = Part /\ make_defaults.form = "object"
      /\ \A part \in Part \ {"general", "input"} :
           \E K : At(make_defaults, part) = Defaults(K)
      /\ At(make_defaults, "general") = general
      /\ At(make_defaults, "input") = input
  <2> HIDE DEF general, input
  <2> DEFINE m == [basecompoundref     |-> Defaults({"label"}),
                   detaileddescription |-> Defaults({"title"}),
                   general             |-> general,
                   innerclass          |-> Defaults({"label"}),
                   input               |-> input,
                   listofallmembers    |-> Defaults({"title"}),
                   memberdef           |-> Defaults(DOMAIN MemberDef),
                   programlisting      |-> Defaults({"language"}),
                   sectiondef          |-> Defaults(DOMAIN SectionDef),
                   simplesect          |-> Defaults({"return", "see"})]
  <2>1. make_defaults = Object(m)
    BY DEF make_defaults, general, input
  <2>2. DOMAIN m = Part
    OBVIOUS
  <2>3. m["general"] = general /\ m["input"] = input
    OBVIOUS
  <2>4. \A part \in Part \ {"general", "input"} : \E K : m[part] = Defaults(K)
    OBVIOUS
  <2> HIDE DEF m
  <2>5. \A part \in Part : At(make_defaults, part) = m[part]
    BY <2>1, <2>2, Members
  <2> QED BY <2>1, <2>2, <2>3, <2>4, <2>5, Members
<1>3. ASSUME NEW K
      PROVE  /\ Defaults(K).form = "object"
             /\ Keys(Defaults(K)) = K
             /\ \A key \in K : At(Defaults(K), key) = default
  BY Members DEF Defaults
<1>4. ASSUME NEW part \in Part \ {"general", "input"}
      PROVE  /\ \E K : At(make_defaults, part) = Defaults(K)
             /\ \A key : Form(part, key) = "string"
  <2>1. \E K : At(make_defaults, part) = Defaults(K)
    BY <1>2
  <2>2. \E K : Accessors[part] = Labels(K)
    BY DEF Accessors, BaseCompoundRef, DetailedDescription, InnerClass,
           ListOfAllMembers, MemberDef, ProgramListing, SectionDef, SimpleSect
  <2>3. \A key : Form(part, key) = "string"
    BY <2>2 DEF Form, Labels
  <2> QED BY <2>1, <2>3
<1>5. ASSUME NEW part \in Part \ {"general", "input"}
      PROVE  /\ At(make_defaults, part).form = "object"
             /\ InForm(part, At(make_defaults, part))
  <2>1. PICK K : At(make_defaults, part) = Defaults(K)
    BY <1>4
  <2>2. InForm(part, Defaults(K))
    BY <1>3, <1>4 DEF InForm, default, String
  <2> QED BY <1>3, <2>1, <2>2
<1>6. LET part == "general"
      IN  /\ At(make_defaults, part).form = "object"
          /\ InForm(part, At(make_defaults, part))
  <2> DEFINE m == [linkSuffix |-> String(""),
                   generateAnchorHeaders |-> Bool(FALSE),
                   generateAnchorHtml |-> Bool(TRUE),
                   generateSummary |-> Bool(TRUE),
                   useRelativePaths |-> Bool(TRUE),
                   frontMatter |-> Bool(FALSE)]
             K == {"linkSuffix", "generateAnchorHeaders",
                   "generateAnchorHtml", "generateSummary",
                   "useRelativePaths", "frontMatter"}
  <2>1. /\ Form("general", "linkSuffix") = "string"
        /\ \A key \in K \ {"linkSuffix"} : Form("general", key) = "bool"
    BY DEF Form, Accessors, General
  <2>2. /\ m["linkSuffix"].form = "string"
        /\ \A key \in K \ {"linkSuffix"} : m[key].form = "bool"
    <3>1. \A x : String(x).form = "string" /\ Bool(x).form = "bool"
      BY DEF String, Bool
    <3>2. /\ m["linkSuffix"] = String("")
          /\ m["generateAnchorHeaders"] = Bool(FALSE)
          /\ m["generateAnchorHtml"] = Bool(TRUE)
          /\ m["generateSummary"] = Bool(TRUE)
          /\ m["useRelativePaths"] = Bool(TRUE)
          /\ m["frontMatter"] = Bool(FALSE)
      OBVIOUS
    <3> QED BY <3>1, <3>2
  <2>3. DOMAIN m = K
    OBVIOUS
  <2> HIDE DEF m
  <2>4. InForm("general", Object(m))
    BY <2>1, <2>2, <2>3, Members DEF InForm
  <2> QED BY <1>2, <2>4, Members DEF m
<1>7. LET part == "input"
      IN  /\ At(make_defaults, part).form = "object"
          /\ InForm(part, At(make_defaults, part))
  <2> DEFINE m == [sources |-> Array(items)]
  <2>1. Form("input", "sources") = "array"
    BY DEF Form, Accessors, Input
  <2>2. DOMAIN m = {"sources"} /\ m["sources"].form = "array"
    BY DEF Array
  <2> HIDE DEF m
  <2>3. InForm("input", Object(m))
    BY <2>1, <2>2, Members DEF InForm
  <2> QED BY <1>2, <2>3, Members DEF m
<1> QED BY <1>1, <1>2, <1>5, <1>6, <1>7

\* Accessors read strings, Booleans and arrays.
LEMMA Forms ==
  ASSUME NEW part \in DOMAIN Accessors, NEW key
  PROVE  Form(part, key) \in {"string", "bool", "array"}
<1>1. CASE part \in {"general", "input"}
  BY <1>1 DEF Form, Accessors, General, Input
<1>2. CASE part \notin {"general", "input"}
  <2>1. \E K : Accessors[part] = Labels(K)
    BY <1>2
       DEF Accessors, BaseCompoundRef, DetailedDescription, InnerClass,
           ListOfAllMembers, MemberDef, ProgramListing, SectionDef, SimpleSect
  <2> QED BY <2>1 DEF Form, Labels
<1> QED BY <1>1, <1>2

----------------------------------------------------------------------------
\* Files and processes.

\* The defaults are in form.
LEMMA DefaultsInForm == WellFormed(make_defaults)
  BY DefaultParts DEF WellFormed

\* Updating keeps the values of the known parts in their form.
LEMMA UpdateInForm ==
  ASSUME NEW d, NEW u, WellFormed(u), d = Null \/ WellFormed(d)
  PROVE  WellFormed(update(d, u))
<1>1. ASSUME NEW part \in Keys(d) \cap DOMAIN Accessors
      PROVE  InForm(part, At(d, part))
  BY DEF WellFormed, Null, Keys
<1>2. ASSUME NEW part \in Keys(u) \cap DOMAIN Accessors
      PROVE  InForm(part, At(u, part))
  BY DEF WellFormed
<1>3. ASSUME NEW part, NEW v, NEW w, InForm(part, v), InForm(part, w)
      PROVE  InForm(part, UpdatePart(v, w))
  <2>1. CASE v.form # "object" \/ w.form # "object"
    BY <1>3, <2>1 DEF UpdatePart
  <2>2. CASE v.form = "object" /\ w.form = "object"
    BY <1>3, <2>2, UpdatedPart DEF InForm
  <2> QED BY <2>1, <2>2
<1> QED BY <1>1, <1>2, <1>3, UpdatedParts DEF WellFormed

\* The file and what is shown are always in form, and a process has the
\* configuration its start gave it.
LEMMA FileInvariant == Spec => [](FileInv /\ ProcessInv)
<1> DEFINE Inv == FileInv /\ ProcessInv
<1>1. Init => Inv
  BY DEF Init, FileInv, ProcessInv
<1>2. Inv /\ [Next]_vars => Inv'
  <2> SUFFICES ASSUME Inv, [Next]_vars
               PROVE  Inv'
    OBVIOUS
  <2> USE DEF FileInv, ProcessInv
  <2>1. CASE Edit
    <3>1. PICK u \in UserFiles : file' \in {u, update(file, u)}
      BY <2>1 DEF Edit
    <3>2. WellFormed(u)
      BY UserFilesAssumption DEF WellFormed
    <3>3. WellFormed(file')
      BY <3>1, <3>2, UpdateInForm
    <3> QED BY <2>1, <3>3 DEF Edit
  <2>2. CASE Save
    BY <2>2 DEF Save
  <2>3. CASE StartWithout
    BY <2>3 DEF StartWithout
  <2>4. CASE StartWithFile
    BY <2>4 DEF StartWithFile
  <2>5. CASE ShowConfiguration
    <3>1. WellFormed(configuration)
      BY <2>5, DefaultsInForm, UpdateInForm DEF ShowConfiguration
    <3> QED BY <2>5, <3>1 DEF ShowConfiguration
  <2>6. CASE End
    BY <2>6 DEF End
  <2>7. CASE UNCHANGED vars
    BY <2>7 DEF vars
  <2> QED
    BY <2>1, <2>2, <2>3, <2>4, <2>5, <2>6, <2>7 DEF Next
<1> HIDE DEF Inv
<1>3. Spec => []Inv
  BY <1>1, <1>2, PTL DEF Spec
<1> QED BY <1>3 DEF Inv

\* Every value a run reads is the user's where the user gave one and the
\* default where the file is silent, for any file in form
\* (Options.hpp:68-84, Configuration.hpp:9-141).
THEOREM UserFirst == Spec => []UserValueFirst
<1>1. FileInv /\ ProcessInv => UserValueFirst
  <2> SUFFICES ASSUME FileInv, ProcessInv, process # "none",
                      NEW part \in DOMAIN Accessors, NEW key
               PROVE
        LET user == IF process = "with file" THEN file ELSE Object(<<>>)
            silent == /\ part \in Keys(user) => At(user, part).form = "object"
                      /\ key \notin Keys(At(user, part))
            value == At(At(IF silent THEN make_defaults ELSE user, part), key)
        IN  Get(configuration, part, key) =
              IF value = Null THEN Nothing(Form(part, key)) ELSE value
    BY DEF UserValueFirst
  <2> DEFINE user == IF process = "with file" THEN file ELSE Object(<<>>)
             silent == /\ part \in Keys(user) => At(user, part).form = "object"
                       /\ key \notin Keys(At(user, part))
             value == At(At(IF silent THEN make_defaults ELSE user, part), key)
  <2>1. /\ process = "with file" => user = file
        /\ process = "without" => Keys(user) = {} /\ At(user, part) = Null
        /\ process \in {"without", "with file"}
    <3>1. Keys(Object(<<>>)) = {} /\ At(Object(<<>>), part) = Null
      <4>1. DOMAIN <<>> = {}
        OBVIOUS
      <4> QED BY <4>1, Members
    <3> QED BY <3>1 DEF ProcessInv
  <2>2. Keys(Null) = {}
    BY NoMembers DEF Null
  <2> HIDE DEF user
  <2>3. At(At(configuration, part), key) = value
    <3>1. CASE process = "without"
      <4>1. silent
        BY <2>1, <2>2, <3>1
      <4> QED BY <3>1, <4>1 DEF ProcessInv
    <3>2. CASE process = "with file"
      <4> DEFINE d == At(make_defaults, part)
                 u == At(file, part)
      <4>1. configuration = update(make_defaults, file) /\ user = file
        BY <2>1, <3>2 DEF ProcessInv
      <4>2. d.form = "object" /\ part \in Keys(make_defaults)
        BY DefaultParts
      <4>3. At(configuration, part) =
              IF part \in Keys(file) THEN UpdatePart(d, u) ELSE d
        BY <4>1, <4>2, UpdatedParts
      <4>4. CASE part \notin Keys(file)
        <5>1. u = Null
          BY <4>4 DEF At
        <5>2. silent
          BY <2>2, <4>1, <4>4, <5>1
        <5> QED BY <4>3, <4>4, <5>2
      <4>5. CASE part \in Keys(file) /\ u.form # "object"
        <5>1. At(configuration, part) = u
          BY <4>3, <4>5 DEF UpdatePart
        <5>2. ~silent
          BY <4>1, <4>5
        <5> QED BY <4>1, <5>1, <5>2
      <4>6. CASE part \in Keys(file) /\ u.form = "object"
        <5>1. At(configuration, part) = UpdatePart(d, u)
          BY <4>3, <4>6
        <5>2. At(UpdatePart(d, u), key) =
                At(IF key \in Keys(u) THEN u ELSE d, key)
          BY <4>2, <4>6, UpdatedPart
        <5>3. silent <=> key \notin Keys(u)
          BY <4>1, <4>6
        <5> QED BY <4>1, <5>1, <5>2, <5>3
      <4> QED BY <4>4, <4>5, <4>6
    <3> QED BY <2>1, <3>1, <3>2
  <2>4. value = Null \/ value.form = Form(part, key)
    <3>1. ASSUME NEW c, WellFormed(c)
          PROVE  \/ At(At(c, part), key) = Null
                 \/ At(At(c, part), key).form = Form(part, key)
      <4>1. CASE part \in Keys(c) /\ key \in Keys(At(c, part))
        BY <3>1, <4>1 DEF WellFormed, InForm
      <4>2. CASE part \in Keys(c) /\ key \notin Keys(At(c, part))
        BY <4>2 DEF At
      <4>3. CASE part \notin Keys(c)
        <5>1. At(c, part) = Null
          BY <4>3 DEF At
        <5> QED BY <2>2, <5>1 DEF At
      <4> QED BY <4>1, <4>2, <4>3
    <3>2. WellFormed(make_defaults)
      BY DefaultsInForm
    <3>3. process = "with file" => WellFormed(user)
      BY <2>1 DEF FileInv, ProcessInv
    <3>4. process = "without" => silent
      BY <2>1, <2>2
    <3> QED BY <2>1, <3>1, <3>2, <3>3, <3>4
  <2>5. Null.form # Form(part, key)
    BY Forms DEF Null
  <2> HIDE DEF value
  <2>6. Get(configuration, part, key) =
          IF value = Null THEN Nothing(Form(part, key)) ELSE value
    BY <2>3, <2>4, <2>5 DEF Get
  <2> QED BY <2>6 DEF value, user
<1> QED BY <1>1, FileInvariant, PTL

=============================================================================
