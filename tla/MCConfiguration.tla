-------------------------- MODULE MCConfiguration --------------------------
(* What a user may write for Configuration: values of two parts, parts     *)
(* that are not objects, nulls, a kind of section the program has no title *)
(* for, sources, a part unknown to the program, and nothing.               *)
EXTENDS Configuration, TLC

mine == String("mine")
Part(name, members) == Object(name :> Object(members))

OneSource == Object([input |-> mine, output |-> mine, baseUrl |-> mine])

MCUserFiles ==
  {Object(<<>>)}
    \cup {Part("general", key :> v) :
            key \in {"showPrivate", "generateSummary"},
            v \in {Bool(TRUE), Bool(FALSE), Null}}
    \cup {Part("sectiondef", "user-defined" :> v) :
            v \in {mine, String(""), Null}}
    \cup {Object("sectiondef" :> v) :
            v \in {mine, Bool(TRUE), Array(<<>>), Null}}
    \cup {Part("input", "sources" :> Array(items)) :
            items \in {<<>>, <<OneSource>>, <<OneSource, OneSource>>}}
    \cup {Part("unknown", "label" :> mine),
          Object([general |-> Object([linkSuffix |-> mine,
                                      useRelativePaths |-> Bool(FALSE)]),
                  innerclass |-> Object([label |-> mine])])}

=============================================================================
