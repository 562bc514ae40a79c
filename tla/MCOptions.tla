----------------------------- MODULE MCOptions -----------------------------
(* Every command line over the values the constructor tells apart, in every *)
(* file system of the kind Options distinguishes.                           *)
EXTENDS Options

\* Options whose value is a path are given or not; a flag is left out, given
\* bare, or given another value (--json=false).
Path == {"configuration", "source", "destination"}

MCArguments == {arg \in [Described -> Value] :
                  /\ \A o \in Path : arg[o] # "true"
                  /\ arg["manual"] # "text"}

MCSystems == {s \in System : s.parent = "absent" => s.destination = "absent"}

=============================================================================
