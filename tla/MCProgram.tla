----------------------------- MODULE MCProgram -----------------------------
(* Runs of the program with every level of --verbose, where the options of *)
(* Options are bare or left out, in every file system it distinguishes.    *)
EXTENDS Program

\* Options whose value is a path are given or not; a flag is left out, given
\* bare, or, for --json, given another value.
MCArguments ==
  {arg \in [Described -> Value] :
     /\ \A o \in {"configuration", "source", "destination"} : arg[o] # "true"
     /\ \A o \in {"version", "showConfiguration", "manual", "help"} :
          arg[o] # "text"
     /\ arg["manual"] = ""}

MCSystems == {s \in System : s.parent = "absent" => s.destination = "absent"}

=============================================================================
