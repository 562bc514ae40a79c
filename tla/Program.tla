------------------------------ MODULE Program ------------------------------
(***************************************************************************)
(* A run of the program from main() to its exit status: the verbosity, the *)
(* options, the check of what they leave, and the pages, of which only the *)
(* trace files are kept here (main.cpp, IO.hpp, Application.cpp:11-26).    *)
(*                                                                         *)
(* IO has two printers, each with a verbosity of its own.  printer() is    *)
(* the one in use when it is called, so what is set on one is not set on   *)
(* the other.                                                              *)
(***************************************************************************)
EXTENDS Options

CONSTANT Verbosities  \* the values of --verbose, "" where it is not given

Level == {"normal", "debug", "trace"}

ASSUME VerbositiesAssumption == Verbosities \subseteq Level \cup {""}

VARIABLES
  verbose,   \* the value of --verbose
  place,     \* where the run is: "run", "options", "batch" or "ended"
  level,     \* the verbosity of each printer of IO
  reported,  \* what check_error() printed: of which error, where, how much
  traced,    \* a page was saved as JSON next to its source
  status     \* the exit status, "none" before the end

program_vars == <<vars, verbose, place, level, reported, traced, status>>

ProgramInit ==
  /\ Init
  /\ verbose \in Verbosities
  /\ place = "run"
  /\ level = [p \in {"yaml", "json"} |-> "normal"]
  /\ reported = {}
  /\ traced = FALSE
  /\ status = "none"

\* printer().verbose_level()
level_in_use == level[printer]

\* printer().set_verbose_level(): before any option is read.
SetVerboseLevel ==
  /\ place = "run"
  /\ level' = [level EXCEPT ![printer] = IF verbose = "" THEN @ ELSE verbose]
  /\ place' = "options"
  /\ UNCHANGED <<vars, verbose, reported, traced, status>>

ReadOption ==
  /\ place = "options"
  /\ exit = "running"
  /\ Next
  /\ UNCHANGED <<verbose, place, level, reported, traced, status>>

\* exit() in the constructor.
Leave ==
  /\ place = "options"
  /\ exit \in {"0", "1"}
  /\ place' = "ended"
  /\ status' = exit
  /\ UNCHANGED <<vars, verbose, level, reported, traced>>

\* What check_error() prints of an error: its message, and at the level of
\* debug the error itself.
Report(what) ==
  [error |-> what, by |-> printer, full |-> level_in_use # "normal"]

is_abort == error # "none"

\* A wrong CheckError: it reports and goes on.
CheckErrorAndGoOn ==
  /\ place = "options"
  /\ exit = "returned"
  /\ reported' = reported \cup IF is_abort THEN {Report(error)} ELSE {}
  /\ place' = "batch"
  /\ UNCHANGED <<vars, verbose, level, traced, status>>

\* check_error() after the options: a run that may not start goes back to
\* main, which returns 0.
CheckError ==
  /\ place = "options"
  /\ exit = "returned"
  /\ IF is_abort
       THEN /\ reported' = reported \cup {Report(error)}
            /\ place' = "ended"
            /\ status' = "0"
       ELSE place' = "batch" /\ UNCHANGED <<reported, status>>
  /\ UNCHANGED <<vars, verbose, level, traced>>

\* A wrong MakePage: it saves from the level of debug on.
MakePageFromDebug ==
  /\ place = "batch"
  /\ traced' \in {traced, level_in_use # "normal" \/ traced}
  /\ reported' \in {reported, reported \cup {Report("page")}}
  /\ UNCHANGED <<vars, verbose, place, level, status>>

\* A page of the batch.  process_file saves what it parsed when the printer
\* in use traces.  The page may fail, before or after, and is then reported.
MakePage ==
  /\ place = "batch"
  /\ traced' \in {traced, level_in_use = "trace" \/ traced}
  /\ reported' \in {reported, reported \cup {Report("page")}}
  /\ UNCHANGED <<vars, verbose, place, level, status>>

\* The batch is over; main returns 0 whatever was reported.
Return ==
  /\ place = "batch"
  /\ place' = "ended"
  /\ status' = "0"
  /\ UNCHANGED <<vars, verbose, level, reported, traced>>

ProgramNext ==
  \/ SetVerboseLevel
  \/ ReadOption
  \/ Leave
  \/ CheckError
  \/ MakePage
  \/ Return
  \/ place = "ended" /\ UNCHANGED program_vars

ProgramSpec == ProgramInit /\ [][ProgramNext]_program_vars

----------------------------------------------------------------------------
(* Properties *)

in_json == arguments["json"] = "true"

\* A run is never more verbose than it was asked to be: pages are saved next
\* to their sources with --verbose=trace only, and errors in full with debug or
\* trace only.  With the YAML printer it is as verbose from the first error on,
\* wherever --verbose is on the command line.  With --json it may be less, as
\* the level is set on the printer that is then left (Application.cpp:12,
\* Options.hpp:22-30, DoxyJson.cpp:59-63).
VerbosityOfTheRun ==
  /\ traced => verbose = "trace"
  /\ \A r \in reported : r.full => verbose \in {"debug", "trace"}
  /\ ~in_json /\ verbose \in {"debug", "trace"} => \A r \in reported : r.full

\* Every error is reported in the format asked for, and one that keeps the
\* batch from starting is the only one: nothing is made after it
\* (Application.cpp:19-21, 117-124, Options.hpp:22-30).
ReportedInOneFormat ==
  /\ \A r \in reported : r.by = IF in_json THEN "json" ELSE "yaml"
  /\ error # "none" /\ reported # {} =>
       /\ reported = {Report(error)}
       /\ place = "ended"
       /\ ~traced

\* The exit status, which is all that the tests of the repository look at
\* (tests/CMakeLists.txt), is 1 for a single cause, a destination that is a
\* file on an otherwise complete command line that asks for nothing else; a
\* run that was refused for anything else, or of which pages failed, ends
\* with 0 like one that was answered (main.cpp:23, Options.hpp:116-121).
StatusOfTheRun ==
  place = "ended" =>
    (status = "1" <=> /\ shown = "nothing"
                      /\ error = "none"
                      /\ initial.destination = "file")

=============================================================================
