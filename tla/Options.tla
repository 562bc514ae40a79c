------------------------------ MODULE Options ------------------------------
(***************************************************************************)
(* The constructor of Options (app/src/Options.hpp): it reads one command  *)
(* line option after the other and ends in one of three ways.  It leaves   *)
(* the process (exit), it returns early with an error pending              *)
(* (API_RETURN_ASSIGN_ERROR), or it returns with the run prepared.         *)
(*                                                                         *)
(* The order matters: Cli::get_option() with a description also enters the *)
(* option in the help menu, so an option read after an exit is missing     *)
(* from the menu, and a check made after an effect is made too late.       *)
(***************************************************************************)
EXTENDS Naturals, Sequences

\* The options the constructor reads, each with a description, and those of
\* the program: --verbose is read before, without one (Application.cpp:12).
Described == {"json", "version", "configuration", "showConfiguration",
              "source", "destination", "manual", "help"}
Option == Described \cup {"verbose"}

CONSTANTS
  Arguments,   \* the command lines under study
  Systems      \* the file systems the program may start in

\* What an option holds: nothing, "true" (given bare), or other text.
Value == {"", "true", "text"}

\* The part of the file system the options talk about: the configuration
\* file, the destination, and the folder the destination is in.  A
\* destination of a single component has no parent ("none").
System == [configuration : {"absent", "invalid", "valid"},
           destination   : {"absent", "file", "folder"},
           parent        : {"none", "absent", "folder"}]

ASSUME CommandLineAssumption ==
  /\ Arguments \subseteq [Described -> Value]
  /\ Systems \subseteq System
  \* What exists is in a folder that exists.
  /\ \A s \in Systems : s.parent = "absent" => s.destination = "absent"

VARIABLES
  arguments,      \* the command line, apart from --verbose
  initial,        \* history: the file system the program started in
  system,         \* the file system
  step,           \* the option to be read next, or "end"
  help_menu,      \* the options Cli::show_help() would list
  configuration,  \* m_configuration: nothing yet, the defaults, or merged
  printer,        \* IO::use_printer
  shown,          \* what was printed on request
  error,          \* the error left in the execution context
  exit            \* "running", "returned", "0" or "1"

vars == <<arguments, initial, system, step, help_menu, configuration,
          printer, shown, error, exit>>

Given(option) == arguments[option] # ""
is_help == arguments["help"] = "true"

\* Two wrong orders, for the mutation runs.
help_before_manual ==
  <<"json", "version", "configuration", "showConfiguration", "source",
    "destination", "help", "manual">>
destination_first ==
  <<"json", "version", "configuration", "showConfiguration", "destination",
    "source", "manual", "help">>

\* The order the constructor reads the options in.
order == <<"json", "version", "configuration", "showConfiguration", "source",
           "destination", "manual", "help">>

Following(option) ==
  LET i == CHOOSE i \in DOMAIN order : order[i] = option
  IN  IF i = Len(order) THEN "end" ELSE order[i + 1]

----------------------------------------------------------------------------
\* cli.get_option(option, description) at the option's turn.
Read(option) ==
  /\ exit = "running"
  /\ step = option
  /\ help_menu' = help_menu \cup {option}
  /\ UNCHANGED <<arguments, initial>>

\* The three ways on from an option.
GoOn(option) == step' = Following(option) /\ UNCHANGED exit
Exit(code) == step' = "end" /\ exit' = code
FailAndStay(what) ==  \* mutant
  error' = what /\ exit' = "returned" /\ UNCHANGED step
Fail(what) == error' = what /\ step' = "end" /\ exit' = "returned"

Init ==
  /\ arguments \in Arguments
  /\ initial \in Systems
  /\ system = initial
  /\ step = order[1]
  /\ help_menu = {}
  /\ configuration = "empty"
  /\ printer = "yaml"
  /\ shown = "nothing"
  /\ error = "none"
  /\ exit = "running"

switch_to_json_printer == printer' = "json"

Json ==
  /\ Read("json")
  /\ IF arguments["json"] = "true"
       THEN switch_to_json_printer
       ELSE UNCHANGED printer
  /\ GoOn("json")
  /\ UNCHANGED <<system, configuration, shown, error>>

\* A wrong Version: it forgets that help was asked for.
VersionAnyway ==
  /\ Read("version")
  /\ IF Given("version")
       THEN shown' = "version" /\ Exit("0")
       ELSE GoOn("version") /\ UNCHANGED shown
  /\ UNCHANGED <<system, configuration, printer, error>>

\* Any value shows the version, "--version=false" too.
Version ==
  /\ Read("version")
  /\ IF Given("version") /\ ~is_help
       THEN shown' = "version" /\ Exit("0")
       ELSE GoOn("version") /\ UNCHANGED shown
  /\ UNCHANGED <<system, configuration, printer, error>>

\* A wrong ReadConfiguration: no defaults without a file.
ReadConfigurationOnly ==
  /\ Read("configuration")
  /\ IF Given("configuration") /\ ~is_help
       THEN CASE system.configuration = "absent" ->
                   Fail("configuration does not exist")
                     /\ UNCHANGED configuration
              [] system.configuration = "invalid" ->
                   Fail("configuration is not JSON")
                     /\ UNCHANGED configuration
              [] OTHER -> configuration' = "merged"
                            /\ GoOn("configuration") /\ UNCHANGED error
       ELSE GoOn("configuration") /\ UNCHANGED <<configuration, error>>
  /\ UNCHANGED <<system, printer, shown>>

\* The user's file updates the defaults; with --help it is not even opened,
\* and nothing is configured.
ReadConfiguration ==
  /\ Read("configuration")
  /\ \/ /\ ~Given("configuration")
        /\ configuration' = "defaults"
        /\ GoOn("configuration") /\ UNCHANGED error
     \/ /\ Given("configuration") /\ is_help
        /\ GoOn("configuration") /\ UNCHANGED <<configuration, error>>
     \/ /\ Given("configuration") /\ ~is_help
        /\ system.configuration = "absent"
        /\ Fail("configuration does not exist") /\ UNCHANGED configuration
     \/ /\ Given("configuration") /\ ~is_help
        /\ system.configuration = "invalid"
        /\ Fail("configuration is not JSON") /\ UNCHANGED configuration
     \/ /\ Given("configuration") /\ ~is_help
        /\ system.configuration = "valid"
        /\ configuration' = "merged"
        /\ GoOn("configuration") /\ UNCHANGED error
  /\ UNCHANGED <<system, printer, shown>>

\* A wrong ShowConfiguration: it shows and goes on.
ShowConfigurationAndGoOn ==
  /\ Read("showConfiguration")
  /\ shown' = IF arguments["showConfiguration"] = "true" /\ ~is_help
                THEN "configuration" ELSE shown
  /\ GoOn("showConfiguration")
  /\ UNCHANGED <<system, configuration, printer, error>>

ShowConfiguration ==
  /\ Read("showConfiguration")
  /\ IF arguments["showConfiguration"] = "true" /\ ~is_help
       THEN shown' = "configuration" /\ Exit("0")
       ELSE GoOn("showConfiguration") /\ UNCHANGED shown
  /\ UNCHANGED <<system, configuration, printer, error>>

SourceFolder ==
  /\ Read("source")
  /\ IF Given("source") \/ is_help
       THEN GoOn("source") /\ UNCHANGED error
       ELSE Fail("no source")
  /\ UNCHANGED <<system, configuration, printer, shown>>

\* FileSystem().create_directory(m_destination) where there is no parent to
\* miss: the folder appears, or the call fails and the constructor goes on
\* with the error pending.
CreateDestination ==
  \/ system' = [system EXCEPT !.destination = "folder"] /\ UNCHANGED error
  \/ error' = "cannot create destination" /\ UNCHANGED system

\* The test of the parent at Options.hpp:125 looks at the destination itself,
\* which is not a folder there: a destination with a parent is refused.
MakeDestination ==
  IF system.parent = "none"
    THEN CreateDestination /\ GoOn("destination")
    ELSE Fail("parent directory must exist") /\ UNCHANGED system

\* A wrong DestinationFolder: it looks at the destination for --help too.
DestinationFolderAnyway ==
  /\ Read("destination")
  /\ IF Given("destination") /\ system.destination = "absent"
       THEN MakeDestination
       ELSE GoOn("destination") /\ UNCHANGED <<system, error>>
  /\ UNCHANGED <<configuration, printer, shown>>

DestinationFolder ==
  /\ Read("destination")
  /\ \/ /\ is_help \/ (Given("destination") /\ system.destination = "folder")
        /\ GoOn("destination") /\ UNCHANGED <<system, error>>
     \/ /\ ~is_help /\ ~Given("destination")
        /\ Fail("no destination") /\ UNCHANGED system
     \/ /\ ~is_help /\ Given("destination")
        /\ system.destination = "file"
        /\ Exit("1") /\ UNCHANGED <<system, error>>
     \/ /\ ~is_help /\ Given("destination")
        /\ system.destination = "absent"
        /\ MakeDestination
  /\ UNCHANGED <<configuration, printer, shown>>

Manual ==
  /\ Read("manual")
  /\ GoOn("manual")
  /\ UNCHANGED <<system, configuration, printer, shown, error>>

Help ==
  /\ Read("help")
  /\ IF is_help
       THEN shown' = "help" /\ Exit("0")
       ELSE step' = "end" /\ exit' = "returned" /\ UNCHANGED shown
  /\ UNCHANGED <<system, configuration, printer, error>>

Ended == step = "end" /\ UNCHANGED vars

Next ==
  \/ Json
  \/ Version
  \/ ReadConfiguration
  \/ ShowConfiguration
  \/ SourceFolder
  \/ DestinationFolder
  \/ Manual
  \/ Help
  \/ Ended

Spec == Init /\ [][Next]_vars

\* The constructor runs to its end on its thread.
FairSpec == Spec /\ WF_vars(Next)

----------------------------------------------------------------------------
(* Properties *)

\* Every variable holds a value of its kind.
TypeOK ==
  /\ arguments \in Arguments
  /\ initial \in Systems
  /\ system \in System
  /\ step \in Described \cup {"end"}
  /\ help_menu \subseteq Described
  /\ configuration \in {"empty", "defaults", "merged"}
  /\ printer \in {"yaml", "json"}
  /\ shown \in {"nothing", "version", "configuration", "help"}
  /\ error \in {"none", "configuration does not exist",
                "configuration is not JSON", "no source", "no destination",
                "parent directory must exist", "cannot create destination"}
  /\ exit \in {"running", "returned", "0", "1"}
  /\ step = "end" <=> exit # "running"

\* The help menu is printed with every option of the program in it but
\* --verbose, which has no description: help is the last option the
\* constructor reads ("needs to be last", Options.hpp:148), and --verbose is
\* never in the menu (Application.cpp:12).
HelpListsAllButVerbose == shown = "help" => help_menu = Option \ {"verbose"}

\* Asking for help is always answered and never does anything else, whatever
\* other options are given and whatever they name: no version, no error, no
\* file read or folder made (the tests of is_help, Options.hpp:34, 60, 91,
\* 104, 115, 137).
HelpIsAnswered == is_help ~> shown = "help" /\ exit = "0"
HelpDoesNothingElse ==
  is_help => /\ system = initial
             /\ error = "none"
             /\ shown \in {"nothing", "help"}

\* The constructor returns to a run without an error exactly when nothing else
\* was asked for, a configuration that was named is there and parses, a source
\* is named, and the destination that is named is a folder by then; the run has
\* the user's configuration over the defaults when a file was named, and the
\* defaults otherwise (Options.hpp:32-149).  Whether the source is a folder, or
\* there at all, is not looked at (Options.hpp:100-108).
RunsExactlyWhenReady ==
  step = "end" =>
    LET starts == exit = "returned" /\ error = "none"
    IN  /\ starts <=>
             /\ ~is_help /\ ~Given("version")
             /\ arguments["showConfiguration"] # "true"
             /\ Given("configuration") => initial.configuration = "valid"
             /\ Given("source")
             /\ Given("destination") /\ system.destination = "folder"
        /\ starts => configuration = IF Given("configuration") THEN "merged"
                                                              ELSE "defaults"

\* A command line that is refused, or answered by an exit, has changed
\* nothing: the folder is made after the last check that can refuse
\* (Options.hpp:104, 116-135).
RefusalsChangeNothing ==
  exit \in {"0", "1"} \/ error # "none" => system = initial

\* Showing the configuration needs no folders, shows what a run with the same
\* options would use, and ends the process with code 0 (README.md:40-58,
\* Options.hpp:86-98).
ConfigurationIsShown ==
  shown = "configuration" =>
    /\ exit = "0"
    /\ system = initial
    /\ configuration = IF Given("configuration") THEN "merged" ELSE "defaults"

\* What the message at Options.hpp:129 says: a destination is refused for its
\* parent only when the parent does not exist.
RefusedOnlyWithoutParent ==
  error = "parent directory must exist" => initial.parent = "absent"

\* What MANUAL.md:6-13 says: the help menu has these seven options.
HelpIsAsInManual ==
  shown = "help" => help_menu = {"json", "configuration", "showConfiguration",
                                 "source", "destination", "manual", "help"}

=============================================================================
