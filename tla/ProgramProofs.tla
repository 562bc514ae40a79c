--------------------------- MODULE ProgramProofs ---------------------------
(***************************************************************************)
(* Theorems about the constructor of Options and about Program, which      *)
(* begins with it, for every set of command lines, every level of          *)
(* verbosity and every file system the program may start in.               *)
(***************************************************************************)
EXTENDS Program, TLAPS

----------------------------------------------------------------------------
(* The constructor of Options *)

\* The options whose turn comes before that of an option, and the options
\* read so far.
Earlier(option) ==
  {o \in Described : \E i, j \in DOMAIN order :
                    order[i] = o /\ order[j] = option /\ i < j}

\* Each option enters the menu at its turn.
MenuInv == step # "end" => help_menu = Earlier(step)

\* What each group of options leaves behind once its turn is over.
printer_of_the_run == IF arguments["json"] = "true" THEN "json" ELSE "yaml"
configuration_of_the_run ==
  IF Given("configuration") THEN "merged" ELSE "defaults"

\* The configuration file that was named is not there or does not parse.
ConfigurationFails ==
  Given("configuration") /\ initial.configuration # "valid"

PrinterInv == printer = IF step = "json" THEN "yaml" ELSE printer_of_the_run

\* While the constructor runs it has shown nothing, and until the destination
\* it has touched nothing.
RunningInv ==
  exit = "running" =>
    /\ shown = "nothing"
    /\ step \notin {"json", "version"} /\ ~is_help => ~Given("version")
    /\ step \notin {"json", "version", "configuration"} /\ ~is_help =>
         /\ configuration = configuration_of_the_run
         /\ ~ConfigurationFails
    /\ step \notin {"json", "version", "configuration", "showConfiguration"}
         /\ ~is_help => arguments["showConfiguration"] # "true"
    /\ step \notin {"json", "version", "configuration", "showConfiguration",
                    "source"} /\ ~is_help => Given("source")
    /\ IF step \in {"manual", "help"} /\ ~is_help
         THEN /\ Given("destination")
              /\ initial.destination # "file"
              /\ \/ system.destination = "folder" /\ error = "none"
                 \/ /\ system = initial /\ error = "cannot create destination"
                    /\ initial.destination = "absent"
         ELSE system = initial /\ error = "none"

\* The ways out: an answer, a destination that is a file, a refusal, a run.
OutInv ==
  /\ exit = "0" =>
       /\ system = initial /\ error = "none"
       /\ \/ shown = "version" /\ ~is_help /\ Given("version")
          \/ /\ shown = "configuration" /\ ~is_help
             /\ arguments["showConfiguration"] = "true"
             /\ configuration = configuration_of_the_run
          \/ shown = "help" /\ is_help /\ help_menu = Described
  /\ exit = "1" =>
       /\ system = initial /\ error = "none" /\ shown = "nothing" /\ ~is_help
       /\ initial.destination = "file"
  /\ exit = "returned" =>
       /\ shown = "nothing" /\ ~is_help
       /\ \/ /\ error # "none" /\ system = initial
             /\ \/ ConfigurationFails
                \/ ~Given("source")
                \/ ~Given("destination")
                \/ initial.destination # "folder"
          \/ /\ error = "none"
             /\ ~Given("version") /\ arguments["showConfiguration"] # "true"
             /\ ~ConfigurationFails
             /\ Given("source") /\ Given("destination")
             /\ initial.destination # "file" /\ system.destination = "folder"
             /\ configuration = configuration_of_the_run

ConstructorInv == MenuInv /\ PrinterInv /\ RunningInv /\ OutInv

----------------------------------------------------------------------------
\* The order of the options.

\* The source reads each option once, at one of eight places.
LEMMA Places ==
  /\ Len(order) = 8 /\ DOMAIN order = 1 .. 8
  /\ \A i, j \in 1 .. 8 : order[i] = order[j] => i = j
  /\ order[1] = "json" /\ order[2] = "version"
  /\ order[3] = "configuration" /\ order[4] = "showConfiguration"
  /\ order[5] = "source" /\ order[6] = "destination"
  /\ order[7] = "manual" /\ order[8] = "help"
  /\ Described = {order[i] : i \in 1 .. 8}
<1> USE DEF order
<1>1. Len(order) = 8 /\ DOMAIN order = 1 .. 8
  OBVIOUS
<1>2. \A i, j \in 1 .. 8 : order[i] = order[j] => i = j
  OBVIOUS
<1>3. Described = {order[i] : i \in 1 .. 8}
  BY DEF Described
<1> QED BY <1>1, <1>2, <1>3

\* At every place but the last, the option that follows is the next one of
\* the source, and the options before it are those before this one and this.
LEMMA NextPlace ==
  ASSUME NEW i \in 1 .. 8
  PROVE  /\ Following(order[i]) = IF i = 8 THEN "end" ELSE order[i + 1]
         /\ Earlier(order[i]) = {order[j] : j \in 1 .. (i - 1)}
<1>1. Following(order[i]) = IF i = 8 THEN "end" ELSE order[i + 1]
  <2> DEFINE k == CHOOSE k \in DOMAIN order : order[k] = order[i]
  <2>1. k \in 1 .. 8 /\ order[k] = order[i]
    BY Places
  <2>2. k = i
    BY <2>1, Places
  <2> QED BY Places, <2>2 DEF Following
<1>2. Earlier(order[i]) = {order[j] : j \in 1 .. (i - 1)}
  BY Places DEF Earlier
<1> QED BY <1>1, <1>2

\* The options in the order of the source.
LEMMA FollowingOption ==
  /\ Following("json") = "version"
  /\ Following("version") = "configuration"
  /\ Following("configuration") = "showConfiguration"
  /\ Following("showConfiguration") = "source"
  /\ Following("source") = "destination"
  /\ Following("destination") = "manual"
  /\ Following("manual") = "help"
  BY Places, NextPlace

\* The menu grows by one option at each turn and is complete after help.
LEMMA EarlierOptions ==
  /\ Earlier("json") = {}
  /\ \A o \in Described \ {"help"} : /\ Following(o) \in Described
                                  /\ Earlier(Following(o)) = Earlier(o) \cup {o}
  /\ Following("help") = "end"
  /\ Earlier("help") \cup {"help"} = Described
<1>1. Earlier("json") = {}
  BY Places, NextPlace
<1>2. ASSUME NEW o \in Described \ {"help"}
      PROVE  /\ Following(o) \in Described
             /\ Earlier(Following(o)) = Earlier(o) \cup {o}
  <2>1. PICK i \in 1 .. 7 : o = order[i]
    BY Places
  <2>2. Following(o) = order[i + 1] /\ i + 1 \in 1 .. 8
    BY <2>1, NextPlace
  <2>3. /\ Earlier(o) = {order[j] : j \in 1 .. (i - 1)}
        /\ Earlier(order[i + 1]) = {order[j] : j \in 1 .. i}
    BY <2>1, <2>2, NextPlace
  <2>4. 1 .. i = 1 .. (i - 1) \cup {i}
    OBVIOUS
  <2> QED BY <2>1, <2>2, <2>3, <2>4, Places
<1>3. Earlier("help") \cup {"help"} = Described
  <2>1. Earlier("help") = {order[j] : j \in 1 .. 7}
    BY Places, NextPlace
  <2>2. 1 .. 8 = 1 .. 7 \cup {8}
    OBVIOUS
  <2> QED BY <2>1, <2>2, Places
<1>4. Following("help") = "end"
  BY Places, NextPlace
<1> QED BY <1>1, <1>2, <1>3, <1>4

----------------------------------------------------------------------------
\* Type correctness.

\* Every option read keeps every variable in its kind, and the constructor is
\* at its end exactly when it has returned or left (all of Options::Options).
THEOREM OptionsTypeCorrect == Spec => []TypeOK
<1>1. Init => TypeOK
  <2> SUFFICES ASSUME Init PROVE TypeOK
    OBVIOUS
  <2>1. step = "json"
    BY Places DEF Init
  <2> QED BY <2>1, CommandLineAssumption DEF Init, TypeOK, Described
<1>2. TypeOK /\ [Next]_vars => TypeOK'
  <2> SUFFICES ASSUME TypeOK, [Next]_vars
               PROVE  TypeOK'
    OBVIOUS
  <2> USE FollowingOption DEF TypeOK, Read, GoOn, Exit, Fail, Described
  <2>1. CASE Json
    BY <2>1 DEF Json, switch_to_json_printer
  <2>2. CASE Version
    BY <2>2 DEF Version
  <2>3. CASE ReadConfiguration
    BY <2>3 DEF ReadConfiguration
  <2>4. CASE ShowConfiguration
    BY <2>4 DEF ShowConfiguration
  <2>5. CASE SourceFolder
    BY <2>5 DEF SourceFolder
  <2>6. CASE DestinationFolder
    <3>1. system' \in System
      BY <2>6 DEF DestinationFolder, MakeDestination, CreateDestination,
                  System
    <3> QED BY <2>6, <3>1 DEF DestinationFolder, MakeDestination,
                              CreateDestination
  <2>7. CASE Manual
    BY <2>7 DEF Manual
  <2>8. CASE Help
    BY <2>8 DEF Help
  <2>9. CASE UNCHANGED vars
    BY <2>9 DEF vars
  <2> QED
    BY <2>1, <2>2, <2>3, <2>4, <2>5, <2>6, <2>7, <2>8, <2>9
       DEF Next, Ended
<1>3. QED BY <1>1, <1>2, PTL DEF Spec

----------------------------------------------------------------------------
\* The constructor.

\* What each option leaves behind, and what is true at each way out.
LEMMA ConstructorInvariant == Spec => []ConstructorInv
<1>1. Init => ConstructorInv
  <2> SUFFICES ASSUME Init PROVE ConstructorInv
    OBVIOUS
  <2>1. step = "json"
    BY Places DEF Init
  <2> QED BY <2>1, EarlierOptions
          DEF Init, ConstructorInv, MenuInv, PrinterInv, RunningInv, OutInv
<1>2. TypeOK /\ ConstructorInv /\ [Next]_vars => ConstructorInv'
  <2> SUFFICES ASSUME TypeOK, ConstructorInv, [Next]_vars
               PROVE  ConstructorInv'
    OBVIOUS
  <2>1. MenuInv'
    <3>1. CASE UNCHANGED vars
      BY <3>1 DEF vars, ConstructorInv, MenuInv
    <3>2. ASSUME NEW o \in Described \ {"help"}, Read(o), step' = Following(o)
          PROVE  MenuInv'
      BY <3>2, EarlierOptions DEF Read, ConstructorInv, MenuInv, TypeOK
    <3>3. ASSUME step' = "end"
          PROVE  MenuInv'
      BY <3>3 DEF MenuInv
    <3> QED
      BY <3>1, <3>2, <3>3
         DEF Next, Ended, Json, Version, ReadConfiguration, ShowConfiguration,
             SourceFolder, DestinationFolder, MakeDestination, Manual, Help,
             GoOn, Exit, Fail, Described
  <2> USE FollowingOption
      DEF Read, GoOn, Exit, Fail, Given, is_help, printer_of_the_run,
          configuration_of_the_run, ConfigurationFails
  <2>2. PrinterInv' /\ RunningInv' /\ OutInv'
    <3> USE DEF ConstructorInv, PrinterInv, RunningInv, OutInv, TypeOK
    <3>1. CASE Json
      BY <3>1 DEF Json, switch_to_json_printer
    <3>2. CASE Version
      BY <3>2 DEF Version
    <3>3. CASE ReadConfiguration
      BY <3>3 DEF ReadConfiguration
    <3>4. CASE ShowConfiguration
      BY <3>4 DEF ShowConfiguration
    <3>5. CASE SourceFolder
      BY <3>5 DEF SourceFolder
    <3>6. CASE DestinationFolder
      BY <3>6 DEF DestinationFolder, MakeDestination, CreateDestination,
                  System
    <3>7. CASE Manual
      BY <3>7 DEF Manual
    <3>8. CASE Help
      BY <3>8, EarlierOptions DEF Help, MenuInv
    <3>9. CASE UNCHANGED vars
      BY <3>9 DEF vars
    <3> QED
      BY <3>1, <3>2, <3>3, <3>4, <3>5, <3>6, <3>7, <3>8, <3>9
         DEF Next, Ended
  <2> QED BY <2>1, <2>2 DEF ConstructorInv
<1>3. QED BY <1>1, <1>2, OptionsTypeCorrect, PTL DEF Spec

----------------------------------------------------------------------------
\* What a user may rely on.

\* Whatever the command line, the help menu is never printed before every
\* option with a description is in it, nor with --verbose (help is read last,
\* Options.hpp:148-165, Application.cpp:12).
THEOREM HelpIsComplete == Spec => []HelpListsAllButVerbose
<1>1. Described = Option \ {"verbose"}
  BY DEF Option, Described
<1>2. TypeOK /\ ConstructorInv => HelpListsAllButVerbose
  BY <1>1 DEF TypeOK, ConstructorInv, RunningInv, OutInv,
              HelpListsAllButVerbose
<1> QED BY <1>2, OptionsTypeCorrect, ConstructorInvariant, PTL

\* A command line that asks for help has no effect and meets no error,
\* whatever else is on it and wherever it is run (the tests of is_help).
THEOREM HelpIsHarmless == Spec => []HelpDoesNothingElse
<1>1. TypeOK /\ ConstructorInv => HelpDoesNothingElse
  BY DEF TypeOK, ConstructorInv, RunningInv, OutInv, HelpDoesNothingElse
<1> QED BY <1>1, OptionsTypeCorrect, ConstructorInvariant, PTL

\* Every command line and every file system that fulfil the conditions start
\* a run, and no other does, and it has the configuration they give it
\* (Options.hpp:32-149).
THEOREM RunsAreReady == Spec => []RunsExactlyWhenReady
<1>1. TypeOK /\ ConstructorInv => RunsExactlyWhenReady
  <2> SUFFICES ASSUME TypeOK, ConstructorInv, step = "end"
               PROVE  RunsExactlyWhenReady
    BY DEF RunsExactlyWhenReady
  <2> USE DEF OutInv, ConfigurationFails, configuration_of_the_run
  <2>1. exit \in {"returned", "0", "1"}
    BY DEF TypeOK
  <2>2. CASE exit = "returned"
    BY <2>2 DEF ConstructorInv, RunsExactlyWhenReady
  <2>3. CASE exit = "0"
    BY <2>3 DEF ConstructorInv, RunsExactlyWhenReady
  <2>4. CASE exit = "1"
    BY <2>4 DEF ConstructorInv, RunsExactlyWhenReady
  <2> QED BY <2>1, <2>2, <2>3, <2>4
<1> QED BY <1>1, OptionsTypeCorrect, ConstructorInvariant, PTL

\* Nothing was created when the constructor refuses or exits: no check comes
\* after the one effect (Options.hpp:104, 116-135).
THEOREM RefusalsAreHarmless == Spec => []RefusalsChangeNothing
<1>1. TypeOK /\ ConstructorInv => RefusalsChangeNothing
  BY DEF TypeOK, ConstructorInv, RunningInv, OutInv, RefusalsChangeNothing
<1> QED BY <1>1, OptionsTypeCorrect, ConstructorInvariant, PTL

\* The configuration shown is the one a run with the same options has
\* (Options.hpp:56-98).
THEOREM ShownIsUsed == Spec => []ConfigurationIsShown
<1>1. TypeOK /\ ConstructorInv => ConfigurationIsShown
  BY DEF TypeOK, ConstructorInv, RunningInv, OutInv,
         configuration_of_the_run, ConfigurationIsShown
<1> QED BY <1>1, OptionsTypeCorrect, ConstructorInvariant, PTL

----------------------------------------------------------------------------
(* The run *)

\* What is reported: a refusal of the options or a page that failed.
Reports ==
  [error : {"page", "configuration does not exist",
            "configuration is not JSON", "no source", "no destination",
            "parent directory must exist", "cannot create destination"},
   by    : {"yaml", "json"},
   full  : BOOLEAN]

ProgramTypeOK ==
  /\ verbose \in Verbosities
  /\ place \in {"run", "options", "batch", "ended"}
  /\ level \in [{"yaml", "json"} -> Level]
  /\ reported \subseteq Reports
  /\ traced \in BOOLEAN
  /\ status \in {"none", "0", "1"}

\* The level lands on the printer in use before --json is read; the printer
\* the run then switches to keeps its own.
LevelInv ==
  /\ level["json"] = "normal"
  /\ level["yaml"] = IF place = "run" \/ verbose = "" THEN "normal"
                                                      ELSE verbose

\* How far the constructor is in each place of the run.
PlaceInv ==
  /\ place = "run" => step = "json" /\ exit = "running"
  /\ place = "batch" => exit = "returned" /\ error = "none"
  /\ place = "ended" =>
       IF exit = "returned" THEN status = "0"
                            ELSE exit \in {"0", "1"} /\ status = exit

\* Errors are only reported, and pages only traced, by the printer of the
\* run; an error of the options is reported once, when the run ends.
ReportInv ==
  LET by == printer_of_the_run
  IN  /\ place \in {"run", "options"} => reported = {} /\ ~traced
      /\ traced => level[by] = "trace"
      /\ \A r \in reported : r.by = by /\ (r.full <=> level[by] # "normal")
      /\ error # "none" /\ reported # {} =>
           reported = {Report(error)} /\ place = "ended" /\ ~traced
      /\ error # "none" => ~traced

----------------------------------------------------------------------------
\* The options within the run.

\* A run of the program, whatever it does before and after, is one run of the
\* constructor of Options: what is proved of the constructor holds for the
\* program (main.cpp, Application.cpp:11-16).
THEOREM RunsTheConstructor == ProgramSpec => Spec
<1>1. ProgramInit => Init
  BY DEF ProgramInit
<1>2. [ProgramNext]_program_vars => [Next]_vars
  BY DEF ProgramNext, program_vars, SetVerboseLevel, ReadOption, Leave,
         CheckError, MakePage, Return
<1> QED BY <1>1, <1>2, PTL DEF ProgramSpec, Spec

\* Type correctness of the run.
LEMMA RunTypes == ProgramSpec => []ProgramTypeOK
<1>1. ProgramInit => ProgramTypeOK
  BY DEF ProgramInit, ProgramTypeOK, Level
<1>2. TypeOK /\ ProgramTypeOK /\ [ProgramNext]_program_vars => ProgramTypeOK'
  <2> SUFFICES ASSUME TypeOK, ProgramTypeOK, [ProgramNext]_program_vars
               PROVE  ProgramTypeOK'
    OBVIOUS
  <2>0. ASSUME NEW what, what = "page" \/ (what = error /\ is_abort)
        PROVE  Report(what) \in Reports
    <3> DEFINE full == level_in_use # "normal"
    <3>1. full \in BOOLEAN /\ printer \in {"yaml", "json"}
      BY DEF TypeOK
    <3>2. Report(what) = [error |-> what, by |-> printer, full |-> full]
      BY DEF Report
    <3>3. what \in {"page", "configuration does not exist",
                     "configuration is not JSON", "no source",
                     "no destination", "parent directory must exist",
                     "cannot create destination"}
      BY <2>0 DEF TypeOK, is_abort
    <3>4. ASSUME NEW b \in {"yaml", "json"}, NEW f \in BOOLEAN
          PROVE  [error |-> what, by |-> b, full |-> f] \in Reports
      BY <3>3 DEF Reports
    <3> HIDE DEF full
    <3> QED BY <3>1, <3>2, <3>4
  <2> USE VerbositiesAssumption DEF ProgramTypeOK, TypeOK
  <2>1. CASE SetVerboseLevel
    <3>1. verbose = "" \/ verbose \in Level
      OBVIOUS
    <3> QED BY <2>1, <3>1 DEF SetVerboseLevel, vars
  <2>2. CASE ReadOption
    BY <2>2 DEF ReadOption
  <2>3. CASE Leave
    BY <2>3 DEF Leave
  <2>4. CASE CheckError
    <3>1. is_abort => Report(error) \in Reports
      BY <2>0
    <3> QED BY <2>4, <3>1 DEF CheckError
  <2>5. CASE MakePage
    <3>1. Report("page") \in Reports
      BY <2>0
    <3>2. traced' \in BOOLEAN
      <4>1. traced' = traced \/ traced' = (level_in_use = "trace" \/ traced)
        BY <2>5, Zenon DEF MakePage
      <4>2. (level_in_use = "trace" \/ traced) \in BOOLEAN
        OBVIOUS
      <4> QED BY <4>1, <4>2, Zenon
    <3>3. reported' \subseteq Reports
      BY <2>5, <3>1 DEF MakePage
    <3>4. UNCHANGED <<verbose, place, level, status>>
      BY <2>5 DEF MakePage
    <3> QED BY <3>2, <3>3, <3>4
  <2>6. CASE Return
    BY <2>6 DEF Return
  <2>7. CASE UNCHANGED program_vars
    BY <2>7 DEF program_vars
  <2> QED
    BY <2>1, <2>2, <2>3, <2>4, <2>5, <2>6, <2>7 DEF ProgramNext
<1> QED
  BY <1>1, <1>2, RunsTheConstructor, OptionsTypeCorrect, PTL DEF ProgramSpec

----------------------------------------------------------------------------
\* The run.

\* Where the level lands, how the run ends, and by which printer and how fully
\* errors are reported.
LEMMA ProgramInvariant == ProgramSpec => [](LevelInv /\ PlaceInv /\ ReportInv)
<1> DEFINE Constructor == TypeOK /\ ConstructorInv /\ ProgramTypeOK
           Inv == LevelInv /\ PlaceInv /\ ReportInv
<1>1. ProgramInit => Inv
  <2> SUFFICES ASSUME ProgramInit PROVE Inv
    OBVIOUS
  <2>1. step = "json"
    BY Places DEF ProgramInit, Init
  <2> QED BY <2>1
          DEF ProgramInit, Init, LevelInv, PlaceInv, ReportInv
<1>2. Constructor /\ Inv /\ [ProgramNext]_program_vars => Inv'
  <2> SUFFICES ASSUME Constructor, Inv, [ProgramNext]_program_vars
               PROVE  Inv'
    OBVIOUS
  <2>0. ASSUME place # "run", exit # "running", NEW what
        PROVE  /\ printer = printer_of_the_run
               /\ Report(what).error = what
               /\ Report(what).by = printer_of_the_run
               /\ Report(what).full = (level[printer_of_the_run] # "normal")
    <3>1. printer = printer_of_the_run
      BY <2>0 DEF ConstructorInv, PrinterInv, TypeOK
    <3> QED BY <3>1 DEF Report, level_in_use
  <2>1. CASE SetVerboseLevel
    <3>1. printer = "yaml"
      BY <2>1 DEF SetVerboseLevel, PlaceInv, ConstructorInv, PrinterInv
    <3>2. LevelInv'
      BY <2>1, <3>1 DEF SetVerboseLevel, LevelInv, ProgramTypeOK
    <3>3. PlaceInv'
      BY <2>1 DEF SetVerboseLevel, PlaceInv
    <3>4. ReportInv'
      BY <2>1 DEF SetVerboseLevel, ReportInv, vars
    <3> QED BY <3>2, <3>3, <3>4
  <2>2. CASE ReadOption
    <3>1. LevelInv' /\ PlaceInv'
      BY <2>2 DEF ReadOption, LevelInv, PlaceInv
    <3>2. ReportInv'
      BY <2>2 DEF ReadOption, ReportInv
    <3> QED BY <3>1, <3>2
  <2>3. CASE Leave
    <3>1. LevelInv' /\ PlaceInv'
      BY <2>3 DEF Leave, LevelInv, PlaceInv, vars
    <3>2. ReportInv'
      BY <2>3 DEF Leave, ReportInv, vars
    <3> QED BY <3>1, <3>2
  <2>4. CASE CheckError
    <3>1. LevelInv' /\ PlaceInv'
      BY <2>4 DEF CheckError, LevelInv, PlaceInv, vars, is_abort
    <3>2. Report(error)' = Report(error) /\ UNCHANGED printer_of_the_run
      BY <2>4 DEF CheckError, Report, level_in_use, vars, printer_of_the_run
    <3>3. ReportInv'
      <4>1. reported = {} /\ ~traced /\ exit # "running" /\ place # "run"
        BY <2>4 DEF CheckError, ReportInv
      <4>2. CASE is_abort
        BY <2>0, <2>4, <3>2, <4>1, <4>2 DEF CheckError, ReportInv, vars
      <4>3. CASE ~is_abort
        BY <2>4, <3>2, <4>1, <4>3 DEF CheckError, ReportInv, is_abort, vars
      <4> QED BY <4>2, <4>3
    <3> QED BY <3>1, <3>3
  <2>5. CASE MakePage
    <3>1. LevelInv' /\ PlaceInv'
      BY <2>5 DEF MakePage, LevelInv, PlaceInv, vars
    <3>2. error = "none" /\ exit # "running" /\ place # "run"
      BY <2>5 DEF MakePage, PlaceInv
    <3>3. UNCHANGED <<printer_of_the_run, level, error>>
      BY <2>5 DEF MakePage, vars, printer_of_the_run
    <3>4. traced' => level[printer_of_the_run] = "trace"
      BY <2>0, <2>5, <3>2 DEF MakePage, ReportInv, level_in_use
    <3>5. \A r \in reported' :
            /\ r.by = printer_of_the_run
            /\ r.full <=> level[printer_of_the_run] # "normal"
      <4>1. \A r \in reported' : r \in reported \/ r = Report("page")
        BY <2>5 DEF MakePage
      <4>2. /\ Report("page").by = printer_of_the_run
            /\ Report("page").full <=> level[printer_of_the_run] # "normal"
        BY <2>0, <3>2, Zenon
      <4> QED BY <4>1, <4>2, Zenon DEF ReportInv
    <3>6. ReportInv'
      BY <2>5, <3>2, <3>3, <3>4, <3>5 DEF MakePage, ReportInv
    <3> QED BY <3>1, <3>6
  <2>6. CASE Return
    <3>1. LevelInv' /\ PlaceInv'
      BY <2>6 DEF Return, LevelInv, PlaceInv, vars
    <3>2. ReportInv'
      BY <2>6 DEF Return, ReportInv, vars, PlaceInv, printer_of_the_run
    <3> QED BY <3>1, <3>2
  <2>7. CASE UNCHANGED program_vars
    BY <2>7 DEF program_vars, vars, LevelInv, PlaceInv, ReportInv, Report,
                level_in_use, printer_of_the_run
  <2> QED
    BY <2>1, <2>2, <2>3, <2>4, <2>5, <2>6, <2>7 DEF ProgramNext
<1> HIDE DEF Inv
<1>3. ProgramSpec => []Inv
  BY <1>1, <1>2, RunTypes, RunsTheConstructor, OptionsTypeCorrect,
     ConstructorInvariant, PTL DEF ProgramSpec
<1> QED BY <1>3 DEF Inv

\* What the end of the run can be told from: the ways out of the constructor.
THEOREM StatusTells == ProgramSpec => []StatusOfTheRun
<1>1. TypeOK /\ ConstructorInv /\ PlaceInv => StatusOfTheRun
  BY DEF TypeOK, ConstructorInv, OutInv, PlaceInv, StatusOfTheRun
<1> QED BY <1>1, ProgramInvariant, RunsTheConstructor, OptionsTypeCorrect,
           ConstructorInvariant, PTL

\* No command line makes a run more verbose than it was asked to be, and none
\* that has the YAML printer makes it less (Application.cpp:12,
\* Options.hpp:22-30, DoxyJson.cpp:59-63).
THEOREM VerbosityHolds == ProgramSpec => []VerbosityOfTheRun
<1>1. ProgramTypeOK /\ LevelInv /\ ReportInv => VerbosityOfTheRun
  BY VerbositiesAssumption
     DEF ProgramTypeOK, LevelInv, ReportInv, VerbosityOfTheRun, Level,
         in_json, printer_of_the_run
<1> QED BY <1>1, ProgramInvariant, RunTypes, PTL

\* Every report is in the format of the run, and a refusal is the only thing
\* reported in its run (Application.cpp:19-21, 117-124).
THEOREM OneFormat == ProgramSpec => []ReportedInOneFormat
<1>1. ReportInv => ReportedInOneFormat
  BY DEF ReportInv, ReportedInOneFormat, in_json, printer_of_the_run
<1> QED BY <1>1, ProgramInvariant, PTL

=============================================================================
