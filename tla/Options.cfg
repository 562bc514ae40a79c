\* The Options constructor on every command line.
CONSTANTS
  Arguments <- MCArguments
  Systems <- MCSystems

SPECIFICATION FairSpec

INVARIANTS
  TypeOK
  HelpListsAllButVerbose
  HelpDoesNothingElse
  RunsExactlyWhenReady
  RefusalsChangeNothing
  ConfigurationIsShown

PROPERTIES
  HelpIsAnswered
