\* A run of the program from main() to its exit status.
CONSTANTS
  Arguments <- MCArguments
  Systems <- MCSystems
  Verbosities = {"", "debug", "trace"}

SPECIFICATION ProgramSpec

INVARIANTS
  VerbosityOfTheRun
  ReportedInOneFormat
  StatusOfTheRun
