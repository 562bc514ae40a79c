\* The help of MANUAL.md, against the code.
CONSTANTS
  Arguments <- MCArguments
  Systems <- MCSystems

SPECIFICATION Spec

INVARIANTS
  HelpIsAsInManual
