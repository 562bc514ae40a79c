\* The claim of the message at Options.hpp:129, against the code.
CONSTANTS
  Arguments <- MCArguments
  Systems <- MCSystems

SPECIFICATION Spec

INVARIANTS
  RefusedOnlyWithoutParent
