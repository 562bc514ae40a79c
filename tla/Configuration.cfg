\* A user shows, saves and edits the configuration between runs.
CONSTANTS
  UserFiles <- MCUserFiles
  MaxEdits = 2

SPECIFICATION Spec

INVARIANTS
  UserValueFirst
