SPECIFICATION Spec
CONSTANTS
  Radix = 4
  LastGroup = 1
  MaxFieldTag = 3
  MAX_SCHEMA_DEPTH = 2
  MaxLength = 4
  Locks <- MCLocks
  Inputs <- MCInputs
  Changes <- MCChanges
CHECK_DEADLOCK FALSE
INVARIANT NothingLentUnlessAllIsValid
INVARIANT LentApart
