SPECIFICATION FairSpec
CONSTANTS
  Radix = 2
  LastGroup = 3
  MaxFieldTag = 3
  MAX_SCHEMA_DEPTH = 3
  MaxLength = 3
  Rooms = {6, 7}
  family = family
  stranger = stranger
  Nobody = Nobody
  Locks <- MCFewLocks
  Items <- MCItems
  Tables <- MCTables
  Foreign <- MCFewForeign
PROPERTY EveryDecodeReturns
