SPECIFICATION Spec
CONSTANTS
  Radix = 2
  LastGroup = 4
  MaxFieldTag = 3
  MAX_SCHEMA_DEPTH = 3
  MaxLength = 4
  Rooms = {7, 19, 31}
  family = family
  stranger = stranger
  Nobody = Nobody
  Locks <- MCLocks
  Items <- MCItems
  Tables <- MCTables
  Foreign <- MCForeign
INVARIANT TypeOK
INVARIANT CallsAreTransactions
INVARIANT ApprovedMessagesArrive
INVARIANT DecodedIsCanonical
INVARIANT AcceptedTagsAreTheWriters
INVARIANT MaximumIsEnough
INVARIANT ReadersAgree
