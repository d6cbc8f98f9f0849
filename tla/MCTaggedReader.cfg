CONSTANTS
  Radix = 2
  LastGroup = 2
  MaxFieldTag = 3
  Readers = {outer, nested}
  Root = outer
  MaxLength = 4
  Inputs <- MCInputs
  Counts = {0, 2, 3}
  Capacity = 2
  Arrays <- MCArrays
  Regions <- MCRegions
  Copies = {0}
SPECIFICATION Callers
INVARIANT TypeOK
INVARIANT CursorsInBounds
INVARIANT EveryOctetOnce
INVARIANT AcceptedIsCanonical
INVARIANT EveryArrayGetsAStatus
PROPERTY FailedReadsConsumeNothing
PROPERTY EveryReadMakesProgress
CHECK_DEADLOCK FALSE
