CONSTANTS
  Radix = 2
  LastGroup = 2
  MaxFieldTag = 3
  Writers = {outer, nested}
  Root = outer
  Size = 6
  Tags = {0, 1, 2}
  Lengths = {0, 2, 4}
  Numbers = {5}
  Integers_64 <- MCIntegers_64
  Raw <- MCRaw
  Counts = {0, 2, 3}
  Fills = {3}
SPECIFICATION Spec
INVARIANT TypeOK
INVARIANT CursorsInBounds
INVARIANT RegionsApart
INVARIANT StoredReadsBack
INVARIANT MeasuredExactly
PROPERTY FailedWritesChangeNothing
PROPERTY StoredOctetsStay
CHECK_DEADLOCK FALSE
