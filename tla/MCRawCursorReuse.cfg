CONSTANTS
  Radix = 2
  LastGroup = 2
  MaxFieldTag = 3
  Arrays <- MCArrays
  Regions <- MCRegions
  Copies = {0, 2}
SPECIFICATION Reuse_Spec
INVARIANT EveryArrayGetsAStatus
