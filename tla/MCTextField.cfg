SPECIFICATION Spec
CONSTANTS
  Radix = 128
  LastGroup = 1
  MaxFieldTag = 1
  Inputs <- MCInputs
  Bounds <- MCBounds
CHECK_DEADLOCK FALSE
INVARIANT ValidIsScalars
