SPECIFICATION Spec
CONSTANTS
  MAX_SCHEMA_DEPTH = 2
  MAX_FIELD_TAG = 3
  I64_MAX = 3
  Processes = {first, second}
  MaxStarts = 3
  MaxEdits = 1
  Fixture <- MCFixture
  Overlays <- MCOverlays
  Documents <- MCDocuments
  New_Overlays <- MCNewOverlays
  New_Documents <- MCNewDocuments
SYMMETRY MCSymmetry
CHECK_DEADLOCK FALSE
INVARIANT ArtifactsAreTrue
INVARIANT LoweredIsExact
 
