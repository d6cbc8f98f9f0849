CONSTANTS
  family = family
  stranger = stranger
  MAX_SCHEMA_DEPTH = 2
  Revisions = {1, 2, 3, 4}
  Locks <- MCLocks
CHECK_DEADLOCK FALSE
SPECIFICATION Spec
INVARIANT TypeOK
INVARIANT AncestorsAgree
INVARIANT RetiredForGood
INVARIANT CompatibilityComposes
INVARIANT RequirementsCompose
