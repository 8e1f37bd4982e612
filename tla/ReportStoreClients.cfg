SPECIFICATION Spec
CONSTANTS
  Clients = {c1, c2}
  Purger = purger
  Serial = FALSE
  Calls = {"create", "delete", "stage", "confirm"}
  MaxReports = 2
  MaxExports = 1
  MaxCrashes = 0
INVARIANTS
  TypeOK
  PurgesOnlyConfirmed
  IdsAreKeys
SYMMETRY ClientSymmetry
CHECK_DEADLOCK FALSE
