SPECIFICATION Spec
CONSTANTS
  MaxTests = 2
  MaxValidations = 0
  MaxReports = 3
  MaxFails = 0
  Prompt = TRUE
  MaxHaste = 1
  Leaves = FALSE
  AutoLogout = FALSE
INVARIANTS
  TypeOK
  RunIsAttended
  WeighedReportedOnce
  EvidenceKept
PROPERTIES
  CheckpointOutlastsTest
  PendingHolds
CHECK_DEADLOCK FALSE
