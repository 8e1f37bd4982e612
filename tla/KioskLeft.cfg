SPECIFICATION Spec
CONSTANTS
  MaxTests = 2
  MaxValidations = 0
  MaxReports = 3
  MaxFails = 0
  Prompt = TRUE
  MaxHaste = 0
  Leaves = FALSE
  AutoLogout = TRUE
INVARIANTS
  EvidenceKept
CHECK_DEADLOCK FALSE
