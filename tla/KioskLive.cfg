SPECIFICATION FairSpec
CONSTANTS
  MaxTests = 1
  MaxValidations = 1
  MaxReports = 2
  MaxFails = 0
  Prompt = FALSE
  MaxHaste = 0
  Leaves = FALSE
  AutoLogout = FALSE
PROPERTIES
  RunEnds
  ValidationEnds
CHECK_DEADLOCK FALSE
