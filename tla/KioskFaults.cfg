SPECIFICATION Spec
CONSTANTS
  MaxTests = 1
  MaxValidations = 1
  MaxReports = 2
  MaxFails = 1
  Prompt = TRUE
  MaxHaste = 0
  Leaves = TRUE
  AutoLogout = TRUE
INVARIANTS
  LoggedOutIsOff
CHECK_DEADLOCK FALSE
