SPECIFICATION Spec
CONSTANTS
  MaxTests = 2
  MaxSessions = 2
  MaxStops = 2
  PageSurvives = FALSE
INVARIANTS
  TypeOK
PROPERTIES
  KeepsRecords
  BootSettles
  MarkedStopKeepsPending
CHECK_DEADLOCK FALSE
