SPECIFICATION FairSpec
CONSTANTS
  MaxTests = 1
  MaxSessions = 2
  MaxStops = 2
  PageSurvives = TRUE
PROPERTIES
  CheckpointRecovered
  CutClosesPending
CHECK_DEADLOCK FALSE
