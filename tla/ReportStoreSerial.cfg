SPECIFICATION FairSpec
CONSTANTS
  Clients = {c1}
  Purger = purger
  Serial = TRUE
  Calls = {"create", "approve", "discard", "delete", "export", "confirm"}
  MaxReports = 3
  MaxExports = 2
  MaxCrashes = 1
PROPERTIES
  KeepsArchive
  LastConfirmedIsPurged
CHECK_DEADLOCK FALSE
