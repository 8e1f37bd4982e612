SPECIFICATION FairSpec
CONSTANTS
  Requests = {r1, r2, r3}
  r1 = r1
  r2 = r2
  r3 = r3
  Worker = Worker
  Api = {"run", "complete", "abort", "ensure"}
  Programs <- MCPrograms
  StopAttempts = 2
  QueueCap = 2
  PortStates = {"open"}
  TimelyReply = TRUE
  Restarts = FALSE
INVARIANTS
  AbortIsReported
  FullResultRanFully
  NoStaleOk
  SettledOff
  LiveEndsWithWorker
PROPERTIES
  StopEndsProgram
  StopEndsLoad
