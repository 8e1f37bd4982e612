SPECIFICATION Spec
CONSTANTS
  Requests = {r1, r2, r3}
  r1 = r1
  r2 = r2
  r3 = r3
  Worker = Worker
  Api = {"run", "complete", "abort", "start", "stop"}
  Programs <- ShortPrograms
  StopAttempts = 2
  QueueCap = 2
  PortStates = {"open", "absent", "failed"}
  TimelyReply = FALSE
  Restarts = TRUE
SYMMETRY RequestSymmetry
INVARIANTS
  TypeOK
  StatusResultIsCurrent
PROPERTIES
  KeepsContract
