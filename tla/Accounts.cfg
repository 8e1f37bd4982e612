SPECIFICATION AccountsSpec
CONSTANTS
  Passwords = {p1, p2, p3, p4}
  NoPassword = NoPassword
  HistoryLimit = 2
  Grants = {"manage"}
  Roles = {{}, {"manage"}}
  Members = {m1}
  Factory = Factory
  Nobody = Nobody
  Threads = {t1}
  Calls = {"login", "wrong", "biometric", "mandatory", "change", "unlock", "disable", "enable", "edit", "expired"}
  MaxChanges = 3
  MaxFailures = 4
INVARIANTS
  AccountsTypeOK
  MustUntilChosen
PROPERTIES
  NoRecentPassword
  StrikesLock
  NoSilentUnlock
CHECK_DEADLOCK FALSE
