SPECIFICATION Spec
CONSTANTS
  Passwords = {p1}
  NoPassword = NoPassword
  HistoryLimit = 1
  Grants = {"manage", "test-report-approve", "validation-report-approve", "recipe-approve", "export-approve", "export-usb"}
  Roles = {{"manage", "test-report-approve", "recipe-approve", "export-approve", "export-usb"}}
  Members = {m1, m2}
  Factory = Factory
  Nobody = Nobody
  Reports = {r1}
  Recipes = {c1, c2}
  NoDeed = NoDeed
  TTL = 1
  MaxTokens = 2
  MaxHaste = 1
SYMMETRY Symmetry
INVARIANTS
  TypeOK
  SignedByAnother
  SignedAsMeant
PROPERTIES
  PowerlessSoon
CHECK_DEADLOCK FALSE
