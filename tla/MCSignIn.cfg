CONSTANTS
  web = web
  phone = phone
  None = None
  Devices <- MCDevices
  Browsers = {web}
  Emails = {e1}
  Reqs = {r1, r2}
  Actors = {a1, a2}
  Sessions = {s1, s2}
  MaxCodes = 2
  MaxPresses = 1
  MAX_CODE_ATTEMPTS = 2
SPECIFICATION Spec
SYMMETRY Symmetry
CHECK_DEADLOCK FALSE
INVARIANTS
  TypeOK
  CodeBudget
  NothingLeftBehind
PROPERTIES
  SettledIsDead
  SignInWorks
