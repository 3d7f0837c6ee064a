SPECIFICATION Spec
CONSTANTS
  Clients = {c1, c2}
  Host = host
  Passwords = {p1, p2}
  None = none
  Torn = torn
  ThrottleAfter = 2
  MaxRequests = 4
  MaxCrashes = 1
INVARIANTS
  OutcomeWhenAlone
  SessionOfPassword
  PauseHolds
SYMMETRY Symmetric
CHECK_DEADLOCK FALSE
