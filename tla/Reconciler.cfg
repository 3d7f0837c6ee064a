SPECIFICATION Spec
CONSTANTS
  Uplinks = {host, a}
  Host = host
  Locations = {l1, l2}
  None = none
  MaxReconnectFailures = 2
  MaxFaults = 1
SYMMETRY Symmetric
INVARIANTS
  TypeOK
  
  ChangesAreSeen
  RetryScheduled
  
PROPERTY DisconnectSucceedsWhenDone
