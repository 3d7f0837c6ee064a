SPECIFICATION IngressFairSpec
CONSTANTS
  Conns = {k1}
  Clients = {c1, c2}
  Targets = {t1}
  None = none
  Idle = 1
  MaxBytes = 1
INVARIANTS
  StatsAreExact
PROPERTIES
  StatsPublished
  FlowsExpire
