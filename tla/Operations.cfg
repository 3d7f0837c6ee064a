SPECIFICATION FairSpec
CONSTANTS
  Ids = {i1, i2, i3}
  Clients = {c1, c2}
  Posted = {"connect", "disconnect", "login"}
  None = none
INVARIANTS
  OneRunningPerResource
PROPERTIES
  RefusalNamesRunning
  ResourceFreed
  ResultLearned
