SPECIFICATION FairSpec
CONSTANTS
  Locations = {l1, l2, lx}
  Known = {l1, l2}
  None = none
  Retries = 3
  MaxFaults = 4
INVARIANTS
  DialsFromDisconnected
PROPERTIES
  Contract
  CallsReturn
