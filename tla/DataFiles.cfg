SPECIFICATION Spec
CONSTANTS
  Clients = {c1, c2}
  Refreshers = {r1, r2}
  Hosts = {"proxy"}
  Secrets = {"secret"}
  Patches <- Few
  None = none
  MaxPatches = 3
  MaxLists = 2
  MaxRefreshes = 3
  MaxFaults = 2
  MaxCrashes = 1
INVARIANTS
  StoredConfigStarts
  LocationsWhole
PROPERTIES
  ConfigIsAtomic
SYMMETRY Symmetric
CHECK_DEADLOCK FALSE
