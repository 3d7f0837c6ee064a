SPECIFICATION FairSpec
CONSTANTS
  Uplinks = {host}
  Host = host
  Locations = {l1}
  None = none
  MaxReconnectFailures = 2
  MaxFaults = 1
PROPERTY DisconnectionReached
