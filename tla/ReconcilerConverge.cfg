SPECIFICATION FairSpec
CONSTANTS
  Uplinks = {host, a}
  Host = host
  Locations = {l1}
  None = none
  MaxReconnectFailures = 2
  MaxFaults = 1
PROPERTIES
  WantedConnectionResolved
  
