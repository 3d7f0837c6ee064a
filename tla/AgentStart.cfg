SPECIFICATION Spec
CONSTANTS
  Uplinks = {host, a}
  Host = host
  Ips = {ip1, ip2}
  None = none
  Files = {settings, account}
  MaxTokens = 2
  MaxStarts = 3
INVARIANTS
  NeverUnprotected
  SessionKept
  RetiredTokenDead
SYMMETRY Symmetric
CHECK_DEADLOCK FALSE
