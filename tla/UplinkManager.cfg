SPECIFICATION FairSpec
CONSTANTS
  p = p
  q = q
  Proxies = {p, q}
  Flaky = {p}
  None = none
  Uplinks <- Few
  Runs = {r1, r2}
  MaxFaults = 1
INVARIANTS
  TypeOK
  EngineServesApplied
  OwnUdp
  ProbeResultKept
PROPERTIES
  ApplyContract
  WaitSeesResult
  LossIsReported
