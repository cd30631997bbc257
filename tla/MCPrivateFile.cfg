SPECIFICATION Spec
CONSTANTS
  Files = {f1, f2}
  Records = {r1, r2}
  Contents = {good, bad}
  Infected = {bad}
  Hosts = {h1, h2}
  Scanners = {s1, s2}
  Quota = 2
  MaxVersion = 5
  MaxFaults = 1
INVARIANTS
  CleanBytesWereScanned
  QuotaHolds
PROPERTIES
  FrozenWithTheRecord
  EveryPendingGetsVerdict
CHECK_DEADLOCK FALSE
