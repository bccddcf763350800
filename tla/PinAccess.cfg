SPECIFICATION FairSpec
CONSTANTS
  Gates = {g1}
  IPs = {ip1}
  Requests = {r1, r2}
  Pins = {p1}
  Codes = {"1234"}
  Quotas = {0, 1, 2}
  MaxAttempts = 1
  MaxGateAttempts = 2
  Window = 2
  MaxPageLimit = 1
  NoPin = NoPin
INVARIANTS TypeOK GateBudget UsesAreGrants
PROPERTIES LockoutEnds
