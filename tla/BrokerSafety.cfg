SPECIFICATION Spec
CONSTANTS
  Gates = {g1, g2}
  Requests = {r1, r2}
  Boot = Boot
  MaxTokens = 3
  NoGate = NoGate
  MaxQueue = 2
INVARIANTS TypeOK CleanIsSynced
