SPECIFICATION FairSpec
CONSTANTS
  Gates = {g1}
  Handlers = {h1}
  Reported = {"open", "closed", "unresponsive"}
  Metas = {"{}"}
  Configs <- Chain
  OfflineThreshold = 2
  MaxPass = 1
  Horizon = 3
  NoGate = NoGate
INVARIANTS TypeOK MarkedOnlyIfSilent NoEventBeforeStore
PROPERTIES DeadDeviceDetected
