SPECIFICATION Spec
CONSTANTS
  Gates = {g1}
  Handlers = {h1}
  Reported = {"open", "closed", "unresponsive"}
  Metas = {"{}", "alarm"}
  Configs <- RuledChain
  OfflineThreshold = 2
  MaxPass = 1
  Horizon = 3
  NoGate = NoGate
PROPERTIES TransitionReplacesFrom
