SPECIFICATION UsesSpec
CONSTANTS
  Gates = {g1}
  IPs = {ip1}
  Requests = {r1}
  Pins = {p1}
  Codes = {"1234"}
  Quotas = {1}
  MaxAttempts = 1
  MaxGateAttempts = 2
  Window = 2
  MaxPageLimit = 1
  NoPin = NoPin
PROPERTIES CodeStopsAfterUses
