SPECIFICATION Spec
CONSTANTS
  Members = {m1}
  Gates = {g1, g2}
  Schedules = {}
  Callers = {r1}
  Editors = {e1}
  Creds = {c1}
  Perms = {"gate:trigger_open"}
  None = None
INVARIANTS TokenConfined
