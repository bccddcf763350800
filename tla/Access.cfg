SPECIFICATION Spec
CONSTANTS
  Members = {m1}
  Gates = {g1}
  Schedules = {s1}
  Callers = {r1}
  Editors = {e1, e2}
  Creds = {c1}
  Perms = {"gate:trigger_open"}
  None = None
SYMMETRY EditorSymmetry
INVARIANTS TypeOK AllowedAtSomeMoment TokenKeepsScope
