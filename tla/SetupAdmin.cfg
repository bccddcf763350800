SPECIFICATION Spec
CONSTANTS
  Requests = {r1, r2}
  Ids = {i1, i2}
  Subjects = {s1, s2}
  Emails = {e1}
  SetupNames = {e1, n1}
  AdminNames = {e1}
  MaxLogins = 2
  Codes = {c1}
  Suffix <- MCSuffix
  AutoProvision = TRUE
  None = None
INVARIANT SetupMakesAdmin
CHECK_DEADLOCK FALSE
SYMMETRY Symmetry
