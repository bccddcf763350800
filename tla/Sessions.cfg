SPECIFICATION FairSpec
CONSTANTS
  Browsers = {b1}
  Requests = {r1, r2}
  Members = {m1}
  Pins = {p1}
  Tokens = {t1, t2, t3}
  Chains = {c1, c2}
  AccessTTL = 1
  Durations = {2}
  None = None
INVARIANTS TypeOK OneSuccessor LogoutEndsSession
PROPERTIES StaleRightsFade ImplementsSessionLife
