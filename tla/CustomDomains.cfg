SPECIFICATION FairSpec
CONSTANTS
  Gates = {g1, g2}
  Domains = {d1}
  Rows = {x1, x2}
  Verifiers = {v1}
  Resolvers = {q1, q2}
  HitTTL = 2
  MissTTL = 1
  None = None
INVARIANTS TypeOK VerifiedWasProven TenantWasProven
PROPERTY CacheConverges
