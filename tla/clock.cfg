\* The bucket keeps its entries longer than any token verifies; clients may keep tokens too long.
SPECIFICATION Spec
CONSTANTS
  Token = {t1, t2, t3}
  Request = {r1, r2}
  None = None
  Foreign = Foreign
  AccessTTL = 1
  RefreshTTL = 2
  Leeway = 1
  MaxAge = 5
  MaxCall = 1
  Hoards = TRUE
  Horizon = 7
SYMMETRY Symmetry
INVARIANTS TypeOK CookieIsHonoured AccessEnds
PROPERTIES RevokedStaysDead PromisedOverTime
