\* The bucket's max_age is the refresh token's lifetime; a browser that obeys Max-Age.
SPECIFICATION Spec
CONSTANTS
  Token = {t1, t2, t3}
  Request = {r1, r2}
  None = None
  Foreign = Foreign
  AccessTTL = 2
  RefreshTTL = 4
  Leeway = 1
  MaxAge = 4
  MaxCall = 1
  Hoards = FALSE
  Horizon = 8
SYMMETRY Symmetry
PROPERTIES RevokedStaysDead
