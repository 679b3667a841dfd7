\* A browser that obeys Max-Age, and requests that take no longer than the leeway.
SPECIFICATION Spec
CONSTANTS
  Token = {t1, t2, t3}
  Request = {r1, r2}
  None = None
  Foreign = Foreign
  AccessTTL = 2
  RefreshTTL = 4
  Leeway = 1
  MaxAge = 9
  MaxCall = 1
  Hoards = FALSE
  Horizon = 6
SYMMETRY Symmetry
PROPERTIES ExpiredSessionIsRefreshed
