\* No call fails and no handler vanishes: what every request must come to.
SPECIFICATION FairSpec
CONSTANTS
  Token = {t1, t2, t3}
  None = None
  Request = {r1, r2}
  Browser = {b1}
  Tabs = 2
  MaxReadFaults = 0
  MaxWriteFaults = 0
  MaxAborts = 0
  MaxReplays = 1
INVARIANTS LogoutRevokes
PROPERTIES ReplayRevokes
