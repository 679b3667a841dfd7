\* Overlapping handlers of two browsers, a read that fails, and a token of any session
\* sent in a body: rotations, replays, logouts.
SPECIFICATION WatchedSpec
CONSTANTS
  Token = {t1, t2, t3, t4}
  None = None
  Request = {r1, r2}
  Browser = {b1, b2}
  Tabs = 2
  MaxReadFaults = 1
  MaxWriteFaults = 0
  MaxAborts = 0
  MaxReplays = 1
SYMMETRY Symmetry
INVARIANTS OneLiveToken CookieIsLive HandedOutIsLive DeliveredOnChain
PROPERTIES DeadStaysDead
