\* Two handlers, a write that fails (and may arrive late) and a handler that vanishes:
\* what the store, the answers and the clients hold, and that the service implements
\* SessionFamily.
SPECIFICATION Spec
CONSTANTS
  Token = {t1, t2, t3, t4}
  None = None
  Request = {r1, r2}
  Browser = {b1}
  Tabs = 2
  MaxReadFaults = 0
  MaxWriteFaults = 1
  MaxAborts = 1
  MaxReplays = 0
SYMMETRY Symmetry
INVARIANTS TypeOK IInv ReplacementStored HandedOutIsLive DeliveredOnChain ReuseRevokes
PROPERTIES UsedRowsAreFinal SessionsAsPromised
