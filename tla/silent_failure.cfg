\* A write fails under one handler: what it answers.
SPECIFICATION Spec
CONSTANTS
  Token = {t1, t2, t3}
  None = None
  Request = {r1}
  Browser = {b1}
  Tabs = 1
  MaxReadFaults = 0
  MaxWriteFaults = 1
  MaxAborts = 0
  MaxReplays = 0
INVARIANTS FailedRotationKeepsCookie
