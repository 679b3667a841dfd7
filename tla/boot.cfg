\* Every environment, complete or not, with two outages and a crash.
\* A server stays up, and once the bounds are used up nothing else happens.
SPECIFICATION FairSpec
CHECK_DEADLOCK FALSE
CONSTANTS
  Environments <- MCEnvironments
  MaxOutages = 2
  MaxCrashes = 1
INVARIANTS TypeOK ServesOnlyComplete ServesEveryProvider ReadyIfCalm
PROPERTIES EventuallyServes
