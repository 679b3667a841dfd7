\* Two overlapping logins, a fetch that fails and a client that hangs up, under fairness.
SPECIFICATION FairSpec
CONSTANTS
  Login = {l1, l2}
  Cooldown = 2
  MaxGen = 3
  MaxFails = 1
  MaxHangUps = 1
INVARIANTS TypeOK CacheIsOneGeneration FetchedKeyIsFound
PROPERTIES FetchesAreSpaced NewKeysAreLearned WithdrawnKeysAreDropped
