\* Two providers, of two issuers or of one, with up to two keys, against every id_token.
\* The decision is one step, and nothing follows.
SPECIFICATION Spec
CHECK_DEADLOCK FALSE
CONSTANTS
  Absent = Absent
  i1 = i1
  i2 = i2
  c1 = c1
  c2 = c2
  k1 = k1
  k2 = k2
  s1 = s1
  s2 = s2
  Issuer = {i1, i2}
  Client = {c1, c2}
  Kid = {k1, k2}
  Signer = {s1, s2}
  Providers <- MCProviders
  IdTokens <- MCIdTokens
INVARIANTS AcceptsOnlyGenuine AcceptsEveryGenuine
