\* Two tokens; a human's and a service account's entry; overlapping publishers and a
\* check; calls that fail, and values that other hands moved or changed.
SPECIFICATION Spec
CONSTANTS
  Human = {h}
  Service = {s}
  Bearer = {b1, b2}
  Caller = {c1, c2}
  Lookup = {l1}
  None = None
  MaxFaults = 1
  MaxDamages = 1
SYMMETRY Symmetry
INVARIANTS TypeOK ResolvesOnlyPublished AnswersAsTold
