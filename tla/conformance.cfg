\* Every combination of drifts in the library, the anchor and the bucket.  The battery
\* ends, and nothing follows.
SPECIFICATION Spec
CHECK_DEADLOCK FALSE
INVARIANTS BatteryDecides
