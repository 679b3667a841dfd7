------------------------- MODULE MCRefreshRotation --------------------------
(* Instances of RefreshRotation, and of its inductive invariant, for TLC.  *)
EXTENDS RefreshRotationInv, TLC

\* Ids, handler slots and browsers are interchangeable: no definition names one.
Symmetry == Permutations(Token) \cup Permutations(Request) \cup Permutations(Browser)
=============================================================================
