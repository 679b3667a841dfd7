-------------------------- MODULE MCBearerDirectory --------------------------
(* Instances of BearerDirectory for TLC.                                   *)
EXTENDS BearerDirectory, TLC

\* Tokens and callers are interchangeable: no definition names one.
Symmetry == Permutations(Bearer) \cup Permutations(Caller)
=============================================================================
