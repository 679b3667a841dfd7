--------------------------- MODULE MCSessionClock ----------------------------
(* Instances of SessionClock for TLC.                                      *)
EXTENDS SessionClock, TLC

\* Ids and handler slots are interchangeable: no definition names one.
Symmetry == Permutations(Token) \cup Permutations(Request)
=============================================================================
