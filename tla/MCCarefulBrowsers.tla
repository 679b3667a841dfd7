------------------------- MODULE MCCarefulBrowsers --------------------------
(* An instance of CarefulBrowsers, and of its inductive invariant, for TLC. *)
EXTENDS CarefulBrowsers, TLC

\* Ids, handler slots and browsers are interchangeable: no definition names one.
Symmetry == Permutations(Token) \cup Permutations(Request) \cup Permutations(Browser)
=============================================================================
