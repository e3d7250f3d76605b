------------------------------- MODULE MCEcho -------------------------------
(* A response and the turn after it: symmetric calls and searches.         *)
EXTENDS Echo, TLC

Symmetry == Permutations(Calls) \cup Permutations(Searches)
=============================================================================
