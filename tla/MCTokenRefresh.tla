--------------------------- MODULE MCTokenRefresh ---------------------------
(* TokenRefresh on small instances.                                        *)
EXTENDS TokenRefresh, TLC

CONSTANT assigned1, assigned2, assigned3

AssignedNames == <<assigned1, assigned2, assigned3>>

Symmetry == Permutations(Requests) \cup Permutations(Labels)
=============================================================================
