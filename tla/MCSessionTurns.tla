--------------------------- MODULE MCSessionTurns ---------------------------
(* SessionTurns on small instances: symmetric turns and messages.          *)
EXTENDS SessionTurns, TLC

Symmetry == Permutations(Turns) \cup Permutations(Users) \cup Permutations(Accounts)
=============================================================================
