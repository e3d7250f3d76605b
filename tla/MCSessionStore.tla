--------------------------- MODULE MCSessionStore ---------------------------
(* SessionStore on small instances: symmetric turns and messages.          *)
EXTENDS SessionStore, TLC

Symmetry == Permutations(Turns) \cup Permutations(Users)
=============================================================================
