\* Two requests of one session in flight at once, in every interleaving.
SPECIFICATION Spec
CONSTANTS
  Turns = {t1, t2}
  Users = {u1, u2}
  Fields = {f1}
  Accounts = {a1, a2}
  None = None
  Http = Http
  Overlap = TRUE
SYMMETRY Symmetry
CHECK_DEADLOCK FALSE
INVARIANTS
  OpenHasOneOwner
  AccountIsolation
  FullSendIsFaithful
