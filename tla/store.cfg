\* Requests of several conversations, claims uninterrupted.
SPECIFICATION Spec
CONSTANTS
  Turns = {t1, t2, t3, t4}
  Users = {u1, u2}
  Capacity = 2
  None = None
  Window = FALSE
SYMMETRY Symmetry
CHECK_DEADLOCK FALSE
INVARIANTS
  TypeOK
  FollowUpFindsItsSession
  NoStrangers
PROPERTIES
  EvictsLeastRecentlyUsed
