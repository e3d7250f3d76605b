\* One request at a time: retries, refusals, disconnections, broken and failed
\* turns, and fallback between the turns of one conversation.
SPECIFICATION Spec
CONSTANTS
  Turns = {t1, t2, t3}
  Users = {u1}
  Fields = {f1}
  Accounts = {a1}
  None = None
  Http = Http
  Overlap = FALSE
SYMMETRY Symmetry
CHECK_DEADLOCK FALSE
INVARIANTS
  TypeOK
  DeltaOnProducer
  HeardAsAsked
  BaselineIsHeld
PROPERTIES
  ConfirmedMovesOnlyOnClose
