\* Two calls of two fragments, two searches and two deltas, in every order,
\* and what the client makes of them on the next turn.
SPECIFICATION Spec
CONSTANTS
  Calls = {c1, c2}
  Searches = {s1, s2}
  Fragments = 2
  MaxDeltas = 2
  None = None
  Tool = tool
  Deferred = deferred
  Source = source
SYMMETRY Symmetry
CHECK_DEADLOCK FALSE
INVARIANTS
  TypeOK
  ClientCanRead
  CallsAreWhole
  ClosesProperly
  BodyIsWhatAStreamShows
  NextTurnIsADelta
