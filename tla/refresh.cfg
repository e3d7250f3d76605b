\* Two requests, three accounts, one pinned and one anonymous, and an operator who logs in,
\* switches, renames, forgets and clears.
SPECIFICATION Spec
CONSTANTS
  Requests = {r1, r2}
  Owners = {a, b, c}
  Anonymous = {c}
  Labels = {x}
  Pins = {a}
  Providers = {codex}
  MaxTokens = 4
  MaxVerbs = 3
  None = None
  Codex = codex
  Secret = secret
  Serving = Serving
  assigned1 = assigned1
  assigned2 = assigned2
  assigned3 = assigned3
  Assigned <- AssignedNames
SYMMETRY Symmetry
CHECK_DEADLOCK FALSE
INVARIANTS
  TypeOK
  OneEntryPerAccount
PROPERTIES
  RotationLandsHome
  RefreshCollapses
  RefusedNotRetried
