\* Two requests of one source, and an operator.
SPECIFICATION FairSpec
CONSTANTS
  Requests = {r1, r2}
  Owners = {a, b}
  Anonymous = {}
  Labels = {x}
  Pins = {}
  Providers = {codex, anthropic}
  MaxTokens = 3
  MaxVerbs = 2
  None = None
  Codex = codex
  Secret = secret
  Serving = Serving
  assigned1 = assigned1
  assigned2 = assigned2
  assigned3 = assigned3
  Assigned <- AssignedNames
CHECK_DEADLOCK FALSE
PROPERTIES
  EveryRequestEnds
