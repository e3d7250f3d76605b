SPECIFICATION Spec
CONSTANTS
  None = None
  Unset = Unset
  Codex = Codex
  Relayed = Relayed
  a = a
  b = b
  r = r
  opus = opus
  haiku = haiku
  m = m
  n = n
  cap = cap
  Assigned <- MCAssigned
  Tiers <- MCTiers
  Models <- MCModels
  Marked = {}
  DefaultTiers <- MCDefaultTiers
  Preferred <- MCPreferred
  Callers = {c1}
  Clients = {t1}
  Sessions = {s1, s2}
  Owners <- MCOwners
  Labels <- MCLabels
  Menu <- MCMenu
  Hidden = {}
  Files <- MCFiles
  Configs <- MCConfigs
  Methods = {"tiers.set", "effort.set", "cross_account_tiers.set", "accounts.rename", "accounts.select", "accounts.forget", "usage.refresh", "login"}
  Values <- MCValues
  Efforts = {cap}
  Persists = {TRUE}
  MaxCalls = 2
SYMMETRY OneOfMany
INVARIANTS TypeOK PersistedIsInForce ServedAsOwed 
 
CHECK_DEADLOCK FALSE
