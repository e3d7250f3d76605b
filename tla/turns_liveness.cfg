\* Every request ends, under the fairness of the runtime and the network.
SPECIFICATION FairSpec
CONSTANTS
  Turns = {t1, t2}
  Users = {u1}
  Fields = {f1}
  Accounts = {a1}
  None = None
  Http = Http
  Overlap = FALSE
CHECK_DEADLOCK FALSE
PROPERTIES
  EveryTurnEnds
  ImplementsService
