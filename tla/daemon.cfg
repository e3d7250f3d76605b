\* Two callers, one of whom may stop the daemon, and the CLI, two authorizations, a daemon started twice.
SPECIFICATION FairSpec
CONSTANTS
  Callers = {c1, c2}
  Cli = cli
  Stoppers = {c1}
  MaxFlows = 2
  MaxStarts = 2
CHECK_DEADLOCK FALSE
INVARIANTS
  TypeOK
  NamedAsTold
  JoinsTheWaiting
PROPERTIES
  PortComesFree
  AnsweredStopHappens
