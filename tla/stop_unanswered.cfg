\* Two callers of the control socket, one of whom asks for the stop.
SPECIFICATION Spec
CONSTANTS
  Callers = {c1, c2}
  Cli = cli
  Stoppers = {c1}
  MaxFlows = 1
  MaxStarts = 1
CHECK_DEADLOCK FALSE
PROPERTIES
  StopIsAnswered
