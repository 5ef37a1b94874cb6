\* A command that ends before its output is read.
SPECIFICATION GatewaySpec
CONSTANTS
  Callers = {c1, c2}
  MaxProcesses = 1
  MaxBytes = 2
  PipeSize = 2
  MaxWritten = 3
  MaxCalls = 1
  Forks = FALSE
PROPERTIES
  OverflowIsReported
CHECK_DEADLOCK FALSE
