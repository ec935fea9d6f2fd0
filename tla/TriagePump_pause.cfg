\* The daemon, a reconcile command and an operator; two issues, one crash.
SPECIFICATION Spec
CONSTANTS
  Issues = {i1, i2}
  Daemon = daemon
  Commands = {command}
  None = None
  MaxOps = 2
  MaxFaults = 1
PROPERTIES PausedUntilResumed
CHECK_DEADLOCK FALSE
