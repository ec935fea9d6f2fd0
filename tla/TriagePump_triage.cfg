\* The daemon, a reconcile command and an operator; two issues, one crash.
SPECIFICATION LiveSpec
CONSTANTS
  Issues = {i1, i2}
  Daemon = daemon
  Commands = {command}
  None = None
  MaxOps = 2
  MaxFaults = 1
INVARIANTS ItemsAreReadyIssues
PROPERTIES DisposedOnce PendingIsSettled
CHECK_DEADLOCK FALSE
