\* Not a run: the loop of the daemon runs no reconcile pass, so
\* the worktree of an item that is through waits for a restart or a command.
SPECIFICATION LiveSpec
CONSTANTS
  Daemon = daemon
  Commands = {}
  Operators = {}
  MaxSessions = 2
  MaxFaults = 1
PROPERTIES LoopCleansUp
CHECK_DEADLOCK FALSE
