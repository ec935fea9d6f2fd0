\* Not a run: the loop of the daemon runs no reconcile pass, so
\* an item stays RUNNING on a session that is gone until a restart or a command.
SPECIFICATION LiveSpec
CONSTANTS
  Daemon = daemon
  Commands = {}
  Operators = {}
  MaxSessions = 2
  MaxFaults = 1
PROPERTIES LoopNoticesLoss
CHECK_DEADLOCK FALSE
