\* Two turns.
SPECIFICATION Spec
CONSTANTS
  Items = {a}
  AutoMerge = {a}
  Daemon = daemon
  Commands = {}
  None = None
  MaxAttempts = 8
  DueWindow = 2
  MaxCommits = 2
  MaxCrashes = 0
  MaxFailures = 0
INVARIANTS EveryTurnHasItsIntent
CHECK_DEADLOCK FALSE
