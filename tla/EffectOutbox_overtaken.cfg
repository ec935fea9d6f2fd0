\* Not a run: a commit between a finished turn and its push, and the push of the
\* branch never verifies as the push of that turn (effects.ts:408-414).
SPECIFICATION LiveSpec
CONSTANTS
  Items = {a}
  AutoMerge = {a}
  Daemon = daemon
  Commands = {}
  None = None
  MaxAttempts = 8
  DueWindow = 3
  MaxCommits = 2
  MaxCrashes = 0
  MaxFailures = 0
PROPERTIES EveryTurnLands
CHECK_DEADLOCK FALSE
