\* Not a run: readings that fail count as attempts, and a merge is noticed no more when
\* they are used up (effects.ts:337).
SPECIFICATION LiveSpec
CONSTANTS
  Items = {a}
  AutoMerge = {}
  Daemon = daemon
  Commands = {}
  None = None
  MaxAttempts = 2
  DueWindow = 3
  MaxCommits = 1
  MaxCrashes = 0
  MaxFailures = 2
PROPERTIES MergeIsNoticed
CHECK_DEADLOCK FALSE
