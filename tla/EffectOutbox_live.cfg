\* The daemon alone, an auto-merge item and one that only people merge; a commit of
\* each, or two of one, at any time; one call that throws. The window holds every row
\* there can be.
SPECIFICATION LiveSpec
CONSTANTS
  Items = {a, b}
  AutoMerge = {a}
  Daemon = daemon
  Commands = {}
  None = None
  MaxAttempts = 8
  DueWindow = 6
  MaxCommits = 2
  MaxCrashes = 0
  MaxFailures = 1
PROPERTIES TurnsLand MergeIsNoticed
CHECK_DEADLOCK FALSE
