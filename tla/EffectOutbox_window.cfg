\* Not a run: older effects that only wait fill the window of due effects, and
\* a younger one is not reached (repositories.ts:1189).
SPECIFICATION LiveSpec
CONSTANTS
  Items = {a, b}
  AutoMerge = {a}
  Daemon = daemon
  Commands = {}
  None = None
  MaxAttempts = 8
  DueWindow = 2
  MaxCommits = 2
  MaxCrashes = 0
  MaxFailures = 0
PROPERTIES TurnsLand
CHECK_DEADLOCK FALSE
