\* One crash.
SPECIFICATION LiveSpec
CONSTANTS
  Items = {a}
  AutoMerge = {a}
  Daemon = daemon
  Commands = {}
  None = None
  MaxAttempts = 8
  DueWindow = 2
  MaxCommits = 1
  MaxCrashes = 1
  MaxFailures = 0
PROPERTIES NotLeftExecuting
CHECK_DEADLOCK FALSE
