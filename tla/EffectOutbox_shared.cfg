\* The daemon and a `tissue reconcile' command execute the effects of one item;
\* one crash, one call that throws, two attempts to a row.
SPECIFICATION Spec
CONSTANTS
  Items = {a}
  AutoMerge = {a}
  Daemon = daemon
  Commands = {command}
  None = None
  MaxAttempts = 2
  DueWindow = 2
  MaxCommits = 2
  MaxCrashes = 1
  MaxFailures = 1
INVARIANTS DoneIsReal PullHasTheTurn
PROPERTIES RefinesPipeline
CHECK_DEADLOCK FALSE
