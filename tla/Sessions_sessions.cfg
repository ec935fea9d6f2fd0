\* The daemon, which may be restarted, a reconcile command, which need not be run, and
\* `tissue cleanup'; two sessions, and a crash, failed call, lost session or lost volume.
SPECIFICATION LiveSpec
CONSTANTS
  Daemon = daemon
  Commands = {command}
  Operators = {operator}
  MaxSessions = 2
  MaxFaults = 1
INVARIANTS WorkIsModerated MappedTriageIsPromptable
PROPERTIES CleanedIsGone LeftoversAreCleaned LossIsNoticed
CHECK_DEADLOCK FALSE
