\* OpenCode may stay away.
SPECIFICATION LiveSpec
CONSTANTS
  Versions = {v1, v2}
  Ours = v1
  None = None
  MaxTime = 2
  MaxFaults = 0

PROPERTY PollsThroughOutage
CHECK_DEADLOCK FALSE
