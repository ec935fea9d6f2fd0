\* An issue from before the baseline and a later one with a work item; two pull
\* requests one after the other; the configuration names a label.
SPECIFICATION LiveSpec
CONSTANTS
  Issues = {1, 2}
  Old = {1}
  NeedLabel = TRUE
  Worked = 2
  Pulls = {1, 2}
  Facts = {"red"}
  ListLimit = 2
  MaxTime = 4
  MaxFaults = 0
PROPERTIES EnqueuedIsTriaged
CHECK_DEADLOCK FALSE
