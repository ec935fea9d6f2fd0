\* Not a run: a change to an issue that is older than those of the list is never
\* read (poll.ts:365: the limit comes before the filter).
SPECIFICATION LiveSpec
CONSTANTS
  Issues = {1, 2}
  Old = {}
  NeedLabel = FALSE
  Worked = 1
  Pulls = {}
  Facts = {}
  ListLimit = 1
  MaxTime = 4
  MaxFaults = 0
PROPERTIES OldIssuesAreReadToo
CHECK_DEADLOCK FALSE
