\* An issue from before the baseline and two later ones, one with a work item, of
\* which a list has the two newest; two pull requests one after the other; one failed
\* poll; the configuration names a label.
SPECIFICATION LiveSpec
CONSTANTS
  Issues = {1, 2, 3}
  Old = {1}
  NeedLabel = TRUE
  Worked = 2
  Pulls = {1, 2}
  Facts = {"red"}
  ListLimit = 2
  MaxTime = 4
  MaxFaults = 1
INVARIANTS StoredIsReported AttachedIsAddressed ReportedOnce
PROPERTIES HousekeptStaysOut QuietChangeIsStored
CHECK_DEADLOCK FALSE
