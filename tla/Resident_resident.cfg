\* Two versions of the plugin; two deployments and two starts of OpenCode in any
\* order; one crash, failed pass, late answer, cut-short deployment or lost beacon.
SPECIFICATION LiveSpec
CONSTANTS
  Versions = {v1, v2}
  Ours = v1
  None = None
  MaxTime = 5
  MaxFaults = 1
INVARIANTS GateIsHonest TurnsAreModerated
PROPERTIES PassesRecur RestoredServiceIsUsed ReadinessFollows
CHECK_DEADLOCK FALSE
