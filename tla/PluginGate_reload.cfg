\* Starts of OpenCode and deployments without a fault.
SPECIFICATION GateSpec
CONSTANTS
  Versions = {v1, v2}
  Ours = v1
  None = None
  MaxTime = 3
  MaxFaults = 0
INVARIANT StartOpensTheGate
CHECK_DEADLOCK FALSE
