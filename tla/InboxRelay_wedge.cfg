\* One event, and a session whose turns are dropped.
SPECIFICATION Spec
CONSTANTS
  home = home
  other = other
  Events = {1}
  IssueOf <- MCIssueOf
  HomeIssue = home
  Outcomes = {"completed"}
  IdleSamples = 2
  MaxNonces = 3
  MaxFaults = 2
PROPERTIES WedgeIsHeld
CHECK_DEADLOCK FALSE
