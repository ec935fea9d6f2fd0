\* The daemon, a reconcile command and `tissue cleanup'; two sessions, and a
\* crash, failed call, lost session or lost volume.
SPECIFICATION LiveSpec
CONSTANTS
  Daemon = daemon
  Commands = {command}
  Operators = {operator}
  MaxSessions = 2
  MaxFaults = 1

PROPERTY FreshTurnIsNotWedged
CHECK_DEADLOCK FALSE
