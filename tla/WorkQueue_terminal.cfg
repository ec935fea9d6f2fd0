\* One operator beside the daemon; nothing else goes wrong.
SPECIFICATION Spec
CONSTANTS
  a = a  b = b  c = c  i = i  r1 = r1  r2 = r2
  WorkItems = {a, b}
  Issues = {}
  Repos = {r1}
  RepoOf <- OneRepo
  Rank <- MCRank
  GlobalLimit = 1
  RepoLimit <- MCRepoLimit
  ClaimWindow = 2
  AutoMerge = {}
  MayConclude <- OnlyCompleted
  MayDependOn <- NoDependencies
  Daemon = daemon
  Operators = {op}
  Reconcilers = {}
  None = None
  MaxFaults = 0
PROPERTIES TerminalIsFinal
CHECK_DEADLOCK FALSE
