\* The daemon alone; one crash or failed call.
SPECIFICATION LiveSpec
CONSTANTS
  a = a  b = b  c = c  i = i  r1 = r1  r2 = r2
  WorkItems = {a, b}
  Issues = {}
  Repos = {r1}
  RepoOf <- OneRepo
  Rank <- MCRank
  GlobalLimit = 1
  RepoLimit <- MCRepoLimit
  ClaimWindow = 2
  AutoMerge = {}
  MayConclude <- OnlyCompleted
  MayDependOn <- NoDependencies
  Daemon = daemon
  Operators = {}
  Reconcilers = {}
  None = None
  MaxFaults = 1
PROPERTIES CrashedClaimFrees
CHECK_DEADLOCK FALSE
