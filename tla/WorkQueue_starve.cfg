\* The daemon alone with an item in each of two repositories, and a restart in between,
\* after which one of them is no longer found ready.
SPECIFICATION LiveSpec
CONSTANTS
  a = a  b = b  c = c  i = i  r1 = r1  r2 = r2
  WorkItems = {a, b}
  Issues = {}
  Repos = {r1, r2}
  RepoOf <- TwoRepos
  Rank <- MCRank
  GlobalLimit = 2
  RepoLimit <- MCRepoLimit
  ClaimWindow = 2
  AutoMerge = {}
  MayConclude <- OnlyCompleted
  MayDependOn <- NoDependencies
  Daemon = daemon
  Operators = {}
  Reconcilers = {}
  None = None
  MaxFaults = 1
PROPERTIES OneRepoStarvesNoOther
CHECK_DEADLOCK FALSE
