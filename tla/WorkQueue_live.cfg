\* The daemon keeps running, crashes once or sees one call fail; the items may defer
\* on each other or on an issue.
SPECIFICATION LiveSpec
CONSTANTS
  a = a  b = b  c = c  i = i  r1 = r1  r2 = r2
  WorkItems = {a, b}
  Issues = {i}
  Repos = {r1}
  RepoOf <- OneRepo
  Rank <- MCRank
  GlobalLimit = 1
  RepoLimit <- MCRepoLimit
  ClaimWindow = 2
  AutoMerge = {r1}
  MayConclude <- AnyOutcome
  MayDependOn <- AnyDependency
  Daemon = daemon
  Operators = {}
  Reconcilers = {}
  None = None
  MaxFaults = 1
PROPERTIES MergeReachesDependents NoIdleSlot
CHECK_DEADLOCK FALSE
