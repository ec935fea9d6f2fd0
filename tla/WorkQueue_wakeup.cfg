\* The daemon alone; b may defer on a at any time.
SPECIFICATION Spec
CONSTANTS
  a = a  b = b  c = c  i = i  r1 = r1  r2 = r2
  WorkItems = {a, b}
  Issues = {}
  Repos = {r1}
  RepoOf <- OneRepo
  Rank <- MCRank
  GlobalLimit = 1
  RepoLimit <- MCRepoLimit
  ClaimWindow = 2
  AutoMerge = {}
  MayConclude <- OnlyCompleted
  MayDependOn <- OnlyBOnA
  Daemon = daemon
  Operators = {}
  Reconcilers = {}
  None = None
  MaxFaults = 0
INVARIANTS WaitsForTheFuture
CHECK_DEADLOCK FALSE
