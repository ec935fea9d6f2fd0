\* Not a run: the queued item of a full repository fills the window of candidates,
\* and the item behind it, of a free one, is not looked at (queue.ts:130).
SPECIFICATION LiveSpec
CONSTANTS
  a = a  b = b  c = c  i = i  r1 = r1  r2 = r2
  WorkItems = {a, b, c}
  Issues = {}
  Repos = {r1, r2}
  RepoOf <- LastInOther
  Rank <- MCRank
  GlobalLimit = 2
  RepoLimit <- MCRepoLimit
  ClaimWindow = 1
  AutoMerge = {}
  MayConclude <- OnlyCompleted
  MayDependOn <- NoDependencies
  Daemon = daemon
  Operators = {}
  Reconcilers = {}
  None = None
  MaxFaults = 0
PROPERTIES NoIdleSlot
CHECK_DEADLOCK FALSE
