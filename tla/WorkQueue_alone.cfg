\* The daemon alone: three items that may report anything and defer on each other,
\* in circles too, with one crash or failed external call.
SPECIFICATION Spec
CONSTANTS
  a = a  b = b  c = c  i = i  r1 = r1  r2 = r2
  WorkItems = {a, b, c}
  Issues = {}
  Repos = {r1}
  RepoOf <- OneRepo
  Rank <- MCRank
  GlobalLimit = 1
  RepoLimit <- MCRepoLimit
  ClaimWindow = 3
  AutoMerge = {}
  MayConclude <- AnyOutcome
  MayDependOn <- AnyDependency
  Daemon = daemon
  Operators = {}
  Reconcilers = {}
  None = None
  MaxFaults = 1
INVARIANTS NoDependencyCycle DeferredHasActiveRow WorkHasSession
PROPERTIES TerminalIsFinal
CHECK_DEADLOCK FALSE
