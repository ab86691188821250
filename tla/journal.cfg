SPECIFICATION Spec
CONSTANTS
  CacheCnt = 4
  JLen = 14
  JBase = 100
  TagsPerBlock = 2
  RevokesPerBlock = 1
  Block = {2, 3, 4}
  Value = {0, 1, 2, 3}
  Roles0 <- MCRoles0
  Workloads <- MCWorkloads
  Admitted = {}
  MaxCrashes = 2
  MaxStops = 1
INVARIANTS RecoverFlagHonest NoLeakedReferences
PROPERTIES ImplementsAtomicStore OnlyCommitsAreDurable
CHECK_DEADLOCK FALSE
