SPECIFICATION Spec
CONSTANTS
  Kernel = 1
  EPlatsecPrintf = 0
  ECpuUsage = 1
  EMetaTrace = 2
  KMaxKernelCategory = 2
  KMaxGroupId = 5
  Granularity = 1
  CacheSize = 2
  MaxTraces = 3
  x1 = x1
  x2 = x2
  Contexts <- MCContexts
  Items <- MCItems
  Scenarios <- MCScenarios
INVARIANT
  CpuEventsAreOff
