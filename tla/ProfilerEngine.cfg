CONSTANTS
  InitialBuffers = 3
  MaxBuffers = 6
  MaxData = 5
  MaxSessions = 2
SPECIFICATION Spec
CHECK_DEADLOCK FALSE
INVARIANTS
    FileIsComplete
    BuffersHaveOneOwner
PROPERTIES
    StopCompletes
