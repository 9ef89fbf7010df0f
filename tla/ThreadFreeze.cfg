CONSTANTS
  Threads = {t1, t2}
  NumAgents = 2
  MaxEvents = 2
  MaxSuspends = 1
SPECIFICATION Spec
CHECK_DEADLOCK FALSE
INVARIANTS
    StopsAreCounted
    StoppedThreadsStay
    FaultsAreRaces
PROPERTIES
    ResumedThreadsRun
