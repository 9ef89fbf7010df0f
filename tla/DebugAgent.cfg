CONSTANTS
  KNumberOfEventsToQueue = 2
  KCriticalBufferSize = 0
  NoThread = NoThread
  t1 = t1
  t2 = t2
  a1 = a1
  Threads <- MCThreads
  Events <- MCEvents
SPECIFICATION Spec
INVARIANTS SlotsMatchIndices WaitsOnlyOnEmptyQueue
PROPERTIES SilentSuspensionOnlyWhenRefused ImplementsFifo DyingAgentSuspendsNothing
