CONSTANTS
  DataSize = 3
  Header = 1
  MinSpace = 3
  ClientSize = 7
  NumSamplers = 2
  Enabled = {1, 2}
  Deferred = {2}
  Lengths = {2}
  CounterMax = 2
  MaxUnits = 6
  MaxSessions = 2
  MaxPowerDowns = 1
SPECIFICATION Spec
CHECK_DEADLOCK FALSE
INVARIANTS
    SamplesAreConserved
    EmptyBufferEndsAll
PROPERTIES
    FullBuffersAreCopied
    ImplementsSource
