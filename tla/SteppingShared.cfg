SPECIFICATION Spec
CONSTANTS
    t1 = t1
    t2 = t2
    t3 = t3
    p = p
    NoId = NoId
    Thread <- TwoThreads
    Process <- MCProcess
    OwningProcess <- MCOwningProcess
    FirstThread <- MCFirstThread
    NextPC <- Pair
    CodeMode <- PairMode
    LibraryCode <- Library
    BreakOwner <- AllOwners
    NUMBER_OF_TEMP_BREAKPOINTS = 1
    NUMBER_OF_MAX_BREAKPOINTS = 5
    Suspendable = {t1}
    Mortal = {t2}
    StepCount = {1}
    Orderly = FALSE
    CanModify = {FALSE}
    AppendMayFail = FALSE
    MaxBreakId = 2
    MaxSuspend = 1
CHECK_DEADLOCK FALSE
INVARIANTS
    NoConflictingBreaks
    CodeHasEntries
