SPECIFICATION HSpec
CONSTANTS
    t1 = t1
    t2 = t2
    t3 = t3
    p = p
    NoId = NoId
    NoStep = NoStep
    Thread <- OneThread
    Process <- MCProcess
    OwningProcess <- MCOwningProcess
    FirstThread <- MCFirstThread
    NextPC <- Loop
    CodeMode <- LoopMode
    LibraryCode <- NoAddress
    BreakOwner <- AllOwners
    NUMBER_OF_TEMP_BREAKPOINTS = 1
    NUMBER_OF_MAX_BREAKPOINTS = 5
    Suspendable = {}
    Mortal = {}
    StepCount = {1, 3}
    Orderly = TRUE
    CanModify = {FALSE}
    AppendMayFail = FALSE
    MaxBreakId = 2
    MaxSuspend = 1
INVARIANTS
    ReadsSeeTheProgram
    BreaksAreShown
    StopsAreReported
PROPERTIES
    StepStopsAtTarget
    StepEnds
