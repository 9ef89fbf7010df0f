SPECIFICATION Spec
CONSTANTS
    None = None
    Threads = {main, t2, t3}
    Main = main
    Schedulers = {main, t2}
    Libs = {la}
    Foreign = {la}
    MaxEvents = 3
CHECK_DEADLOCK FALSE
INVARIANTS
    RequestsMeetEvents
    TablesCatchUp
    AllocatorOutlivesUsers
PROPERTIES
    EventsAreHandled
