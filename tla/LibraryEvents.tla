--------------------------- MODULE LibraryEvents ---------------------------
(***************************************************************************)
(* AnalyzeTool's view of the process under test.  The kernel driver        *)
(* (DAnalyzeToolEventHandler) queues library and thread events and gives   *)
(* them, one per request, to the active object CLibraryEventHandler in the *)
(* process, which keeps the code block table and the thread table of the   *)
(* main allocator (RAnalyzeToolMainAllocator).  Threads begin, load        *)
(* libraries, allocate, uninstall the allocator and die around it.         *)
(***************************************************************************)
EXTENDS Integers, Sequences, FiniteSets, SequencesExt

CONSTANTS
    Threads,     \* threads of the process under test
    Main,        \* its main thread, which installs the main allocator
    Schedulers,  \* those that install a CActiveScheduler
    Libs,        \* names of the libraries the process loads
    Foreign,     \* names of the libraries other processes load, the same or others
    MaxEvents,   \* bound: library events
    None

ASSUME EventsAssumption ==
    /\ IsFiniteSet(Threads) /\ Main \in Threads /\ Schedulers \subseteq Threads
    /\ None \notin Threads /\ MaxEvents \in Nat

VARIABLES
    iEventArray,    \* driver: events that no request has taken
    iClientThread,  \* driver: client of the pending request, or None
    dfc,            \* driver: iEventDfc is queued
    open,           \* driver: the channel is open
    iStatus,        \* handler: its request is none, pending, done or cancelled
    iLibraryInfo,   \* handler: the event that completed its request
    isActive,       \* handler: CActive::IsActive
    iStarted,       \* handler
    scheduler,      \* handler: thread whose scheduler it was added to, or None
    iCodeblocks,    \* allocator: libraries whose addresses go into call stacks
    iThreadArray,   \* allocator: threads that use it
    iMutex,         \* allocator: thread that waits while it holds the mutex
    deleted,        \* allocator: it has been deleted
    thread,         \* per thread: where it is
    heap,           \* per thread: the allocator it uses
    loaded,         \* libraries that the process has loaded
    events,         \* number of library events so far
    strayed,        \* history: of loaded, the names another process has unloaded since
    lost,           \* history: an event was dropped because memory ran out
    faults          \* history: threads that used the deleted allocator

driver    == <<iEventArray, iClientThread, dfc, open>>
handler   == <<iStatus, iLibraryInfo, isActive, iStarted, scheduler>>
allocator == <<iCodeblocks, iThreadArray, iMutex, deleted>>
process   == <<thread, heap>>
system    == <<loaded, events, strayed>>
history   == <<lost, faults>>
vars == <<driver, handler, allocator, process, system, history>>

KThreadCount == 1

\* "asked", "closing", "deleting" and "waiting" are inside Uninstall, "restarting"
\* is in the Cancel of Start; "left" is outside the hook on its way to the end.
Places == {"new", "created", "running", "asked", "closing", "deleting", "waiting",
           "restarting", "left", "ended"}

Event(type, what, proc) == [type |-> type, what |-> what, proc |-> proc]
Events == [type: {"added", "removed"}, what: Libs \cup Foreign, proc: {"own", "other"}]
              \cup [type: {"killed"}, what: Threads, proc: {"own"}]
NoEvent == Event("none", None, "own")

Alive == {t \in Threads : thread[t] \notin {"new", "ended"}}
Alone == Cardinality(Alive) = 1

\* The allocator's destructor has begun, or is certain to.
Doomed == deleted \/ \E t \in Threads : thread[t] \in {"deleting", "waiting"}

Init ==
    /\ iEventArray = <<>> /\ iClientThread = None /\ dfc = FALSE /\ open = TRUE
    /\ iStatus = "none" /\ iLibraryInfo = NoEvent /\ isActive = FALSE /\ iStarted = FALSE
    /\ scheduler = None
    /\ iCodeblocks = <<>> /\ iThreadArray = <<Main>> /\ iMutex = None /\ deleted = FALSE
    /\ thread = [t \in Threads |-> IF t = Main THEN "running" ELSE "new"]
    /\ heap = [t \in Threads |-> IF t = Main THEN "shared" ELSE "none"]
    /\ loaded = {} /\ events = 0 /\ strayed = {} /\ lost = FALSE /\ faults = {}

-----------------------------------------------------------------------------
(* The driver.                                                             *)

\* An event joins the queue, a killed thread before everything else; when there
\* is no memory it is lost without notice.  A waiting client gets a DFC.
QueueEvent(e) ==
    /\ \/ /\ iEventArray' = IF e.type = "killed" THEN <<e>> \o iEventArray
                                                 ELSE Append(iEventArray, e)
          /\ UNCHANGED lost
       \/ /\ UNCHANGED iEventArray
          /\ lost' = TRUE
    /\ dfc' = (dfc \/ iClientThread # None)
    /\ UNCHANGED <<iClientThread, open>>

\* HandleLibraryEvent: loads count in the observed process only, unloads anywhere.
HandleLibraryEvent(e) ==
    IF open /\ (e.type = "removed" \/ e.proc = "own")
      THEN QueueEvent(e)
      ELSE UNCHANGED <<driver, lost>>

\* Mutant: nothing is queued while nobody has subscribed.
HandleKillThreadEventLive(t) ==
    IF open /\ ~Alone /\ iClientThread # None
      THEN QueueEvent(Event("killed", t, "own"))
      ELSE UNCHANGED <<driver, lost>>

\* HandleKillThreadEvent, before thread t is taken off the process.
HandleKillThreadEvent(t) ==
    IF open /\ ~Alone THEN QueueEvent(Event("killed", t, "own"))
                      ELSE UNCHANGED <<driver, lost>>

\* DoEventComplete, run by the DFC: the first event completes the request.
EventDfc ==
    /\ dfc
    /\ dfc' = FALSE
    /\ IF iClientThread # None /\ iEventArray # <<>>
         THEN /\ iLibraryInfo' = Head(iEventArray)
              /\ iStatus' = "done"
              /\ iEventArray' = Tail(iEventArray)
              /\ iClientThread' = None
         ELSE UNCHANGED <<iLibraryInfo, iStatus, iEventArray, iClientThread>>
    /\ UNCHANGED <<open, isActive, iStarted, scheduler, allocator, process,
                   system, history>>

\* Mutant: the events that are queued already are left to the next one.
InformLibraryEventLazy(t) ==
    /\ iClientThread' = t
    /\ iStatus' = "pending"
    /\ UNCHANGED <<iEventArray, dfc, open>>

\* InformLibraryEvent for thread t; a second subscription panics the client, which
\* RequestsMeetEvents excludes.
InformLibraryEvent(t) ==
    /\ iClientThread' = t
    /\ iStatus' = "pending"
    /\ dfc' = TRUE
    /\ UNCHANGED <<iEventArray, open>>

\* CancelInformLibraryEvent: it completes the request only if events are queued.
CancelInformLibraryEvent ==
    /\ dfc' = FALSE
    /\ IF iClientThread # None /\ iEventArray # <<>>
         THEN /\ iStatus' = "cancelled"
              /\ iClientThread' = None
              /\ iEventArray' = <<>>
         ELSE UNCHANGED <<iStatus, iClientThread, iEventArray>>

-----------------------------------------------------------------------------
(* Libraries and threads.                                                  *)

AddLibrary(l, proc) ==
    /\ events < MaxEvents
    /\ events' = events + 1
    /\ \/ proc = "own" /\ l \in Libs \ loaded /\ Alive # {}
          /\ loaded' = loaded \cup {l}
       \/ proc = "other" /\ l \in Foreign /\ UNCHANGED loaded
    /\ HandleLibraryEvent(Event("added", l, proc))
    /\ UNCHANGED <<strayed, handler, allocator, process, faults>>

RemoveLibrary(l, proc) ==
    /\ events < MaxEvents
    /\ events' = events + 1
    /\ \/ proc = "own" /\ l \in loaded /\ Alive # {}
          /\ loaded' = loaded \ {l} /\ strayed' = strayed \ {l}
       \/ proc = "other" /\ l \in Foreign /\ UNCHANGED loaded
          /\ strayed' = strayed \cup ({l} \cap loaded)
    /\ HandleLibraryEvent(Event("removed", l, proc))
    /\ UNCHANGED <<handler, allocator, process, faults>>

\* The end of thread t, on its own or killed; with the main thread the process
\* ends, and its handles with it.
End(t) ==
    /\ thread[t] \in {"running", "left"}
    /\ IF t = Main
         THEN /\ thread' = [u \in Threads |-> "ended"]
              /\ open' = FALSE /\ dfc' = FALSE
              /\ UNCHANGED <<iEventArray, iClientThread, lost>>
         ELSE /\ thread' = [thread EXCEPT ![t] = "ended"]
              /\ HandleKillThreadEvent(t)
    /\ UNCHANGED <<handler, allocator, heap, system, faults>>

\* A thread that touches the allocator after its destructor ends in a fault.
Fault(t) ==
    /\ faults' = faults \cup {t}
    /\ thread' = [thread EXCEPT ![t] = "ended"]
    /\ UNCHANGED <<driver, handler, allocator, system, lost>>

\* RThread::Create, by a thread that runs.
Create(t) ==
    /\ thread[t] = "new" /\ \E u \in Threads : thread[u] = "running"
    /\ thread' = [thread EXCEPT ![t] = "created"]
    /\ UNCHANGED <<driver, handler, allocator, heap, system, history>>

\* SetupThreadHeap in a new thread with the main allocator (ShareHeap, Open).
ShareHeap(t) ==
    /\ thread[t] = "created"
    /\ IF deleted
         THEN heap' = [heap EXCEPT ![t] = "late"] /\ Fault(t)
         ELSE /\ iMutex = None
              /\ iThreadArray' = Append(iThreadArray, t)
              /\ heap' = [heap EXCEPT ![t] = IF Doomed THEN "late" ELSE "shared"]
              /\ thread' = [thread EXCEPT ![t] = "running"]
              /\ UNCHANGED <<driver, handler, iCodeblocks, iMutex, deleted,
                             system, history>>

\* SetupThreadHeap in a new thread with a heap of its own: an RAnalyzeToolAllocator
\* that refers to the mutex, the code blocks and the log of the main allocator.
InstallAllocator(t) ==
    /\ thread[t] = "created"
    /\ heap' = [heap EXCEPT ![t] = "own"]
    /\ IF deleted THEN Fault(t)
                  ELSE /\ thread' = [thread EXCEPT ![t] = "running"]
                       /\ UNCHANGED <<driver, handler, allocator, system, history>>

-----------------------------------------------------------------------------
(* The allocator and its event handler in the process.                     *)

\* CLibraryEventHandler::Start for thread t, once it is not active: it joins the
\* scheduler of the first thread that starts it and stays with it.
Subscribe(t) ==
    /\ scheduler' = IF scheduler = None THEN t ELSE scheduler
    /\ isActive' = TRUE
    /\ iStarted' = TRUE
    /\ InformLibraryEvent(t)

\* CActive::Cancel of an active handler up to the wait for the request: DoCancel.
DoCancel ==
    /\ iStarted' = FALSE
    /\ CancelInformLibraryEvent
    /\ UNCHANGED <<open, iLibraryInfo, isActive, scheduler>>

\* User::WaitForRequest returns in the thread whose request was completed only.
WaitReturns(t) == iStatus \in {"done", "cancelled"} /\ t = scheduler

\* Alloc, where it matters to this module: it starts the handler when that is
\* not started and the thread has a scheduler.
Alloc(t) ==
    /\ thread[t] = "running" /\ ~deleted /\ iMutex = None
    /\ heap[t] # "own" /\ ~iStarted /\ t \in Schedulers
    /\ \/ /\ ~isActive
          /\ Subscribe(t)
          /\ UNCHANGED <<iLibraryInfo, iMutex, thread>>
       \/ /\ isActive
          /\ DoCancel
          /\ iMutex' = t
          /\ thread' = [thread EXCEPT ![t] = "restarting"]
    /\ UNCHANGED <<iCodeblocks, iThreadArray, deleted, heap, system, history>>

\* Any use of the allocator, or of what it lent to the other allocators, after
\* it has been deleted.
UseDeleted(t) ==
    /\ thread[t] \in {"running", "asked", "closing"} /\ deleted
    /\ Fault(t) /\ UNCHANGED heap

SchedulerRuns == scheduler # None /\ thread[scheduler] = "running"

\* Mutant: the subscription is not renewed.
RunLOnce ==
    /\ SchedulerRuns
    /\ isActive /\ iStatus = "done" /\ iMutex = None
    /\ isActive' = FALSE
    /\ iCodeblocks' = IF iLibraryInfo.type = "added"
                        THEN Append(iCodeblocks, iLibraryInfo.what) ELSE iCodeblocks
    /\ UNCHANGED <<driver, iStatus, iLibraryInfo, iStarted, scheduler, iThreadArray,
                   iMutex, deleted, process, system, history>>

\* RunL of a completed request, in the scheduler loop of its thread.
RunL ==
    /\ SchedulerRuns
    /\ isActive /\ iStatus = "done" /\ iMutex = None
    /\ LET e == iLibraryInfo
       IN \/ /\ e.type = "added"
             /\ iCodeblocks' = IF e.proc = "own" THEN Append(iCodeblocks, e.what)
                                                 ELSE iCodeblocks
             /\ UNCHANGED iThreadArray
          \/ /\ e.type = "removed"
             /\ iCodeblocks' = RemoveFirst(iCodeblocks, e.what)
             /\ UNCHANGED iThreadArray
          \/ /\ e.type = "killed"
             /\ iThreadArray' = RemoveFirst(iThreadArray, e.what)
             /\ UNCHANGED iCodeblocks
    /\ Subscribe(scheduler)
    /\ UNCHANGED <<iLibraryInfo, iMutex, deleted, process, system, history>>

\* RunL of a cancelled request, left by a Cancel in another thread: nothing more.
RunLError ==
    /\ SchedulerRuns
    /\ isActive /\ iStatus = "cancelled"
    /\ isActive' = FALSE
    /\ UNCHANGED <<driver, iStatus, iLibraryInfo, iStarted, scheduler, allocator,
                   process, system, history>>

\* The rest of a Start that had to cancel first.
Restart(t) ==
    /\ thread[t] = "restarting" /\ WaitReturns(t)
    /\ Subscribe(t)
    /\ iMutex' = None
    /\ thread' = [thread EXCEPT ![t] = "running"]
    /\ UNCHANGED <<iLibraryInfo, iCodeblocks, iThreadArray, deleted, heap, system, history>>

\* Uninstall: the driver says whether the thread is alone in its process ...
Uninstall(t) ==
    /\ thread[t] = "running" /\ ~deleted /\ iMutex = None
    /\ thread' = [thread EXCEPT ![t] = IF heap[t] = "own" THEN "left"
                                       ELSE IF Alone THEN "deleting" ELSE "asked"]
    /\ UNCHANGED <<driver, handler, allocator, heap, system, history>>

\* ... and then counts the users, after the mutex has been released.
CountUsers(t) ==
    /\ thread[t] = "asked" /\ ~deleted
    /\ thread' = [thread EXCEPT ![t] = IF Len(iThreadArray) > KThreadCount
                                         THEN "closing" ELSE "deleting"]
    /\ UNCHANGED <<driver, handler, allocator, heap, system, history>>

\* Mutant: the first entry is removed, whoever it belongs to.
CloseFirst(t) ==
    /\ thread[t] = "closing" /\ ~deleted /\ iMutex = None
    /\ iThreadArray' = Tail(iThreadArray)
    /\ thread' = [thread EXCEPT ![t] = "left"]
    /\ UNCHANGED <<driver, handler, iCodeblocks, iMutex, deleted, heap, system, history>>

\* Close: the thread gives up its share.
Close(t) ==
    /\ thread[t] = "closing" /\ ~deleted /\ iMutex = None
    /\ iThreadArray' = RemoveFirst(iThreadArray, t)
    /\ thread' = [thread EXCEPT ![t] = "left"]
    /\ UNCHANGED <<driver, handler, iCodeblocks, iMutex, deleted, heap, system, history>>

\* The destructor closes the code blocks and cancels the handler if it is active.
CancelHandler(t) ==
    /\ thread[t] = "deleting" /\ ~deleted /\ isActive
    /\ iCodeblocks' = <<>>
    /\ DoCancel
    /\ thread' = [thread EXCEPT ![t] = "waiting"]
    /\ UNCHANGED <<iThreadArray, iMutex, deleted, heap, system, history>>

\* The rest of it: the handler goes, the channel is closed, the tables are freed.
Destroy(t) ==
    /\ ~deleted
    /\ \/ thread[t] = "deleting" /\ ~isActive
       \/ thread[t] = "waiting" /\ WaitReturns(t)
    /\ isActive' = FALSE /\ iStatus' = "none"
    /\ iCodeblocks' = <<>> /\ iThreadArray' = <<>>
    /\ open' = FALSE /\ dfc' = FALSE /\ deleted' = TRUE
    /\ thread' = [thread EXCEPT ![t] = "left"]
    /\ UNCHANGED <<iEventArray, iClientThread, iLibraryInfo, iStarted, scheduler,
                   iMutex, heap, system, history>>

Next ==
    \/ EventDfc
    \/ \E l \in Libs \cup Foreign, p \in {"own", "other"} :
          AddLibrary(l, p) \/ RemoveLibrary(l, p)
    \/ RunL \/ RunLError
    \/ \E t \in Threads :
          \/ Create(t) \/ End(t) \/ ShareHeap(t) \/ InstallAllocator(t) \/ Alloc(t)
          \/ Restart(t) \/ UseDeleted(t)
          \/ Uninstall(t) \/ CountUsers(t) \/ Close(t) \/ CancelHandler(t) \/ Destroy(t)

\* The kernel runs its DFC thread, and a scheduler the handlers of completed
\* requests.  Nothing obliges a thread to load a library or to end.
Fairness ==
    /\ WF_vars(EventDfc)
    /\ WF_vars(RunL)
    /\ WF_vars(RunLError)
    /\ \A t \in Threads : WF_vars(Destroy(t))

Spec == Init /\ [][Next]_vars /\ Fairness

-----------------------------------------------------------------------------
(* Properties.                                                             *)

\* The driver's idea of a pending request and the handler's agree, so that no
\* subscription meets another one and panics the client with EPanicRequestPending.
\* And no wake-up is lost: while a request and an event are both there, the DFC
\* that brings them together is queued, whichever of them came first.
RequestsMeetEvents ==
    /\ iStatus = "pending" => isActive
    /\ Main \in Alive => ((iClientThread # None) <=> (iStatus = "pending"))
    /\ open /\ iClientThread # None /\ iEventArray # <<>> => dfc

\* What the handler will have done once it has worked off the queue.
Pending == (IF iStatus = "done" THEN <<iLibraryInfo>> ELSE <<>>) \o iEventArray
Replay(blocks, e) ==
    CASE e.type = "added" -> IF e.proc = "own" THEN Append(blocks, e.what) ELSE blocks
      [] e.type = "removed" -> RemoveFirst(blocks, e.what)
      [] OTHER -> blocks
CodeblocksAfter(blocks, s) ==
    LET after[n \in 0 .. Len(s)] == IF n = 0 THEN blocks ELSE Replay(after[n - 1], s[n])
    IN  after[Len(s)]

\* The libraries that the code blocks stand for.  RunL removes a block by name and
\* does not look at the process, so a library stays without its block after another
\* process unloaded one of its name, until it is loaded again.
Ours == loaded \ strayed

\* The tables lag behind the process and never go astray: with the events that are
\* still on their way there is one code block for each loaded library, except for
\* exactly those whose name another process has unloaded since, and none of a
\* library that is gone; and a thread that died without Uninstall leaves the thread
\* table.  Unless an event was lost or the allocator is being removed.
TablesCatchUp ==
    ~lost /\ ~Doomed /\ open =>
        LET blocks == CodeblocksAfter(iCodeblocks, Pending)
        IN  /\ ToSet(blocks) = Ours /\ Len(blocks) = Cardinality(Ours)
            /\ \A t \in ToSet(iThreadArray) : thread[t] = "ended" =>
                 Event("killed", t, "own") \in ToSet(Pending)

\* The thread table, which decides in Uninstall whether the allocator is deleted,
\* holds every thread that uses it, once; so only threads that it cannot know of
\* use the allocator after its end: those with a heap of their own, and those
\* that join when the destructor is certain.
AllocatorOutlivesUsers ==
    /\ Cardinality(ToSet(iThreadArray)) = Len(iThreadArray)
    /\ ~deleted => \A t \in Alive : thread[t] # "left" /\ heap[t] \in {"shared", "late"}
                        => t \in ToSet(iThreadArray)
    /\ \A t \in faults : heap[t] \in {"own", "late"}

\* Queued events reach the tables as long as the thread of the handler runs.
EventsAreHandled ==
    (isActive /\ iEventArray # <<>>)
        ~> (iEventArray = <<>> \/ ~SchedulerRuns \/ Doomed)
=============================================================================
