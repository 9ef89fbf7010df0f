----------------------------- MODULE DebugAgent -----------------------------
(***************************************************************************)
(* DDebugAgent of the run-mode debug driver: the per-attachment event      *)
(* queue (a ring buffer) between the kernel's event hooks and the single   *)
(* outstanding GetEvent request of the debug security server (DSS).        *)
(*                                                                         *)
(* Every operation runs under the channel's protection lock (SendMsg for   *)
(* the DSS side, HandleSpecificEvent for the kernel side), so each handler *)
(* is one atomic action.  The ring buffer is a record, and its operations  *)
(* are operators from records to records, as the .inl functions are.       *)
(***************************************************************************)
EXTENDS Naturals, Sequences

CONSTANTS
    KNumberOfEventsToQueue,   \* slots of the ring buffer (128 in the code)
    KCriticalBufferSize,      \* user traces are refused above it (64)
    Threads,                  \* ids of threads that raise events
    NoThread,                 \* 0 or 0xFFFFFFFF: an event without a thread
    Events                    \* the kernel events that can be notified

N == KNumberOfEventsToQueue

TEventType == {"EEventsBreakPoint", "EEventsSwExc", "EEventsHwExc",
    "EEventsKillThread", "EEventsAddLibrary", "EEventsRemoveLibrary",
    "EEventsBufferFull", "EEventsUnknown", "EEventsUserTrace",
    "EEventsProcessBreakPoint", "EEventsStartThread", "EEventsUserTracesLost",
    "EEventsAddProcess", "EEventsRemoveProcess"}

TKernelEventAction == {"EActionIgnore", "EActionContinue", "EActionSuspend"}

\* The types that only the queue itself writes into slots.
ReservedTypes == {"EEventsUnknown", "EEventsBufferFull", "EEventsUserTracesLost"}

\* TDriverEventInfo as a handler of DRM_DebugChannel fills it in.  The event
\* is about the agent's own process (iProcessId == Id()) or about a target.
TDriverEventInfo ==
    [iEventType   : TEventType \ ReservedTypes,
     iThreadId    : Threads \cup {NoThread},
     iProcessId   : {"agent", "target"},
     iThreadFlags : SUBSET {"Critical", "Permanent"},
     iExitType    : {"EExitKill", "EExitPanic"}]

ASSUME SizeAssumption == /\ KNumberOfEventsToQueue \in Nat \ {0}
                         /\ KCriticalBufferSize \in Nat
ASSUME EventAssumption == Events \subseteq TDriverEventInfo
ASSUME ThreadAssumption == NoThread \notin Threads

VARIABLES
    queue,          \* iEventQueue, iHead, iTail, iFreeSlots, iIgnoringTrace
    iEventActions,  \* what to do with an event of each type
    iEventBalance,  \* GetEvent calls not yet answered
    iClientThread,  \* is the DSS thread known (non-null)?
    iAgentDying,    \* a fatal event of the agent's own process was seen
    suspended,      \* threads that NotifyEvent has suspended
    client          \* the DSS side: iStatus of its request, and iInfo

vars == <<queue, iEventActions, iEventBalance, iClientThread, iAgentDying,
          suspended, client>>

-----------------------------------------------------------------------------
(* The contents of a slot *)

\* TDriverEventInfo::Reset
EmptySlot == [iEventType |-> "EEventsUnknown", iThreadId |-> NoThread,
              iActionTaken |-> "EActionIgnore"]

\* The marker QueueEvent writes when it starts to refuse user traces.
TracesLost == [EmptySlot EXCEPT !.iEventType = "EEventsUserTracesLost"]

\* The marker for the last slot.
BufferFullEvent == [EmptySlot EXCEPT !.iEventType = "EEventsBufferFull"]

\* The copy of the event that is queued, with the action taken.
Queued(e, action) == [iEventType |-> e.iEventType, iThreadId |-> e.iThreadId,
                      iActionTaken |-> action]

Slots == [iEventType : TEventType, iThreadId : Threads \cup {NoThread},
          iActionTaken : TKernelEventAction]

-----------------------------------------------------------------------------
(* The ring buffer: d_debug_agent.inl and QueueEvent *)

BufferEmpty(q) == q.iFreeSlots = N
BufferFull(q) == q.iFreeSlots = 0
BufferCanStoreEvent(q) == q.iFreeSlots > 0

\* free < N - Critical, written without a negative number
BufferAtCriticalLevel(q) == q.iFreeSlots + KCriticalBufferSize < N

NextPosition(i) == (i + 1) % N

\* A slot is written at the head and the head moves on.
Store(q, slot) ==
    [q EXCEPT !.iEventQueue = [@ EXCEPT ![q.iHead] = slot],
              !.iHead = NextPosition(q.iHead),
              !.iFreeSlots = q.iFreeSlots - 1]

\* Mutant: the slot is not reset.
RemoveOldest_NoReset(q) ==
    [q EXCEPT !.iTail = NextPosition(q.iTail),
              !.iFreeSlots = q.iFreeSlots + 1]

\* The slot at the tail is reset and the tail moves on.
RemoveOldest(q) ==
    [q EXCEPT !.iEventQueue = [@ EXCEPT ![q.iTail] = EmptySlot],
              !.iTail = NextPosition(q.iTail),
              !.iFreeSlots = q.iFreeSlots + 1]

\* Mutant: the event before the head is handed out, the newest one.
Oldest_Newest(q) == q.iEventQueue[(q.iHead + N - 1) % N]

Oldest(q) == q.iEventQueue[q.iTail]

\* Mutant: while traces are ignored, so is everything else.
QueueAtCritical_IgnoreAll(q, slot) ==
    IF q.iIgnoringTrace THEN q
    ELSE IF slot.iEventType # "EEventsUserTrace" THEN Store(q, slot)
    ELSE [Store(q, TracesLost) EXCEPT !.iIgnoringTrace = TRUE]

\* Above the critical level the first user trace becomes a marker and the
\* following ones are dropped; other events are stored.
QueueAtCritical(q, slot) ==
    IF slot.iEventType # "EEventsUserTrace" THEN Store(q, slot)
    ELSE IF q.iIgnoringTrace THEN q
    ELSE [Store(q, TracesLost) EXCEPT !.iIgnoringTrace = TRUE]

QueueEvent(q, slot) ==
    IF BufferFull(q) THEN q
    ELSE IF ~BufferAtCriticalLevel(q)
         THEN [Store(q, slot) EXCEPT !.iIgnoringTrace = FALSE]
    ELSE IF BufferCanStoreEvent(q) THEN QueueAtCritical(q, slot)
    ELSE Store(q, BufferFullEvent)
-----------------------------------------------------------------------------
(* Initial state: the constructor and Construct *)

Init ==
    /\ queue = [iEventQueue |-> [i \in 0 .. N - 1 |-> EmptySlot],
                iHead |-> 0, iTail |-> 0, iFreeSlots |-> N,
                iIgnoringTrace |-> FALSE]
    /\ iEventActions = [t \in TEventType |-> "EActionIgnore"]
    /\ iEventBalance = 0
    /\ iClientThread = FALSE
    /\ iAgentDying = FALSE
    /\ suspended = {}
    /\ client = [iStatus |-> "idle", iInfo |-> EmptySlot]

-----------------------------------------------------------------------------
(* Requests of the debug security server *)

\* SetEventAction; a type outside TEventType is refused by the session.
SetEventAction(aEvent, aEventAction) ==
    /\ iEventActions' = [iEventActions EXCEPT ![aEvent] = aEventAction]
    /\ UNCHANGED <<queue, iEventBalance, iClientThread, iAgentDying, suspended,
                   client>>

\* WriteEventToClientThread followed by QueueRequestComplete(KErrNone): only
\* a pending request takes the data and the completion code.
Completed(slot) == IF client.iStatus = "pending"
                      THEN [iStatus |-> "KErrNone", iInfo |-> slot]
                      ELSE client

\* PopulateEventSpecificInfo knows no layout for the other types and returns
\* KErrArgument.
CanWrite(slot) == slot.iEventType \notin {"EEventsUnknown", "EEventsBufferFull"}

\* GetEvent: the request is (re)armed; with a queued event it is answered at
\* once, unless that event cannot be written, which ends the handler early.
GetEvent ==
    /\ client.iStatus = "idle"
    /\ iClientThread' = TRUE
    /\ IF BufferEmpty(queue) \/ ~CanWrite(Oldest(queue))
          THEN /\ client' = [client EXCEPT !.iStatus = "pending"]
               /\ iEventBalance' = iEventBalance + 1
               /\ UNCHANGED queue
          ELSE /\ client' = [iStatus |-> "KErrNone", iInfo |-> Oldest(queue)]
               /\ queue' = RemoveOldest(queue)
               /\ UNCHANGED iEventBalance
    /\ UNCHANGED <<iEventActions, iAgentDying, suspended>>

\* Mutant: the balance survives the cancellation.
CancelGetEvent_KeepBalance ==
    /\ client.iStatus # "idle"
    /\ client' = IF client.iStatus = "pending"
                    THEN [client EXCEPT !.iStatus = "KErrCancel"]
                    ELSE client
    /\ iClientThread' = FALSE
    /\ UNCHANGED <<queue, iEventBalance, iEventActions, iAgentDying, suspended>>

\* CancelGetEvent: the DSS may cancel a request that was just answered.
CancelGetEvent ==
    /\ client.iStatus # "idle"
    /\ client' = IF client.iStatus = "pending"
                    THEN [client EXCEPT !.iStatus = "KErrCancel"]
                    ELSE client
    /\ iEventBalance' = 0
    /\ iClientThread' = FALSE
    /\ UNCHANGED <<queue, iEventActions, iAgentDying, suspended>>

\* The DSS picks up the completion (CSecuritySvrAsync::RunL).
Collect ==
    /\ client.iStatus \in {"KErrNone", "KErrCancel"}
    /\ client' = [client EXCEPT !.iStatus = "idle"]
    /\ UNCHANGED <<queue, iEventActions, iEventBalance, iClientThread,
                   iAgentDying, suspended>>

\* The DSS resumes a thread, whether or not it was told of the suspension.
ResumeThread(t) ==
    /\ t \in suspended
    /\ suspended' = suspended \ {t}
    /\ UNCHANGED <<queue, iEventActions, iEventBalance, iClientThread,
                   iAgentDying, client>>

-----------------------------------------------------------------------------
(* Events of the kernel *)

\* A fatal event of the agent's own process: the agent will not answer again.
Problematic(e) ==
    /\ e.iProcessId = "agent"
    /\ e.iEventType \in {"EEventsSwExc", "EEventsHwExc", "EEventsKillThread"}
    /\ \/ /\ "Critical" \in e.iThreadFlags
          /\ e.iEventType # "EEventsKillThread" \/ e.iExitType # "EExitKill"
       \/ "Permanent" \in e.iThreadFlags

\* Mutant: iAgentDying is read before the event updates it.
ActionFor_Stale(e) ==
    IF iAgentDying /\ iEventActions[e.iEventType] = "EActionSuspend"
       THEN "EActionIgnore" ELSE iEventActions[e.iEventType]

\* The action for the event, once iAgentDying is up to date.
ActionFor(e) ==
    IF iAgentDying' /\ iEventActions[e.iEventType] = "EActionSuspend"
       THEN "EActionIgnore" ELSE iEventActions[e.iEventType]

\* SuspendThread is not called for breakpoints (the exception handler has
\* done so), and fails for an event that names no thread.
Suspends(e, action) ==
    /\ action = "EActionSuspend"
    /\ e.iEventType \notin {"EEventsBreakPoint", "EEventsProcessBreakPoint"}
    /\ e.iThreadId # NoThread

\* A thread that is suspended runs no code and raises no event.
NotifyEvent(e) ==
    /\ e.iThreadId \notin suspended
    /\ iAgentDying' = (iAgentDying \/ Problematic(e))
    /\ UNCHANGED <<iEventActions, iClientThread>>
    /\ \/ /\ ActionFor(e) = "EActionIgnore"
          /\ UNCHANGED <<queue, iEventBalance, suspended, client>>
       \/ /\ ActionFor(e) # "EActionIgnore"
          /\ suspended' = IF Suspends(e, ActionFor(e))
                             THEN suspended \cup {e.iThreadId} ELSE suspended
          /\ LET q == QueueEvent(queue, Queued(e, ActionFor(e)))
             IN  IF iClientThread /\ iEventBalance > 0
                    THEN /\ client' = IF CanWrite(Oldest(q)) THEN Completed(Oldest(q))
                                                             ELSE Completed(client.iInfo)
                         /\ iEventBalance' = iEventBalance - 1
                         /\ queue' = RemoveOldest(q)
                    ELSE /\ queue' = q
                         /\ UNCHANGED <<iEventBalance, client>>

Next ==
    \/ \E e \in Events : NotifyEvent(e)
    \/ GetEvent
    \/ CancelGetEvent
    \/ Collect
    \/ \E t \in Threads : ResumeThread(t)
    \/ \E e \in Events, a \in TKernelEventAction : SetEventAction(e.iEventType, a)

Spec == Init /\ [][Next]_vars

-----------------------------------------------------------------------------
(* Properties *)

\* Every variable keeps the type the class declares for it.
TypeOK ==
    /\ queue \in [iEventQueue : [0 .. N - 1 -> Slots], iHead : 0 .. N - 1,
                  iTail : 0 .. N - 1, iFreeSlots : 0 .. N,
                  iIgnoringTrace : BOOLEAN]
    /\ iEventActions \in [TEventType -> TKernelEventAction]
    /\ iEventBalance \in Nat
    /\ iClientThread \in BOOLEAN
    /\ iAgentDying \in BOOLEAN
    /\ suspended \subseteq Threads
    /\ client \in [iStatus : {"idle", "pending", "KErrNone", "KErrCancel"},
                   iInfo : Slots]

\* How many slots hold an event, and which ones: Used(q) slots from iTail on,
\* wrapping at the end of the array.
Used(q) == N - q.iFreeSlots

Occupied(q, i) == IF q.iTail + Used(q) <= N
                     THEN q.iTail <= i /\ i < q.iTail + Used(q)
                     ELSE q.iTail <= i \/ i + N < q.iTail + Used(q)

\* iHead, iTail and iFreeSlots, three counters that are updated separately,
\* describe the same stretch of the ring.
IndicesAgree ==
    queue.iHead = IF queue.iTail + Used(queue) < N
                     THEN queue.iTail + Used(queue)
                     ELSE queue.iTail + Used(queue) - N

\* A slot carries an event that can be written to the client exactly when it
\* is between the tail and the head: QueueEvent's assertion that the slot at
\* the head is marked empty can never fail, and no event is overwritten.
SlotsMatchIndices ==
    \A i \in 0 .. N - 1 : IF Occupied(queue, i)
                             THEN CanWrite(queue.iEventQueue[i])
                             ELSE queue.iEventQueue[i] = EmptySlot

\* No lost wake-up: while the debug security server waits for an event none
\* is queued, and iEventBalance counts exactly the request that waits, across
\* cancellations, refused events and a full buffer.
WaitsOnlyOnEmptyQueue ==
    /\ iEventBalance = IF client.iStatus = "pending" THEN 1 ELSE 0
    /\ client.iStatus = "pending" => iClientThread /\ BufferEmpty(queue)

\* A request that ended with KErrNone carries a real event: never the empty
\* slot and never data that could not be written.
AnswersCarryAnEvent ==
    client.iStatus = "KErrNone" => CanWrite(client.iInfo)

\* The slots of the ring from the oldest to the newest.
Contents(q) == [k \in 1 .. Used(q) |-> q.iEventQueue[(q.iTail + k - 1) % N]]

\* The event of thread t is on its way to the agent.
Reported(t) ==
    \/ \E k \in 1 .. Used(queue') : Contents(queue')[k].iThreadId = t
    \/ client'.iStatus = "KErrNone" /\ client'.iInfo.iThreadId = t

\* A thread is suspended without its event being queued or delivered only
\* when that event was refused: the buffer was full, or the event was a user
\* trace above the critical level.
SilentSuspensionOnlyWhenRefused ==
    [][\A t \in suspended' \ suspended :
          ~Reported(t) => \/ BufferFull(queue)
                          \/ /\ BufferAtCriticalLevel(queue)
                             /\ \E e \in Events : /\ e.iThreadId = t
                                                  /\ e.iEventType = "EEventsUserTrace"]_vars

\* Once a fatal event of the agent's own process has been seen, that event
\* included, no thread is suspended any more: nobody would resume it.
DyingAgentSuspendsNothing ==
    [][iAgentDying' => suspended' \subseteq suspended]_vars

\* The entries that NotifyEvent can offer to the queue.
Offers == {Queued(e, a) : e \in Events, a \in {"EActionContinue", "EActionSuspend"}}

\* The ring buffer implements the bounded first-in first-out queue.
Fifo == INSTANCE EventFifo WITH
    Capacity <- N,
    Critical <- KCriticalBufferSize,
    Traces   <- {s \in Offers : s.iEventType = "EEventsUserTrace"},
    Others   <- {s \in Offers : s.iEventType # "EEventsUserTrace"},
    Marker   <- TracesLost,
    Nothing  <- EmptySlot,
    fifo     <- Contents(queue),
    status   <- client.iStatus,
    got      <- client.iInfo

\* Events reach the debug security server in the order they were raised, each
\* at most once, and are refused only at the documented levels.
ImplementsFifo == Fifo!Spec

=============================================================================
