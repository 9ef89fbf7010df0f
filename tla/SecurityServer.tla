--------------------------- MODULE SecurityServer ---------------------------
(***************************************************************************)
(* The debug security server (DSS): CSecuritySvrServer, its sessions       *)
(* (CSecuritySvrSession), one active object per attachment                 *)
(* (CSecuritySvrAsync) that holds the client's GetEvent message while the  *)
(* driver looks for an event, and the shutdown timer; composed with the    *)
(* driver's ProcessTracker and with the kernel that raises events.         *)
(*                                                                         *)
(* The DSS is one thread: each message handler and each RunL is one action *)
(* and its driver calls are synchronous; the end of a session is one       *)
(* action for each handler that it destroys and one for the rest.  The     *)
(* kernel's events, the timer and the clients interleave with them.  A     *)
(* message that is answered at once with an error and changes nothing is   *)
(* not a step.                                                             *)
(***************************************************************************)
EXTENDS ProcessTracker, FiniteSets

CONSTANTS
    Sessions,         \* RSecuritySvrSession connections of debug agents
    AgentOf,          \* session |-> process id of its debug agent
    AllTokenAgents,   \* agents whose OEM token permits AttachAll
    Handlers,         \* bound: CSecuritySvrAsync objects that can be allocated
    Messages,         \* GetEvent messages of the clients
    NoMessage,
    Failures          \* where an attach may run out of memory, or "none"

ASSUME SessionAssumption == Sessions = DOMAIN AgentOf /\ IsFiniteSet(Sessions)
ASSUME NameAssumption == Star \in Names /\ \A n \in Names : Exe[n] = Star <=> n = Star
ASSUME NothingAssumption == NoHandler \notin Handlers /\ NoMessage \notin Messages
ASSUME FailureAssumption == Failures \subseteq {"none", "driver", "agent", "handler", "insert"}

VARIABLES
    server,             \* what the server's thread is doing
    iActiveDebugMap,    \* pairs (executable, agent) that may control it
    iPassiveDebugMap,   \* pairs (executable, agent) that may only look
    iSessionCount,
    iShutdown,          \* the shutdown timer: idle, running or expired
    open,               \* the sessions that are connected
    closing,            \* the session, alone in a set, whose destructor runs
    iAsyncHandlers,     \* session |-> its handlers, newest first
    handler,            \* the handlers themselves
    message,            \* is a client still waiting for the answer?
    tracker             \* the driver's ProcessTracker

vars == <<server, iActiveDebugMap, iPassiveDebugMap, iSessionCount, iShutdown,
          open, closing, iAsyncHandlers, handler, message, tracker>>

\* The server's thread is back in the active scheduler.
Ready == server = "running" /\ closing = {}

Pair(name, agent) == [exe |-> Exe[name], agent |-> agent]

FreeHandler == [iProcessName |-> Star, iAgentId |-> NoHandler, active |-> FALSE,
                iStatus |-> "KErrNone", iMessage |-> NoMessage, used |-> FALSE]

Init ==
    /\ server = "running"
    /\ iActiveDebugMap = {}
    /\ iPassiveDebugMap = {}
    /\ iSessionCount = 0
    /\ iShutdown = "running"
    /\ open = {}
    /\ closing = {}
    /\ iAsyncHandlers = [s \in Sessions |-> <<>>]
    /\ handler = [h \in Handlers |-> FreeHandler]
    /\ message = [m \in Messages |-> "free"]
    /\ tracker = EmptyTracker

-----------------------------------------------------------------------------
(* CSecuritySvrAsync *)

\* The part of the state that the active objects work on.
Here == [server |-> server, handler |-> handler, message |-> message,
         tracker |-> tracker]

\* RMessage2::Complete panics the server when the message was completed before.
Complete(st, m) ==
    IF m # NoMessage /\ st.message[m] = "outstanding"
       THEN [st EXCEPT !.message[m] = "free"]
       ELSE [st EXCEPT !.server = "panicked"]

\* DRM_DebugChannel::DoCancel: the driver completes the request that waits at
\* the agent it finds for the handler's name and id.  It does nothing when it
\* finds none.
DriverCancel(st, h) ==
    LET name == st.handler[h].iProcessName
        id   == st.handler[h].iAgentId
    IN  IF ~HasAgent(st.tracker, name, id) THEN st
        ELSE LET a == FindAgentForProcessAndId(st.tracker, name, id)
                 w == a.iRequestGetEventStatus
             IN  [st EXCEPT
                    !.tracker = WithAgent(@, name, id,
                                  [a EXCEPT !.iRequestGetEventStatus = NoHandler]),
                    !.handler = IF w = NoHandler THEN @
                                ELSE [@ EXCEPT ![w].iStatus = "KErrCancel"]]

\* Mutant: DoCancel forgets the client's message.
Cancel_Silent(st, h) ==
    IF st.server # "running" \/ ~st.handler[h].active THEN st
    ELSE LET done == DriverCancel(st, h)
         IN  IF done.handler[h].iStatus = "pending"
                THEN [done EXCEPT !.server = "blocked"]
                ELSE [done EXCEPT !.handler[h] =
                         [@ EXCEPT !.active = FALSE, !.iMessage = NoMessage]]

\* CActive::Cancel: DoCancel, then a wait for iStatus that never ends when
\* the request is not completed.
Cancel(st, h) ==
    IF st.server # "running" \/ ~st.handler[h].active THEN st
    ELSE LET done == Complete(DriverCancel(st, h), st.handler[h].iMessage)
         IN  IF done.server # "running" THEN done
             ELSE IF done.handler[h].iStatus = "pending"
                  THEN [done EXCEPT !.server = "blocked"]
             ELSE [done EXCEPT !.handler[h] =
                      [@ EXCEPT !.active = FALSE, !.iMessage = NoMessage]]

\* The destructor cancels and the object is gone.
Destroy(st, h) ==
    LET c == Cancel(st, h)
    IN  IF c.server # "running" THEN c ELSE [c EXCEPT !.handler[h] = FreeHandler]

\* The state becomes st.
Become(st) == /\ server' = st.server
              /\ handler' = st.handler
              /\ message' = st.message
              /\ tracker' = st.tracker

\* RunL, and RunError when RunL leaves: the message is completed once.
RunL(h) ==
    /\ Ready
    /\ handler[h].active
    /\ handler[h].iStatus # "pending"
    /\ LET st == Complete(Here, handler[h].iMessage)
       IN  Become([st EXCEPT !.handler[h] = [@ EXCEPT !.active = FALSE,
                                                      !.iMessage = NoMessage]])
    /\ UNCHANGED <<iActiveDebugMap, iPassiveDebugMap, iSessionCount, iShutdown,
                   open, closing, iAsyncHandlers>>

\* The handler of session s for this very spelling of the name.
HandlerFor(s, name) ==
    SelectInSeq(iAsyncHandlers[s], LAMBDA h : handler[h].iProcessName = name)

IsActiveDebugger(name, agent) ==
    Pair(name, agent) \in iActiveDebugMap \/ Pair(Star, agent) \in iActiveDebugMap

\* Session s may ask for events of that name and has a handler to do it with.
MayAsk(s, name) ==
    /\ Ready
    /\ s \in open
    /\ IsActiveDebugger(name, AgentOf[s])
    /\ HandlerFor(s, name) # 0

\* GetEventL and DRM_DebugChannel::DoRequest.  A handler that is active
\* answers KErrInUse.
GetEvent(s, name, m) ==
    /\ MayAsk(s, name)
    /\ message[m] = "free"
    /\ LET h == iAsyncHandlers[s][HandlerFor(s, name)]
           id == handler[h].iAgentId
           found == HasAgent(tracker, name, id)
           a == FindAgentForProcessAndId(tracker, name, id)
           asked(status) == [handler EXCEPT ![h] =
               [@ EXCEPT !.active = TRUE, !.iStatus = status, !.iMessage = m]]
       IN  /\ ~handler[h].active
           /\ \/ /\ ~found
                 /\ handler' = asked("KErrNotFound")
                 /\ UNCHANGED tracker
              \/ /\ found /\ a.queued > 0
                 /\ handler' = asked("KErrNone")
                 /\ tracker' = WithAgent(tracker, name, id,
                                         [a EXCEPT !.queued = @ - 1])
              \/ /\ found /\ a.queued = 0
                 /\ handler' = asked("pending")
                 /\ tracker' = WithAgent(tracker, name, id,
                                         [a EXCEPT !.iRequestGetEventStatus = h])
    /\ message' = [message EXCEPT ![m] = "outstanding"]
    /\ UNCHANGED <<server, iActiveDebugMap, iPassiveDebugMap, iSessionCount,
                   iShutdown, open, closing, iAsyncHandlers>>

\* CancelGetEventL
CancelGetEvent(s, name) ==
    /\ MayAsk(s, name)
    /\ Become(Cancel(Here, iAsyncHandlers[s][HandlerFor(s, name)]))
    /\ UNCHANGED <<iActiveDebugMap, iPassiveDebugMap, iSessionCount, iShutdown,
                   open, closing, iAsyncHandlers>>

\* SetEventActionL: the agent wants to hear of events, or no longer does.
SetEventAction(s, name, listen) ==
    /\ Ready
    /\ s \in open
    /\ IsActiveDebugger(name, AgentOf[s])
    /\ HasAgent(tracker, name, AgentOf[s])
    /\ LET a == FindAgentForProcessAndId(tracker, name, AgentOf[s])
       IN  tracker' = WithAgent(tracker, name, AgentOf[s],
                                [a EXCEPT !.listening = listen])
    /\ UNCHANGED <<server, iActiveDebugMap, iPassiveDebugMap, iSessionCount,
                   iShutdown, open, closing, iAsyncHandlers, handler, message>>

-----------------------------------------------------------------------------
(* CSecuritySvrSession and CSecuritySvrServer: attaching *)

\* The refusals of CSecuritySvrServer::AttachProcessL.
MayAttach(name, agent, passive) ==
    /\ Pair(name, agent) \notin iActiveDebugMap \cup iPassiveDebugMap
    /\ \/ passive
       \/ name = Star
       \/ \A p \in iActiveDebugMap : p.exe # Exe[name]

\* A new handler at the front of the session's list.
InsertHandler(s, name, h) ==
    /\ handler' = [handler EXCEPT ![h] = [FreeHandler EXCEPT
                      !.iProcessName = name, !.iAgentId = AgentOf[s], !.used = TRUE]]
    /\ iAsyncHandlers' = [iAsyncHandlers EXCEPT ![s] = <<h>> \o @]

\* AttachProcessL and AttachAllL: the maps, the driver, the handler, the list.
\* Every failure leaves what was done before it, but for a failed Insert, which
\* is undone in the driver and in the maps.
Attach(s, name, passive, failure) ==
    LET agent == AgentOf[s]
        r == AttachProcess(tracker, name, agent, failure)
        undo == r.err = "KErrNone" /\ failure = "insert"
        pair == IF undo THEN {} ELSE {Pair(name, agent)}
    IN  /\ Ready
        /\ s \in open
        /\ name = Star => ~passive /\ agent \in AllTokenAgents
        /\ MayAttach(name, agent, passive)
        /\ \E h \in Handlers : ~handler[h].used
        /\ iPassiveDebugMap' = iPassiveDebugMap \cup (IF passive THEN pair ELSE {})
        /\ iActiveDebugMap' = iActiveDebugMap \cup (IF passive THEN {} ELSE pair)
        /\ tracker' = IF undo THEN DetachProcess(r.tracker, name, agent).tracker
                              ELSE r.tracker
        /\ IF r.err # "KErrNone" \/ failure \in {"handler", "insert"}
              THEN UNCHANGED <<handler, iAsyncHandlers>>
              ELSE InsertHandler(s, name, CHOOSE h \in Handlers : ~handler[h].used)
        /\ UNCHANGED <<server, iSessionCount, iShutdown, open, closing, message>>

-----------------------------------------------------------------------------
(* Detaching *)

\* Remove the pair from the first map that has it.
DetachPair(p) ==
    IF p \in iActiveDebugMap
       THEN /\ iActiveDebugMap' = iActiveDebugMap \ {p}
            /\ UNCHANGED iPassiveDebugMap
       ELSE /\ iPassiveDebugMap' = iPassiveDebugMap \ {p}
            /\ UNCHANGED iActiveDebugMap

\* DetachProcessL and DetachAllL: the pair, the handler with this spelling,
\* then the driver.  DetachAllL does not tell the driver without a handler.
Detach(s, name) ==
    LET agent == AgentOf[s]
        pos == HandlerFor(s, name)
        st == IF pos = 0 THEN Here ELSE Destroy(Here, iAsyncHandlers[s][pos])
        left == DetachProcess(st.tracker, name, agent)
    IN  /\ Ready
        /\ s \in open
        /\ Pair(name, agent) \in iActiveDebugMap \cup iPassiveDebugMap
        /\ DetachPair(Pair(name, agent))
        /\ \/ /\ st.server # "running" \/ (name = Star /\ pos = 0)
              /\ Become(st)
              /\ UNCHANGED iAsyncHandlers
           \/ /\ st.server = "running" /\ ~(name = Star /\ pos = 0)
              /\ Become([st EXCEPT !.tracker = left.tracker])
              /\ iAsyncHandlers' = [iAsyncHandlers EXCEPT ![s] =
                                       IF pos = 0 THEN @ ELSE RemoveAt(@, pos)]
        /\ UNCHANGED <<iSessionCount, iShutdown, open, closing>>

-----------------------------------------------------------------------------
(* Sessions, the shutdown timer and the kernel *)

\* Mutant: the timer keeps running when a session is opened.
OpenSession_TimerRuns(s) ==
    /\ Ready
    /\ s \notin open
    /\ open' = open \cup {s}
    /\ iSessionCount' = iSessionCount + 1
    /\ UNCHANGED <<server, iActiveDebugMap, iPassiveDebugMap, iShutdown,
                   closing, iAsyncHandlers, handler, message, tracker>>

\* NewSessionL and CreateL with SessionOpened.
OpenSession(s) ==
    /\ Ready
    /\ s \notin open
    /\ open' = open \cup {s}
    /\ iSessionCount' = iSessionCount + 1
    /\ iShutdown' = "idle"
    /\ UNCHANGED <<server, iActiveDebugMap, iPassiveDebugMap, closing,
                   iAsyncHandlers, handler, message, tracker>>

\* Mutant: the timer is never started.
SessionClosed_Late(srv) ==
    /\ iSessionCount' = iSessionCount - 1
    /\ iShutdown' = IF iSessionCount - 1 < 0 THEN "running" ELSE iShutdown
    /\ server' = srv

\* SessionClosed: CTimer::After panics when the timer is already running.
SessionClosed(srv) ==
    /\ iSessionCount' = iSessionCount - 1
    /\ IF iSessionCount - 1 < 1
          THEN IF iShutdown = "idle" THEN iShutdown' = "running" /\ server' = srv
                                     ELSE UNCHANGED iShutdown /\ server' = "panicked"
          ELSE UNCHANGED iShutdown /\ server' = srv

\* ~CSecuritySvrSession: iAsyncHandlers.ResetAndDestroy takes the handlers one
\* by one ...
DestroyHandler(s) ==
    LET st == Destroy(Here, Head(iAsyncHandlers[s]))
    IN  /\ server = "running"
        /\ s \in open /\ closing \subseteq {s}
        /\ iAsyncHandlers[s] # <<>>
        /\ closing' = {s}
        /\ Become(st)
        /\ iAsyncHandlers' = IF st.server = "running"
                             THEN [iAsyncHandlers EXCEPT ![s] = Tail(@)] ELSE iAsyncHandlers
        /\ UNCHANGED <<iActiveDebugMap, iPassiveDebugMap, iSessionCount, iShutdown, open>>

\* ... then the driver, both maps and the server are told.
CloseSession(s) ==
    LET d == DetachAgent(tracker, AgentOf[s])
        mine == [exe : Executables \cup {Star}, agent : {AgentOf[s]}]
    IN  /\ server = "running"
        /\ s \in open /\ closing \subseteq {s}
        /\ iAsyncHandlers[s] = <<>>
        /\ \/ /\ d.fault
              /\ server' = "faulted"
              /\ closing' = {s}
              /\ UNCHANGED <<iActiveDebugMap, iPassiveDebugMap, iSessionCount,
                             iShutdown, open, tracker>>
           \/ /\ ~d.fault
              /\ tracker' = d.tracker
              /\ iActiveDebugMap' = iActiveDebugMap \ mine
              /\ iPassiveDebugMap' = iPassiveDebugMap \ mine
              /\ open' = open \ {s}
              /\ closing' = {}
              /\ SessionClosed("running")
        /\ UNCHANGED <<iAsyncHandlers, handler, message>>

\* The kernel completes the timer's request.
TimerExpires ==
    /\ server = "running"
    /\ iShutdown = "running"
    /\ iShutdown' = "expired"
    /\ UNCHANGED <<server, iActiveDebugMap, iPassiveDebugMap, iSessionCount, open,
                   closing, iAsyncHandlers, handler, message, tracker>>

\* CShutdownTimer::RunL, and the end of the server: the driver is unloaded and
\* both maps are destroyed.
Shutdown ==
    /\ Ready
    /\ iShutdown = "expired"
    /\ server' = "stopped"
    /\ iShutdown' = "idle"
    /\ iActiveDebugMap' = {}
    /\ iPassiveDebugMap' = {}
    /\ tracker' = EmptyTracker
    /\ UNCHANGED <<iSessionCount, open, closing, iAsyncHandlers, handler, message>>

\* RSecuritySvrSession::Connect starts a server that is not there.
StartServer ==
    /\ server = "stopped"
    /\ server' = "running"
    /\ iSessionCount' = 0
    /\ iShutdown' = "running"
    /\ UNCHANGED <<iActiveDebugMap, iPassiveDebugMap, open, closing, iAsyncHandlers,
                   handler, message, tracker>>

\* The kernel raises an event for a process.
Event(exe) ==
    LET n == NotifyAgentsForProcessEvent(tracker, exe)
    IN  /\ server # "faulted"
        /\ tracker' = n.tracker
        /\ handler' = [h \in Handlers |-> IF h \in n.answered
                          THEN [handler[h] EXCEPT !.iStatus = "KErrNone"] ELSE handler[h]]
        /\ UNCHANGED <<server, iActiveDebugMap, iPassiveDebugMap, iSessionCount,
                       iShutdown, open, closing, iAsyncHandlers, message>>

Next ==
    \/ \E s \in Sessions : OpenSession(s) \/ DestroyHandler(s) \/ CloseSession(s)
    \/ \E s \in Sessions, n \in Names, p \in BOOLEAN, f \in Failures : Attach(s, n, p, f)
    \/ \E s \in Sessions, n \in Names : Detach(s, n) \/ CancelGetEvent(s, n)
    \/ \E s \in Sessions, n \in Names, l \in BOOLEAN : SetEventAction(s, n, l)
    \/ \E s \in Sessions, n \in Names, m \in Messages : GetEvent(s, n, m)
    \/ \E h \in Handlers : RunL(h)
    \/ \E e \in Executables : Event(e)
    \/ TimerExpires
    \/ Shutdown
    \/ StartServer

\* The active scheduler runs every object whose request has completed, and
\* the kernel completes a timer; clients and events may stay away.
Fairness == /\ \A h \in Handlers : WF_vars(RunL(h))
            /\ WF_vars(TimerExpires)
            /\ WF_vars(Shutdown)

Spec == Init /\ [][Next]_vars /\ Fairness

-----------------------------------------------------------------------------
(* Properties *)

Agents == {AgentOf[s] : s \in Sessions}
Pairs == [exe : Executables \cup {Star}, agent : Agents]

\* The agents that the driver keeps for a name.
TrackedFor(exe) == IF exe = Star THEN ToSet(tracker.iAgentsAttachedToAll)
                   ELSE IF exe \in DOMAIN tracker.iProcesses
                        THEN ToSet(tracker.iProcesses[exe]) ELSE {}

\* The handlers that belong to a session.
Owned == UNION {ToSet(iAsyncHandlers[s]) : s \in Sessions}

\* The server never panics (a message completed twice, the timer started
\* twice), is never stuck in Cancel, and the driver never faults.
ServerStaysHealthy == server \in {"running", "stopped"}

\* The pairs in the server's maps, the agents in the driver and the handlers
\* of the sessions are three records of the same attachments, whenever the
\* server is back in its scheduler.
MapPairs == iActiveDebugMap \cup iPassiveDebugMap
DriverPairs == UNION {{[exe |-> e, agent |-> a.iId] : a \in TrackedFor(e)} :
                      e \in Executables \cup {Star}}
HandlerPairs == {Pair(handler[h].iProcessName, handler[h].iAgentId) : h \in Owned}

AttachmentsAgree == closing = {} => MapPairs = DriverPairs /\ MapPairs = HandlerPairs

\* A request is pending exactly when the agent for the handler's name and id
\* waits with that request: events find it, Cancel ends it, and the driver
\* never keeps the status of a handler that is gone.
WaitingAt(h) == handler[h].active /\ handler[h].iStatus = "pending"

PendingRequestsAreTracked ==
    \A h \in Handlers :
       WaitingAt(h) <=> \E e \in Executables \cup {Star} : \E a \in TrackedFor(e) :
                          /\ a.iRequestGetEventStatus = h
                          /\ h \in Owned
                          /\ Pair(handler[h].iProcessName, handler[h].iAgentId)
                               = [exe |-> e, agent |-> a.iId]

\* While the server runs, the client's unanswered GetEvent messages are the
\* ones that active handlers of open sessions hold, each held once.
MessagesAreHeld ==
    server = "running" =>
       /\ \A m \in Messages : message[m] = "outstanding" <=>
             \E s \in open : \E h \in ToSet(iAsyncHandlers[s]) :
                handler[h].active /\ handler[h].iMessage = m
       /\ \A g, h \in Handlers : handler[g].active /\ handler[h].active
                                    /\ handler[g].iMessage = handler[h].iMessage => g = h

\* No message is completed twice and the timer is never started twice.
NeverPanics == server # "panicked"

\* An event of an executable (the driver's queues change or a request is
\* answered) does not leave a listening debugger of it waiting: the handler
\* of each such attachment is completed by that step.
Listens(h, e) == \E a \in TrackedFor(e) : a.listening /\ a.iId = handler[h].iAgentId

EventAnswersWaiters ==
    [][\A e \in Executables : Event(e) =>
          \A h \in Owned : (WaitingAt(h) /\ Exe[handler[h].iProcessName] = e /\ Listens(h, e))
                            => ~WaitingAt(h)']_vars

\* A server that nobody uses goes away.
IdleServerStops == (server = "running" /\ open = {}) ~> (server = "stopped" \/ open # {})
=============================================================================
