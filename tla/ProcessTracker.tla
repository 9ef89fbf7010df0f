--------------------------- MODULE ProcessTracker ---------------------------
(***************************************************************************)
(* DProcessTracker and DTargetProcess of the run-mode debug driver: which  *)
(* debug agents track which executables.  The tracker is a record          *)
(*   iProcesses            executable |-> its DDebugAgents, newest first   *)
(*   iAgentsAttachedToAll  the attach-all agents, newest last              *)
(* and its methods are operators from trackers to trackers.                *)
(*                                                                         *)
(* A DDebugAgent is reduced to what its EventFifo promises: how many       *)
(* events are queued, whether the agent asked for events at all, and the   *)
(* request (of handler iRequestGetEventStatus) that waits for the next.    *)
(***************************************************************************)
EXTENDS Naturals, Sequences, SequencesExt, Functions

CONSTANTS
    Star,        \* the name "*" of an attachment to all processes
    Exe,         \* executable that a spelling of its path names (CompareF)
    NoHandler,   \* no request is outstanding
    MaxEvents    \* bound: events queued for one agent (128 in the code)

Names == DOMAIN Exe
Executables == {Exe[n] : n \in Names \ {Star}}

EmptyTracker == [iProcesses |-> <<>>, iAgentsAttachedToAll |-> <<>>]

DDebugAgent(id) == [iId |-> id, listening |-> FALSE, queued |-> 0,
                    iRequestGetEventStatus |-> NoHandler]

-----------------------------------------------------------------------------
(* Looking up an agent *)

\* DTargetProcess::Agent and RemoveAgent look for the first match, the
\* attach-all list is searched from its end.  0: there is none.
PositionOf(list, id) == SelectInSeq(list, LAMBDA a : a.iId = id)
LastPositionOf(list, id) == SelectLastInSeq(list, LAMBDA a : a.iId = id)

AgentsOf(t, name) ==
    IF name = Star THEN t.iAgentsAttachedToAll
    ELSE IF Exe[name] \in DOMAIN t.iProcesses THEN t.iProcesses[Exe[name]]
    ELSE <<>>

FindPosition(t, name, id) ==
    IF name = Star THEN LastPositionOf(AgentsOf(t, name), id)
                   ELSE PositionOf(AgentsOf(t, name), id)

\* FindAgentForProcessAndId returns an agent rather than NULL.
HasAgent(t, name, id) == FindPosition(t, name, id) # 0

FindAgentForProcessAndId(t, name, id) == AgentsOf(t, name)[FindPosition(t, name, id)]

\* The tracker after that agent was changed to a.
WithAgent(t, name, id, a) ==
    IF name = Star
       THEN [t EXCEPT !.iAgentsAttachedToAll[FindPosition(t, name, id)] = a]
       ELSE [t EXCEPT !.iProcesses[Exe[name]][FindPosition(t, name, id)] = a]

-----------------------------------------------------------------------------
(* Attaching and detaching *)

\* AttachProcess.  Memory may run out for the process or the attach-all agent
\* (failure "driver": KErrNoMemory), or for the DDebugAgent of a process
\* (failure "agent": the error of AddAgent is not looked at).
AttachProcess(t, name, id, failure) ==
    IF name = Star
    THEN IF HasAgent(t, name, id) THEN [err |-> "KErrAlreadyExists", tracker |-> t]
         ELSE IF failure \in {"driver", "agent"} THEN [err |-> "KErrNoMemory", tracker |-> t]
         ELSE [err |-> "KErrNone",
               tracker |-> [t EXCEPT !.iAgentsAttachedToAll = Append(@, DDebugAgent(id))]]
    ELSE IF failure = "driver" THEN [err |-> "KErrNoMemory", tracker |-> t]
    ELSE LET added == IF failure = "agent" THEN AgentsOf(t, name)
                      ELSE <<DDebugAgent(id)>> \o AgentsOf(t, name)
         IN  [err |-> "KErrNone",
              tracker |-> [t EXCEPT !.iProcesses =
                              [e \in DOMAIN @ \cup {Exe[name]} |->
                                  IF e = Exe[name] THEN added ELSE @[e]]]]

\* DTargetProcess::RemoveAgent
RemoveAgent(list, id) == RemoveFirstMatch(list, LAMBDA a : a.iId = id)

\* A process without agents is deleted.
DropUntracked(procs) == Restrict(procs, {e \in DOMAIN procs : procs[e] # <<>>})

DetachProcess(t, name, id) ==
    IF name = Star
    THEN IF ~HasAgent(t, name, id) THEN [err |-> "KErrNotFound", tracker |-> t]
         ELSE [err |-> "KErrNone",
               tracker |-> [t EXCEPT !.iAgentsAttachedToAll = RemoveAgent(@, id)]]
    ELSE IF Exe[name] \notin DOMAIN t.iProcesses
         THEN [err |-> "KErrNotFound", tracker |-> t]
    ELSE LET rest == RemoveAgent(t.iProcesses[Exe[name]], id)
         IN  [err |-> "KErrNone",
              tracker |-> [t EXCEPT !.iProcesses =
                              IF rest = <<>>
                                 THEN Restrict(@, DOMAIN @ \ {Exe[name]})
                                 ELSE [@ EXCEPT ![Exe[name]] = rest]]]

\* DetachAgent's last loop over the attach-all list: the upper bound was read
\* before it, so after a removal the last position is outside of the array.
FaultFromAll(list, id) == \E i \in 1 .. Len(list) - 1 : list[i].iId = id

\* Mutant: the attach-all list is forgotten.
DetachAgent_ProcessesOnly(t, id) ==
    [tracker |-> [t EXCEPT !.iProcesses = DropUntracked(
                     [e \in DOMAIN @ |-> RemoveAgent(@[e], id)])],
     fault |-> FALSE]

\* DetachAgent; fault: it has used an index outside of iAgentsAttachedToAll.
DetachAgent(t, id) ==
    LET left == [e \in DOMAIN t.iProcesses |-> RemoveAgent(t.iProcesses[e], id)]
    IN  [tracker |-> [iProcesses |-> DropUntracked(left),
                      iAgentsAttachedToAll |-> RemoveAgent(t.iAgentsAttachedToAll, id)],
         fault |-> FaultFromAll(t.iAgentsAttachedToAll, id)]

-----------------------------------------------------------------------------
(* Notifying *)

\* Mutant: the answered request is not forgotten.
NotifyEvent_KeepRequest(a) ==
    IF a.listening /\ a.iRequestGetEventStatus = NoHandler /\ a.queued < MaxEvents
       THEN [a EXCEPT !.queued = @ + 1] ELSE a

\* DDebugAgent::NotifyEvent: the waiting request is answered, or the event is
\* queued while there is room.
NotifyEvent(a) ==
    IF ~a.listening THEN a
    ELSE IF a.iRequestGetEventStatus # NoHandler
         THEN [a EXCEPT !.iRequestGetEventStatus = NoHandler]
    ELSE IF a.queued < MaxEvents THEN [a EXCEPT !.queued = @ + 1]
    ELSE a

\* The handlers whose requests the event answers.
Answered(list) == {a.iRequestGetEventStatus : a \in {x \in ToSet(list) : x.listening}}
                  \ {NoHandler}

NotifyAll(list) == [i \in DOMAIN list |-> NotifyEvent(list[i])]

\* Only the most recent attach-all agent is told.
NotifyLast(list) == IF list = <<>> THEN list
                    ELSE [list EXCEPT ![Len(list)] = NotifyEvent(@)]

\* Mutant: the attach-all agents have priority.
NotifyAgentsForProcessEvent_AllFirst(t, exe) ==
    LET all == t.iAgentsAttachedToAll
    IN  IF all # <<>>
           THEN [tracker  |-> [t EXCEPT !.iAgentsAttachedToAll = NotifyLast(@)],
                 answered |-> Answered(<<Last(all)>>)]
        ELSE IF exe \in DOMAIN t.iProcesses
           THEN [tracker  |-> [t EXCEPT !.iProcesses[exe] = NotifyAll(@)],
                 answered |-> Answered(t.iProcesses[exe])]
        ELSE [tracker |-> t, answered |-> {}]

\* NotifyAgentsForProcessEvent: the agents of the process have priority over
\* the attach-all agents.
NotifyAgentsForProcessEvent(t, exe) ==
    IF exe \in DOMAIN t.iProcesses
       THEN [tracker  |-> [t EXCEPT !.iProcesses[exe] = NotifyAll(@)],
             answered |-> Answered(t.iProcesses[exe])]
       ELSE LET all == t.iAgentsAttachedToAll
            IN  [tracker  |-> [t EXCEPT !.iAgentsAttachedToAll = NotifyLast(@)],
                 answered |-> IF all = <<>> THEN {} ELSE Answered(<<Last(all)>>)]
=============================================================================
