---------------------------- MODULE MCDebugAgent ----------------------------
(***************************************************************************)
(* DebugAgent for TLC: a ring of a few slots, two threads of a target      *)
(* process, and one thread of the debug agent's own process.               *)
(***************************************************************************)
EXTENDS DebugAgent

CONSTANTS t1, t2, a1

Event(type, thread, process, flags, exit) ==
    [iEventType |-> type, iThreadId |-> thread, iProcessId |-> process,
     iThreadFlags |-> flags, iExitType |-> exit]

MCThreads == {t1, t2, a1}

\* A low-priority trace, exceptions of a target thread and of the agent's own
\* critical thread, and a breakpoint, whose thread was suspended by its handler.
MCEvents == {
    Event("EEventsUserTrace", t1, "target", {}, "EExitKill"),
    Event("EEventsHwExc", t2, "target", {}, "EExitKill"),
    Event("EEventsHwExc", a1, "agent", {"Critical"}, "EExitKill"),
    Event("EEventsBreakPoint", t2, "target", {"Permanent"}, "EExitKill")}
=============================================================================
