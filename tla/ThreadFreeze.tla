---------------------------- MODULE ThreadFreeze ----------------------------
(***************************************************************************)
(* How the run-mode debug driver stops threads for its agents.  A thread   *)
(* that takes a hardware exception or panics is inside a critical section  *)
(* and cannot be suspended: DProcessTracker::FreezeThread leaves a fast    *)
(* semaphore for it in iFrozenThreadSemaphores, under the data lock, and   *)
(* the thread looks for it and waits on it in FSWait, after the event      *)
(* handler has released the lock.  Any other thread is stopped with        *)
(* Kern::ThreadSuspend.  ResumeThread undoes one or the other.             *)
(***************************************************************************)
EXTENDS Integers, Sequences, FiniteSets, SequencesExt

CONSTANTS
    Threads,      \* threads of a debugged process
    NumAgents,    \* agents attached to it
    MaxEvents,    \* bound: exceptions and panics
    MaxSuspends   \* bound: threads stopped by an agent of its own accord

ASSUME FreezeAssumption == /\ IsFiniteSet(Threads) /\ NumAgents \in Nat
                           /\ MaxEvents \in Nat /\ MaxSuspends \in Nat

VARIABLES
    list,       \* iFrozenThreadSemaphores: owners and addresses
    thread,     \* per thread: where it is, the index and the semaphore in FSWait,
                \* iSuspendCount, and whether it exits after the event
    holds,      \* per thread: stops that agents know of and have not undone
    loaded,     \* the driver has not been unloaded
    events,     \* number of events so far
    suspends,   \* number of stops by agents
    twice,      \* history: threads that one event gave two semaphores
    raced,      \* history: threads in FSWait when a semaphore was removed
    failed      \* history: threads for which memory ran out

vars == <<list, thread, holds, loaded, events, suspends, twice, raced, failed>>

\* "run" is the thread's own code; "scan", "found" and "enter" are FSWait before
\* it waits; "fault" is the use of a semaphore that is deleted or not its own.
Places == {"run", "scan", "found", "enter", "wait", "fault", "dead"}
Addresses == 1 .. NumAgents * MaxEvents

Own(t) == {i \in DOMAIN list : list[i].owner = t}
Semaphores(t) == Cardinality(Own(t))
InFSWait(t) == thread[t].at \in {"scan", "found", "enter"}

\* A thread that is in none of the kernel's waits executes its next step.
Ready(t) == thread[t].iSuspendCount = 0

-----------------------------------------------------------------------------
(* The target threads.                                                     *)

\* n addresses that are in use by no semaphore and no thread.
Fresh(n) ==
    LET used == {list[i].addr : i \in DOMAIN list} \cup {thread[t].sem : t \in Threads}
        free == Addresses \ used
    IN  {a \in free : Cardinality({b \in free : b < a}) < n}

\* n semaphores for t.
Ascending(addresses) == SetToSortSeq(addresses, <)
NewSemaphores(t, n) == [i \in 1 .. n |-> [owner |-> t, addr |-> Ascending(Fresh(n))[i]]]

\* Mutant: a semaphore the thread already has is relied on.
FreezeThreadOnce(t, n) == IF Own(t) # {} THEN list ELSE list \o NewSemaphores(t, n)

\* FreezeThread appends a semaphore for each of the n agents that stop t.  It
\* is documented to find out that one exists already, and does not.
FreezeThread(t, n) == list \o NewSemaphores(t, n)

\* HandleSpecificEvent under the data lock: stopping is the number of agents
\* with the action EActionSuspend for the event.  FreezeThread may fail for lack of
\* memory, which NotifyEvent ignores: the agent is told of a stop all the same.
HandleEvent(t) ==
    /\ loaded /\ thread[t].at = "run" /\ Ready(t) /\ events < MaxEvents
    /\ events' = events + 1
    /\ \E stopping \in 0 .. NumAgents, dies \in BOOLEAN : \E frozen \in 0 .. stopping :
         /\ list' = FreezeThread(t, frozen)
         /\ holds' = [holds EXCEPT ![t] = @ + stopping]
         /\ thread' = [thread EXCEPT ![t].at = "scan", ![t].i = 1, ![t].dies = dies]
         /\ twice' = IF frozen > 1 THEN twice \cup {t} ELSE twice
         /\ failed' = IF frozen < stopping THEN failed \cup {t} ELSE failed
    /\ UNCHANGED <<loaded, suspends, raced>>

\* After the exception the thread goes on, or exits when it has panicked.
Leave(t) == IF thread[t].dies THEN "dead" ELSE "run"

\* The loop condition of FSWait, without the lock.
HasElement(i) == i <= Len(list)

\* Mutant: the owner of the semaphore is not compared.
FSWaitLookAny(t) ==
    /\ thread[t].at = "scan" /\ Ready(t)
    /\ thread' = [thread EXCEPT ![t] =
         IF ~HasElement(@.i) THEN [@ EXCEPT !.at = Leave(t), !.i = 0]
         ELSE [@ EXCEPT !.at = "found"]]
    /\ UNCHANGED <<list, holds, loaded, events, suspends, twice, raced, failed>>

\* One round of the loop of FSWait.
FSWaitLook(t) ==
    /\ thread[t].at = "scan" /\ Ready(t)
    /\ LET c == thread[t]
       IN  thread' = [thread EXCEPT ![t] =
             IF ~HasElement(c.i) THEN [c EXCEPT !.at = Leave(t), !.i = 0]
             ELSE IF list[c.i].owner = t THEN [c EXCEPT !.at = "found"]
             ELSE [c EXCEPT !.i = c.i + 1]]
    /\ UNCHANGED <<list, holds, loaded, events, suspends, twice, raced, failed>>

\* The semaphore that is at the index by now is passed to NKern::FSWait: the
\* index may be past the end of the array, or another thread's semaphore.
FSWaitCall(t) ==
    /\ thread[t].at = "found" /\ Ready(t)
    /\ thread' = [thread EXCEPT ![t] =
         IF HasElement(@.i) /\ list[@.i].owner = t
         THEN [@ EXCEPT !.at = "enter", !.sem = list[thread[t].i].addr]
         ELSE [@ EXCEPT !.at = "fault"]]
    /\ UNCHANGED <<list, holds, loaded, events, suspends, twice, raced, failed>>

\* NKern::FSWait; the semaphore may have been deleted.
FSWait(t) ==
    /\ thread[t].at = "enter" /\ Ready(t)
    /\ thread' = [thread EXCEPT ![t].at =
                    IF \E i \in Own(t) : list[i].addr = thread[t].sem THEN "wait" ELSE "fault"]
    /\ UNCHANGED <<list, holds, loaded, events, suspends, twice, raced, failed>>

-----------------------------------------------------------------------------
(* The agents, whose requests hold the data lock.                          *)

DoSuspendThread(t) ==
    /\ loaded /\ suspends < MaxSuspends /\ thread[t].at \notin {"dead", "fault"}
    /\ suspends' = suspends + 1
    /\ holds' = [holds EXCEPT ![t] = @ + 1]
    /\ thread' = [thread EXCEPT ![t].iSuspendCount = @ + 1]
    /\ UNCHANGED <<list, loaded, events, twice, raced, failed>>

\* The index of the first semaphore of t, if it has one.
FirstOf(t) == {i \in Own(t) : \A j \in Own(t) : i <= j}

\* NKern::FSSignal: a thread that waits on the semaphore goes on.
FSSignal(t, addr) ==
    IF thread[t].at = "wait" /\ thread[t].sem = addr
    THEN [thread EXCEPT ![t].at = Leave(t), ![t].i = 0, ![t].sem = 0] ELSE thread

\* ResumeFrozenThread signals, deletes and removes the first semaphore.
ResumeFrozenThread(t) ==
    /\ \E i \in FirstOf(t) : /\ thread' = FSSignal(t, list[i].addr)
                             /\ list' = RemoveAt(list, i)
    /\ raced' = raced \cup {u \in Threads : InFSWait(u)}

\* Mutant: Kern::ThreadResume is called as well.
ResumeThreadBoth(t) ==
    /\ \E i \in FirstOf(t) :
         /\ list' = RemoveAt(list, i)
         /\ thread' = [FSSignal(t, list[i].addr) EXCEPT
                         ![t].iSuspendCount = IF @ > 0 THEN @ - 1 ELSE @]
    /\ raced' = raced \cup {u \in Threads : InFSWait(u)}

\* A thread that is not in the list is resumed by the kernel.
ResumeThread(t) ==
    \/ ResumeFrozenThread(t)
    \/ /\ Own(t) = {}
       /\ thread' = [thread EXCEPT ![t].iSuspendCount = IF @ > 0 THEN @ - 1 ELSE @]
       /\ UNCHANGED <<list, raced>>

\* An agent undoes a stop that it knows of.
DoResumeThread(t) ==
    /\ loaded /\ holds[t] > 0 /\ thread[t].at # "fault"
    /\ holds' = [holds EXCEPT ![t] = @ - 1]
    /\ ResumeThread(t)
    /\ UNCHANGED <<loaded, events, suspends, twice, failed>>

\* Mutant: the list is cleared without signals.
DestroyUnsignalled == thread' = thread

\* ~DProcessTracker signals every semaphore.
Destroy == thread' = [t \in Threads |->
                        IF thread[t].at = "wait"
                        THEN [thread[t] EXCEPT !.at = Leave(t), !.i = 0, !.sem = 0]
                        ELSE thread[t]]

\* The driver is unloaded after the agents have gone.  What they suspended
\* with Kern::ThreadSuspend stays suspended.
Unload ==
    /\ loaded
    /\ loaded' = FALSE
    /\ Destroy
    /\ list' = <<>>
    /\ raced' = raced \cup {u \in Threads : InFSWait(u)}
    /\ UNCHANGED <<holds, events, suspends, twice, failed>>

-----------------------------------------------------------------------------
Init ==
    /\ list = <<>>
    /\ thread = [t \in Threads |->
                   [at |-> "run", i |-> 0, sem |-> 0, iSuspendCount |-> 0, dies |-> FALSE]]
    /\ holds = [t \in Threads |-> 0]
    /\ loaded = TRUE
    /\ events = 0 /\ suspends = 0
    /\ twice = {} /\ raced = {} /\ failed = {}

ThreadStep(t) == FSWaitLook(t) \/ FSWaitCall(t) \/ FSWait(t)

Next == \/ \E t \in Threads : \/ HandleEvent(t) \/ ThreadStep(t)
                              \/ DoSuspendThread(t) \/ DoResumeThread(t)
        \/ Unload

\* The kernel schedules a thread that is ready; nothing makes an agent act.
Spec == Init /\ [][Next]_vars /\ \A t \in Threads : WF_vars(ThreadStep(t))

-----------------------------------------------------------------------------
(* Properties.                                                             *)

Orderly(t) == t \notin raced \cup failed
Runs(t) == thread[t].at = "run" /\ Ready(t)

\* Every stop an agent knows of is one semaphore or one suspension, whichever
\* of them was made first and whichever a resume undoes: an agent that has
\* undone its stops leaves nothing behind.
StopsAreCounted ==
    loaded => \A t \in Threads \ failed :
      holds[t] = Semaphores(t) + thread[t].iSuspendCount

\* A thread that an agent has stopped executes nothing of its own, unless it
\* was in FSWait when a semaphore was removed, FreezeThread failed for it, or two
\* agents stopped it for the same event: it then waits on one of its two only.
StoppedThreadsStay ==
    loaded => \A t \in Threads :
      Orderly(t) /\ t \notin twice /\ holds[t] > 0 => ~Runs(t)

\* Only a thread that was in FSWait when a semaphore was removed uses one that
\* is not its own.
FaultsAreRaces == \A t \in Threads : thread[t].at = "fault" => t \in raced

\* A thread whose stops have all been undone goes on, and so does every thread
\* that waits when the driver is unloaded.
ResumedThreadsRun ==
    \A t \in Threads :
      (InFSWait(t) \/ thread[t].at = "wait") /\ (holds[t] = 0 \/ (~loaded /\ Ready(t)))
        ~> (holds[t] > 0 /\ loaded) \/ thread[t].at \in {"run", "dead", "fault"}
=============================================================================
