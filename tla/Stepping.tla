------------------------------- MODULE Stepping -------------------------------
(***************************************************************************)
(* Breakpoints at work: the requests of a debug agent that reach the       *)
(* breakpoint table (DRM_DebugChannel), the single stepping built on       *)
(* temporary breakpoints (DRMDStepping::ModifyBreaksForStep), and the      *)
(* threads of the debugged processes, which run into the breakpoints       *)
(* (HandleInvalidOpCodeException).                                         *)
(*                                                                         *)
(* The driver's data lock makes a request, and the handling of a trap, one *)
(* step.  What a thread executes is the table NextPC: the decoding of      *)
(* instructions (PCAfterInstructionExecutes) is taken to be right.  A      *)
(* thread runs while its suspend count is zero.  report says what the      *)
(* agents were last told about a thread that the driver has stopped.       *)
(***************************************************************************)
EXTENDS BreakTable

CONSTANTS
    NextPC,         \* where each instruction leads
    CodeMode,       \* the instruction set of the code at an address
    LibraryCode,    \* the addresses that belong to a library
    BreakOwner,     \* the threads and processes the agent sets breakpoints for
    Suspendable,    \* the threads the agent suspends by itself
    Mortal,         \* the threads that may exit
    StepCount,      \* the step counts the agent asks for
    Orderly,        \* the agent changes breakpoints only while all threads are stopped
    CanModify,      \* does the agent modify breakpoints: {}, the ones in place
                    \* {FALSE}, also those of a library that is gone {FALSE, TRUE}
    AppendMayFail,  \* the list of breakpoints may not find memory to grow
    MaxBreakId,     \* bound on the break ids that are given out
    MaxSuspend      \* bound on the suspend count of a thread

VARIABLES
    bp,        \* the breakpoint table and the code
    pc,        \* the program counter of each thread
    suspend,   \* the suspend count of each thread
    report,    \* "none", or what the agents were told when the thread was stopped
    exited     \* the threads whose exit has been handled

vars == <<bp, pc, suspend, report, exited>>

Address == DOMAIN NextPC

ASSUME CodeAssumption ==
    /\ Address \subseteq Nat \ {0}
    /\ NextPC \in [Address -> Address]
    /\ CodeMode \in [Address -> Mode]
    /\ LibraryCode \subseteq Address
    /\ BreakOwner \subseteq Thread \cup Process
    /\ StepCount \subseteq Int

(* The instructions of a program do not overlap. *)
ASSUME InstructionsAssumption ==
    \A a, b \in Address : a < b => a + BreakSize(CodeMode[a]) <= b

Init ==
    /\ bp = EmptyTable(Address)
    /\ pc \in [Thread -> Address \ LibraryCode]
    /\ suspend = [t \in Thread |-> 1]
    /\ report = [t \in Thread |-> "none"]
    /\ exited = {}

-------------------------------------------------------------------------------
(* The driver's part of a step *)

(* Disable what is at the pc, and make sure that something stops the thread *)
(* at the next instruction: a breakpoint of the user, or a temporary one.   *)
ModifyBreaksForStep(tab, t, resumeOnce, numSteps) ==
    LET disabled == priv_DisableBreakAtAddress(tab, pc[t])
        off == disabled.bp
        breakAddress == NextPC[pc[t]]
        userBreak == {b \in UserIds(off) : /\ off.list[b].iAddress = breakAddress
                                           /\ AppliesTo(off.list[b], t)}
        free == {b \in TempId : off.list[b].iAddress = 0}
        b == Min(free)
        temp == [TBreakEntry(t, breakAddress, CodeMode[breakAddress]) EXCEPT
                   !.iResumeOnceOutOfRange = resumeOnce, !.iNumSteps = numSteps]
        taken == [off EXCEPT !.list[b] = temp]
    IN  IF disabled.err # "KErrNone" THEN disabled
        ELSE IF userBreak # {}
             THEN Answer([off EXCEPT !.list[Min(userBreak)].iNumSteps = 0], "KErrNone")
        ELSE IF free = {} THEN Answer(off, "KErrNoMemory")
        ELSE priv_DoEnableBreak(taken, b, temp)

(* Mutants: one instruction is stepped, the step has no breakpoint, the     *)
(* thread is not resumed.                                                   *)
MutSingleStep(tab, t, resumeOnce, numSteps) ==
    LET step == ModifyBreaksForStep(tab, t, resumeOnce, 1)
    IN  [bp |-> step.bp, err |-> step.err,
         resumed |-> IF step.err = "KErrNone" THEN 1 ELSE 0]

MutNoBreak(tab, t, resumeOnce, numSteps) ==
    [bp |-> priv_DisableBreakAtAddress(tab, pc[t]).bp, err |-> "KErrNone", resumed |-> 1]

MutNoResume(tab, t, resumeOnce, numSteps) ==
    LET step == ModifyBreaksForStep(tab, t, resumeOnce, numSteps)
    IN  [bp |-> step.bp, err |-> step.err, resumed |-> 0]

(* DoStepRange and DoResumeThread answer with the table, the result, and by *)
(* how much the suspend count goes down (Kern::ThreadResume at zero: not).  *)
DoStepRange(tab, t, resumeOnce, numSteps) ==
    LET step == ModifyBreaksForStep(tab, t, resumeOnce, numSteps)
    IN  [bp |-> step.bp, err |-> step.err,
         resumed |-> IF step.err = "KErrNone" THEN 1 ELSE 0]

DoResumeThread(tab, t) ==
    IF \E b \in UserIds(tab) : tab.list[b].iAddress = pc[t]
    THEN DoStepRange(tab, t, TRUE, 1)
    ELSE [bp |-> tab, err |-> "KErrNone", resumed |-> 1]

(* A thread runs into a breakpoint instruction and is suspended. The first  *)
(* entry for it is taken.  notify says what the agents are told.            *)
HandleInvalidOpCodeException(t) ==
    LET hits == {b \in DOMAIN bp.list : /\ bp.list[b].iAddress = pc[t]
                                        /\ AppliesTo(bp.list[b], t)}
        b == Min(hits)
        entry == bp.list[b]
        enabled == priv_DoEnableDisabledBreak(bp, t).bp
        cleared == priv_DoClearBreak(enabled, b, FALSE).bp
        numSteps == entry.iNumSteps - 1
        onward == DoStepRange(cleared, t, entry.iResumeOnceOutOfRange, numSteps)
        resumed == DoResumeThread(cleared, t)
        Trap(tab, count, notify) == [bp |-> tab, resumed |-> count, notify |-> notify]
    IN  IF hits = {} THEN Trap(bp, 0, "exception")
        ELSE IF ~ IsTemporaryBreak(b) THEN Trap(enabled, 0, "break")
        ELSE IF numSteps # 0
             THEN Trap(onward.bp, onward.resumed,
                       IF onward.err = "KErrNone" THEN "none" ELSE "break")
        ELSE IF entry.iResumeOnceOutOfRange
             THEN Trap(resumed.bp, resumed.resumed, "none")
        ELSE Trap(cleared, 0, "break")

-------------------------------------------------------------------------------
(* The requests of the agent *)

Runs(t) == t \in bp.threads /\ t \notin exited /\ suspend[t] = 0

(* An orderly agent changes breakpoints while the target stands still. *)
MayChangeBreaks == Orderly => \A t \in Thread : ~ Runs(t)

(* DRM_DebugChannel::SetBreak opens the thread or process and closes it     *)
(* again before the table is asked: a thread that has exited may be gone by *)
(* then (left).                                                             *)
SetBreakResult(id, a, appended, left) ==
    LET process == IF id \in Thread THEN OwningProcess[id] ELSE id
        known == [bp EXCEPT !.debugged = IF process \in ToSet(@) THEN @
                                         ELSE Append(@, process),
                            !.threads = @ \ left]
    IN  IF (id \in Thread /\ id \in bp.threads) \/ CanOpenProcess(bp, id)
        THEN priv_DoSetBreak(known, id, a, CodeMode[a], appended)
        ELSE Answer(bp, "KErrNotFound")

SetBreak(id, a, appended, left) ==
    /\ MayChangeBreaks
    /\ bp.next <= MaxBreakId
    /\ left \subseteq {id} \cap exited
    /\ appended \/ AppendMayFail
    /\ bp' = SetBreakResult(id, a, appended, left).bp
    /\ UNCHANGED <<pc, suspend, report, exited>>

ClearBreak(b) ==
    /\ MayChangeBreaks
    /\ bp' = priv_DoClearBreak(bp, b, FALSE).bp
    /\ UNCHANGED <<pc, suspend, report, exited>>

ModifyBreakResult(b, id, a) ==
    IF id \in Thread THEN priv_DoModifyBreak(bp, b, id, a, CodeMode[a])
    ELSE priv_DoModifyProcessBreak(bp, b, id, a, CodeMode[a])

ModifyBreak(b, id, a) ==
    /\ bp.list[b].iObsoleteLibraryBreakpoint \in CanModify
    /\ MayChangeBreaks
    /\ bp' = ModifyBreakResult(b, id, a).bp
    /\ UNCHANGED <<pc, suspend, report, exited>>

(* The table and the suspend count after DoStepRange or DoResumeThread for a *)
(* thread that the agent holds: "The thread being stepped must be suspended  *)
(* by the Debug Agent."                                                      *)
LetGo(t, result) ==
    /\ t \in bp.threads \ exited
    /\ suspend[t] > 0 /\ report[t] # "exception"
    /\ bp' = result.bp
    /\ suspend' = [suspend EXCEPT ![t] = @ - result.resumed]
    /\ report' = [report EXCEPT ![t] = IF suspend'[t] = 0 THEN "none" ELSE @]
    /\ UNCHANGED <<pc, exited>>

Step(t, numSteps) == LetGo(t, DoStepRange(bp, t, FALSE, numSteps))

ResumeThread(t) == LetGo(t, DoResumeThread(bp, t))

SuspendThread(t) ==
    /\ t \in Suspendable \cap (bp.threads \ exited)
    /\ suspend[t] < MaxSuspend
    /\ suspend' = [suspend EXCEPT ![t] = @ + 1]
    /\ UNCHANGED <<bp, pc, report, exited>>

-------------------------------------------------------------------------------
(* The target *)

(* One instruction of the program. *)
Execute(t) ==
    /\ Runs(t)
    /\ pc[t] \notin bp.patched
    /\ NextPC[pc[t]] \in bp.mapped
    /\ pc' = [pc EXCEPT ![t] = NextPC[@]]
    /\ UNCHANGED <<bp, suspend, report, exited>>

(* The instruction at the pc is a breakpoint. *)
Hit(t) ==
    /\ Runs(t)
    /\ pc[t] \in bp.patched
    /\ \E trap \in {HandleInvalidOpCodeException(t)} :
          /\ bp' = trap.bp
          /\ suspend' = [suspend EXCEPT ![t] = @ + 1 - trap.resumed]
          /\ report' = [report EXCEPT ![t] = trap.notify]
    /\ UNCHANGED <<pc, exited>>

(* HandleEventKillThread, in the thread that ends. *)
KillThread(t) ==
    /\ t \in Mortal \ exited
    /\ Runs(t) \/ report[t] = "exception"
    /\ bp' = priv_DoRemoveThreadBreaks(bp, t)
    /\ exited' = exited \cup {t}
    /\ UNCHANGED <<pc, suspend, report>>

(* The kernel frees the thread: it cannot be opened any more. *)
ThreadGone(t) ==
    /\ t \in exited \cap bp.threads
    /\ bp' = [bp EXCEPT !.threads = @ \ {t}]
    /\ UNCHANGED <<pc, suspend, report, exited>>

(* No thread is in the library. *)
RemoveLibrary ==
    /\ LibraryCode # {} /\ LibraryCode \subseteq bp.mapped
    /\ \A t \in bp.threads \ exited : pc[t] \notin LibraryCode
    /\ bp' = [InvalidateLibraryBreakPoints(bp, LibraryCode) EXCEPT
                !.mapped = @ \ LibraryCode, !.patched = @ \ LibraryCode]
    /\ UNCHANGED <<pc, suspend, report, exited>>

(* The library is loaded again, at the same place. *)
AddLibrary ==
    /\ ~ (LibraryCode \subseteq bp.mapped)
    /\ bp' = [bp EXCEPT !.mapped = @ \cup LibraryCode]
    /\ UNCHANGED <<pc, suspend, report, exited>>

-------------------------------------------------------------------------------
Next ==
    \/ \E id \in BreakOwner, a \in Address, appended \in BOOLEAN, left \in SUBSET exited :
            SetBreak(id, a, appended, left)
    \/ \E b \in UserIds(bp) : ClearBreak(b)
    \/ \E b \in UserIds(bp), id \in BreakOwner, a \in Address : ModifyBreak(b, id, a)
    \/ \E t \in Thread, n \in StepCount : Step(t, n)
    \/ \E t \in Thread : \/ ResumeThread(t) \/ SuspendThread(t) \/ Execute(t)
                         \/ Hit(t) \/ KillThread(t) \/ ThreadGone(t)
    \/ RemoveLibrary
    \/ AddLibrary

(* The kernel's scheduler runs each thread that is ready. *)
Fairness == \A t \in Thread : WF_vars(Execute(t) \/ Hit(t))

Spec == Init /\ [][Next]_vars /\ Fairness
-------------------------------------------------------------------------------
(* Properties *)

(* However breakpoints are set, modified and cleared, and whoever exits, no *)
(* thread is ever under two breakpoints of the user whose bytes overlap:    *)
(* the first entry that HandleInvalidOpCodeException finds is the only one. *)
NoConflictingBreaks ==
    \A b, c \in UserIds(bp) :
        /\ b # c
        /\ BreakpointsOverlap(bp.list[b], bp.list[c])
        => ~ \E t \in Thread : AppliesTo(bp.list[b], t) /\ AppliesTo(bp.list[c], t)

(* A breakpoint instruction never stays in the program without an entry     *)
(* that knows about it: clearing, modifying, stepping and the exit of       *)
(* threads that share an address leave no orphan behind.  (Not so in the    *)
(* code of a library that is loaded again.)                                 *)
CodeHasEntries ==
    \A a \in bp.patched \ LibraryCode :
        \E b \in DOMAIN bp.list : bp.list[b].iAddress = a
===============================================================================
