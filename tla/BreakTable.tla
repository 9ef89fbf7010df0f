------------------------------ MODULE BreakTable ------------------------------
(***************************************************************************)
(* The breakpoint table of the debug driver, D_RMD_Breakpoints             *)
(* (d_rmd_breakpoints.cpp), together with what it does to the code of the  *)
(* debugged processes through the kernel's code modifier.                  *)
(*                                                                         *)
(* A table is a record:                                                    *)
(*   list      entries by break id; the ids below NUMBER_OF_TEMP_BREAKPOINTS*)
(*             are the temporary entries, which always exist               *)
(*   next      iNextBreakId                                                *)
(*   debugged  the channel's iDebugProcessList                             *)
(*   patched   the addresses that hold a breakpoint instruction            *)
(*   mapped    the addresses that can be read                              *)
(*   threads   the threads that DebugUtils::OpenThreadHandle finds         *)
(* iBreakPointList is sorted by id, so "the first entry" is the one with   *)
(* the least id.  iId names a thread (iThreadSpecific) or a process.       *)
(* Each method is an operator from tables to [bp, err]; the public methods *)
(* only add the table's semaphore, which is free whenever the driver's     *)
(* data lock is.                                                           *)
(***************************************************************************)
EXTENDS Integers, FiniteSets, FiniteSetsExt, Sequences, SequencesExt

CONSTANTS
    Thread, Process,
    OwningProcess,               \* the process of each thread
    FirstThread,                 \* the thread whose id is the process id plus one
    NoId,                        \* the zero iId of a free temporary entry
    NUMBER_OF_TEMP_BREAKPOINTS,
    NUMBER_OF_MAX_BREAKPOINTS

ASSUME ThreadsAssumption ==
    /\ OwningProcess \in [Thread -> Process]
    /\ FirstThread \in [Process -> Thread]
    /\ \A p \in Process : OwningProcess[FirstThread[p]] = p
    /\ Thread \cap Process = {} /\ NoId \notin Thread \cup Process

ASSUME TableAssumption ==
    /\ NUMBER_OF_TEMP_BREAKPOINTS \in Nat \ {0}
    /\ NUMBER_OF_MAX_BREAKPOINTS \in Nat

TempId == 0 .. NUMBER_OF_TEMP_BREAKPOINTS - 1

Mode == {"EArmMode", "EThumbMode"}

TBreakEntry(id, address, mode) ==
    [iId |-> id, iAddress |-> address, iMode |-> mode, iInstruction |-> "zero",
     iDisabledForStep |-> FALSE, iObsoleteLibraryBreakpoint |-> FALSE,
     iResumeOnceOutOfRange |-> FALSE, iNumSteps |-> 0]

Reset == TBreakEntry(NoId, 0, "EArmMode")

EmptyTable(mapped) ==
    [list |-> [i \in TempId |-> Reset], next |-> NUMBER_OF_TEMP_BREAKPOINTS,
     debugged |-> <<>>, patched |-> {}, mapped |-> mapped, threads |-> Thread]

-------------------------------------------------------------------------------
(* Addresses *)

Aligned(address, mode) ==
    address % (IF mode = "EArmMode" THEN 4 ELSE 2) = 0

BreakSize(mode) == IF mode = "EArmMode" THEN 4 ELSE 2

BreakpointsOverlap(first, second) ==
    LET firstEnd == first.iAddress + BreakSize(first.iMode) - 1
        secondEnd == second.iAddress + BreakSize(second.iMode) - 1
    IN  ~ (firstEnd < second.iAddress) /\ ~ (secondEnd < first.iAddress)

-------------------------------------------------------------------------------
(* Looking at a table *)

IsTemporaryBreak(b) == b < NUMBER_OF_TEMP_BREAKPOINTS

UserIds(bp) == {b \in DOMAIN bp.list : ~ IsTemporaryBreak(b)}

(* Does an entry concern thread t? *)
AppliesTo(entry, t) == entry.iId \in {t, OwningProcess[t]}

(* OpenThreadHandle(iId + (iThreadSpecific ? 0 : 1)) succeeds. *)
CanOpenThread(bp, id) ==
    \/ id \in Thread /\ id \in bp.threads
    \/ id \in Process /\ FirstThread[id] \in bp.threads

(* OpenFirstThreadForProcess(OpenProcessHandle(id)) succeeds. *)
CanOpenProcess(bp, id) ==
    id \in Process /\ \E t \in bp.threads : OwningProcess[t] = id

(* What Kern::ThreadRawRead finds: the code modifier's patch is visible. *)
RawInstruction(bp, address) ==
    IF address \in bp.patched THEN "breakpoint" ELSE "original"

(* Another entry has put the breakpoint instruction in place already. *)
breakpointAlreadySet(bp, address) ==
    \E b \in UserIds(bp) : /\ bp.list[b].iAddress = address
                           /\ ~ bp.list[b].iDisabledForStep

(* The list with entry as item b, which may be new. *)
Put(list, b, entry) ==
    [c \in DOMAIN list \cup {b} |-> IF c = b THEN entry ELSE list[c]]

Answer(bp, err) == [bp |-> bp, err |-> err]

-------------------------------------------------------------------------------
(* The code modifier of the kernel *)

(* DebugSupport::ModifyCode has no effect on memory that is not mapped. *)
ModifyCode(bp, address) ==
    [bp EXCEPT !.patched = @ \cup ({address} \cap bp.mapped)]

(* DebugSupport::RestoreCode *)
RestoreCode(bp, address) ==
    Answer([bp EXCEPT !.patched = @ \ {address}],
           IF address \in bp.patched THEN "KErrNone" ELSE "KErrNotFound")

-------------------------------------------------------------------------------
(* Enabling, setting and clearing *)

(* priv_DoEnableBreak of an entry whose old instruction is not saved. The   *)
(* result of ModifyCode is overwritten by that of its trap harness.         *)
EnableAgain(bp, entry) ==
    IF ~ CanOpenThread(bp, entry.iId) THEN Answer(bp, "KErrBadHandle")
    ELSE Answer(IF breakpointAlreadySet(bp, entry.iAddress) THEN bp
                ELSE ModifyCode(bp, entry.iAddress), "KErrNone")

(* Mutant: the instruction is saved after the breakpoint is in place. *)
MutSaveLate(bp, b, entry) ==
    LET done == EnableAgain(bp, entry)
        saved == [entry EXCEPT !.iInstruction = RawInstruction(done.bp, entry.iAddress)]
    IN  IF done.err # "KErrNone" THEN done
        ELSE IF entry.iAddress \notin bp.mapped THEN Answer(bp, "KErrBadDescriptor")
        ELSE Answer([done.bp EXCEPT !.list = Put(@, b, saved)], "KErrNone")

(* priv_DoEnableBreak, saving the old instruction: entry becomes item b. *)
priv_DoEnableBreak(bp, b, entry) ==
    LET saved == [entry EXCEPT !.iInstruction = RawInstruction(bp, entry.iAddress)]
        done == EnableAgain(bp, entry)
    IN  IF done.err # "KErrNone" THEN done
        ELSE IF entry.iAddress \notin bp.mapped THEN Answer(bp, "KErrBadDescriptor")
        ELSE Answer([done.bp EXCEPT !.list = Put(@, b, saved)], "KErrNone")

(* Mutant: only breakpoints of one owner are compared. *)
MutSameOwnerOnly(bp, entry, id) ==
    IF entry.iId = id THEN "KErrAlreadyExists" ELSE "KErrNone"

(* How priv_DoSetBreak answers when the new breakpoint overlaps an entry.   *)
(* A thread that cannot be opened any more is closed all the same where the *)
(* new breakpoint is the thread-specific one: a NULL pointer is used.       *)
OverlapError(bp, entry, id) ==
    LET thread == IF id \in Thread THEN id ELSE entry.iId
        process == IF id \in Thread THEN entry.iId ELSE id
    IN  IF (entry.iId \in Thread) = (id \in Thread)
        THEN IF entry.iId = id THEN "KErrAlreadyExists" ELSE "KErrNone"
        ELSE IF thread \notin bp.threads
             THEN IF id \in Thread THEN "fault" ELSE "KErrNotFound"
             ELSE IF OwningProcess[thread] = process
                  THEN "KErrAlreadyExists" ELSE "KErrNone"

(* appended says whether RArray::Append finds memory. *)
priv_DoSetBreak(bp, id, address, mode, appended) ==
    LET new == TBreakEntry(id, address, mode)
        refused == {b \in UserIds(bp) :
                      /\ BreakpointsOverlap(new, bp.list[b])
                      /\ OverlapError(bp, bp.list[b], id) # "KErrNone"}
        counted == [bp EXCEPT !.next = @ + 1]
        enabled == priv_DoEnableBreak(counted, bp.next, new)
    IN  IF Cardinality(DOMAIN bp.list) + 1 >= NUMBER_OF_MAX_BREAKPOINTS
        THEN Answer(bp, "KErrOverflow")
        ELSE IF ~ Aligned(address, mode) THEN Answer(bp, "KErrArgument")
        ELSE IF refused # {} THEN Answer(bp, OverlapError(bp, bp.list[Min(refused)], id))
        ELSE IF enabled.err = "KErrNone" /\ ~ appended
             THEN Answer([enabled.bp EXCEPT !.list = bp.list], "KErrNoMemory")
        ELSE enabled

(* Remove an entry, or free it when it is temporary. *)
Drop(bp, b) ==
    [bp EXCEPT !.list = IF IsTemporaryBreak(b) THEN [@ EXCEPT ![b] = Reset]
                        ELSE [c \in DOMAIN @ \ {b} |-> @[c]]]

(* Mutant: the code modifier is not called. *)
MutClearEntryOnly(bp, b, ignoreTerminatedThreads) ==
    IF b \in DOMAIN bp.list THEN Answer(Drop(bp, b), "KErrNone")
    ELSE Answer(bp, "KErrNotFound")

priv_DoClearBreak(bp, b, ignoreTerminatedThreads) ==
    LET entry == bp.list[b]
        needToCallCodeModifier ==
            \A c \in UserIds(bp) \ {b} : ~ BreakpointsOverlap(entry, bp.list[c])
        restored == IF needToCallCodeModifier
                    THEN RestoreCode(bp, entry.iAddress).bp ELSE bp
    IN  IF b \notin DOMAIN bp.list THEN Answer(bp, "KErrNotFound")
        ELSE IF entry.iObsoleteLibraryBreakpoint THEN Answer(Drop(bp, b), "KErrNone")
        ELSE IF CanOpenThread(bp, entry.iId) THEN Answer(Drop(restored, b), "KErrNone")
        ELSE IF ignoreTerminatedThreads THEN Answer(Drop(bp, b), "KErrNone")
        ELSE Answer(bp, "KErrBadHandle")

-------------------------------------------------------------------------------
(* Modifying *)

(* What priv_DoModifyBreak and priv_DoModifyProcessBreak share.  opens says  *)
(* whether the owner of the entry can be opened, owner is the one the entry  *)
(* gets (NoId: none can be opened).  The old place is restored first: a      *)
(* modification that is refused afterwards leaves an entry without patch.    *)
ModifyEntry(bp, b, id, address, mode, opens, owner) ==
    LET entry == bp.list[b]
        restored == IF entry.iObsoleteLibraryBreakpoint THEN bp
                    ELSE RestoreCode(bp, entry.iAddress).bp
        new == [entry EXCEPT !.iId = id, !.iAddress = address, !.iMode = mode]
        saved == [new EXCEPT !.iId = owner, !.iInstruction = RawInstruction(restored, address)]
        Moved(item) == [restored EXCEPT !.list = Put(@, b, item)]
    IN  IF b \notin DOMAIN bp.list THEN Answer(bp, "KErrNotFound")
        ELSE IF ~ entry.iObsoleteLibraryBreakpoint /\ ~ opens
             THEN Answer(bp, "KErrBadHandle")
        ELSE IF \E c \in UserIds(bp) \ {b} : BreakpointsOverlap(new, bp.list[c])
             THEN Answer(restored, "KErrAlreadyExists")
        ELSE IF owner = NoId THEN Answer(Moved(new), "KErrBadHandle")
        ELSE IF address \notin bp.mapped THEN Answer(Moved(new), "KErrBadDescriptor")
        ELSE Answer(ModifyCode(Moved(saved), address), "KErrNone")

(* When the thread is gone, the first thread of the first debugged process  *)
(* is used instead.                                                         *)
priv_DoModifyBreak(bp, b, id, address, mode) ==
    LET other == FirstThread[bp.debugged[1]]
        owner == IF id \in bp.threads THEN id
                 ELSE IF bp.debugged # <<>> /\ other \in bp.threads THEN other ELSE NoId
    IN  ModifyEntry(bp, b, id, address, mode, bp.list[b].iId \in bp.threads, owner)

priv_DoModifyProcessBreak(bp, b, id, address, mode) ==
    ModifyEntry(bp, b, id, address, mode, CanOpenProcess(bp, bp.list[b].iId),
                IF CanOpenProcess(bp, id) THEN id ELSE NoId)

-------------------------------------------------------------------------------
(* Stepping off a breakpoint *)

(* The loop stops at the first entry it cannot restore; as the first one    *)
(* takes the patch away, that is the second one at the latest.              *)
priv_DisableBreakAtAddress(bp, address) ==
    LET here == {b \in UserIds(bp) : bp.list[b].iAddress = address}
        first == Min(here)
        second == Min(here \ {first})
        Opens(b) == IF bp.list[b].iId \in Thread THEN bp.list[b].iId \in bp.threads
                    ELSE CanOpenProcess(bp, bp.list[b].iId)
        Flag(tab, b) == [tab EXCEPT !.list[b].iDisabledForStep = TRUE]
        done == RestoreCode(Flag(bp, first), address)
    IN  IF here = {} THEN Answer(bp, "KErrNone")
        ELSE IF ~ Opens(first) THEN Answer(Flag(bp, first), "KErrBadHandle")
        ELSE IF done.err # "KErrNone" \/ here = {first} THEN done
        ELSE Answer(Flag(done.bp, second),
                    IF Opens(second) THEN "KErrNotFound" ELSE "KErrBadHandle")

(* Mutant: what was disabled for a step stays disabled. *)
MutEnableNothing(bp, t) == Answer(bp, "KErrNone")

(* The entries of thread t, and of its process, that were disabled for a    *)
(* step.  iDisabledForStep is only cleared for one that cannot be enabled.  *)
priv_DoEnableDisabledBreak(bp, t) ==
    LET disabled == {b \in UserIds(bp) : /\ bp.list[b].iDisabledForStep
                                         /\ AppliesTo(bp.list[b], t)}
        failing == {b \in disabled : ~ CanOpenThread(bp, bp.list[b].iId)}
        enabled == {b \in disabled : \A c \in failing : b < c}
        places == {bp.list[b].iAddress : b \in enabled}
        done == [bp EXCEPT !.patched = @ \cup
                   {a \in places \cap bp.mapped : ~ breakpointAlreadySet(bp, a)}]
    IN  IF t \notin bp.threads THEN Answer(bp, "KErrNotFound")
        ELSE IF failing = {} THEN Answer(done, "KErrNone")
        ELSE Answer([done EXCEPT !.list[Min(failing)].iDisabledForStep = FALSE],
                    "KErrBadHandle")

-------------------------------------------------------------------------------
(* Threads and libraries that go away *)

(* Mutant: the entries of the thread are removed, the code is not restored. *)
MutForgetThread(bp, t) ==
    [bp EXCEPT !.list = [b \in DOMAIN @ |-> IF @[b].iId = t THEN Reset ELSE @[b]]]

(* The loop clears, from the last entry to the first, what belongs to the    *)
(* thread; each is compared with the entries that are left by then.  It ends *)
(* at once when the thread cannot be opened.                                 *)
priv_DoRemoveThreadBreaks(bp, t) ==
    LET gone == {b \in DOMAIN bp.list :
                   /\ bp.list[b].iAddress # 0
                   /\ ~ bp.list[b].iObsoleteLibraryBreakpoint
                   /\ \/ bp.list[b].iId = t
                      \/ bp.list[b].iId \in Process /\ FirstThread[bp.list[b].iId] = t}
        LeftBy(b) == {c \in UserIds(bp) : c \in gone => c < b}
        restored == {b \in gone : \A c \in LeftBy(b) :
                                     ~ BreakpointsOverlap(bp.list[b], bp.list[c])}
    IN  IF t \notin bp.threads THEN bp
        ELSE [bp EXCEPT
                !.list = [b \in DOMAIN @ \ (gone \ TempId) |->
                             IF b \in gone THEN Reset ELSE @[b]],
                !.patched = @ \ {bp.list[b].iAddress : b \in restored}]

InvalidateLibraryBreakPoints(bp, code) ==
    [bp EXCEPT !.list = [b \in DOMAIN bp.list |->
        [bp.list[b] EXCEPT !.iObsoleteLibraryBreakpoint =
            @ \/ bp.list[b].iAddress \in code]]]

(* DRM_DebugChannel::DoReadMemory of one instruction: the raw memory, with  *)
(* the instruction each user entry has saved put over it, in list order.    *)
DoReadMemory(bp, address) ==
    LET here == {b \in UserIds(bp) : bp.list[b].iAddress = address}
    IN  IF here = {} THEN RawInstruction(bp, address)
        ELSE bp.list[Max(here)].iInstruction
===============================================================================
