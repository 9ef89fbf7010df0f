--------------------------- MODULE ProfilerEngine ---------------------------
(***************************************************************************)
(* The profiler engine: one thread with an active scheduler that serves    *)
(* its clients (CProfiler::ControlL), receives filled buffers from the     *)
(* sampler driver (CProfilerBufferHandler), keeps them in two lists        *)
(* (CProfilerSampleStream) and writes them to a file (CDiskWriterHandler). *)
(* The driver is the abstract one of StreamSource, which SamplerDriver     *)
(* implements.                                                             *)
(*                                                                         *)
(* Every asynchronous request that completes signals the thread's request  *)
(* semaphore.  The scheduler takes one signal for each active object it    *)
(* runs, and User::WaitForRequest takes one signal for the request it      *)
(* waits for: a request waited for twice, or not at all, breaks the count. *)
(***************************************************************************)
EXTENDS Integers, FiniteSets, Sequences, SequencesExt

CONSTANTS
    InitialBuffers,   \* KInitialFreeBufferAmount (4)
    MaxBuffers,       \* bound: TBapBufs that exist at a time
    MaxData,          \* bound: buffers the driver fills in one session
    MaxSessions       \* bound: how often sampling is started

ASSUME EngineAssumption ==
    /\ InitialBuffers \in Nat \ {0} /\ MaxBuffers \in Nat
    /\ InitialBuffers <= MaxBuffers
    /\ MaxData \in Nat /\ MaxSessions \in Nat

VARIABLES
    phase, pending, answer, powered,   \* the driver, see StreamSource
    sent,         \* number of buffers of this session the driver has filled
    data,         \* per TBapBuf: which of these it holds, 0 when iDataSize = 0
    freeBuffers,  \* iFreeBuffers, first element first
    filledBuffers,\* iFilledBuffers, first element first
    inProcess,    \* the buffer with the driver or just answered, 0 for none
    handler,      \* CProfilerBufferHandler: IsActive, iStatus completed
    writer,       \* CDiskWriterHandler: the same and iBufferBeingWritten
    file,         \* the open trace file: of each buffer written to it, in order, its
                  \* number, or 0 when the write failed and the file lacks it
    disk,         \* "ok", or "closed" after an error
    iState,       \* of CProfiler
    timer,        \* CProfilerTimer, the same two flags as a handler
    thread,       \* where the engine thread is
    command,      \* a message of the client waits for CPServer
    signals,      \* the request semaphore of the engine thread
    endDone,      \* the driver has completed EStopAndWaitForEnd
    fault,        \* history: "memory" when GetNextFreeBuffer returned 0 in this
                  \* session, "disk" when a write has ever found the disk full
    sessions

source == <<phase, pending, answer, powered>>
lists == <<data, freeBuffers, filledBuffers>>
vars == <<source, sent, lists, inProcess, handler, writer, file, disk, iState,
          timer, thread, command, signals, endDone, fault, sessions>>

Driver == INSTANCE StreamSource WITH Phases <- {"stopped", "running", "stopping"}

Buffers == 1 .. MaxBuffers
Inactive == [active |-> FALSE, done |-> FALSE]
Waiting == [active |-> TRUE, done |-> FALSE]
NoCommand == "none"

-----------------------------------------------------------------------------
(* CProfilerSampleStream: operators on l, the record of the lists.         *)

Lists == [data |-> data, free |-> freeBuffers, filled |-> filledBuffers,
          writer |-> writer, disk |-> disk, panic |-> FALSE]

\* Mutant: filled buffers are added at the end that is read.
AddToFilledTail(l, b) == [l EXCEPT !.filled = Append(@, b)]

\* AddToFilledBuffers adds at the head and GetNextFilledBuffer takes from the
\* tail; AddToFreeBuffers and GetNextFreeBuffer use the head.
AddToFilled(l, b) == [l EXCEPT !.filled = <<b>> \o @]
WithoutNextFilled(l) == [l EXCEPT !.filled = Front(@)]
AddToFree(l, b) == [l EXCEPT !.free = <<b>> \o @, !.data[b] = 0]

\* A buffer that GetNextFreeBuffer would allocate.
Used == Range(freeBuffers) \cup Range(filledBuffers) \cup {inProcess}
        \cup (IF writer.active THEN {writer.buf} ELSE {})
Unused == Buffers \ Used

NextFree == IF freeBuffers # <<>> THEN {Head(freeBuffers)}
            ELSE {b \in Unused : \A c \in Unused : b <= c}

\* Mutant: the buffer stays in the list.
WithoutNextFreeKept(l) == l

WithoutNextFree(l) == [l EXCEPT !.free = IF @ = <<>> THEN @ ELSE Tail(@)]

-----------------------------------------------------------------------------
(* CDiskWriterHandler.                                                     *)

\* WriteBufferToOutput: an asynchronous write, or no request at all when the
\* disk is full; the object is set active in both cases.  Writing to the file
\* after it was closed panics.
WriteBufferToOutput(l, b, full) ==
    [l EXCEPT !.writer = [active |-> TRUE, done |-> full \/ l.disk = "closed", buf |-> b],
              !.disk = IF full THEN "closed" ELSE @,
              !.panic = l.disk = "closed"]

\* StartL, called by NotifyWriter.
NotifyWriter(l, full) ==
    IF ~l.writer.active /\ l.filled # <<>>
    THEN WriteBufferToOutput(WithoutNextFilled(l), Last(l.filled), full)
    ELSE l

\* HandleFullBuffers.  An empty buffer is taken from the list and dropped.
HandleFullBuffers(l, full) ==
    LET m == AddToFree([l EXCEPT !.writer = [active |-> FALSE, done |-> FALSE, buf |-> @.buf]],
                       l.writer.buf)
    IN  IF m.filled = <<>> THEN m
        ELSE IF m.data[Last(m.filled)] = 0 THEN WithoutNextFilled(m)
        ELSE WriteBufferToOutput(WithoutNextFilled(m), Last(m.filled), full)

\* The new values of the lists and of the writer; the thread goes on at at.
SetLists(l, at) ==
    /\ data' = l.data /\ freeBuffers' = l.free /\ filledBuffers' = l.filled
    /\ writer' = l.writer /\ disk' = l.disk
    /\ thread' = IF l.panic THEN "panicked" ELSE at

DiskFault == fault' = IF disk' = "closed" THEN fault \cup {"disk"} ELSE fault

FullDisk == IF disk = "ok" THEN BOOLEAN ELSE {FALSE}

-----------------------------------------------------------------------------
(* Completions, from outside the engine thread.                            *)

\* The driver answers the buffer it has, with data or, at the end, empty.
Complete(isData) ==
    /\ sent' = IF isData THEN sent + 1 ELSE sent
    /\ data' = [data EXCEPT ![inProcess] = IF isData THEN sent + 1 ELSE 0]
    /\ handler' = [handler EXCEPT !.done = TRUE]

DriverFill ==
    /\ sent < MaxData
    /\ Driver!Fill
    /\ Complete(TRUE)
    /\ signals' = signals + 1
    /\ UNCHANGED <<freeBuffers, filledBuffers, inProcess, writer, file, disk, iState,
                   timer, thread, command, endDone, fault, sessions>>

\* EStopAndWaitForEnd is completed, after the pending buffer.
DriverFinish ==
    /\ Driver!Finish
    /\ IF pending
       THEN /\ answer' = "data" => sent < MaxData
            /\ Complete(answer' = "data")
            /\ signals' = signals + 2
       ELSE /\ signals' = signals + 1
            /\ UNCHANGED <<sent, data, handler>>
    /\ endDone' = TRUE
    /\ UNCHANGED <<freeBuffers, filledBuffers, inProcess, writer, file, disk, iState,
                   timer, thread, command, fault, sessions>>

DriverAnswer ==
    /\ Driver!Answer
    /\ answer' = "data" => sent < MaxData
    /\ Complete(answer' = "data")
    /\ signals' = signals + 1
    /\ UNCHANGED <<freeBuffers, filledBuffers, inProcess, writer, file, disk, iState,
                   timer, thread, command, endDone, fault, sessions>>

\* The file server has written the buffer, or not.
Appended(b, written) == IF data[b] = 0 THEN <<>> ELSE <<IF written THEN data[b] ELSE 0>>

WriteDone ==
    /\ writer.active /\ ~writer.done
    /\ writer' = [writer EXCEPT !.done = TRUE]
    /\ \E written \in BOOLEAN : file' = file \o Appended(writer.buf, written)
    /\ signals' = signals + 1
    /\ UNCHANGED <<source, sent, lists, inProcess, handler, disk, iState, timer,
                   thread, command, endDone, fault, sessions>>

TimerExpires ==
    /\ timer = Waiting
    /\ timer' = [timer EXCEPT !.done = TRUE]
    /\ signals' = signals + 1
    /\ UNCHANGED <<source, sent, lists, inProcess, handler, writer, file, disk, iState,
                   thread, command, endDone, fault, sessions>>

\* A client sends a command.  It starts only an engine that reports idle.
ClientSends ==
    /\ command = NoCommand
    /\ command' \in {"start", "startTimed", "stop"}
    /\ command' # "stop" => iState = "idle" /\ sessions < MaxSessions
    /\ command' = "stop" => iState = "running"
    /\ signals' = signals + 1
    /\ UNCHANGED <<source, sent, lists, inProcess, handler, writer, file, disk, iState,
                   timer, thread, endDone, fault, sessions>>

-----------------------------------------------------------------------------
(* The active scheduler runs one object that is active and completed.      *)

Schedule == thread = "scheduler" /\ signals > 0 /\ signals' = signals - 1

\* CProfilerBufferHandler::RunL: the next buffer goes to the driver before the
\* received one goes to the writer; without a next buffer the object stays
\* inactive.  The branch for an empty buffer is left out: see EmptyOnlyAtTheEnd.
HandlerRun ==
    /\ Schedule /\ handler.active /\ handler.done /\ data[inProcess] # 0
    /\ \/ /\ Driver!Request
          /\ \E next \in NextFree, full \in FullDisk :
               /\ SetLists(NotifyWriter(AddToFilled(WithoutNextFree(Lists), inProcess), full),
                           "scheduler")
               /\ inProcess' = next
          /\ handler' = Waiting
          /\ DiskFault
       \/ /\ freeBuffers = <<>>
          /\ handler' = Inactive
          /\ fault' = fault \cup {"memory"}
          /\ UNCHANGED <<source, lists, inProcess, writer, disk, thread>>
    /\ UNCHANGED <<sent, file, iState, timer, command, endDone, sessions>>

\* CDiskWriterHandler::RunL goes on in the same way whatever the write ended with.
WriterRun ==
    /\ Schedule /\ writer.active /\ writer.done
    /\ \E full \in FullDisk : SetLists(HandleFullBuffers(Lists, full), "scheduler")
    /\ DiskFault
    /\ UNCHANGED <<source, sent, inProcess, handler, file, iState, timer, command,
                   endDone, sessions>>

\* CProfilerTimer::After cancels the timer first.
After(isTimed) ==
    /\ isTimed /\ timer.done => signals > 1
    /\ timer' = IF isTimed THEN Waiting ELSE timer
    /\ signals' = IF isTimed /\ timer.done THEN signals - 2 ELSE signals - 1

\* ControlL(EStartSampling): a new file, ResetBuffers, and the sampler plug-in,
\* which starts the driver.
StartSampling ==
    /\ thread = "scheduler" /\ signals > 0 /\ command \in {"start", "startTimed"}
    /\ Driver!Start
    /\ After(command = "startTimed")
    /\ command' = NoCommand
    /\ sessions' = sessions + 1
    /\ iState' = "running"
    /\ file' = <<>> /\ disk' = "ok"
    /\ sent' = 0 /\ fault' = fault \ {"memory"}
    /\ data' = [b \in Buffers |-> 0]
    /\ freeBuffers' = Reverse([i \in 1 .. InitialBuffers |-> i]) /\ filledBuffers' = <<>>
    /\ inProcess' = 0 /\ handler' = Inactive
    /\ thread' = "starting"
    /\ UNCHANGED <<writer, endDone>>

\* StartReceivingData, in the same call.
StartReceivingData ==
    /\ thread = "starting"
    /\ Driver!Request
    /\ inProcess' = Head(freeBuffers) /\ freeBuffers' = Tail(freeBuffers)
    /\ handler' = Waiting
    /\ thread' = "scheduler"
    /\ UNCHANGED <<sent, data, filledBuffers, writer, file, disk, iState, timer, command,
                   signals, endDone, fault, sessions>>

\* ControlL(EStopSampling), for a client or for the timer; it returns at once
\* when the engine is not running.
StopSampling ==
    /\ Schedule
    /\ \/ command = "stop" /\ command' = NoCommand /\ UNCHANGED timer
       \/ timer.active /\ timer.done /\ timer' = Inactive /\ UNCHANGED command
    /\ IF iState = "running"
       THEN Driver!Stop /\ iState' = "stopping" /\ thread' = "waitEnd"
       ELSE UNCHANGED <<source, iState, thread>>
    /\ UNCHANGED <<sent, lists, inProcess, handler, writer, file, disk, endDone, fault,
                   sessions>>

-----------------------------------------------------------------------------
(* The rest of ControlL(EStopSampling), which blocks the thread.           *)

\* AddToFilledBuffers and NotifyWriter of HandleEndOfStream, with the buffer
\* the driver has answered.
PassOn == \E full \in FullDisk :
              SetLists(NotifyWriter(AddToFilled(Lists, inProcess), full), "drain")

\* Mutant: HandleEndOfStream waits for a buffer that was answered before.
EndDoneWaits ==
    /\ thread = "waitEnd" /\ endDone /\ signals > 0
    /\ signals' = signals - 1
    /\ endDone' = FALSE
    /\ thread' = IF handler.active THEN "waitBuffer" ELSE "stopWriter"
    /\ UNCHANGED <<source, sent, lists, inProcess, handler, writer, file, disk, iState,
                   timer, command, fault, sessions>>

\* The driver has stopped; CProfilerBufferHandler::Cancel calls
\* HandleEndOfStream when the object is active.
EndDone ==
    /\ thread = "waitEnd" /\ endDone /\ signals > 0
    /\ signals' = signals - 1
    /\ endDone' = FALSE
    /\ IF handler.active /\ handler.done THEN PassOn
       ELSE /\ thread' = IF handler.active THEN "waitBuffer" ELSE "stopWriter"
            /\ UNCHANGED <<lists, writer, disk>>
    /\ DiskFault
    /\ UNCHANGED <<source, sent, inProcess, handler, file, iState, timer, command,
                   sessions>>

\* The loop of HandleEndOfStream, until an empty buffer has come.  The result of
\* GetNextFreeBuffer is not looked at: the driver takes a null buffer for none,
\* never completes the request, and the thread waits for it for ever.
AskForRest ==
    /\ thread = "drain" /\ data[inProcess] # 0
    /\ \/ /\ Driver!Request
          /\ inProcess' \in NextFree
          /\ freeBuffers' = WithoutNextFree(Lists).free
          /\ thread' = "waitBuffer"
          /\ UNCHANGED fault
       \/ /\ freeBuffers = <<>>
          /\ inProcess' = 0
          /\ thread' = "hung"
          /\ fault' = fault \cup {"memory"}
          /\ UNCHANGED <<source, freeBuffers>>
    /\ handler' = Waiting
    /\ UNCHANGED <<sent, data, filledBuffers, writer, file, disk, iState, timer, command,
                   signals, endDone, sessions>>

TakeRest ==
    /\ thread = "waitBuffer" /\ handler.done /\ signals > 0
    /\ signals' = signals - 1
    /\ PassOn
    /\ DiskFault
    /\ UNCHANGED <<source, sent, inProcess, handler, file, iState, timer, command,
                   endDone, sessions>>

\* CActive::Cancel waits for iStatus once more after DoCancel.
HandlerCancelled ==
    /\ thread = "drain" /\ data[inProcess] = 0 /\ signals > 0
    /\ signals' = signals - 1
    /\ handler' = Inactive /\ inProcess' = 0
    /\ thread' = "stopWriter"
    /\ UNCHANGED <<source, sent, lists, writer, file, disk, iState, timer, command,
                   endDone, fault, sessions>>

\* What the filled buffers hold, oldest first: the k-th is the one that has k
\* of them, itself included, at or behind its place.  An empty buffer is passed over.
ToWrite ==
    LET full == {i \in DOMAIN filledBuffers : data[filledBuffers[i]] # 0}
        kth(k) == CHOOSE i \in full : Cardinality({j \in full : i <= j}) = k
    IN  [k \in 1 .. Cardinality(full) |-> data[filledBuffers[kth(k)]]]

\* CDiskWriterHandler::Stop: Cancel waits for the write that is under way, the
\* other filled buffers are written synchronously, oldest first.  When a write
\* finds the disk full the file is closed, and the next write panics.
StopWriter ==
    /\ thread = "stopWriter"
    /\ writer.active => writer.done /\ signals > 0
    /\ signals' = IF writer.active THEN signals - 1 ELSE signals
    /\ writer' = [writer EXCEPT !.active = FALSE, !.done = FALSE]
    /\ LET all == ToWrite
           room == IF disk = "closed" THEN {0} ELSE 0 .. Len(all)
       IN  \E written \in room :
             /\ file' = file \o SubSeq(all, 1, written)
             /\ disk' = IF written = Len(all) THEN disk ELSE "closed"
             /\ IF written + 1 < Len(all) \/ (disk = "closed" /\ all # <<>>)
                THEN thread' = "panicked" /\ UNCHANGED iState
                ELSE thread' = "scheduler" /\ iState' = "idle"
    /\ freeBuffers' = filledBuffers \o freeBuffers /\ filledBuffers' = <<>>
    /\ data' = [b \in Buffers |-> IF b \in Range(filledBuffers) THEN 0 ELSE data[b]]
    /\ DiskFault
    /\ UNCHANGED <<source, sent, inProcess, handler, timer, command, endDone,
                   sessions>>

-----------------------------------------------------------------------------
Init ==
    /\ Driver!SourceInit
    /\ sent = 0 /\ data = [b \in Buffers |-> 0]
    /\ freeBuffers = <<>> /\ filledBuffers = <<>> /\ inProcess = 0
    /\ handler = Inactive /\ timer = Inactive
    /\ writer = [active |-> FALSE, done |-> FALSE, buf |-> 0]
    /\ file = <<>> /\ disk = "ok" /\ iState = "idle"
    /\ thread = "scheduler" /\ command = NoCommand /\ signals = 0
    /\ endDone = FALSE /\ fault = {} /\ sessions = 0

Environment == DriverFill \/ DriverFinish \/ DriverAnswer \/ WriteDone \/ TimerExpires
EngineThread ==
    \/ HandlerRun \/ WriterRun \/ StartSampling \/ StartReceivingData \/ StopSampling
    \/ EndDone \/ AskForRest \/ TakeRest \/ HandlerCancelled \/ StopWriter

Next == Environment \/ ClientSends \/ EngineThread

\* The thread runs, a write ends, and the driver keeps what StreamSource
\* promises of the end of a session.
Spec == /\ Init /\ [][Next]_vars
        /\ WF_vars(EngineThread) /\ WF_vars(WriteDone)
        /\ WF_vars(DriverFinish) /\ WF_vars(DriverAnswer)

-----------------------------------------------------------------------------
(* Properties.                                                             *)

\* The filled buffers reach the file in the order in which the driver filled them,
\* none doubled and none missing but those whose own write failed, which nobody
\* notices: the later ones are still written.  When a session has ended the file has
\* been given all of them, unless memory or disk space ran out.
FileIsComplete ==
    /\ \A i \in DOMAIN file : file[i] \in {i, 0}
    /\ iState = "idle" /\ fault = {} => Len(file) = sent

\* A TBapBuf is in one place at a time: in one of the lists, once, with the
\* driver, or being written; and no filled buffer is left when a session has
\* ended, where ResetBuffers of the next one would free it twice.
BuffersHaveOneOwner ==
    LET isRecent == inProcess # 0 /\ thread \notin {"drain", "panicked"}
        all == freeBuffers \o filledBuffers
               \o (IF writer.active THEN <<writer.buf>> ELSE <<>>)
               \o (IF isRecent THEN <<inProcess>> ELSE <<>>)
    IN  /\ IsInjective(all)
        /\ iState = "idle" => filledBuffers = <<>>

\* A stop that was begun is completed, unless the disk was full or there was no
\* memory for a buffer that HandleEndOfStream had to ask for.
StopCompletes ==
    iState = "stopping" ~> (iState = "idle" \/ "disk" \in fault \/ thread = "hung")
=============================================================================
