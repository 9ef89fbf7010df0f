# Verification of the OS R&D tools: run-mode debug, profiler, AnalyzeTool, TraceCore

This directory is a TLA+ verification project for the OS R&D tools package
(`debugsrv`, `perfsrv`, `tracesrv`). It models the parts that keep state between
calls and share it between threads, interrupts and clients: the run-mode debugger
(a kernel driver and a system server), the sampling profiler (a kernel driver and
an engine thread), the allocation hook of AnalyzeTool with its kernel driver, and
the trace activation of TraceCore.

Contents: 1 inventory, 2 plan, 3 the modules and the code, 4 the runs, 5 fairness,
6 the proofs, 7 findings, 8 what is not modelled.

## 1. Inventory

### Run-mode debug (`debugsrv/runmodedebug`)

| Part | State it keeps | Operations | Talks to |
|---|---|---|---|
| Client API `RSecuritySvrSession` (`rm_debug_api.h`) | a session handle | Connect (starts the server when needed), Attach, Detach, GetEvent, breakpoints, memory, registers, lists | the DSS, by messages |
| Debug security server, DSS (`securityserver`) | active and passive debug maps, session count, shutdown timer, per session the list of `CSecuritySvrAsync` handlers | one handler per request, `RunL` of each active object, session open and close | clients (messages), the driver (synchronous calls, one asynchronous GetEvent per handler) |
| Driver channel `DRM_DebugChannel` | client thread, debugged process list, break manager, stepper | `DoControl`, `DoRequest`, `DoCancel`, the handlers of kernel events | tracker, agents, breakpoints |
| Kernel event hooks `DRM_DebugEventHandler` | tracking flag, channel pointer, the data lock | `HandleEvent` for each kernel event, in the thread that raises it | channel, tracker |
| `DProcessTracker`, `DTargetProcess` | tracked executables, per executable its agents, agents attached to all, frozen-thread semaphores | attach, detach, look-up, notify, freeze, suspend, resume | agents |
| `DDebugAgent`, `TDriverEventInfo` | ring buffer of events, event actions, the outstanding GetEvent request, "dying" flag | SetEventAction, GetEvent, CancelGetEvent, NotifyEvent | DSS thread (request completion), tracker (suspending) |
| `D_RMD_Breakpoints`, `DRMDStepping` | table of breakpoints (10 temporary, up to 100), next id, disabled-for-step flags | set, enable, clear, modify, disable for a step, enable again, remove with thread or process | code modifier of the kernel |
| `D_list_manager`, `TDebugFunctionality` | none | fill a client buffer | – |

What is hard there:

* **Concurrency.** The kernel raises events in whatever thread runs; the DSS is
  one thread with many active objects; clients come, go and cancel at any time.
  The driver's data lock makes each driver call and each event one step, but the
  order of the steps is arbitrary, and `FSWait` is called outside of the lock.
* **Three records of one attachment.** The pair in the DSS maps, the agent in the
  tracker and the handler in the session are created and removed by separate
  statements, most of which can fail.
* **One outstanding request.** The completion of a request, its cancellation, a
  detach, a closing session and the death of the agent race for the same message.
* **Bounded buffers.** An event may be refused after its thread was suspended.
* **Sharing of code.** Breakpoints of several threads, and the temporary ones of
  steps, share instructions.

### Performance Investigator (`perfsrv/piprofiler`)

| Part | State it keeps | Operations | Talks to |
|---|---|---|---|
| Sampler driver `DGeneralsDriver` (`GeneralsDriver.cpp`) | sampling state, DFC bookkeeping (`doingDfc`, `postSampleNeeded`), timer, power state | sampling interrupt, `NewDoDfc`, start, stop, read and end messages, power handler | samplers, the client's buffers |
| Sample buffers and stream (`ProfilerGenericClassesKrn.inl`) | per sampler a front and a back buffer and a copy status; the client buffer being filled | AddSample, swap, AddSamples, end of sampling | interrupt and DFC |
| Engine `CProfiler`, `CProfilerBufferHandler`, `CProfilerSampleStream` | state, lists of free and filled buffers, stop timer | start, stop, receive buffers, drain | driver (asynchronous reads), writer |
| `CDiskWriterHandler` | the buffer being written | write, completion | file server |
| ITT, MEM, GFC, ... samplers and controllers, settings, user interface | their own sample formats | – | the stream |

Hard: an interrupt fills a buffer that a DFC swaps and copies; a sample is split over
buffers and a buffer over client buffers; the engine waits for requests in two ways
(active scheduler and `User::WaitForRequest`) on one request semaphore; a stop drains
driver, lists and writer in order while memory or disk may run out.

### AnalyzeTool hook and kernel driver (`perfsrv/analyzetool`)

The driver keeps a queue of library and thread events and at most one client request.
The user side has one active object that serves it, an allocator with a table of code
blocks and a table of the threads that use it, and one allocator object per thread.
Hard: events and requests arrive in either order and meet in a DFC; a thread other
than the one with the scheduler may cancel or restart the handler; the last thread
that leaves deletes the allocator that others may still use.

### TraceCore (`tracesrv/tracecore`)

`DBTraceOstCategoryBitmap` keeps the array of activated components and groups and a
temporary copy that shares its group entries; the OST handler caches answers; the kernel
handler primes BTrace categories in a DFC; the notifier tells receivers; settings survive
a restart; `DTraceCore` chooses the writer. Hard: traces are looked up from any context,
interrupts included, while a change is edited and swapped in, without a lock; a switch of
writers and the priming DFC overtake each other.

### Other parts

| Part | What it does |
|---|---|
| AnalyzeTool command line engine | parses trace files on a host, sequentially |
| MemSpy (`perfsrv/memspy`) | walks heaps and kernel objects, formats output; caches |
| TraceCore routing, media plug-ins | parse message formats, hand bytes to a transport |
| Trace compiler (`tracesrv/tracecompiler`) | build tool in Java and Perl |

### What makes each part correct

* Agent queue: a bounded FIFO; no lost wake-up; head, tail and free count agree;
  an answered request carries an event; a dying agent suspends nothing.
* Tracker and DSS: the three records agree; each pending request can be found by
  an event, and by a cancellation; each message is answered exactly once; the
  server stops when and only when idle.
* Freezing: stops and resumes balance; a stopped thread stays and a resumed one goes on.
* Breakpoints: no instruction stays patched without an entry, no enabled entry is
  missing from the code, a step always ends.
* Profiler: what is sampled reaches the client and what the client is given the file, in
  order, and what is lost on the way is known exactly; full buffers are copied; every
  buffer has one owner; a stop ends.
* AnalyzeTool: request and event meet; the tables follow the process; the allocator
  outlives its users.
* TraceCore: decisions, notifications, filters and settings follow the array, and
  what a look-up can see in the middle of a change is bounded.

## 2. Plan

1. `DebugAgent` with the abstract `EventFifo`, and `DebugAgentProofs`. Done.
2. `ProcessTracker` composed with the DSS in `SecurityServer`. Done.
3. `BreakTable`, `Stepping`, `SteppingHistory`. Done, except for the removal of a
   process and of the channel.
4. `ThreadFreeze` and `ThreadFreezeProofs`. Done.
5. Profiler: `SampleBuffers` and `SamplerDriver` implementing the abstract
   `StreamSource`, on which `ProfilerEngine` is built. Done.
6. AnalyzeTool: `LibraryEvents` and `LibraryEventsProofs`. Done.
7. TraceCore: `TraceActivation`. Done.
8. Proofs: one module of theorems per component. Done for every safety invariant and
   action property the passing runs check; section 6 has the hypotheses, and says what
   stays with TLC and why.
9. Open: `RemoveBreaksForProcess` and `ClearAllBreakPoints` in `BreakTable`, and the end
   of a channel in `Stepping`.

## 3. Modules and code

### Run-mode debug

**`EventFifo`** is what an agent promises: entries leave in the order they came,
a reader waits only while nothing is queued, and an entry is refused only when it
may be (a user trace above the critical level, anything in a full queue).

**`DebugAgent`** is `DDebugAgent`. The ring (`iEventQueue`, `iHead`, `iTail`,
`iFreeSlots`, `iIgnoringTrace`) is one record `queue`; the inline functions of
`d_debug_agent.inl` are operators on it. Actions: `NotifyEvent(e)` (kernel),
`GetEvent`, `CancelGetEvent`, `SetEventAction`, and on the DSS side `Collect` (the
completion is taken by `CSecuritySvrAsync::RunL`) and `ResumeThread`. A slot keeps
type, thread and action; the rest of `TEventInfo` is left out. Every operation
runs under the channel's lock, so a handler is one action. `CanWrite` stands for
`PopulateEventSpecificInfo`, which knows no layout for two of the types.

**`ProcessTracker`** has no variables: a tracker is a record (executables with
their agents, newest first; agents attached to all, oldest first) and the methods
of `DProcessTracker` and `DTargetProcess` are operators from trackers to trackers.
`Exe` maps the spelling of a name to the executable: the driver and the maps
compare without letter case, the sessions compare handlers with it. An agent's
queue is its length here, and its outstanding request the handler it belongs to;
`DebugAgent` has the detail.

**`SecurityServer`** is the DSS composed with the tracker and the kernel. Each
message handler is one action with all its driver calls; kernel events, the timer
and the clients interleave with them. (An event between two driver calls of a
handler has the effect of the same event before or after the handler, because
each handler makes at most one driver call that looks at agents and the
completion is only seen by the active scheduler afterwards.) The destructor of a
session is not one such call: it takes its handlers one by one (`DestroyHandler`), each
with the driver call of `Cancel`, and then tells the driver, the maps and the server
(`CloseSession`). `closing` holds the session while this goes on; the kernel's events
fall between any two of these steps, and everything of the server's own waits for the
end (`Ready`). `CActive::Cancel` blocks when nobody completes the request
(`server = "blocked"`), completing a message twice and starting a running timer panic,
and an index outside of an array is a fault: these are states of the model, so that the
properties say the code never gets there, instead of assuming it. Requests that are
refused with an error and change nothing are not steps.

**`ThreadFreeze`** has the array of fast semaphores, and for each thread its place in
the exception path, its kernel suspend count and the stops that agents know of. An
event (`HandleEvent`) is one step under the data lock; `FSWait` afterwards is three
steps without it: a round of the loop (`FSWaitLook`), reading the entry it found
(`FSWaitCall`), and the wait (`FSWait`). `DoSuspendThread`, `DoResumeThread` and
`Unload` (the destructor, which signals everybody) run between any two of them. Using
a semaphore that has been deleted or belongs to another thread is the place "fault".

**`BreakTable`** has no variables either: a breakpoint table is a record of the
entries by break id, `iNextBreakId`, the debugged processes, and what the table
acts on: the addresses that hold a breakpoint instruction, those that are mapped
and the threads that can be opened. Each private method of `D_RMD_Breakpoints`
keeps its name and is an operator to `[bp, err]`. `iThreadSpecific` is not a field:
`iId` is a thread or a process. The kernel's code modifier (`ModifyCode`,
`RestoreCode`) is external: one patch per address, and restoring what is not
patched answers `KErrNotFound` (`priv_DoClearBreak` expects that answer).
An instruction is "original", "breakpoint" or "zero".

**`Stepping`** has the table, and for each thread its program counter, its suspend
count and what the agents were last told. Actions of the agent: `SetBreak`,
`ClearBreak`, `ModifyBreak`, `Step`, `ResumeThread`, `SuspendThread`. Actions of
the target: `Execute` (an instruction), `Hit` (a breakpoint instruction, with all
of `HandleInvalidOpCodeException`), `KillThread`, `ThreadGone`, `RemoveLibrary`,
`AddLibrary`. The program is a function `NextPC` from each instruction to the
next one: `PCAfterInstructionExecutes` is taken to be right. A request or a trap
is one step because both hold the driver's data lock.

**`SteppingHistory`** adds what the agent has asked for and seen: instructions left
of a step (`togo`), whether a thread has been shown at its place (`shown`), and
breakpoints whose modification was refused (`refused`).

### Profiler

**`SampleBuffers`** (operators) is `DProfilerSampleBuffer` and the arithmetic of
`DProfilerSampleStream::AddSamples`: a sample that does not fit is split over front
and back, a back buffer over client buffers, with the headers and the minimum space
the code keeps. A byte is the number of the sampled unit it belongs to.

**`SamplerDriver`** is `DGeneralsDriver` for one CPU: the interrupt (`SampleTick`,
`StoppingTick`, `IdleTick`) is atomic and falls between any two steps of the DFC
thread, whose `NewDoDfc` is split at every sampler and, within a sampler, between the
check, the sample, the copy and the release. Messages of the client
(`HandleStart`, `HandleRead`, `HandleStop`, each with its end) and the power handler
use the same state. `postSampleNeeded` keeps its 8 bits, scaled to `CounterMax`.
The history `stranded` has the samplers whose double was not free when the stop came to
them, so that `EndBuffer` (`EndSampling`, which acts only with `BufferOk`) did not hand
their front over.

**`StreamSource`** is what the engine is promised by a driver: a pending buffer is
answered no later than a stop, and after it every further one. `SamplerDriver` is
checked to implement it (`ImplementsSource`), and **`ProfilerEngine`** uses it as its
driver. The engine has one thread: the scheduler takes a signal of the request
semaphore and runs the buffer handler, the writer, the timer or a client's command;
`StopSampling` and the draining that follows block in `User::WaitForRequest`. A write may
end with an error, which leaves a 0 in `file` and changes nothing else, because `RunL` does
not look at it. With no memory for a buffer the draining loop gives the driver a null
pointer and waits for ever (`thread = "hung"`). A wait
that takes a signal which belongs to another object, or a run without a signal, shows
as a wrong count of signals or as the state "panicked".

### AnalyzeTool

**`LibraryEvents`** has the driver's event array, its one request and its DFC, the
handler with its request status and scheduler, the two tables of the allocator, and
the threads of one process with the heap each uses. Events of the kernel (`AddLibrary`,
`RemoveLibrary`, `End`), the DFC, `RunL`, and the user operations (`Create`,
`ShareHeap`, `Alloc` with `Start` of the handler, `Uninstall`, `CountUsers`, `Close`,
the destructor in two steps around `Cancel`'s wait) interleave; the allocator's mutex
is kept only where a thread waits while it holds it. Libraries have names, and `Libs` and
`Foreign` may share some: the history `strayed` has the libraries of this process whose
name another one unloaded since they were loaded.

### TraceCore

**`TraceActivation`** has the live array `iOstComponents` and the copy `iTmpArray` as
views (a number of groups per component) of *one* block of group entries, because
`CopyArray` copies the `RArray` objects and not what they point to. A change is
started by a message, an API call, a refresh or the settings, edits one group at a time,
and is then swapped in, after which the cache is cleared, the handlers are told, and
the notifier runs. A trace (`HandleFrame`) is a sequence of steps in one of several
`Contexts` (threads, interrupts, processors), and all of them, as well as the clearing of
the cache (`ClearItem`, one item at a time), fall between each other: comparing with an
item (`CompareItem`), the look-up (`LookUp`), each assignment of the swap of the item pointers
through the shared `iTemp` (`SwapPointers`), and each of the three words that are written
(`WriteWord`). The cache is an array of items and `iCacheItem` the pointers to them. The
comparison of one item (two reads) and the reading of its answer are one step. The history
`late` marks an answer looked up before the swap of the arrays, `mixed` that two updates, or
an update and the clearing, overlapped since then. A block
that grows is moved (`moved`), after which the live array points to freed memory.
The priming DFC and `PrepareSetWriter`/`SetWriter` are separate steps.

Reading the settings is a loop of `ReadFromSettings`, one component at a time; the
sequences that the code visits in order (`InOrder`) are chosen among the sequences of a
set, and there is exactly one.

`MCDebugAgent`, `MCSecurityServer`, `MCStepping`, `MCSteppingHistory` and
`MCTraceActivation` give small sets to the constants; the other modules take theirs
from the configuration. `DebugAgentProofs`, `SecurityServerProofs`, `ThreadFreezeProofs`,
`SteppingProofs`, `SamplerDriverProofs`, `ProfilerEngineProofs`, `LibraryEventsProofs` and
`TraceActivationProofs` hold the theorems. Definitions whose comment begins with "Mutant" are deliberately
wrong variants of the definition below them, used to see that the properties can fail.

## 4. Runs

| Run | Shows | Bounds, and why they are enough |
|---|---|---|
| `debug_agent` | slots, wake-ups, refusals, dying agent, and that the ring implements `EventFifo` | 2 slots with the critical level at 0: empty, at critical, full and wrap-around all happen with a trace, exceptions, a breakpoint and a fatal event of the agent's own thread |
| `server_sessions` | health, agreement of the three records, tracked requests, idle shutdown, answered waiters | two agents with a session each, one executable and "all", three handlers, two messages, failing `Insert`: each agent can attach both ways while the other one is waiting, cancelling or closing |
| `server_degraded` | no panic and no lost message | two sessions of one agent, two spellings of the name, every allocation failure: handlers outlive attachments |
| `thread_freeze` | stops are counted, stopped threads stay, faults are races, resumed threads run | two threads, two agents, two events and one suspension: both agents stop for one event, one thread's removal shifts the other's index, a frozen thread is suspended too |
| `stepping_orderly` | memory reads show the program, no breakpoint is passed unseen, steps execute what was asked and end, stops are reported | one thread, a loop of two Thumb instructions and an ARM one, steps of 1 and 3 (the whole loop), two breakpoints of the thread or its process: steps that end at, before and behind breakpoints, and step off one onto another |
| `stepping_self_branch` | violation: see section 7 | one thread at an instruction that branches to itself, with a breakpoint there; the rest as in `stepping_orderly` |
| `stepping_shared` | no thread under two breakpoints; no instruction without entry, with a library that comes and goes | two threads, one of them exits and is gone; breakpoints of either thread and of the process at two addresses, one of them library code, changed while the threads run |
| `sampler_driver` | samples arrive in order and once, and a stop loses exactly the stranded fronts; an empty buffer comes only when all samplers have ended; full buffers are copied, the driver implements `StreamSource` | buffers of 3 units and samples of 2, client buffers of 7 with headers of 1: every split happens; an immediate and a deferred sampler, two sessions, one power-down |
| `profiler_engine` | the file is in order, with gaps only for failed writes; buffers have one owner, a stop ends | 3 free buffers that grow to 6, 5 filled ones, two sessions, any write may fail, memory and disk may run out |
| `library_events` | requests meet events, tables catch up but for strayed libraries, the allocator outlives its users, events are handled | three threads of which two have schedulers, one name of a library that this and another process load and unload, three events: enough for a handler restarted by another thread and for a thread that joins during the destructor |
| `trace_activation` | decisions, torn reads, receivers, filters, refresh and settings | one scenario at a time of six: traces, larger changes, refresh, receivers, settings, writers; a kernel and two application components, up to five groups, two in a message; an array grows at every second insertion. Traces: two contexts, which are symmetric, three traces in all and two cache items (the code has four, which the same statements rotate): two updates overlap, a third one finds the result, and a change falls anywhere |
| `trace_usb_writer` | violation: see section 7 | the same |

The orderly agent changes breakpoints only while all threads stand still. That is
the way a debugger is used, and the properties of `stepping_orderly` need it: a
breakpoint set at the target of a running step is passed. They also need a single
thread, because a breakpoint is taken out of the code for everybody while one
thread steps off it.

`MaxBreakId` bounds the ids given out, `MaxSuspend` the suspend count. The limit of
the table (`KErrOverflow`) is modelled and not reached by the runs. The agent of
`stepping_shared` does not modify a breakpoint of a library that is gone
(`CanModify = {FALSE}`), which cannot be cleared any more, and memory for the list is never missing
(`AppendMayFail`); see section 7 for both.

Several properties state their exception instead of assuming it away: `StoppedThreadsStay`
names the threads that were in `FSWait` when a semaphore went, whose freeze failed, or that
one event gave two semaphores; `FramesFollowTheBitmap` the late answer and overlapping updates;
`SamplesAreConserved` the stranded front; `FileIsComplete` the failed write;
`TablesCatchUp` the library whose name another process unloaded; `FiltersFollow` the priming that
came too early; `FullBuffersAreCopied` the `doingDfc` left over from an earlier session;
`StopCompletes` a full disk and a missing buffer; `AllocatorOutlivesUsers` the threads that the table cannot
know. Each exception is a behaviour of the code that section 7 lists.

`MaxEvents` (one queued event in `SecurityServer`) is a cap on `queued`; more
events are refused, as by a full ring. `Handlers` is the number of handler objects
that exist at a time. Elsewhere `MaxEvents`, `MaxSuspends`, `MaxSessions`, `MaxUnits`,
`MaxData`, `MaxTraces` and `MaxPowerDowns` count what the environment may do. Deadlock is not
checked where everything may rightly come to rest: bounded environments, threads that
all stand still or have exited.

## 5. Fairness

* `Stepping`: weak fairness of `Execute(t) \/ Hit(t)` for each thread: the
  kernel's scheduler runs a thread that is ready. The agent has none.
* `SecurityServer`: weak fairness of `RunL(h)` (the active
  scheduler runs each object whose request has completed), of `TimerExpires` (the
  kernel completes a timer) and of `Shutdown` (the timer's `RunL`). Clients, events
  and `StartServer` have none: nobody has to use a debugger.
* `ThreadFreeze`: weak fairness of a ready thread's own steps. No agent has to resume
  anything: `ResumedThreadsRun` speaks of threads whose stops have been undone.
* `SamplerDriver`: weak fairness of the timer interrupt, of the DFC thread and of the
  client's next read while it waits for the end (the client blocks for the answer and
  reads again). Starting, stopping and power changes have none.
* `ProfilerEngine`: weak fairness of the engine thread, of the file server's completion
  and of the driver's two answers, which `SamplerDriver` is shown to give.
* `LibraryEvents`: weak fairness of the DFC, of `RunL` and of the rest of a destructor
  whose wait has returned.
* `DebugAgent` and `TraceActivation` state none; their properties are safety.

## 6. Proofs

All theorems are of the form `Spec => []P` or `Spec => [][A]_v` (or the initial
condition and steps of an abstract specification), and hold for every value of the
constants that satisfies the named assumptions. Each rests on an inductive invariant that
TLC confirmed on the run's instance before it was proved: one lemma per action, then
one step that combines them.

**`DebugAgentProofs`** (`SizeAssumption`, `EventAssumption`, `ThreadAssumption`: a ring
of at least one slot, any critical level, any events) proves `TypeCorrect`,
`IndicesAlwaysAgree`, `SlotsAlwaysMatch`, `NoLostWakeUp`, `AnswersAreEvents`, and
`DyingAgentIsHarmless`, the action property about a dying agent. None of the invariants
is inductive alone: that a removed slot is the right one needs the counters to agree,
that a waiting reader sees the event just stored needs the queue to be empty while it
waits, and that an answer carries an event needs the slot at the tail to hold one.
`IInv` is their conjunction. The argument goes bottom up: `NextPositionWraps` (the
successor on the ring without `%`), `StoreKeepsRing` and `RemoveOldestKeepsRing`,
`QueueEventKeepsRing`, one lemma per action, then `Invariance`.

`RingImplementsFifo`, in the same module, is the refinement: the agent implements
`EventFifo`. The refinement mapping reads the ring from tail to head; `Place` is the slot
of the k-th oldest event. Storing an event appends it to that sequence and removing the
oldest takes its tail, wherever the indices wrap, so each handler is an action of
`EventFifo` or leaves the sequence and the request alone. `SuspensionsAreReported` is the
action property `SilentSuspensionOnlyWhenRefused`.

**`SecurityServerProofs`** (`SessionAssumption`, `NameAssumption`, `NothingAssumption`,
`FailureAssumption`: any sessions, names, handlers and messages) has two parts.

The first supposes nothing of the clients and allows every failure: `ServerNeverPanics` and
`MessagesAlwaysHeld`. A handler is in one place of one list, that of an open session
(`Placed`); the outstanding messages are those that the active handlers hold, each one
its own (`Holding`); the session count is that of the open sessions, and the timer runs
only while there is none (`Counted`). Once the server is blocked or faulted it does
nothing more, so only kernel events need to be looked at. Handlers leave their list one
at a time, which is why the destructor of a session needs no induction over the list.

The second is about orderly clients: each executable has one spelling
(`SpellingsApart`), each agent one session (`AgentsApart`), one agent at most may
attach to all (`OneAttachesToAll`), and no attachment fails but in its last step. Run
`server_sessions` has the same restrictions; section 7 says what happens without the
first three, and a failure in the middle of an attachment is dealt with in
`server_degraded`. `ServerAlwaysHealthy`, `AttachmentsAlwaysAgree`,
`RequestsAlwaysTracked` and `EventsAlwaysAnswer` all rest on `Books`: the lists of the
driver hold no agent twice and the attach-all list one at most (`GoodTracker`); a pair is
in one of the server's maps exactly when the driver has the agent (`Mapped`); a session
has one handler for each of its pairs until it begins to end (`Members`); and an
agent waits with a request exactly when the handler of that request is active and
pending (`Requests`). None of these is inductive alone. `Cancel` does not block because
the driver finds the agent of a handler in a list, and takes back just that handler's
request (`LetGo`); a destroyed handler leaves no request behind because no other handler
waits for its pair (`Alone`); `DetachAgent` stays inside the attach-all list because there
is one agent in it; an event answers a waiting handler because its agent is among those
that are told (`AgentsTold`), by name or by attach-all.

**`ThreadFreezeProofs`** (`FreezeAssumption`: any threads, agents and events) proves
`FaultsAreAlwaysRaces` and `WaitersAreAlwaysListed`, which hold in raced executions too,
and `StopsAreAlwaysCounted` and `StoppedThreadsAlwaysStay`. The first two need
`SeesItsOwn`: what an unraced thread in `FSWait` has found is still at its index, or
still in the list. Appending keeps every entry in place; removing keeps all others
somewhere and marks every thread in `FSWait` as raced. The types are stated over some
set of addresses, so nothing about allocation needs to be known. The counting needs how
many entries of the list are a thread's own (`Stops`), and where a thread with
semaphores can be (`Placed`): none while it runs its own code, only ahead of it while
it scans, and no two unless one event gave it two.

**`SteppingProofs`** (`TableAssumption`, `ThreadsAssumption`, `CodeAssumption`,
`InstructionsAssumption`: any threads, processes, addresses and code) proves
`BreaksNeverConflict` and `CodeAlwaysHasEntries`. `Good` says what a breakpoint table
is: the temporary entries exist and the next id is fresh, entries stand at
instructions, and no two of the user's entries conflict (`GoodList`). There is a lemma
for each private method of `D_RMD_Breakpoints`, saying which entries and which
instructions it leaves. The loop of `priv_DoRemoveThreadBreaks` has a closed form in
`BreakTable`, so that no induction over entries is needed. `Covered` adds that every instruction that is replaced
has an entry, outside of libraries, and that only entries in libraries are obsolete.
`CodeAlwaysHasEntries` has two hypotheses, which the run that checks the property also
makes: the list finds memory (`AppendMayFail = FALSE`) and no breakpoint of a library that
is gone is modified (`CanModify \subseteq {FALSE}`); section 7 has what goes wrong without either.

The same module proves the properties of `SteppingHistory` for any program of one thread:
`ReadsAlwaysSeeTheProgram`, `BreaksAlwaysShown`, `StopsAlwaysReported` and the action
property `StepsStopAtTheirTarget`. Breakpoints may be modified, and memory for the list
may be missing. The invariant `History` relates the table to the place of the thread:

* `Plain`: saved instructions are the program's, and each patched place has an entry;
* `Standing`: while the thread stands still no temporary entry is in use, and each of the
  user's entries is in the code, except for those whose modification was refused;
* `Going`: while it runs, a breakpoint is out of the code only where the thread stands and
  has been shown, and the next instruction has a breakpoint, so that it cannot
  come back before the trap that enables the first again;
* `OnStep`: the temporary entry of a step is for the next instruction or has just
  been reached, and its `iNumSteps` agrees with the instructions that are left (`togo`).

The step that is hard is the trap: one handler clears the temporary entry, enables what
was disabled and, when the step goes on, disables and sets breakpoints for the next
instruction. Its parts have a lemma each. The hypotheses are `SingleThread`,
`NoSelfLoops` (`NextPC[a] # a`) and `Orderly`. `BreaksAreShown` needs each: a second thread passes
the breakpoint that the first one steps off, a breakpoint set at the target of a running
step is taken for its end, and run `stepping_self_branch` shows the third.

**`LibraryEventsProofs`** (`EventsAssumption`: any finite set of threads, any libraries
and number of events) proves `RequestsAlwaysMeet`, inductive with the places of the
threads (`Shape`): the main thread does not come back from the dead, and the destructor
forgets the handler's side only when the driver's is free. `AllocatorAlwaysOutlives`
needs `Users`: a reported death is one (`Reports`), the thread table has every thread
that shares the allocator and no thread twice (`Table`), and once the destructor is
certain, whoever may still use the allocator has a heap of its own or came late
(`Heaps`).

`TablesAlwaysCatchUp` says that the tables of the allocator lag behind the process by the
events on their way and nothing else. `Lags` states it with a list of tables, one after
each event of the driver's queue: there is one, and every one ends with the libraries
that are loaded. Such a list is extended by a step at its end when the kernel adds
an event, and loses its first element when the handler takes one, so that what a replay
of the queue computes never has to be found by induction. A thread that is gone and still in
the thread table is one whose end is `Announced`. `Steady` adds that nobody cancels the
handler before the destructor. There is no hypothesis about names: libraries of other
processes may have the name of one of this process, and because code blocks are
removed by name only (section 7) the theorem says which blocks are then missing: exactly
`strayed`, so the tables end with `loaded \ strayed` (`Ours`).

**`SamplerDriverProofs`** (`BufferAssumption`, `DriverAssumption`: any buffer sizes the
driver can work with, any samplers) proves `SamplesAlwaysConserved`. `Runs(s, k, e)` says
that a sequence counts on from `e` behind its first `k` elements. For each sampler the
client's data, the rest of the double and the front are three such stretches, each
beginning where the one before it ends (`Live`), until `EndSampling` has handed the
front over (`Ended`) or has left it behind (`stranded`), and then what was delivered and the
front together are what was accepted; `Control` ties the place of the DFC thread to the state of the
driver, which is why only samplers that the ending loop has passed are not live. An
interrupt may fall between copying and releasing because `Good` demands an empty double
of a buffer whose status is `Ok`, and of no other. `DriverKeepsPromises` is the safety part
of `ImplementsSource`: each step is a step of `StreamSource`. It needs, besides, what
the client waits for in each state of the driver (`ClientControl`); serving a sampler
leaves the client's buffer alone or answers it with data (`Answering`).

**`ProfilerEngineProofs`** (`EngineAssumption`) proves `BuffersAlwaysHaveOneOwner`. `Owners`
says that the two lists, the buffer being written and the one with the driver share
nothing and repeat nothing; between adding an answered buffer to the filled list and the
next request of the draining loop the member `inProcess` is stale, and `Held` accounts
for it. `Control` says which requests are possible where the thread is.

`FileAlwaysComplete` adds `FileInv`. The buffers that the driver has answered with carry
consecutive numbers; the file holds the first of them in order (`Counted`), and the next
ones are with the writer, then in the filled list from its last element to its first,
then in the answer that is in no list yet (`Lined`, `Ordered`). One buffer of the filled
list may be empty, only while the engine drains the driver. When the disk is full the
numbers after the file need not be there any more, but the file stays a beginning
(`Answers` ties the faults to the place of the thread). A place in the file holds its number,
or 0 if that write failed.

**`TraceActivationProofs`** (`TraceAssumption`, `GroupsAssumption`, `ComponentsAssumption`:
finitely many components, any groups, sizes and scenarios) proves every property of the run.
`Shape` has the two arrays over one block: counts within blocks, no component dropped
before the swap, and edits that concern one component which is added first. `Frames`
says that outside of the edits a look-up in flight is right unless it is late. For the cache
(`Cache`, `FramesAlwaysFollow`) no order of the items is known while pointers are swapped, and
none is needed. `Clean` says that, as long as no update overlaps another one or a clearing,
no pointer whose item has been cleared (`Fresh`) reaches a stale answer (`Sound`), except
for the item being written, whose words and `iTemp` are followed by `Underway`; `Restored` that what the settings hold is active, or still in the
part of them that is to be read (`SettingsAlwaysRestored`). The others need more:

* `TornReadsAlwaysBounded`: the blocks stay in order (`Lined`), so that an insertion
  shifts what is behind it and a removal closes a gap, and what either array shows in the
  middle of a change was active or is recorded as changed (`Tracked`);
* `RefreshAlwaysKeepsTraces`: a turn of the refresh names a group by its index, which is
  its rank among the groups of the start (`Rank`), because each earlier group is
  in again when the turn comes; each group has had its turn, is out, or has one to
  come (`Queued`, `EditsLeft`);
* `FiltersAlwaysFollow`: an open category is activated or a priming is due (`Closed`), an
  activated one is open, or its report is still to come (`Passed`), and groups above
  the categories are open from the edit that adds them (`Opened`). It needs that a group is
  used only by components that the scenario lets use it (`Uses`);
* `ReceiversAlwaysAgree`: what receivers were told is what was active before the
  change, and after the swap lies between that and what is active now (`Telling`); each
  difference is recorded as changed (`Reported`). Its hypothesis is that only the kernel
  component has a group 0, which the notifier takes for all groups (section 7).

Only model-checked, and why:

* liveness (`FullBuffersAreCopied`, `StopCompletes`, `ResumedThreadsRun`, `StepEnds`,
  `EventsAreHandled`, `IdleServerStops`, and the fairness of `ImplementsSource`): outside
  of what the prover does;
* the hypotheses above: what a client that is not orderly can do to the debug server is
  bounded by the first part of its proofs and by run `server_degraded`, not more.

## 7. Findings

Two runs state what a comment says and the code violates.

`stepping_self_branch`: "If there is already a user breakpoint at this address, we do not
need to set a temp breakpoint. The program should simply stop at that address"
(`d_rmd_stepping.cpp:1814`). When an instruction with a breakpoint branches to itself (an
idle loop, a thread that waits in `b .`), the breakpoint found at the target is the one
that `DisableBreakAtAddress` has just taken out (`:1791`): the step or resume never stops,
and the breakpoint is passed unseen from then on. The attempt to prove `BreaksAreShown`
found this; the loops of the other runs have no such instruction.

`trace_usb_writer`: switching from XTI to USB leaves CPU events on, because
`PrepareSetWriter` primes the category while the handler still has the old writer
(`BTraceKernelCategoryHandler.cpp:147`, comment at `:146`).

Other disagreements met while modelling, which have no run of their own; the model
does what the code does.

Run-mode debug:

* `EEventsBufferFull` is documented and cannot be queued (`d_debug_agent.cpp:457`);
* traces dropped after the reader took the marker, while the queue stays above the
  critical level, are not announced (`d_debug_agent.cpp:435`);
* an event may be refused after its thread was suspended (`d_debug_agent.cpp:312`);
* an event that the driver has removed from its queue for a request that is then
  cancelled is lost (`c_security_svr_async.cpp:106`);
* closing one of two sessions of an agent makes the server wait forever when the other
  one cancels (`rm_debug_kerneldriver.cpp:397`);
* `DetachAgent` reads past the end of the attach-all array (`d_process_tracker.cpp:272`);
* the handler of an attachment is looked up with letter case, everything else without
  (`c_security_svr_session.cpp:1566`), so a detach may keep the handler;
* an attach that leaves while its handler is created keeps the pair (`:1152`);
* a passive attachment hides events from the attach-all agent
  (`d_process_tracker.cpp:601`);
* `FSWait` reads the semaphore array without the lock (`d_process_tracker.cpp:461`);
  `FreezeThread` never returns the documented `KErrAlreadyExists` (`:429`), and of two
  agents that stop a thread for one event the first to resume lets it run, while the
  other semaphore stops it at its next event; the agent is told of a stop even if
  `FreezeThread` failed;
* two threads step to one address and the second is not stopped
  (`rm_debug_kerneldriver.cpp:1405`);
* with two entries at one address, threads cannot be resumed from it
  (`d_rmd_breakpoints.cpp:1488`);
* a refused `ModifyBreak` leaves its entry without instruction
  (`d_rmd_breakpoints.cpp:831`), and steps towards it run on;
* a modified entry of an unloaded library stays obsolete, and clearing it leaves the
  instruction (`:655`); an obsolete entry hides a new breakpoint (`:564`) or comes
  back into the reloaded code (`:1587`);
* `iDisabledForStep` is not cleared when the breakpoint is enabled (`:1591`);
* a failed `Append` leaves the instruction in the code (`:445`);
* `Close` is called for a thread that was not found (`:398`);
* a second breakpoint at an address saves the first one as the original (`:558`);
* a thread at another thread's breakpoint is stopped with an exception instead of
  going on (`rm_debug_kerneldriver.cpp:1451`);
* the trap handler drops the result of `DoResumeThread` (`:1440`);
* steps of a thread that stays suspended use up the temporary entries
  (`d_rmd_stepping.cpp:1881`).

Profiler:

* a DFC that finds the driver stopping leaves `doingDfc` at 1, which a start does not
  reset (`GeneralsDriver.cpp:727`): buffers of the next session may stay uncopied;
* a sampler whose double is not copied yet at the stop, without room in the client buffer,
  loses the buffer in front (`ProfilerGenericClassesKrn.inl:540-568`): up to a buffer of
  accepted samples, which `SamplesAreConserved` counts exactly;
* `CDiskWriterHandler::RunL` and `HandleFullBuffers` do not look at `iStatus`
  (`DiskWriterPlugin.cpp:310-338`): a buffer whose asynchronous write failed is freed, later
  buffers are still written, and the file has a gap that nobody is told of;
* `HandleEndOfStream` does not look at the result of `GetNextFreeBuffer`
  (`ProfilerGenericClassesUsr.inl:156-160`): without memory the driver gets a null buffer,
  takes it for none and never completes the request
  (`ProfilerGenericClassesKrn.inl:354-386`), and the engine waits for ever;
* a power-down while stopping leaves the driver stopping, and the power-up is refused;
  a power-up between a stop and the last read starts sampling again, with buffers that
  are still marked as ended;
* `postSampleNeeded` drifts, and wraps at 8 bits;
* a full disk makes the writer's handler active without a request
  (`DiskWriterPlugin.cpp:402`); memory that runs out in `RunL` leaves the buffer handler
  inactive until the stop; the buffer of a cancelled write is not given back;
  a timer of an earlier session may end a later one; a start is not guarded by the state;
  the exit command deletes the stream of a running session.

AnalyzeTool:

* a cancel of the request with an empty queue does not complete it in the driver
  (kernel `analyzetooleventhandler.cpp:301`);
* `iClientThread` dangles after the client's thread has ended;
* threads with a heap of their own, or that join during the destructor, use the deleted
  allocator; the number of threads asked from the driver is stale when it is used;
* code blocks are removed by name only, whichever process unloaded the library
  (hook `analyzetooleventhandler.cpp:91-113`; the comment at `:54`, "Check that this is observed
  process", holds for loads only): the block of a library that is still loaded here goes
  when another process unloads one of its name. `TablesCatchUp` names exactly these.

TraceCore:

* without a writer the CPU category is primed again, where the comment says disabled
  (`BTraceKernelCategoryHandler.cpp:139`); a priming between `PrepareSetWriter` and
  `SetWriter` leaves categories closed;
* the copy of the array shares its entries with the live one: look-ups in the middle of a
  change may miss untouched groups, and a reallocation leaves readers with freed memory;
* BTrace filters are per group and not per component; `KAllGroups` is also a printf group;
* the settings prime the kernel categories only if the last saved component is the
  kernel's (`BTraceOstCategoryBitmap.cpp:385`), and restoring them adds to what is active;
* the cache of answers is updated without a lock (`BTraceOstCategoryHandler.cpp:267-276`):
  when traces of two contexts overlap there, or one and the clearing of a change
  (`BTraceOstCategoryBitmap.cpp:1219-1222`), item pointers are doubled or lost through the
  shared `iTemp`, words of two traces are mixed in one item, or an item escapes the
  clearing; wrong answers then stay until they are pushed out or cleared by a later change.
  A trace that is compared with an item while that is being written may read the answer of
  the item's former group. A component with id 0 would match an empty item;
* an answer looked up before a change may be cached after it; a receiver that registers
  in the middle of a change reads a torn array; `DeactivateAll` leaves filters open.

## 8. Not modelled

* Run-mode debug: memory, registers, code lists and functionality blocks (no state kept);
  instruction decoding of the stepper; the fuzzy match of process names; OEM tokens
  (a constant set says who may attach to all); the bytes of events and messages;
  `RemoveBreaksForProcess`, `ClearAllBreakPoints` and `BreakInfo` of the breakpoints;
  the exceptions of the channel other than the breakpoint trap.
* Profiler: the ITT, MEM and other event samplers (formats of samples), the build for
  several CPUs, settings, plug-in loading, the debug output writer, the user interface.
* AnalyzeTool: the read-only queries of the channel, call stacks and log formats, the
  heaps below the allocators; a thread is killed only between two hook operations; the
  failures of `Append` that the code ignores; the command line engine, a sequential
  parser.
* TraceCore: what other changes do in the middle of a `RefreshActivations` (the refresh is
  taken as exclusive, for which the code has only a TODO, `BTraceOstCategoryBitmap.cpp:239-240`);
  the 16 KB limit of the settings buffer, and an insertion that finds no memory;
  multi-part traces, message formats, the category-to-word mapping, routing
  and media plug-ins. `TraceCoreMediaWriter.cpp` is in no project file and does not
  compile (`:129`).
* MemSpy: reads kernel objects and heaps and formats them. Most of its many lines are
  user interface and text; its state is caches of what was read.
* The trace compiler: a sequential build tool in Java and Perl.

Most lines of the repository are of these last kinds (tests, user interfaces, text
output, parsers, a compiler), where there is no protocol between actors to check; the
map of `PROJECT.json` therefore covers the stateful drivers and servers densely and the
package as a whole thinly.
