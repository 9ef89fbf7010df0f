--------------------------- MODULE SamplerDriver ---------------------------
(***************************************************************************)
(* DGeneralsDriver, the profiler's sampling device driver, in its build    *)
(* for one CPU.  Three actors share its state: the timer interrupt that    *)
(* takes samples, the driver's DFC thread that copies full sample buffers  *)
(* to the client and handles the client's messages, and the power handler. *)
(* An interrupt is atomic for the DFC thread, which it can interrupt       *)
(* between any two of its steps.                                           *)
(***************************************************************************)
EXTENDS Integers, FiniteSets, SampleBuffers

CONSTANTS
    NumSamplers,    \* KSamplerAmount: iSamplers[0 .. NumSamplers-1]
    Enabled,        \* samplers marked active when sampling starts
    Deferred,       \* samplers that sample in PostSample (PRI)
    Lengths,        \* lengths of one sample
    CounterMax,     \* largest value of postSampleNeeded, a TInt8 (127)
    MaxUnits,       \* bound: units one sampler takes in one session
    MaxSessions,    \* bound: how often the client starts sampling
    MaxPowerDowns   \* bound: how often the device is powered down

Samplers == 1 .. NumSamplers

ASSUME DriverAssumption ==
    /\ NumSamplers \in Nat
    /\ Enabled \subseteq Samplers /\ Enabled # {}
    /\ Deferred \subseteq Samplers
    /\ Lengths \subseteq 1 .. DataSize - 1 /\ Lengths # {}
    /\ CounterMax \in Nat /\ NumSamplers <= CounterMax
    /\ MaxUnits \in Nat /\ MaxSessions \in Nat /\ MaxPowerDowns \in Nat

VARIABLES
    sampler,        \* per sampler: its buffer, its flags, and two histories:
                    \* units it took and units copied to client buffers
    iState,         \* "running", "stopping" or "stopped"
    postSampleNeeded,
    doingDfc,
    dfcQueued,      \* iNewDfc is on the DFC queue
    dfc,            \* how far the DFC thread is in NewDoDfc or in a message
    timer,          \* iTimer is armed
    stream,         \* iSampleStream: has it a client buffer, its iDataSize
    endRequest,     \* iEndRequestStatus is set
    power,          \* iOff and iStarted, and the number of power-downs
    client,         \* the client thread: what it does, its last answer
    sessions,
    stranded        \* history: samplers whose double was not copied yet when
                    \* the session was ended, so that their front stayed behind

driverVars == <<iState, postSampleNeeded, doingDfc, dfcQueued, timer>>
history == <<sessions, stranded>>
vars == <<sampler, driverVars, dfc, stream, endRequest, power, client, history>>

Idle == [at |-> "idle", i |-> 0]

-----------------------------------------------------------------------------
(* Samplers.                                                               *)

NewSampler == [buf |-> ClearBuffer, sampleNeeded |-> FALSE,
               sampleInProgress |-> FALSE, taken |-> 0, sent |-> <<>>]

\* One call of AddSample with a sample of length bytes; a sample that is
\* refused is wasted and takes no numbers.  The bound on the units is kept
\* by taking no sample.
Take(r, length) ==
    IF Accepts(r.buf, length) /\ r.taken + length > MaxUnits THEN r
    ELSE [r EXCEPT
            !.buf   = AddSample(@, [i \in 1 .. length |-> r.taken + i]),
            !.taken = IF Accepts(r.buf, length) THEN @ + length ELSE @]

\* Sample(): a plain sampler adds its sample, a deferred one only the time
\* stamp, and leaves the rest to PostSample.  Length 0: no sample is due.
Sample(s, r, length) ==
    IF length = 0 \/ (s \in Deferred /\ r.sampleInProgress) THEN r
    ELSE IF s \notin Deferred THEN Take(r, length)
    ELSE Take([r EXCEPT !.sampleNeeded = TRUE, !.sampleInProgress = TRUE], length)

\* Mutant: only the first of the two states is looked for.
CopyNeededAsap(r) == r.buf.status = "CopyAsap"

CopyNeeded(r) == r.buf.status \in {"CopyAsap", "Full"}

PostSampleNeeded(r) == CopyNeeded(r) \/ r.sampleNeeded

\* Reset() at the start of a session: the first sample is its header.
Reset(length) == Take(NewSampler, length)

\* The whole of DProfilerSampleStream::AddSamples, for callers the interrupt
\* does not disturb.  x is the sampler, the stream and the client's answer.
AddSamples(x) ==
    IF ~x.current THEN x
    ELSE LET b    == x.r.buf
             size == FilledSize(b, x.dataSize)
             next == AfterCopy(b, x.dataSize)
         IN  [x EXCEPT
                !.r.buf = IF CopiesAll(b, x.dataSize) THEN ReleaseBuffer(next) ELSE next,
                !.r.sent = @ \o Copied(b, x.dataSize),
                !.dataSize = size,
                !.current = ~NearlyFull(size),
                !.answer = IF NearlyFull(size) THEN "data" ELSE @]

\* DProfilerSampleStream::EndSampling; it returns 0 when the data has ended.
EndStream(x) ==
    LET y == AddSamples([x EXCEPT !.r.buf = EndBuffer(@)])
    IN  IF x.r.buf.status = "DataEnd" THEN x
        ELSE IF y.r.buf.status = "Ok" THEN [y EXCEPT !.r.buf.status = "DataEnd"]
        ELSE y

\* PostSample() of a deferred sampler adds what its sample needs.
PostSample(s, x, length) ==
    LET y == IF s \in Deferred /\ x.r.sampleNeeded
             THEN [x EXCEPT !.r = [Take(@, length) EXCEPT
                      !.sampleNeeded = FALSE, !.sampleInProgress = FALSE]]
             ELSE x
    IN  IF CopyNeeded(y.r) THEN AddSamples(y) ELSE y

\* Mutant: the loops stop before the last sampler.
NextEnabledButLast(i) ==
    {j \in Enabled : j > i /\ j < NumSamplers /\ \A k \in Enabled : k > i => j <= k}

\* The samplers marked active, which the loops of the driver visit in order.
NextEnabled(i) == {j \in Enabled : j > i /\ \A k \in Enabled : k > i => j <= k}

\* Mutant: an empty buffer is kept.
ReleaseFilled(x) == IF x.current /\ x.dataSize > 0
                    THEN [x EXCEPT !.current = FALSE, !.answer = "data"]
                    ELSE x

\* ReleaseIfPending.
Release(x) == IF x.current
              THEN [x EXCEPT !.current = FALSE,
                             !.answer = IF x.dataSize = 0 THEN "empty" ELSE "data"]
              ELSE x

Wrap(n) == IF n > CounterMax THEN n - 2 * (CounterMax + 1)
           ELSE IF n < -(CounterMax + 1) THEN n + 2 * (CounterMax + 1) ELSE n

-----------------------------------------------------------------------------
(* The timer interrupt, NewDoProfilerProfile.                              *)

SampleTick ==
    /\ timer /\ ~power.iOff /\ iState = "running"
    /\ \E length \in [Enabled -> Lengths \cup {0}] :
         LET after == [s \in Samplers |-> IF s \in Enabled
                         THEN Sample(s, sampler[s], length[s]) ELSE sampler[s]]
             count == Wrap(postSampleNeeded
                           + Cardinality({s \in Enabled : PostSampleNeeded(after[s])}))
             add   == count > 0 /\ doingDfc = 0
         IN  /\ sampler' = after
             /\ postSampleNeeded' = count
             /\ doingDfc' = IF add THEN doingDfc + 1 ELSE doingDfc
             /\ dfcQueued' = (dfcQueued \/ add)
    /\ UNCHANGED <<iState, timer, dfc, stream, endRequest, power, client, history>>

\* The last interrupt of a session adds the DFC that ends it.
StoppingTick ==
    /\ timer /\ ~power.iOff /\ iState = "stopping"
    /\ timer' = FALSE
    /\ dfcQueued' = TRUE
    /\ UNCHANGED <<sampler, iState, postSampleNeeded, doingDfc, dfc, stream,
                   endRequest, power, client, history>>

IdleTick ==
    /\ timer /\ (power.iOff \/ iState = "stopped")
    /\ timer' = FALSE
    /\ UNCHANGED <<sampler, iState, postSampleNeeded, doingDfc, dfcQueued, dfc,
                   stream, endRequest, power, client, history>>

-----------------------------------------------------------------------------
(* NewDoDfc in the DFC thread.                                             *)

DfcBegin ==
    /\ dfcQueued /\ dfc = Idle /\ iState \in {"running", "stopping"}
    /\ dfcQueued' = FALSE
    /\ \E i \in NextEnabled(0) :
         dfc' = [at |-> IF iState = "running" THEN "check" ELSE "end", i |-> i]
    /\ UNCHANGED <<sampler, iState, postSampleNeeded, doingDfc, timer, stream,
                   endRequest, power, client, history>>

\* The interrupt added the DFC while an earlier one was ending the session.
DfcLate ==
    /\ dfcQueued /\ dfc = Idle /\ iState = "stopped"
    /\ dfcQueued' = FALSE
    /\ UNCHANGED <<sampler, iState, postSampleNeeded, doingDfc, timer, dfc, stream,
                   endRequest, power, client, history>>

\* The loop of the running branch goes on, or ends.
Advance(i) ==
    IF NextEnabled(i) = {}
    THEN dfc' = Idle /\ doingDfc' = doingDfc - 1
    ELSE /\ \E j \in NextEnabled(i) : dfc' = [at |-> "check", i |-> j]
         /\ UNCHANGED doingDfc

DfcCheck ==
    /\ dfc.at = "check"
    /\ LET r == sampler[dfc.i]
       IN  \/ /\ PostSampleNeeded(r)
              /\ dfc' = [dfc EXCEPT !.at = IF r.sampleNeeded THEN "sample" ELSE "copy"]
              /\ UNCHANGED doingDfc
           \/ ~PostSampleNeeded(r) /\ Advance(dfc.i)
    /\ UNCHANGED <<sampler, iState, postSampleNeeded, dfcQueued, timer, stream,
                   endRequest, power, client, history>>

\* The loop of a deferred sampler's PostSample: one record, then the next.
DfcSample ==
    /\ dfc.at = "sample"
    /\ \E length \in Lengths, more \in BOOLEAN :
         LET r == [Take(sampler[dfc.i], length) EXCEPT !.sampleNeeded = FALSE]
         IN  /\ sampler' = [sampler EXCEPT ![dfc.i] =
                              IF more THEN r ELSE [r EXCEPT !.sampleInProgress = FALSE]]
             /\ dfc' = [dfc EXCEPT !.at = IF more THEN "sample" ELSE "copy"]
    /\ UNCHANGED <<driverVars, stream, endRequest, power, client, history>>

\* AddSamples up to the point where DataCopied changes the status.
DfcCopy ==
    /\ dfc.at = "copy"
    /\ LET r == sampler[dfc.i]
       IN  \/ /\ CopyNeeded(r) /\ stream.current
              /\ sampler' = [sampler EXCEPT
                   ![dfc.i].buf = AfterCopy(@, stream.dataSize),
                   ![dfc.i].sent = @ \o Copied(r.buf, stream.dataSize)]
              /\ stream' = [stream EXCEPT !.dataSize = FilledSize(r.buf, @)]
              /\ dfc' = [dfc EXCEPT !.at = "release"]
              /\ UNCHANGED <<postSampleNeeded, doingDfc>>
           \/ /\ ~(CopyNeeded(r) /\ stream.current)
              /\ Advance(dfc.i)
              /\ postSampleNeeded' = Wrap(postSampleNeeded - 1)
              /\ UNCHANGED <<sampler, stream>>
    /\ UNCHANGED <<iState, dfcQueued, timer, endRequest, power, client, history>>

\* The end of AddSamples: DataCopied when all was copied (it leaves no bytes
\* behind), and the answer to the client when its buffer is nearly full.
DfcRelease ==
    /\ dfc.at = "release"
    /\ sampler' = IF sampler[dfc.i].buf.back = <<>>
                  THEN [sampler EXCEPT ![dfc.i].buf = ReleaseBuffer(@)] ELSE sampler
    /\ stream' = [stream EXCEPT !.current = ~NearlyFull(stream.dataSize)]
    /\ client' = [client EXCEPT !.answer = IF NearlyFull(stream.dataSize) THEN "data" ELSE @]
    /\ postSampleNeeded' = Wrap(postSampleNeeded - 1)
    /\ Advance(dfc.i)
    /\ UNCHANGED <<iState, dfcQueued, timer, endRequest, power, history>>

\* Sampler i, the stream and the client's answer, and what the PostSample that
\* the DFC puts before EndSampling makes of them.
Current(i) == [r |-> sampler[i], current |-> stream.current,
               dataSize |-> stream.dataSize, answer |-> client.answer]
Posted(i, length) == IF PostSampleNeeded(sampler[i])
                     THEN PostSample(i, Current(i), length) ELSE Current(i)

\* The stopping branch, one sampler.  After the last one the client's buffer
\* is released and its stop is answered; it asks for the rest of the data
\* unless the buffer is empty.
DfcStop ==
    /\ dfc.at = "end"
    /\ \E x \in {Posted(dfc.i, length) : length \in Lengths} :
       \E y \in {EndStream(x)} :
         LET z == Release(y)
         IN  /\ sampler' = [sampler EXCEPT ![dfc.i] = y.r]
             /\ stranded' = IF HandsOver(x.r.buf) THEN stranded \ {dfc.i}
                            ELSE stranded \cup {dfc.i}
             /\ IF NextEnabled(dfc.i) # {}
                THEN /\ \E j \in NextEnabled(dfc.i) : dfc' = [dfc EXCEPT !.i = j]
                     /\ stream' = [current |-> y.current, dataSize |-> y.dataSize]
                     /\ client' = [client EXCEPT !.answer = y.answer]
                     /\ UNCHANGED <<iState, endRequest>>
                ELSE /\ dfc' = Idle
                     /\ stream' = [current |-> z.current, dataSize |-> z.dataSize]
                     /\ client' = [at |-> IF ~endRequest THEN client.at
                                          ELSE IF z.answer = "empty" THEN "idle"
                                          ELSE "draining",
                                   answer |-> z.answer]
                     /\ iState' = "stopped"
                     /\ endRequest' = FALSE
    /\ UNCHANGED <<postSampleNeeded, doingDfc, dfcQueued, timer, power, sessions>>

-----------------------------------------------------------------------------
(* Messages of the client, handled by the DFC thread.  iNewDfc has a       *)
(* higher priority in the queue than the messages.                         *)

CanHandle == dfc = Idle /\ ~dfcQueued

\* StartSampling of the driver and NewStart: what a start changes in it.
StartSampling ==
    IF iState = "stopped"
    THEN /\ \E length \in Lengths :
              sampler' = [s \in Samplers |->
                            IF s \in Enabled THEN Reset(length) ELSE sampler[s]]
         /\ iState' = "running"
         /\ timer' = TRUE
         /\ endRequest' = FALSE
    ELSE UNCHANGED <<sampler, iState, timer, endRequest>>

HandleStart ==
    /\ CanHandle /\ client.at = "idle" /\ sessions < MaxSessions
    /\ sessions' = sessions + 1
    /\ StartSampling
    /\ power' = [power EXCEPT !.iStarted = TRUE]
    /\ client' = [at |-> "running", answer |-> "none"]
    /\ UNCHANGED <<postSampleNeeded, doingDfc, dfcQueued, dfc, stream, stranded>>

\* ERequestFillThisStreamBuffer.  In the running phase the client sends it
\* from RunL, afterwards from HandleEndOfStream until a buffer is empty.
HandleRead ==
    /\ CanHandle /\ client.at \in {"running", "draining"}
    /\ ~stream.current /\ client.answer # "empty"
    /\ stream' = [current |-> TRUE, dataSize |-> 0]
    /\ client' = [client EXCEPT !.answer = "none"]
    /\ dfc' \in IF iState = "stopped" THEN {[at |-> "read", i |-> i] : i \in NextEnabled(0)}
                ELSE {dfc}
    /\ UNCHANGED <<sampler, driverVars, endRequest, power, history>>

\* The same for a driver that has stopped, one sampler.  The buffer is given
\* back when the last sampler had no data left.
ReadEnd ==
    /\ dfc.at = "read"
    /\ \E y \in {EndStream(Current(dfc.i))} :
       LET z == IF y.r.buf.status = "DataEnd" THEN Release(y) ELSE y
       IN  /\ sampler' = [sampler EXCEPT ![dfc.i] = y.r]
           /\ IF NextEnabled(dfc.i) # {}
              THEN /\ \E j \in NextEnabled(dfc.i) : dfc' = [dfc EXCEPT !.i = j]
                   /\ stream' = [current |-> y.current, dataSize |-> y.dataSize]
                   /\ client' = [client EXCEPT !.answer = y.answer]
              ELSE /\ dfc' = Idle
                   /\ stream' = [current |-> z.current, dataSize |-> z.dataSize]
                   /\ client' = [at |-> IF client.at = "draining" /\ z.answer = "empty"
                                        THEN "idle" ELSE client.at,
                                 answer |-> z.answer]
    /\ UNCHANGED <<driverVars, endRequest, power, history>>

StopSampling == iState' = IF iState = "running" THEN "stopping" ELSE iState

\* EStopAndWaitForEnd; the client waits until the request is completed.  It
\* gave its first buffer in the same call as it started sampling.
HandleStop ==
    /\ CanHandle /\ client.at = "running"
    /\ stream.current \/ client.answer # "none"
    /\ client' = [client EXCEPT !.at = "stopping"]
    /\ endRequest' = TRUE
    /\ dfc' = [at |-> "stop", i |-> 0]
    /\ UNCHANGED <<sampler, driverVars, stream, power, history>>

\* An interrupt can still come before the state is changed.
StopEnd ==
    /\ dfc.at = "stop"
    /\ StopSampling
    /\ dfc' = Idle
    /\ UNCHANGED <<sampler, postSampleNeeded, doingDfc, dfcQueued, timer, stream,
                   endRequest, power, client, history>>

-----------------------------------------------------------------------------
(* DSamplerPowerHandler.                                                   *)

PowerDown ==
    /\ ~power.iOff /\ power.downs < MaxPowerDowns
    /\ power' = [power EXCEPT !.iOff = TRUE, !.downs = @ + 1]
    /\ StopSampling
    /\ UNCHANGED <<sampler, postSampleNeeded, doingDfc, dfcQueued, timer, dfc,
                   stream, endRequest, client, history>>

PowerUp ==
    /\ power.iOff
    /\ power' = [power EXCEPT !.iOff = FALSE]
    /\ IF power.iStarted THEN StartSampling
       ELSE UNCHANGED <<sampler, iState, timer, endRequest>>
    /\ UNCHANGED <<postSampleNeeded, doingDfc, dfcQueued, dfc, stream, client, history>>

-----------------------------------------------------------------------------
Init ==
    /\ sampler = [s \in Samplers |-> NewSampler]
    /\ iState = "stopped"
    /\ postSampleNeeded = 0 /\ doingDfc = 0
    /\ dfcQueued = FALSE /\ dfc = Idle /\ timer = FALSE
    /\ stream = [current |-> FALSE, dataSize |-> 0]
    /\ endRequest = FALSE
    /\ power = [iOff |-> FALSE, iStarted |-> FALSE, downs |-> 0]
    /\ client = [at |-> "idle", answer |-> "none"]
    /\ sessions = 0 /\ stranded = {}

Interrupt == SampleTick \/ StoppingTick \/ IdleTick
NewDoDfc == DfcBegin \/ DfcLate \/ DfcCheck \/ DfcSample \/ DfcCopy \/ DfcRelease \/ DfcStop
HandleMsg == HandleStart \/ HandleRead \/ ReadEnd \/ HandleStop \/ StopEnd

Next == Interrupt \/ NewDoDfc \/ HandleMsg \/ PowerDown \/ PowerUp

\* The timer interrupts, a queued DFC runs, and a client whose buffer came
\* back sends the next one.  Nothing makes the client start or stop.
Fairness == /\ WF_vars(Interrupt)
            /\ WF_vars(NewDoDfc \/ ReadEnd \/ StopEnd)
            /\ WF_vars(HandleRead)

Spec == Init /\ [][Next]_vars /\ Fairness

-----------------------------------------------------------------------------
(* Properties.                                                             *)

Units(n) == [i \in 1 .. n |-> i]

\* What is still in the driver: the rest of the double, and the buffer in
\* front.  (Bytes that hold no sample are only counted by a buffer whose
\* session is ending, when its samples have gone to the double.)
InDouble(b) == SubSeq(b.back, b.read + 1, Len(b.back))
InFront(b) == IF 0 \in {b.front[i] : i \in DOMAIN b.front} THEN <<>> ELSE b.front

\* What AddSample accepted is, in the order of acceptance, what was copied to
\* client buffers, then the double, then the front: nothing is dropped, doubled
\* or invented on the way, whatever the interleaving of interrupt and DFC, the
\* split of a sample over two buffers and the split of a buffer over two client
\* buffers.
InOrder(r) == r.sent \o InDouble(r.buf) \o InFront(r.buf) = Units(r.taken)

\* A sampler whose data has ended has delivered all of it, unless the stop
\* found its double not yet copied: then its front, less than one buffer, is
\* what stays behind for good, and nothing else.
Delivered(s) ==
    LET r == sampler[s]
    IN  r.buf.status = "DataEnd" =>
          IF s \in stranded
          THEN Len(r.buf.front) < DataSize /\ r.sent \o r.buf.front = Units(r.taken)
          ELSE r.sent = Units(r.taken)

\* Samples on their way are in order and complete, and a sampler that has
\* ended has given the client everything but the front that DfcStop could not
\* hand over.  The power handler, which restarts sampling while the DFC thread
\* may be ending it, is excluded.
SamplesAreConserved ==
    power.downs = 0 => \A s \in Enabled : InOrder(sampler[s]) /\ Delivered(s)

\* A client that was given an empty buffer, and so reads no more, has left no
\* sampler with data that AddSamples would still copy: every sampler has ended.
EmptyBufferEndsAll ==
    power.downs = 0 /\ client.at = "idle" /\ sessions > 0 =>
        \A s \in Enabled : sampler[s].buf.status = "DataEnd"

\* A full buffer of a running session is copied once the client has given a
\* buffer, unless doingDfc was left at 1 by an earlier session.
FullBuffersAreCopied ==
    \A s \in Enabled :
      LET isFull == sampler[s].buf.status \in {"CopyAsap", "Full"}
          waits  == isFull /\ iState = "running" /\ stream.current
      IN  waits /\ (doingDfc = 0 \/ dfcQueued \/ dfc # Idle) ~> ~waits

\* The driver keeps the promises of StreamSource.
Phase == CASE client.at = "running"  -> "running"
           [] client.at = "stopping" -> "stopping"
           [] OTHER -> "stopped"
Source == INSTANCE StreamSource WITH
    Phases <- {"stopped", "running", "stopping"}, phase <- Phase,
    pending <- stream.current, answer <- client.answer, powered <- (power.downs = 0)
ImplementsSource == Source!SourceSpec
=============================================================================
