--------------------------- MODULE SampleBuffers ---------------------------
(***************************************************************************)
(* DProfilerSampleBuffer of the profiler's sampler drivers: a buffer that  *)
(* the sampling interrupt fills, and its double that is copied to a buffer *)
(* of the client, together with the arithmetic of                          *)
(* DProfilerSampleStream::AddSamples that decides how much of the double   *)
(* fits.  Operators from records to records; the actions that use them are *)
(* in SamplerDriver.                                                       *)
(*                                                                         *)
(* A byte is the number of the sampled unit it belongs to, in the order in *)
(* which AddSample accepted them; 0 is a byte that holds no sample.        *)
(***************************************************************************)
EXTENDS Naturals, Sequences

CONSTANTS
    DataSize,     \* iBufferDataSize of a sample buffer (9996 in the code)
    Header,       \* bytes of the header of one copied block (4)
    MinSpace,     \* a client buffer with less room than this is full (12)
    ClientSize    \* iBufferSize of a client buffer (32768)

ASSUME BufferAssumption ==
    /\ DataSize \in Nat \ {0}
    /\ Header \in Nat \ {0}
    /\ MinSpace \in Nat
    /\ ClientSize \in Nat
    /\ Header < MinSpace
    /\ MinSpace <= ClientSize

\* BufferBeingCopied of the enumeration is never assigned.
ProfilerBufferStatus == {"Ok", "CopyAsap", "Full", "DataEnd"}

\* front is iBufStruct with iBytesWritten bytes, back is iDblBufStruct with
\* iDblBytesWritten bytes, and read is iDblBytesRead.
SampleBuffer ==
    [status : ProfilerBufferStatus, front : Seq(Nat), back : Seq(Nat), read : Nat]

ClearBuffer == [status |-> "Ok", front |-> <<>>, back |-> <<>>, read |-> 0]

-----------------------------------------------------------------------------
(* The producer: AddSample, called by the sampling interrupt.              *)

Fits(b, length) == Len(b.front) + length < DataSize

\* AddSample returned 0.
Accepts(b, length) == \/ b.status = "Ok"
                      \/ b.status = "CopyAsap" /\ Fits(b, length)

\* The buffers change places; the part of the sample that still fits ends
\* the full one and the rest of it begins the other.
SwitchBuffers(b, sample) ==
    LET fitsToBuffer == DataSize - Len(b.front)
    IN  [b EXCEPT !.status = "CopyAsap",
                  !.back   = b.front \o SubSeq(sample, 1, fitsToBuffer),
                  !.front  = SubSeq(sample, fitsToBuffer + 1, Len(sample))]

AddSample(b, sample) ==
    CASE Accepts(b, Len(sample)) /\ Fits(b, Len(sample)) ->
            [b EXCEPT !.front = @ \o sample]
      [] b.status = "Ok" /\ ~Fits(b, Len(sample)) -> SwitchBuffers(b, sample)
      [] b.status = "CopyAsap" /\ ~Fits(b, Len(sample)) ->
            [b EXCEPT !.status = "Full"]
      [] OTHER -> b

\* DProfilerSampleBuffer::EndSampling: a buffer that is not full is handed
\* over as well.  iBytesWritten keeps its value, so the buffer in front now
\* counts bytes that hold no sample.
HandsOver(b) == b.status = "Ok"

EndBuffer(b) ==
    IF HandsOver(b)
    THEN [b EXCEPT !.status = "CopyAsap", !.back = b.front,
                   !.front = [i \in 1 .. Len(b.front) |-> 0]]
    ELSE b

-----------------------------------------------------------------------------
(* The consumer: how much AddSamples copies into a client buffer that      *)
(* already holds dataSize bytes, and what it leaves.                       *)

Rest(b) == Len(b.back) - b.read

CopiesAll(b, dataSize) == ClientSize - dataSize >= Rest(b) + Header

CopiesPart(b, dataSize) == /\ ~CopiesAll(b, dataSize)
                           /\ dataSize = 0 \/ ClientSize - dataSize >= MinSpace

Amount(b, dataSize) ==
    CASE CopiesAll(b, dataSize)  -> Rest(b)
      [] CopiesPart(b, dataSize) -> ClientSize - dataSize - Header
      [] OTHER -> 0

\* iDataSize after the copy.
FilledSize(b, dataSize) ==
    IF CopiesAll(b, dataSize) \/ CopiesPart(b, dataSize)
    THEN dataSize + Amount(b, dataSize) + Header
    ELSE dataSize

Copied(b, dataSize) == SubSeq(b.back, b.read + 1, b.read + Amount(b, dataSize))

\* Mutant: iDblBytesRead is not cleared.
AfterCopyRead(b, dataSize) ==
    IF CopiesAll(b, dataSize) THEN [b EXCEPT !.back = <<>>]
    ELSE [b EXCEPT !.read = @ + Amount(b, dataSize)]

\* The counts after the copy; DataCopied clears them before it gives the
\* buffer back to the interrupt by setting the status (ReleaseBuffer).
AfterCopy(b, dataSize) ==
    IF CopiesAll(b, dataSize)
    THEN [b EXCEPT !.back = <<>>, !.read = 0]
    ELSE [b EXCEPT !.read = @ + Amount(b, dataSize)]

ReleaseBuffer(b) == [b EXCEPT !.status = "Ok"]

\* AddSamples signals the client when the buffer is full or nearly full.
NearlyFull(dataSize) == ClientSize - dataSize < MinSpace
=============================================================================
