------------------------- MODULE SamplerDriverProofs -------------------------
(***************************************************************************)
(* Proofs about SamplerDriver, for any number of samplers and any sizes of *)
(* the buffers: no sample is doubled or reordered on its way through the   *)
(* two buffers of a sampler to the client, and none is left behind but the *)
(* front of a sampler whose double was full at the stop; and every step    *)
(* treats the client's buffer as StreamSource allows.                      *)
(***************************************************************************)
EXTENDS SamplerDriver, SequenceTheorems, WellFoundedInduction, TLAPS

-----------------------------------------------------------------------------
(* The inductive invariant.                                                *)

\* The elements of s behind the first k count on from e.
Runs(s, k, e) ==
    /\ s \in Seq(Nat) /\ k \in Nat /\ k <= Len(s) /\ e \in Nat
    /\ \A i \in 1 .. Len(s) : i > k => s[i] = e + i - k

\* Where the client's buffers and the double end.
End(r) == Len(r.sent) + Len(r.buf.back) - r.buf.read

\* The double was copied, or never filled.
Emptied(st) == st \in {"Ok", "DataEnd"}

\* The record of one sampler.  The numbers go on from the client's buffers to
\* the double, which the interrupt may overwrite only when nothing is left of it.
Good(r) ==
    /\ r = [buf |-> r.buf, sampleNeeded |-> r.sampleNeeded,
            sampleInProgress |-> r.sampleInProgress, taken |-> r.taken, sent |-> r.sent]
    /\ r.buf \in SampleBuffer
    /\ r.taken \in Nat
    /\ Len(r.buf.front) < DataSize
    /\ Emptied(r.buf.status) => r.buf.back = <<>>
    /\ Runs(r.sent, 0, 0)
    /\ Runs(r.buf.back, r.buf.read, Len(r.sent))

\* A sampler of a session that is not ending: they go on to the front.
Live(r) ==
    /\ Good(r)
    /\ Runs(r.buf.front, 0, End(r))
    /\ r.taken = End(r) + Len(r.buf.front)

\* EndSampling has handed the front over; what is counted there is no sample.
Done(r) ==
    /\ Good(r)
    /\ r.buf.front # <<>> /\ \A i \in 1 .. Len(r.buf.front) : r.buf.front[i] = 0
    /\ r.taken = End(r)
Ended(r) == Done(r) /\ r.buf.status # "Ok"

\* Where the DFC thread is goes with the state of the driver.
Control ==
    /\ iState \in {"running", "stopping", "stopped"}
    /\ dfc = [at |-> dfc.at, i |-> dfc.i]
    /\ dfc.at \in {"check", "sample", "copy", "release"} => iState = "running"
    /\ dfc.at = "end" => iState = "stopping"
    /\ dfc.at = "read" => iState = "stopped"
    /\ dfc.at \notin {"idle", "stop"} => dfc.i \in Enabled
    /\ stream = [current |-> stream.current, dataSize |-> stream.dataSize]
    /\ stream.current \in BOOLEAN /\ stream.dataSize \in Nat
    /\ ~power.iOff

\* The sampling has not ended for this sampler.
Open(r) == r.buf.status # "DataEnd"

\* The front holds no sample.
Blank(r) == \A i \in DOMAIN r.buf.front : r.buf.front[i] = 0

\* The stopping branch of the DFC has been at the sampler.
Passed(s) == \/ iState = "stopped"
             \/ iState = "stopping" /\ dfc.at = "end" /\ s < dfc.i

\* What that branch and the reads that follow it make of a sampler: its front
\* holds samples only when the branch could not hand it over.
Closed(leftBehind, r) ==
    IF leftBehind THEN Live(r) /\ r.buf.status # "Ok"
    ELSE (Live(r) \/ Ended(r)) /\ Blank(r)

\* Only a sampler that the branch has passed may have ended.
Conserved ==
    /\ sampler = [s \in Samplers |-> sampler[s]]
    /\ \A s \in Enabled :
         IF Passed(s)
         THEN Closed(s \in stranded, sampler[s])
         ELSE Live(sampler[s]) /\ Open(sampler[s])

Core == Control /\ Conserved

\* The power handler, which restarts a driver that is stopping, is excluded.
SampleInv ==
    /\ power = [iOff |-> power.iOff, iStarted |-> power.iStarted, downs |-> power.downs]
    /\ power.downs \in Nat
    /\ power.downs = 0 => Core

-----------------------------------------------------------------------------
(* Stretches of numbers.                                                   *)

\* A stretch goes on with the next one.
LEMMA ConcatRuns ==
  ASSUME NEW s, NEW t, NEW e, Runs(s, 0, e), Runs(t, 0, e + Len(s))
  PROVE  Runs(s \o t, 0, e) /\ Len(s \o t) = Len(s) + Len(t)
<1>1. /\ s \in Seq(Nat) /\ t \in Seq(Nat) /\ e \in Nat /\ Len(s) \in Nat /\ Len(t) \in Nat
      /\ \A i \in 1 .. Len(s) : s[i] = e + i
      /\ \A i \in 1 .. Len(t) : t[i] = e + Len(s) + i
  BY DEF Runs
<1>2. /\ s \o t \in Seq(Nat) /\ Len(s \o t) = Len(s) + Len(t)
      /\ \A i \in 1 .. Len(s) + Len(t) :
           (s \o t)[i] = IF i <= Len(s) THEN s[i] ELSE t[i - Len(s)]
  BY <1>1, ConcatProperties
<1>3. \A i \in 1 .. Len(s \o t) : (s \o t)[i] = e + i
  BY <1>1, <1>2
<1> QED BY <1>1, <1>2, <1>3 DEF Runs

\* A piece of a stretch, and what is behind it.
LEMMA PieceRuns ==
  ASSUME NEW s, NEW k, NEW e, Runs(s, k, e), NEW n \in Nat, k + n <= Len(s)
  PROVE  /\ Runs(SubSeq(s, k + 1, k + n), 0, e)
         /\ Len(SubSeq(s, k + 1, k + n)) = n
         /\ Runs(s, k + n, e + n)
<1>1. /\ s \in Seq(Nat) /\ k \in Nat /\ e \in Nat /\ Len(s) \in Nat
      /\ \A i \in 1 .. Len(s) : i > k => s[i] = e + i - k
  BY DEF Runs
<1>2. \A i \in k + 1 .. k + n : s[i] \in Nat
  BY <1>1
<1> DEFINE a == k + 1
           b == k + n
           u == SubSeq(s, a, b)
<1>3. a \in Int /\ b \in Int /\ \A i \in a .. b : s[i] \in Nat
  BY <1>1, <1>2
<1>4. b - a + 1 = n /\ (IF a <= b THEN b - a + 1 ELSE 0) = n
  BY <1>1
<1>5. \A i \in 1 .. n : a + i - 1 = k + i
  BY <1>1
<1> HIDE DEF a, b
<1>6. /\ u \in Seq(Nat) /\ Len(u) = (IF a <= b THEN b - a + 1 ELSE 0)
      /\ \A i \in 1 .. b - a + 1 : u[i] = s[a + i - 1]
  BY <1>3, SubSeqProperties
<1> HIDE DEF u
<1>7. u \in Seq(Nat) /\ Len(u) = n /\ \A i \in 1 .. n : u[i] = s[k + i]
  BY <1>4, <1>5, <1>6
<1>8. u = SubSeq(s, k + 1, k + n)
  BY DEF a, b, u
<1>9. \A i \in 1 .. n : u[i] = e + i
  <2>1. \A i \in 1 .. n : k + i \in 1 .. Len(s) /\ k + i > k
    BY <1>1
  <2>2. \A i \in 1 .. n : s[k + i] = e + (k + i) - k
    BY <1>1, <2>1
  <2>3. \A i \in 1 .. n : e + (k + i) - k = e + i
    BY <1>1
  <2> QED BY <1>7, <2>2, <2>3, Zenon
<1>10. Runs(u, 0, e)
  BY <1>1, <1>7, <1>9 DEF Runs
<1>11. Runs(s, k + n, e + n)
  BY <1>1 DEF Runs
<1> QED BY <1>7, <1>8, <1>10, <1>11

\* The sample that AddSample is called with after n units.
SampleAfter(n, length) == [i \in 1 .. length |-> n + i]

LEMMA SampleRuns ==
  ASSUME NEW n \in Nat, NEW length \in Nat
  PROVE  Runs(SampleAfter(n, length), 0, n) /\ Len(SampleAfter(n, length)) = length
<1>1. SampleAfter(n, length) \in [1 .. length -> Nat]
  BY DEF SampleAfter
<1>2. SampleAfter(n, length) \in Seq(Nat)
  BY <1>1, SeqDef
<1>3. Len(SampleAfter(n, length)) = length
  BY <1>1, <1>2, LenProperties
<1>4. \A i \in 1 .. length : SampleAfter(n, length)[i] = n + i
  BY DEF SampleAfter
<1> QED BY <1>2, <1>3, <1>4 DEF Runs

\* Nothing is a stretch that begins anywhere.
LEMMA EmptyRuns ==
  ASSUME NEW e \in Nat
  PROVE  Runs(<<>>, 0, e) /\ Len(<<>>) = 0
BY DEF Runs

-----------------------------------------------------------------------------
(* The record of a sampler and its parts.                                  *)

BufferOf(st, f, k, d) == [status |-> st, front |-> f, back |-> k, read |-> d]

\* Sampler r with another buffer and other histories.
SamplerOf(r, b, n, s) ==
    [buf |-> b, sampleNeeded |-> r.sampleNeeded, sampleInProgress |-> r.sampleInProgress,
     taken |-> n, sent |-> s]

\* What an update of several fields makes of a buffer and of a sampler.
LEMMA CopyUpdate ==
  ASSUME NEW b \in SampleBuffer, NEW x, NEW y
  PROVE  [b EXCEPT !.back = x, !.read = y] = BufferOf(b.status, b.front, x, y)
<1> DEFINE c == [b EXCEPT !.back = x]
<1>1. [b EXCEPT !.back = x, !.read = y] = [c EXCEPT !.read = y]
  OBVIOUS
<1>2. c = BufferOf(b.status, b.front, x, b.read)
  BY DEF BufferOf, SampleBuffer
<1> HIDE DEF c
<1> QED BY <1>1, <1>2 DEF BufferOf

LEMMA SwitchUpdate ==
  ASSUME NEW b \in SampleBuffer, NEW x, NEW y, NEW z
  PROVE  [b EXCEPT !.status = x, !.back = y, !.front = z] = BufferOf(x, z, y, b.read)
<1> DEFINE c == [b EXCEPT !.status = x]
           e == [c EXCEPT !.back = y]
<1>1. [b EXCEPT !.status = x, !.back = y, !.front = z] = [e EXCEPT !.front = z]
  OBVIOUS
<1>2. c = BufferOf(x, b.front, b.back, b.read)
  BY DEF BufferOf, SampleBuffer
<1> HIDE DEF c
<1>3. e = BufferOf(x, b.front, y, b.read)
  BY <1>2 DEF BufferOf
<1> HIDE DEF e
<1> QED BY <1>1, <1>3 DEF BufferOf

LEMMA TakeUpdate ==
  ASSUME NEW r, r = SamplerOf(r, r.buf, r.taken, r.sent), NEW x, NEW y
  PROVE  [r EXCEPT !.buf = x, !.taken = y] = SamplerOf(r, x, y, r.sent)
<1> DEFINE p == [r EXCEPT !.buf = x]
<1>1. [r EXCEPT !.buf = x, !.taken = y] = [p EXCEPT !.taken = y]
  OBVIOUS
<1>2. p = SamplerOf(r, x, r.taken, r.sent)
  BY DEF SamplerOf
<1> HIDE DEF p
<1> QED BY <1>1, <1>2 DEF SamplerOf

LEMMA GoodParts ==
  ASSUME NEW r, Good(r)
  PROVE  /\ r.buf \in SampleBuffer /\ r.buf.status \in ProfilerBufferStatus
         /\ r.buf.front \in Seq(Nat) /\ r.buf.back \in Seq(Nat) /\ r.buf.read \in Nat
         /\ r.sent \in Seq(Nat) /\ r.taken \in Nat /\ End(r) \in Nat
         /\ Len(r.buf.front) \in Nat /\ Len(r.buf.back) \in Nat /\ Len(r.sent) \in Nat
         /\ r.buf.read <= Len(r.buf.back)
         /\ r.buf = BufferOf(r.buf.status, r.buf.front, r.buf.back, r.buf.read)
         /\ r = SamplerOf(r, r.buf, r.taken, r.sent)
         /\ r = [buf |-> r.buf, sampleNeeded |-> r.sampleNeeded,
                 sampleInProgress |-> r.sampleInProgress, taken |-> r.taken, sent |-> r.sent]
BY DEF Good, Runs, SampleBuffer, End, BufferOf, SamplerOf

LEMMA MakeGood ==
  ASSUME NEW r, NEW st \in ProfilerBufferStatus, NEW f \in Seq(Nat), NEW k, NEW d, NEW s,
         NEW n \in Nat, Len(f) < DataSize, Emptied(st) => k = <<>>,
         Runs(s, 0, 0), Runs(k, d, Len(s))
  PROVE  /\ Good(SamplerOf(r, BufferOf(st, f, k, d), n, s))
         /\ End(SamplerOf(r, BufferOf(st, f, k, d), n, s)) = Len(s) + Len(k) - d
<1> DEFINE b == BufferOf(st, f, k, d)
           q == SamplerOf(r, b, n, s)
<1>1. /\ q.buf = b /\ q.taken = n /\ q.sent = s
      /\ q = [buf |-> q.buf, sampleNeeded |-> q.sampleNeeded,
              sampleInProgress |-> q.sampleInProgress, taken |-> q.taken, sent |-> q.sent]
  BY DEF SamplerOf
<1>2. b.status = st /\ b.front = f /\ b.back = k /\ b.read = d
  BY DEF BufferOf
<1>3. b \in SampleBuffer
  <2>1. k \in Seq(Nat) /\ d \in Nat
    BY DEF Runs
  <2> QED BY <2>1 DEF BufferOf, SampleBuffer
<1> HIDE DEF b, q
<1>4. Good(q)
  BY <1>1, <1>2, <1>3 DEF Good
<1>5. End(q) = Len(s) + Len(k) - d
  BY <1>1, <1>2 DEF End
<1> QED BY <1>4, <1>5 DEF b, q

LEMMA MakeLive ==
  ASSUME NEW r, NEW st \in ProfilerBufferStatus, NEW f, NEW k, NEW d, NEW s,
         NEW n \in Nat, Len(f) < DataSize, Emptied(st) => k = <<>>,
         Runs(s, 0, 0), Runs(k, d, Len(s)), Runs(f, 0, Len(s) + Len(k) - d),
         n = Len(s) + Len(k) - d + Len(f)
  PROVE  Live(SamplerOf(r, BufferOf(st, f, k, d), n, s))
<1> DEFINE b == BufferOf(st, f, k, d)
           q == SamplerOf(r, b, n, s)
<1>1. f \in Seq(Nat)
  BY DEF Runs
<1>2. Good(q) /\ End(q) = Len(s) + Len(k) - d
  BY <1>1, MakeGood
<1>3. q.buf.front = f /\ q.taken = n
  BY DEF SamplerOf, BufferOf
<1> HIDE DEF b, q
<1>4. Live(q)
  BY <1>2, <1>3, Zenon DEF Live
<1> QED BY <1>4 DEF b, q

-----------------------------------------------------------------------------
(* The interrupt's side: AddSample.                                        *)

\* A sample that fits goes behind what is in front.
LEMMA AppendKeeps ==
  ASSUME NEW r, Live(r), NEW length \in Nat, Len(r.buf.front) + length < DataSize
  PROVE  Live([r EXCEPT !.buf = [r.buf EXCEPT !.front = @ \o SampleAfter(r.taken, length)],
                        !.taken = @ + length])
<1> DEFINE f == r.buf.front
           e == End(r)
           m == SampleAfter(r.taken, length)
           g == f \o m
           n == r.taken + length
           q == SamplerOf(r, BufferOf(r.buf.status, g, r.buf.back, r.buf.read), n, r.sent)
<1>1. /\ Good(r) /\ Runs(f, 0, e) /\ r.taken = e + Len(f) /\ r.taken \in Nat /\ e \in Nat
      /\ Len(f) \in Nat
  BY GoodParts DEF Live
<1>2. Runs(m, 0, r.taken) /\ Len(m) = length
  BY <1>1, SampleRuns
<1>3. Len(f) + length < DataSize
  OBVIOUS
<1>4. [r EXCEPT !.buf = [r.buf EXCEPT !.front = g], !.taken = n] = q
  <2> HIDE DEF g, n
  <2>1. [r.buf EXCEPT !.front = g] = BufferOf(r.buf.status, g, r.buf.back, r.buf.read)
    <3>1. r.buf = BufferOf(r.buf.status, r.buf.front, r.buf.back, r.buf.read)
      BY <1>1, GoodParts
    <3> QED BY <3>1 DEF BufferOf
  <2>2. r = SamplerOf(r, r.buf, r.taken, r.sent)
    BY <1>1, GoodParts
  <2> QED BY <2>1, <2>2, TakeUpdate, Zenon
<1> HIDE DEF f, e, m, q
<1>5. Runs(g, 0, e) /\ Len(g) = Len(f) + length
  <2>1. Runs(m, 0, e + Len(f))
    BY <1>1, <1>2
  <2> QED BY <1>1, <1>2, <2>1, ConcatRuns
<1>6. n \in Nat /\ n = e + Len(g) /\ Len(g) < DataSize
  BY <1>1, <1>3, <1>5
<1> HIDE DEF g, n
<1>7. Live(q)
  <2>1. /\ r.buf.status \in ProfilerBufferStatus /\ (Emptied(r.buf.status) => r.buf.back = <<>>)
        /\ Runs(r.sent, 0, 0) /\ Runs(r.buf.back, r.buf.read, Len(r.sent))
    BY <1>1, GoodParts DEF Good
  <2>2. e = Len(r.sent) + Len(r.buf.back) - r.buf.read
    BY DEF e, End
  <2>3. /\ Runs(g, 0, Len(r.sent) + Len(r.buf.back) - r.buf.read)
        /\ n = Len(r.sent) + Len(r.buf.back) - r.buf.read + Len(g)
    BY <1>5, <1>6, <2>2
  <2> DEFINE st == r.buf.status
             k == r.buf.back
             d == r.buf.read
             s == r.sent
  <2>4. /\ st \in ProfilerBufferStatus /\ (Emptied(st) => k = <<>>) /\ Runs(s, 0, 0)
        /\ Runs(k, d, Len(s)) /\ Runs(g, 0, Len(s) + Len(k) - d)
        /\ n = Len(s) + Len(k) - d + Len(g) /\ n \in Nat /\ Len(g) < DataSize
    BY <1>6, <2>1, <2>3
  <2> HIDE DEF st, k, d, s
  <2>5. Live(SamplerOf(r, BufferOf(st, g, k, d), n, s))
    BY <2>4, MakeLive
  <2> QED BY <2>5 DEF q, st, k, d, s
<1> QED BY <1>4, <1>7 DEF n, g, f, m

\* The buffers change places when the double is empty; the sample is split.
LEMMA SwitchKeeps ==
  ASSUME NEW r, Live(r), NEW length \in Nat, length < DataSize,
         r.buf.status = "Ok", Len(r.buf.front) + length >= DataSize
  PROVE  Live([r EXCEPT !.buf = SwitchBuffers(r.buf, SampleAfter(r.taken, length)),
                        !.taken = @ + length])
<1> DEFINE f == r.buf.front
           e == Len(r.sent)
           m == SampleAfter(r.taken, length)
           k == DataSize - Len(f)
           z == length - k
           u == SubSeq(m, 0 + 1, 0 + k)
           v == SubSeq(m, k + 1, k + z)
           g == f \o u
           n == r.taken + length
           w == r.taken + k
           q == SamplerOf(r, BufferOf("CopyAsap", v, g, 0), n, r.sent)
<1>1. /\ Good(r) /\ Runs(f, 0, End(r)) /\ r.taken = End(r) + Len(f) /\ End(r) \in Nat
      /\ r.buf.back = <<>> /\ Len(f) < DataSize /\ Len(f) \in Nat /\ e \in Nat
      /\ r.taken \in Nat /\ r.buf.read \in Nat /\ r.buf.read <= Len(r.buf.back)
      /\ DataSize \in Nat /\ Len(f) + length >= DataSize
  BY GoodParts, BufferAssumption DEF Live, Good, Emptied
<1>2. r.buf.read = 0 /\ Len(r.buf.back) = 0
  BY <1>1
<1>3. e = End(r)
  BY <1>1, <1>2 DEF End
<1>4. Runs(m, 0, r.taken) /\ Len(m) = length
  BY <1>1, SampleRuns
<1>5. /\ k \in Nat /\ z \in Nat /\ 0 + k <= length /\ k + z <= length /\ z < DataSize
      /\ k + z = length /\ 0 + 1 = 1 /\ 0 + k = k /\ w \in Nat
  <2>1. Len(f) \in Nat /\ Len(f) < DataSize /\ DataSize \in Nat /\ Len(f) + length >= DataSize
    BY <1>1
  <2> HIDE DEF f
  <2>2. k \in Nat /\ k <= length /\ k >= 1
    BY <2>1
  <2> HIDE DEF k
  <2>3. /\ z \in Nat /\ z < DataSize /\ k + z = length /\ 0 + 1 = 1 /\ 0 + k = k
        /\ k + z <= length
    BY <2>1, <2>2
  <2>4. w \in Nat
    BY <1>1, <2>2
  <2> QED BY <2>2, <2>3, <2>4
<1>6. SwitchBuffers(r.buf, m) = [r.buf EXCEPT !.status = "CopyAsap", !.back = g, !.front = v]
  <2>1. k + z = Len(m)
    BY <1>4, <1>5
  <2> HIDE DEF z, m
  <2> QED BY <1>5, <2>1 DEF SwitchBuffers
<1>7. [r EXCEPT !.buf = SwitchBuffers(r.buf, m), !.taken = n] = q
  <2> HIDE DEF m, v, g, n
  <2>1. r.buf \in SampleBuffer /\ r = SamplerOf(r, r.buf, r.taken, r.sent)
    BY <1>1, GoodParts
  <2>2. [r.buf EXCEPT !.status = "CopyAsap", !.back = g, !.front = v]
          = BufferOf("CopyAsap", v, g, r.buf.read)
    <3> DEFINE b == r.buf
               x == "CopyAsap"
    <3>1. b \in SampleBuffer
      BY <2>1
    <3> HIDE DEF b, x
    <3>2. [b EXCEPT !.status = x, !.back = g, !.front = v] = BufferOf(x, v, g, b.read)
      BY <3>1, SwitchUpdate, Zenon
    <3> QED BY <3>2 DEF b, x
  <2>3. SwitchBuffers(r.buf, m) = BufferOf("CopyAsap", v, g, 0)
    BY <1>2, <1>6, <2>2
  <2>4. [r EXCEPT !.buf = BufferOf("CopyAsap", v, g, 0), !.taken = n]
          = SamplerOf(r, BufferOf("CopyAsap", v, g, 0), n, r.sent)
    BY <2>1, TakeUpdate
  <2> QED BY <2>3, <2>4
<1> HIDE DEF f, e, m, k, z, q
<1>8. Runs(u, 0, r.taken) /\ Len(u) = k /\ Runs(m, 0 + k, w)
  <2>1. Runs(m, 0, r.taken) /\ 0 + k <= Len(m) /\ k \in Nat
    BY <1>4, <1>5
  <2> QED BY <2>1, PieceRuns, Zenon
<1>9. Runs(m, k, w)
  BY <1>5, <1>8
<1> HIDE DEF w
<1>10. Runs(v, 0, w) /\ Len(v) = z
  <2>1. k + z <= Len(m) /\ z \in Nat
    BY <1>4, <1>5
  <2> QED BY <1>9, <2>1, PieceRuns, Zenon
<1> HIDE DEF u, v
<1>11. Runs(g, 0, e) /\ Len(g) = Len(f) + k
  <2>1. Runs(f, 0, e) /\ Runs(u, 0, e + Len(f))
    BY <1>1, <1>3, <1>8
  <2> QED BY <1>8, <2>1, ConcatRuns
<1> HIDE DEF g
<1>12. /\ n \in Nat /\ w = e + Len(g) - 0
       /\ n = e + Len(g) - 0 + Len(v) /\ Len(v) < DataSize
  <2>1. /\ r.taken = e + Len(f) /\ e \in Nat /\ Len(f) \in Nat /\ k \in Nat /\ z \in Nat
        /\ Len(v) = z /\ Len(g) = Len(f) + k /\ k + z = length /\ w = r.taken + k
        /\ z < DataSize
    BY <1>1, <1>3, <1>5, <1>10, <1>11 DEF w
  <2> QED BY <2>1
<1> HIDE DEF n
<1>13. Live(q)
  <2>1. /\ Runs(r.sent, 0, 0) /\ "CopyAsap" \in ProfilerBufferStatus /\ ~ Emptied("CopyAsap")
    BY <1>1 DEF Good, ProfilerBufferStatus, Emptied
  <2>2. e = Len(r.sent)
    BY DEF e
  <2>3. Runs(v, 0, Len(r.sent) + Len(g) - 0) /\ n = Len(r.sent) + Len(g) - 0 + Len(v)
        /\ Runs(g, 0, Len(r.sent))
    BY <1>10, <1>11, <1>12, <2>2
  <2> QED BY <1>12, <2>1, <2>3, MakeLive DEF q
<1> QED BY <1>7, <1>13 DEF n, m

\* AddSample as a whole, with the count of the units it took.
LEMMA TakeKeeps ==
  ASSUME NEW r, Live(r), NEW length \in Lengths
  PROVE  Live(Take(r, length))
<1> DEFINE m == SampleAfter(r.taken, length)
           b == r.buf
<1>1. length \in Nat /\ length < DataSize /\ DataSize \in Nat
  BY DriverAssumption, BufferAssumption
<1>2. Good(r) /\ r.taken \in Nat /\ Len(b.front) \in Nat
  BY GoodParts DEF Live
<1>3. Len(m) = length
  BY <1>1, <1>2, SampleRuns
<1>4. CASE Accepts(b, length) /\ r.taken + length > MaxUnits
  BY <1>4 DEF Take
<1>5. CASE ~ (Accepts(b, length) /\ r.taken + length > MaxUnits)
  <2>1. Take(r, length) = [r EXCEPT !.buf = AddSample(r.buf, m),
                             !.taken = IF Accepts(r.buf, length) THEN @ + length ELSE @]
    BY <1>5 DEF Take, SampleAfter
  <2> HIDE DEF m
  <2>2. CASE Accepts(b, length) /\ Fits(b, length)
    <3>1. AddSample(b, m) = [b EXCEPT !.front = @ \o m]
      BY <1>3, <2>2 DEF AddSample
    <3>2. Take(r, length) = [r EXCEPT !.buf = [r.buf EXCEPT !.front = @ \o m],
                                      !.taken = @ + length]
      BY <2>1, <2>2, <3>1
    <3>3. Len(r.buf.front) + length < DataSize
      BY <2>2 DEF Fits
    <3>4. Live([r EXCEPT !.buf = [r.buf EXCEPT !.front = @ \o SampleAfter(r.taken, length)],
                         !.taken = @ + length])
      BY <1>1, <3>3, AppendKeeps
    <3> QED BY <3>2, <3>4 DEF m
  <2>3. CASE b.status = "Ok" /\ ~ Fits(b, length)
    <3>1. AddSample(b, m) = SwitchBuffers(b, m)
      BY <1>3, <2>3 DEF AddSample
    <3>2. Take(r, length) = [r EXCEPT !.buf = SwitchBuffers(r.buf, m), !.taken = @ + length]
      BY <2>1, <2>3, <3>1 DEF Accepts
    <3>3. Len(r.buf.front) + length >= DataSize
      BY <1>1, <1>2, <2>3 DEF Fits
    <3>4. Live([r EXCEPT !.buf = SwitchBuffers(r.buf, SampleAfter(r.taken, length)),
                         !.taken = @ + length])
      BY <1>1, <2>3, <3>3, SwitchKeeps
    <3> QED BY <3>2, <3>4 DEF m
  <2>4. CASE b.status = "CopyAsap" /\ ~ Fits(b, length)
    <3> DEFINE q == SamplerOf(r, BufferOf("Full", b.front, b.back, b.read), r.taken, r.sent)
    <3>1. AddSample(b, m) = [b EXCEPT !.status = "Full"]
      BY <1>3, <2>4 DEF AddSample, Accepts
    <3>2. [b EXCEPT !.status = "Full"] = BufferOf("Full", b.front, b.back, b.read)
      <4>1. b = BufferOf(b.status, b.front, b.back, b.read)
        BY <1>2, GoodParts
      <4> HIDE DEF b
      <4> QED BY <4>1 DEF BufferOf
    <3>3. Take(r, length) = q
      <4>1. ~ Accepts(r.buf, length)
        BY <2>4 DEF Accepts
      <4>2. Take(r, length) = [r EXCEPT !.buf = AddSample(r.buf, m), !.taken = r.taken]
        BY <2>1, <4>1
      <4>3. r = SamplerOf(r, r.buf, r.taken, r.sent)
        BY <1>2, GoodParts
      <4>4. AddSample(r.buf, m) = BufferOf("Full", b.front, b.back, b.read)
        BY <3>1, <3>2
      <4> HIDE DEF b
      <4>5. [r EXCEPT !.buf = BufferOf("Full", b.front, b.back, b.read), !.taken = r.taken] = q
        BY <4>3, TakeUpdate
      <4> QED BY <4>2, <4>4, <4>5
    <3>4. /\ Runs(r.sent, 0, 0) /\ Runs(b.back, b.read, Len(r.sent)) /\ Len(b.front) < DataSize
          /\ Runs(b.front, 0, Len(r.sent) + Len(b.back) - b.read)
          /\ r.taken = Len(r.sent) + Len(b.back) - b.read + Len(b.front)
      BY DEF Live, Good, End
    <3>5. "Full" \in ProfilerBufferStatus /\ ~ Emptied("Full")
      BY DEF ProfilerBufferStatus, Emptied
    <3> HIDE DEF b
    <3>6. Live(q)
      BY <1>2, <3>4, <3>5, MakeLive
    <3> QED BY <3>3, <3>6
  <2>5. CASE b.status \notin {"Ok", "CopyAsap"}
    <3>1. AddSample(b, m) = b /\ ~ Accepts(b, length)
      BY <2>5 DEF AddSample, Accepts
    <3>2. Take(r, length) = [r EXCEPT !.buf = r.buf, !.taken = r.taken]
      BY <2>1, <3>1
    <3>3. r = SamplerOf(r, r.buf, r.taken, r.sent)
      BY <1>2, GoodParts
    <3>4. [r EXCEPT !.buf = r.buf, !.taken = r.taken] = SamplerOf(r, r.buf, r.taken, r.sent)
      BY <3>3, TakeUpdate, Zenon
    <3> QED BY <3>2, <3>3, <3>4
  <2> QED BY <2>2, <2>3, <2>4, <2>5 DEF Accepts
<1> QED BY <1>4, <1>5

-----------------------------------------------------------------------------
(* The DFC thread's side: AddSamples and EndSampling.                      *)

\* A sampler q in which only the limit between what the client has and what is
\* in the double differs from r.
Same(r, q) ==
    /\ Good(q)
    /\ End(q) = End(r) /\ q.buf.front = r.buf.front /\ q.taken = r.taken

LEMMA SameKeeps ==
  ASSUME NEW r, NEW q, Same(r, q)
  PROVE  (Live(r) => Live(q)) /\ (Done(r) => Done(q))
BY Zenon DEF Same, Live, Done

LEMMA SameFollows ==
  ASSUME NEW r, NEW q, Same(r, q), NEW p, Same(q, p)
  PROVE  Same(r, p)
BY Zenon DEF Same

\* Only the status changes.
LEMMA StatusKeeps ==
  ASSUME NEW r, Good(r), NEW st \in ProfilerBufferStatus, Emptied(st) => r.buf.back = <<>>
  PROVE  LET q == SamplerOf(r, [r.buf EXCEPT !.status = st], r.taken, r.sent)
         IN  Same(r, q) /\ q.buf.status = st
<1> DEFINE b == r.buf
           f == b.front
           k == b.back
           d == b.read
           s == r.sent
           n == r.taken
           c == BufferOf(st, f, k, d)
           q == SamplerOf(r, c, n, s)
<1>1. [r.buf EXCEPT !.status = st] = c
  <2>1. b \in SampleBuffer
    BY GoodParts
  <2> HIDE DEF b
  <2>2. [b EXCEPT !.status = st] = c
    BY <2>1 DEF BufferOf, SampleBuffer
  <2> QED BY <2>2 DEF b
<1>2. /\ f \in Seq(Nat) /\ n \in Nat /\ Len(f) < DataSize /\ (Emptied(st) => k = <<>>)
      /\ Runs(s, 0, 0) /\ Runs(k, d, Len(s)) /\ End(r) = Len(s) + Len(k) - d
  BY GoodParts DEF Good, End
<1>3. q.buf.front = f /\ q.taken = n /\ q.buf.status = st
  BY DEF SamplerOf, BufferOf
<1> HIDE DEF f, k, d, s, n
<1>4. Good(q) /\ End(q) = Len(s) + Len(k) - d
  BY <1>2, MakeGood
<1> HIDE DEF q
<1>5. Same(r, q)
  BY <1>2, <1>3, <1>4 DEF Same, f, n
<1> HIDE DEF c
<1>6. q = SamplerOf(r, [r.buf EXCEPT !.status = st], r.taken, r.sent)
  BY <1>1 DEF q, n, s
<1> QED BY <1>3, <1>5, <1>6

\* How much is copied.
LEMMA AmountIsRight ==
  ASSUME NEW r, Good(r), NEW size \in Nat
  PROVE  LET b == r.buf
             a == Amount(b, size)
         IN  /\ a \in Nat /\ b.read + a <= Len(b.back)
             /\ CopiesAll(b, size) => b.read + a = Len(b.back)
             /\ FilledSize(b, size) \in Nat
<1> DEFINE b == r.buf
           l == Len(b.back)
           d == b.read
<1>1. l \in Nat /\ d \in Nat /\ d <= l
  BY GoodParts
<1>2. /\ ClientSize \in Nat /\ Header \in Nat /\ MinSpace \in Nat /\ Header < MinSpace
      /\ MinSpace <= ClientSize
  BY BufferAssumption
<1>3. CASE CopiesAll(b, size)
  <2>1. Amount(b, size) = l - d
    <3>1. ~ CopiesPart(b, size)
      BY <1>3 DEF CopiesPart
    <3> QED BY <1>3, <3>1 DEF Amount, Rest
  <2>2. FilledSize(b, size) = size + (l - d) + Header
    BY <1>3, <2>1 DEF FilledSize
  <2> HIDE DEF l, d
  <2> QED BY <1>1, <1>2, <2>1, <2>2 DEF l, d
<1>4. CASE CopiesPart(b, size)
  <2>1. ~ CopiesAll(b, size)
    BY <1>4 DEF CopiesPart
  <2>2. Amount(b, size) = ClientSize - size - Header
    BY <1>4, <2>1 DEF Amount
  <2>3. FilledSize(b, size) = size + (ClientSize - size - Header) + Header
    BY <1>4, <2>2 DEF FilledSize
  <2>4. ~ (ClientSize - size >= (l - d) + Header)
    BY <2>1 DEF CopiesAll, Rest
  <2>5. size = 0 \/ ClientSize - size >= MinSpace
    BY <1>4 DEF CopiesPart
  <2> HIDE DEF l, d
  <2>6. ClientSize - size - Header \in Nat /\ d + (ClientSize - size - Header) <= l
    BY <1>1, <1>2, <2>4, <2>5
  <2>7. size + (ClientSize - size - Header) + Header \in Nat
    BY <1>2, <2>6
  <2> QED BY <2>1, <2>2, <2>3, <2>6, <2>7 DEF l, d
<1>5. CASE ~ CopiesAll(b, size) /\ ~ CopiesPart(b, size)
  <2>1. Amount(b, size) = 0 /\ FilledSize(b, size) = size
    BY <1>5 DEF Amount, FilledSize
  <2> QED BY <1>1, <1>5, <2>1
<1> QED BY <1>3, <1>4, <1>5

\* What is copied goes behind what the client has.
LEMMA CopyKeeps ==
  ASSUME NEW r, Good(r), NEW size \in Nat
  PROVE  LET q == SamplerOf(r, AfterCopy(r.buf, size), r.taken,
                            r.sent \o Copied(r.buf, size))
         IN  /\ Same(r, q) /\ q.buf = AfterCopy(r.buf, size)
             /\ q.buf.status = r.buf.status
             /\ CopiesAll(r.buf, size) => q.buf.back = <<>>
<1> DEFINE b == r.buf
           st == b.status
           f == b.front
           k == b.back
           d == b.read
           s == r.sent
           n == r.taken
           a == Amount(b, size)
           u == Copied(b, size)
           z == s \o u
           q == SamplerOf(r, AfterCopy(b, size), n, z)
<1>1. /\ f \in Seq(Nat) /\ n \in Nat /\ Len(f) < DataSize /\ (Emptied(st) => k = <<>>)
      /\ Runs(s, 0, 0) /\ Runs(k, d, Len(s)) /\ End(r) = Len(s) + Len(k) - d
      /\ b \in SampleBuffer /\ st \in ProfilerBufferStatus /\ d \in Nat /\ Len(k) \in Nat
      /\ s \in Seq(Nat) /\ Len(s) \in Nat
  BY GoodParts DEF Good, End
<1>2. a \in Nat /\ d + a <= Len(k) /\ (CopiesAll(b, size) => d + a = Len(k))
  BY AmountIsRight
<1>3. u = SubSeq(k, d + 1, d + a)
  BY DEF Copied
<1>4. AfterCopy(b, size) = IF CopiesAll(b, size) THEN BufferOf(st, f, <<>>, 0)
                           ELSE BufferOf(st, f, k, d + a)
  <2> HIDE DEF b, a
  <2>1. [b EXCEPT !.back = <<>>, !.read = 0] = BufferOf(st, f, <<>>, 0)
    BY <1>1, CopyUpdate
  <2>2. [b EXCEPT !.read = @ + a] = BufferOf(st, f, k, d + a)
    <3> DEFINE w == d + a
    <3> HIDE DEF w
    <3>1. b = BufferOf(st, f, k, d)
      BY <1>1 DEF BufferOf, SampleBuffer
    <3>2. [b EXCEPT !.read = w] = BufferOf(st, f, k, w)
      BY <3>1 DEF BufferOf
    <3> QED BY <3>2 DEF w
  <2> QED BY <2>1, <2>2 DEF AfterCopy, a
<1> HIDE DEF b, st, f, k, d, s, n, a, u
<1>5. Runs(u, 0, Len(s)) /\ Len(u) = a /\ Runs(k, d + a, Len(s) + a)
  <2>1. Runs(k, d, Len(s)) /\ a \in Nat /\ d + a <= Len(k)
    BY <1>1, <1>2
  <2>2. /\ Runs(SubSeq(k, d + 1, d + a), 0, Len(s)) /\ Len(SubSeq(k, d + 1, d + a)) = a
        /\ Runs(k, d + a, Len(s) + a)
    BY <2>1, PieceRuns, Zenon
  <2> QED BY <1>3, <2>2
<1>6. Runs(z, 0, 0) /\ Len(z) = Len(s) + a
  <2>1. Runs(u, 0, 0 + Len(s))
    BY <1>1, <1>5
  <2> QED BY <1>1, <1>5, <2>1, ConcatRuns
<1> HIDE DEF z
<1>7. CASE CopiesAll(b, size)
  <2> DEFINE e == <<>>
  <2>1. q = SamplerOf(r, BufferOf(st, f, e, 0), n, z)
    BY <1>4, <1>7
  <2>2. Runs(e, 0, Len(z)) /\ Len(e) = 0
    BY <1>1, <1>2, <1>6, EmptyRuns
  <2>3. q.buf = AfterCopy(b, size) /\ q.buf.front = f /\ q.buf.back = e /\ q.buf.status = st
        /\ q.taken = n
    BY <1>4, <1>7 DEF SamplerOf, BufferOf
  <2> HIDE DEF q
  <2>4. Emptied(st) => e = <<>>
    OBVIOUS
  <2> HIDE DEF e
  <2>5. Good(q) /\ End(q) = Len(z) + Len(e) - 0
    BY <1>1, <1>6, <2>1, <2>2, <2>4, MakeGood
  <2>6. End(q) = End(r)
    <3>1. /\ End(q) = Len(z) + 0 - 0 /\ Len(z) = Len(s) + a /\ d + a = Len(k)
          /\ End(r) = Len(s) + Len(k) - d
          /\ Len(s) \in Nat /\ Len(k) \in Nat /\ a \in Nat /\ d \in Nat
      BY <1>1, <1>2, <1>6, <1>7, <2>2, <2>5
    <3> QED BY <3>1
  <2>7. Same(r, q)
    BY <2>3, <2>5, <2>6 DEF Same, f, n, b
  <2> QED BY <2>3, <2>7 DEF q, b, n, z, s, u, e, st
<1>8. CASE ~ CopiesAll(b, size)
  <2> DEFINE e == d + a
  <2>1. q = SamplerOf(r, BufferOf(st, f, k, e), n, z)
    BY <1>4, <1>8
  <2>2. Runs(k, e, Len(z))
    BY <1>5, <1>6
  <2>3. q.buf = AfterCopy(b, size) /\ q.buf.front = f /\ q.buf.status = st /\ q.taken = n
    BY <1>4, <1>8 DEF SamplerOf, BufferOf
  <2> HIDE DEF q
  <2>4. e \in Nat /\ e = d + a
    BY <1>1, <1>2
  <2> HIDE DEF e
  <2>5. Good(q) /\ End(q) = Len(z) + Len(k) - e
    BY <1>1, <1>6, <2>1, <2>2, MakeGood
  <2>6. End(q) = End(r)
    BY <1>1, <1>2, <1>6, <2>4, <2>5
  <2>7. Same(r, q)
    BY <2>3, <2>5, <2>6 DEF Same, f, n, b
  <2> QED BY <1>8, <2>3, <2>7 DEF q, b, n, z, s, u, st
<1> QED BY <1>7, <1>8 DEF b

\* A sampler and the stream, and what serving the sampler may do to the client's
\* buffer: nothing, or it is answered with data.
ServiceOf(r, c, d, a) == [r |-> r, current |-> c, dataSize |-> d, answer |-> a]

Serving(x) == /\ x = ServiceOf(x.r, x.current, x.dataSize, x.answer)
              /\ x.current \in BOOLEAN /\ x.dataSize \in Nat

Served(x, y) == /\ Serving(y)
                /\ \/ y.current = x.current /\ y.answer = x.answer
                   \/ x.current /\ ~ y.current /\ y.answer = "data"

LEMMA SameSelf ==
  ASSUME NEW r, Good(r)
  PROVE  Same(r, r)
BY Zenon DEF Same

LEMMA ServedSelf ==
  ASSUME NEW x, Serving(x)
  PROVE  Served(x, x)
BY Zenon DEF Served

LEMMA ServedFollows ==
  ASSUME NEW x, NEW y, NEW z, Served(x, y), Served(y, z), Serving(x)
  PROVE  Served(x, z)
BY Zenon DEF Served, Serving

ServeUpdated(x, b, s, d, c, a) ==
    [x EXCEPT !.r.buf = b, !.r.sent = s, !.dataSize = d, !.current = c, !.answer = a]

LEMMA ServeUpdate ==
  ASSUME NEW x, x = ServiceOf(x.r, x.current, x.dataSize, x.answer),
         x.r = SamplerOf(x.r, x.r.buf, x.r.taken, x.r.sent),
         NEW b, NEW s, NEW d, NEW c, NEW a
  PROVE  ServeUpdated(x, b, s, d, c, a)
           = ServiceOf(SamplerOf(x.r, b, x.r.taken, s), c, d, a)
<1> DEFINE p == SamplerOf(x.r, b, x.r.taken, s)
           y1 == [x EXCEPT !.r.buf = b]
           y2 == [y1 EXCEPT !.r.sent = s]
           y3 == [y2 EXCEPT !.dataSize = d]
           y4 == [y3 EXCEPT !.current = c]
<1>1. ServeUpdated(x, b, s, d, c, a) = [y4 EXCEPT !.answer = a]
  BY DEF ServeUpdated
<1>2. y1 = ServiceOf(SamplerOf(x.r, b, x.r.taken, x.r.sent), x.current, x.dataSize, x.answer)
  <2>1. [x.r EXCEPT !.buf = b] = SamplerOf(x.r, b, x.r.taken, x.r.sent)
    <3> DEFINE q == x.r
    <3>1. q = SamplerOf(q, q.buf, q.taken, q.sent)
      OBVIOUS
    <3> HIDE DEF q
    <3>2. [q EXCEPT !.buf = b] = SamplerOf(q, b, q.taken, q.sent)
      BY <3>1 DEF SamplerOf
    <3> QED BY <3>2 DEF q
  <2>2. y1 = [x EXCEPT !.r = [x.r EXCEPT !.buf = b]]
    OBVIOUS
  <2> DEFINE v == [x.r EXCEPT !.buf = b]
  <2> HIDE DEF v
  <2>3. [x EXCEPT !.r = v] = ServiceOf(v, x.current, x.dataSize, x.answer)
    BY DEF ServiceOf
  <2> QED BY <2>1, <2>2, <2>3 DEF v
<1> HIDE DEF y1
<1>3. y2 = ServiceOf(p, x.current, x.dataSize, x.answer)
  <2> DEFINE v == SamplerOf(x.r, b, x.r.taken, x.r.sent)
  <2>1. y1 = ServiceOf(v, x.current, x.dataSize, x.answer)
    BY <1>2
  <2>2. [v EXCEPT !.sent = s] = p
    BY DEF SamplerOf
  <2> HIDE DEF v, p
  <2>3. y1.r = v
    BY <2>1 DEF ServiceOf
  <2>4. y2 = [y1 EXCEPT !.r = [v EXCEPT !.sent = s]]
    BY <2>3
  <2>5. y2 = [y1 EXCEPT !.r = p]
    BY <2>2, <2>4
  <2> QED BY <2>1, <2>5 DEF ServiceOf
<1> HIDE DEF y2, p
<1>4. y3 = ServiceOf(p, x.current, d, x.answer)
  BY <1>3 DEF ServiceOf
<1> HIDE DEF y3
<1>5. y4 = ServiceOf(p, c, d, x.answer)
  BY <1>4 DEF ServiceOf
<1> HIDE DEF y4
<1>6. [y4 EXCEPT !.answer = a] = ServiceOf(p, c, d, a)
  BY <1>5 DEF ServiceOf
<1> QED BY <1>1, <1>6 DEF p

\* AddSamples as a whole.
LEMMA AddSamplesKeeps ==
  ASSUME NEW x, Serving(x), Good(x.r)
  PROVE  Served(x, AddSamples(x)) /\ Same(x.r, AddSamples(x).r)
<1> DEFINE r == x.r
           size == x.dataSize
           after == AfterCopy(r.buf, size)
           b == IF CopiesAll(r.buf, size) THEN ReleaseBuffer(after) ELSE after
           s == r.sent \o Copied(r.buf, size)
           n == FilledSize(r.buf, size)
           c == ~ NearlyFull(n)
           a == IF NearlyFull(n) THEN "data" ELSE x.answer
           p == SamplerOf(r, b, r.taken, s)
<1>1. CASE ~ x.current
  BY <1>1, SameSelf, ServedSelf DEF AddSamples
<1>2. CASE x.current
  <2>1. AddSamples(x) = ServeUpdated(x, b, s, n, c, a)
    BY <1>2 DEF AddSamples, ServeUpdated
  <2>2. Good(r) /\ size \in Nat /\ r = SamplerOf(r, r.buf, r.taken, r.sent) /\ n \in Nat
    BY GoodParts, AmountIsRight DEF Serving
  <2>3. AddSamples(x) = ServiceOf(p, c, n, a)
    <3> HIDE DEF b, s, n, c, a
    <3>1. /\ x = ServiceOf(x.r, x.current, x.dataSize, x.answer)
          /\ x.r = SamplerOf(x.r, x.r.buf, x.r.taken, x.r.sent)
      BY <2>2 DEF Serving
    <3>2. ServeUpdated(x, b, s, n, c, a) = ServiceOf(SamplerOf(x.r, b, x.r.taken, s), c, n, a)
      BY <3>1, ServeUpdate
    <3> QED BY <2>1, <3>2
  <2>4. Served(x, AddSamples(x))
    <3>1. /\ c \in BOOLEAN /\ (c => a = x.answer) /\ (~ c => a = "data")
      OBVIOUS
    <3> HIDE DEF p, c, n, a
    <3>2. AddSamples(x).r = p /\ AddSamples(x).current = c
          /\ AddSamples(x).dataSize = n /\ AddSamples(x).answer = a
      BY <2>3 DEF ServiceOf
    <3> QED BY <1>2, <2>2, <2>3, <3>1, <3>2 DEF Served, Serving
  <2>5. AddSamples(x).r = p
    <3> HIDE DEF p, c, n, a
    <3> QED BY <2>3 DEF ServiceOf
  <2>6. Same(r, p)
    <3> DEFINE q == SamplerOf(r, after, r.taken, s)
    <3>1. /\ Same(r, q) /\ q.buf = after /\ (CopiesAll(r.buf, size) => q.buf.back = <<>>)
      BY <2>2, CopyKeeps
    <3>2. CASE ~ CopiesAll(r.buf, size)
      BY <3>1, <3>2
    <3>3. CASE CopiesAll(r.buf, size)
      <4> DEFINE w == SamplerOf(q, [q.buf EXCEPT !.status = "Ok"], q.taken, q.sent)
      <4>1. Good(q) /\ "Ok" \in ProfilerBufferStatus /\ q.buf.back = <<>>
        BY <3>1, <3>3 DEF Same, ProfilerBufferStatus
      <4>2. Same(q, w)
        <5> HIDE DEF q
        <5> QED BY <4>1, StatusKeeps
      <4>3. w = p
        <5>1. b = [q.buf EXCEPT !.status = "Ok"]
          BY <3>1, <3>3, Zenon DEF ReleaseBuffer
        <5>2. q.taken = r.taken /\ q.sent = s /\ q.sampleNeeded = r.sampleNeeded
              /\ q.sampleInProgress = r.sampleInProgress
          BY DEF SamplerOf
        <5> HIDE DEF q, b, s
        <5> QED BY <5>1, <5>2 DEF SamplerOf
      <4> HIDE DEF q, w
      <4> QED BY <3>1, <4>2, <4>3, SameFollows
    <3> QED BY <3>2, <3>3
  <2> QED BY <2>4, <2>5, <2>6
<1> QED BY <1>1, <1>2 DEF Serving

\* DProfilerSampleBuffer::EndSampling: a front that is not full becomes the double.
LEMMA EndBufferKeeps ==
  ASSUME NEW r, Live(r), r.buf.status = "Ok"
  PROVE  LET q == SamplerOf(r, EndBuffer(r.buf), r.taken, r.sent)
         IN  Live(q) \/ Done(q)
<1> DEFINE b == r.buf
           f == b.front
           g == [i \in 1 .. Len(f) |-> 0]
           s == r.sent
           n == r.taken
           c == BufferOf("CopyAsap", g, f, 0)
           q == SamplerOf(r, c, n, s)
<1>1. /\ Good(r) /\ b \in SampleBuffer /\ b.back = <<>> /\ b.read \in Nat
      /\ b.read <= Len(b.back) /\ f \in Seq(Nat) /\ Len(f) \in Nat /\ Len(f) < DataSize
      /\ Runs(f, 0, End(r)) /\ n = End(r) + Len(f) /\ n \in Nat
      /\ Runs(s, 0, 0) /\ Len(s) \in Nat
  BY GoodParts DEF Live, Good, Emptied
<1>2. b.read = 0 /\ Len(b.back) = 0
  BY <1>1
<1>3. End(r) = Len(s)
  BY <1>1, <1>2 DEF End
<1>4. EndBuffer(b) = c
  <2>1. EndBuffer(b) = [b EXCEPT !.status = "CopyAsap", !.back = f, !.front = g]
    BY DEF EndBuffer, HandsOver
  <2> HIDE DEF b, g
  <2>2. [b EXCEPT !.status = "CopyAsap", !.back = f, !.front = g]
          = BufferOf("CopyAsap", g, f, b.read)
    <3> DEFINE x == "CopyAsap"
    <3> HIDE DEF x, f
    <3>1. [b EXCEPT !.status = x, !.back = f, !.front = g] = BufferOf(x, g, f, b.read)
      <4>1. b \in SampleBuffer
        BY <1>1
      <4> QED BY <4>1, SwitchUpdate, Zenon
    <3> QED BY <3>1 DEF x
  <2> QED BY <1>2, <2>1, <2>2
<1>5. g \in Seq(Nat) /\ Len(g) = Len(f) /\ \A i \in 1 .. Len(f) : g[i] = 0
  <2> HIDE DEF f
  <2>1. g \in [1 .. Len(f) -> Nat]
    BY <1>1
  <2>2. g \in Seq(Nat)
    BY <1>1, <2>1, SeqDef
  <2>3. Len(g) = Len(f)
    BY <1>1, <2>1, <2>2, LenProperties
  <2> QED BY <2>2, <2>3
<1>6. q.buf.front = g /\ q.taken = n
  BY DEF SamplerOf, BufferOf
<1> HIDE DEF b, f, g, s, n
<1>7. Good(q) /\ End(q) = Len(s) + Len(f) - 0
  <2>1. "CopyAsap" \in ProfilerBufferStatus /\ ~ Emptied("CopyAsap")
    BY DEF ProfilerBufferStatus, Emptied
  <2>2. Runs(f, 0, Len(s))
    BY <1>1, <1>3
  <2> QED BY <1>1, <1>5, <2>1, <2>2, MakeGood
<1> HIDE DEF q
<1>8. n = End(q) /\ End(q) \in Nat
  BY <1>1, <1>3, <1>7
<1>9. CASE g = <<>>
  <2>1. Runs(g, 0, End(q)) /\ Len(g) = 0
    BY <1>8, <1>9, EmptyRuns
  <2>2. n = End(q) + Len(g)
    BY <1>8, <2>1
  <2>3. Live(q)
    BY <1>6, <1>7, <2>1, <2>2 DEF Live
  <2> QED BY <1>4, <2>3 DEF q, b, n, s
<1>10. CASE g # <<>>
  <2>1. Done(q)
    BY <1>5, <1>6, <1>7, <1>8, <1>10 DEF Done
  <2> QED BY <1>4, <2>1 DEF q, b, n, s
<1> QED BY <1>9, <1>10

\* A sampler for which EndSampling may be called.
LEMMA EndStreamKeeps ==
  ASSUME NEW x, Serving(x), Live(x.r) \/ Ended(x.r)
  PROVE  /\ Served(x, EndStream(x)) /\ (Live(EndStream(x).r) \/ Ended(EndStream(x).r))
         /\ EndStream(x).r.buf.front = EndBuffer(x.r.buf).front
         /\ EndStream(x).r.buf.status # "Ok"
         /\ Live(x.r) /\ x.r.buf.status # "Ok" => Live(EndStream(x).r)
<1> DEFINE r == x.r
           q == SamplerOf(r, EndBuffer(r.buf), r.taken, r.sent)
           w == [x EXCEPT !.r.buf = EndBuffer(@)]
           y == AddSamples(w)
           z == [y EXCEPT !.r.buf.status = "DataEnd"]
<1>1. Good(r) /\ x = ServiceOf(r, x.current, x.dataSize, x.answer)
  BY DEF Live, Ended, Done, Serving
<1>2. CASE r.buf.status = "DataEnd"
  BY <1>2, ServedSelf DEF EndStream, EndBuffer, HandsOver
<1>3. CASE r.buf.status # "DataEnd"
  <2>1. w = ServiceOf(q, x.current, x.dataSize, x.answer)
    <3> DEFINE b == EndBuffer(r.buf)
    <3>1. w = [x EXCEPT !.r = [r EXCEPT !.buf = b]]
      OBVIOUS
    <3>2. r = SamplerOf(r, r.buf, r.taken, r.sent)
      BY <1>1, GoodParts
    <3> HIDE DEF b, r
    <3>3. [r EXCEPT !.buf = b] = SamplerOf(r, b, r.taken, r.sent)
      BY <3>2 DEF SamplerOf
    <3> DEFINE v == SamplerOf(r, b, r.taken, r.sent)
    <3> HIDE DEF v
    <3>4. w = [x EXCEPT !.r = v]
      BY <3>1, <3>3 DEF v
    <3>5. [x EXCEPT !.r = v] = ServiceOf(v, x.current, x.dataSize, x.answer)
      BY <1>1 DEF ServiceOf
    <3> QED BY <3>4, <3>5 DEF v, b
  <2>2. /\ Live(q) \/ Done(q)
        /\ Live(r) /\ r.buf.status # "Ok" => Live(q)
    <3>1. CASE r.buf.status = "Ok"
      <4>1. Live(r)
        BY <3>1 DEF Ended
      <4> QED BY <3>1, <4>1, EndBufferKeeps
    <3>2. CASE r.buf.status # "Ok"
      <4>1. EndBuffer(r.buf) = r.buf
        BY <3>2 DEF EndBuffer, HandsOver
      <4>2. q = r
        BY <1>1, <4>1, GoodParts
      <4> QED BY <4>2 DEF Ended
    <3> QED BY <3>1, <3>2
  <2>3. q.buf.front = EndBuffer(r.buf).front
    <3> DEFINE b == EndBuffer(r.buf)
    <3> HIDE DEF b
    <3>1. SamplerOf(r, b, r.taken, r.sent).buf = b
      BY DEF SamplerOf
    <3> QED BY <3>1 DEF b
  <2> HIDE DEF q, w
  <2>4. Served(x, w) /\ Serving(w) /\ w.r = q /\ Good(w.r)
    <3>1. w.r = q /\ w.current = x.current /\ w.dataSize = x.dataSize /\ w.answer = x.answer
      BY <2>1 DEF ServiceOf
    <3> QED BY <2>1, <2>2, <3>1 DEF Served, Serving, Live, Done
  <2>5. Served(w, y) /\ Same(q, y.r)
    BY <2>4, AddSamplesKeeps
  <2> HIDE DEF y
  <2>6. Served(x, y) /\ (Live(y.r) \/ Done(y.r)) /\ Good(y.r) /\ Serving(y)
    BY <2>2, <2>4, <2>5, SameKeeps, ServedFollows DEF Same, Served
  <2>7. y.r.buf.front = EndBuffer(r.buf).front
    BY <2>5, <2>3, Zenon DEF Same
  <2>8. Live(r) /\ r.buf.status # "Ok" => Live(y.r)
    BY <2>2, <2>5, SameKeeps
  <2>9. CASE y.r.buf.status # "Ok"
    <3>1. EndStream(x) = y
      BY <1>3, <2>9 DEF EndStream, y, w
    <3> QED BY <2>6, <2>9, <2>7, <2>8, <3>1 DEF Ended
  <2>10. CASE y.r.buf.status = "Ok"
    <3>1. EndStream(x) = z
      BY <1>3, <2>10 DEF EndStream, y, w
    <3> DEFINE p == y.r
               b == [p.buf EXCEPT !.status = "DataEnd"]
               o == SamplerOf(p, b, p.taken, p.sent)
    <3>2. Same(p, o) /\ o.buf.status = "DataEnd"
      <4>1. "DataEnd" \in ProfilerBufferStatus /\ (Emptied("DataEnd") => p.buf.back = <<>>)
        BY <2>6, <2>10 DEF ProfilerBufferStatus, Emptied, Good
      <4> QED BY <2>6, <4>1, StatusKeeps
    <3>3. z = ServiceOf(o, y.current, y.dataSize, y.answer)
      <4>1. z = [y EXCEPT !.r = [p EXCEPT !.buf = b]]
        OBVIOUS
      <4>2. p = SamplerOf(p, p.buf, p.taken, p.sent)
        BY <2>6, GoodParts
      <4>3. y = ServiceOf(y.r, y.current, y.dataSize, y.answer)
        BY <2>6 DEF Serving
      <4> HIDE DEF b, p
      <4>4. [p EXCEPT !.buf = b] = o
        BY <4>2 DEF SamplerOf
      <4> HIDE DEF o
      <4>5. z = [y EXCEPT !.r = o]
        BY <4>1, <4>4
      <4>6. [y EXCEPT !.r = o] = ServiceOf(o, y.current, y.dataSize, y.answer)
        BY <4>3 DEF ServiceOf
      <4> QED BY <4>5, <4>6
    <3> HIDE DEF o, z
    <3>4. z.r = o /\ z.current = y.current /\ z.dataSize = y.dataSize /\ z.answer = y.answer
      BY <3>3 DEF ServiceOf
    <3>5. Served(x, z)
      <4>1. Serving(z)
        BY <2>6, <3>3, <3>4 DEF Serving
      <4> QED BY <2>6, <3>4, <4>1 DEF Served
    <3>6. (Live(o) \/ Done(o)) /\ (Live(y.r) => Live(o))
      BY <2>6, <3>2, SameKeeps
    <3>7. z.r.buf.front = EndBuffer(r.buf).front
      BY <2>7, <3>2, <3>4, Zenon DEF Same
    <3> QED BY <2>8, <3>1, <3>2, <3>4, <3>5, <3>6, <3>7 DEF Ended
  <2> QED BY <2>9, <2>10
<1> QED BY <1>2, <1>3

\* EndSampling leaves a front without samples, if it could hand it over.
LEMMA EndFrontIsBlank ==
  ASSUME NEW b, NEW f, f = EndBuffer(b).front, b \in SampleBuffer
  PROVE  /\ HandsOver(b) => \A i \in DOMAIN f : f[i] = 0
         /\ (\A i \in DOMAIN b.front : b.front[i] = 0) => \A i \in DOMAIN f : f[i] = 0
<1> DEFINE g == [i \in 1 .. Len(b.front) |-> 0]
<1>1. \A i \in DOMAIN g : g[i] = 0
  OBVIOUS
<1> HIDE DEF g
<1>2. CASE HandsOver(b)
  <2> DEFINE k == b.front
             c == [b EXCEPT !.status = "CopyAsap", !.back = k, !.front = g]
  <2>1. EndBuffer(b) = c
    BY <1>2 DEF EndBuffer, g
  <2> DEFINE st == "CopyAsap"
  <2> HIDE DEF k, st
  <2>2. [b EXCEPT !.status = st, !.back = k, !.front = g] = BufferOf(st, g, k, b.read)
    BY SwitchUpdate
  <2>3. c.front = g
    BY <2>2 DEF st, BufferOf
  <2> HIDE DEF c
  <2> QED BY <1>1, <2>1, <2>3
<1>3. CASE ~ HandsOver(b)
  <2>1. EndBuffer(b) = b
    BY <1>3 DEF EndBuffer
  <2> QED BY <1>3, <2>1
<1> QED BY <1>2, <1>3

\* The flags of a deferred sampler say nothing of its buffers.
LEMMA FlagsKeep ==
  ASSUME NEW r, Live(r), NEW a
  PROVE  Live([r EXCEPT !.sampleNeeded = a]) /\ Live([r EXCEPT !.sampleInProgress = a])
<1>1. r = [buf |-> r.buf, sampleNeeded |-> r.sampleNeeded,
           sampleInProgress |-> r.sampleInProgress, taken |-> r.taken, sent |-> r.sent]
  BY DEF Live, Good
<1>2. Live([r EXCEPT !.sampleNeeded = a])
  <2> DEFINE q == [r EXCEPT !.sampleNeeded = a]
  <2>1. q = [buf |-> r.buf, sampleNeeded |-> a,
             sampleInProgress |-> r.sampleInProgress, taken |-> r.taken, sent |-> r.sent]
    BY <1>1
  <2> HIDE DEF q
  <2>2. /\ q.buf = r.buf /\ q.taken = r.taken /\ q.sent = r.sent
        /\ q = [buf |-> q.buf, sampleNeeded |-> q.sampleNeeded,
                sampleInProgress |-> q.sampleInProgress, taken |-> q.taken, sent |-> q.sent]
    BY <2>1
  <2>3. Live(q)
    BY <2>2, Zenon DEF Live, Good, End
  <2> QED BY <2>3 DEF q
<1>3. Live([r EXCEPT !.sampleInProgress = a])
  <2> DEFINE q == [r EXCEPT !.sampleInProgress = a]
  <2>1. q = [buf |-> r.buf, sampleNeeded |-> r.sampleNeeded,
             sampleInProgress |-> a, taken |-> r.taken, sent |-> r.sent]
    BY <1>1
  <2> HIDE DEF q
  <2>2. /\ q.buf = r.buf /\ q.taken = r.taken /\ q.sent = r.sent
        /\ q = [buf |-> q.buf, sampleNeeded |-> q.sampleNeeded,
                sampleInProgress |-> q.sampleInProgress, taken |-> q.taken, sent |-> q.sent]
    BY <2>1
  <2>3. Live(q)
    BY <2>2, Zenon DEF Live, Good, End
  <2> QED BY <2>3 DEF q
<1> QED BY <1>2, <1>3

LEMMA BothFlagsKeep ==
  ASSUME NEW r, Live(r), NEW a, NEW c
  PROVE  Live([r EXCEPT !.sampleNeeded = a, !.sampleInProgress = c])
<1> DEFINE q == [r EXCEPT !.sampleNeeded = a]
<1>1. [r EXCEPT !.sampleNeeded = a, !.sampleInProgress = c] = [q EXCEPT !.sampleInProgress = c]
  OBVIOUS
<1>2. Live(q)
  BY FlagsKeep
<1> HIDE DEF q
<1> QED BY <1>1, <1>2, FlagsKeep

\* Sample() in the interrupt.
LEMMA SampleKeeps ==
  ASSUME NEW s, NEW r, Live(r), NEW length \in Lengths \cup {0}
  PROVE  Live(Sample(s, r, length))
<1> DEFINE q == [r EXCEPT !.sampleNeeded = TRUE, !.sampleInProgress = TRUE]
<1>1. Live(q)
  BY BothFlagsKeep
<1> HIDE DEF q
<1>2. 0 \notin Lengths
  BY DriverAssumption
<1>3. CASE length = 0
  BY <1>3 DEF Sample
<1>4. CASE length \in Lengths
  <2>1. Live(Take(r, length)) /\ Live(Take(q, length))
    BY <1>1, <1>4, TakeKeeps
  <2>2. Sample(s, r, length) \in {r, Take(r, length), Take(q, length)}
    BY <1>2, <1>4 DEF Sample, q
  <2> QED BY <2>1, <2>2
<1> QED BY <1>3, <1>4

\* PostSample() in the DFC thread.
LEMMA PostSampleKeeps ==
  ASSUME NEW s, NEW x, Serving(x), Live(x.r), NEW length \in Lengths
  PROVE  Served(x, PostSample(s, x, length)) /\ Live(PostSample(s, x, length).r)
<1> DEFINE v == Take(x.r, length)
           q == [v EXCEPT !.sampleNeeded = FALSE, !.sampleInProgress = FALSE]
           w == [x EXCEPT !.r = q]
           y == IF s \in Deferred /\ x.r.sampleNeeded THEN w ELSE x
<1>1. Live(q)
  <2>1. Live(v)
    BY TakeKeeps
  <2> HIDE DEF v
  <2> QED BY <2>1, BothFlagsKeep
<1> HIDE DEF q
<1>2. Served(x, w) /\ w.r = q
  <2>1. x = ServiceOf(x.r, x.current, x.dataSize, x.answer)
    BY DEF Serving
  <2>2. w = ServiceOf(q, x.current, x.dataSize, x.answer)
    BY <2>1 DEF ServiceOf
  <2> HIDE DEF w
  <2>3. w.r = q /\ w.current = x.current /\ w.dataSize = x.dataSize /\ w.answer = x.answer
    BY <2>2 DEF ServiceOf
  <2> QED BY <2>2, <2>3 DEF Served, Serving
<1> HIDE DEF w
<1>3. Served(x, y) /\ Live(y.r)
  BY <1>1, <1>2, ServedSelf
<1>4. PostSample(s, x, length) = IF CopyNeeded(y.r) THEN AddSamples(y) ELSE y
  BY DEF PostSample, w, q, v
<1> HIDE DEF y
<1>5. Served(y, AddSamples(y)) /\ Same(y.r, AddSamples(y).r)
  BY <1>3, AddSamplesKeeps DEF Served, Live
<1>6. Served(x, AddSamples(y)) /\ Live(AddSamples(y).r)
  BY <1>3, <1>5, ServedFollows, SameKeeps
<1> QED BY <1>3, <1>4, <1>6

\* A sampler that has taken nothing, and the first sample of a session.
LEMMA NewIsLive == Live(NewSampler)
<1> DEFINE e == <<>>
           r == NewSampler
<1>1. /\ r.buf = BufferOf("Ok", e, e, 0) /\ r.taken = 0 /\ r.sent = e
      /\ r = SamplerOf(r, BufferOf("Ok", e, e, 0), 0, e)
  BY DEF NewSampler, ClearBuffer, BufferOf, SamplerOf
<1>2. /\ "Ok" \in ProfilerBufferStatus /\ DataSize \in Nat /\ DataSize > 0
      /\ (Emptied("Ok") => e = <<>>)
  BY BufferAssumption DEF ProfilerBufferStatus
<1>3. Runs(e, 0, 0) /\ Len(e) = 0
  BY EmptyRuns
<1> HIDE DEF e, r
<1>4. /\ Len(e) < DataSize /\ Runs(e, 0, Len(e)) /\ Runs(e, 0, Len(e) + Len(e) - 0)
      /\ 0 = Len(e) + Len(e) - 0 + Len(e) /\ 0 \in Nat
  BY <1>2, <1>3
<1>5. Live(SamplerOf(r, BufferOf("Ok", e, e, 0), 0, e))
  BY <1>2, <1>3, <1>4, MakeLive
<1>6. Live(r)
  BY <1>1, <1>5
<1> QED BY <1>6 DEF r

LEMMA ResetIsLive ==
  ASSUME NEW length \in Lengths
  PROVE  Live(Reset(length))
BY NewIsLive, TakeKeeps DEF Reset

\* A sample does not end the data of a sampler.
LEMMA TakeStaysOpen ==
  ASSUME NEW r, Live(r), Open(r), NEW length
  PROVE  Open(Take(r, length))
<1> DEFINE b == r.buf
           m == [i \in 1 .. length |-> r.taken + i]
           c == AddSample(b, m)
           n == IF Accepts(b, length) THEN r.taken + length ELSE r.taken
<1>1. b = BufferOf(b.status, b.front, b.back, b.read) /\ b.status # "DataEnd"
      /\ r = SamplerOf(r, r.buf, r.taken, r.sent) /\ b \in SampleBuffer
  BY GoodParts DEF Live, Open
<1> HIDE DEF b, m
<1>2. c.status # "DataEnd"
  <2>1. \A f : [b EXCEPT !.front = f].status = b.status
    BY <1>1 DEF BufferOf
  <2>2. [b EXCEPT !.status = "Full"].status = "Full"
    BY <1>1 DEF BufferOf
  <2>3. SwitchBuffers(b, m).status = "CopyAsap"
    <3> DEFINE st == "CopyAsap"
               k == b.front \o SubSeq(m, 1, DataSize - Len(b.front))
               f == SubSeq(m, DataSize - Len(b.front) + 1, Len(m))
    <3>1. SwitchBuffers(b, m) = [b EXCEPT !.status = st, !.back = k, !.front = f]
      BY DEF SwitchBuffers
    <3> HIDE DEF st, k, f
    <3>2. [b EXCEPT !.status = st, !.back = k, !.front = f] = BufferOf(st, f, k, b.read)
      <4>1. b \in SampleBuffer
        BY <1>1
      <4> QED BY <4>1, SwitchUpdate, Zenon
    <3> QED BY <3>1, <3>2 DEF BufferOf, st
  <2>4. \/ AddSample(b, m) = b
        \/ AddSample(b, m) = SwitchBuffers(b, m)
        \/ AddSample(b, m) = [b EXCEPT !.status = "Full"]
        \/ AddSample(b, m) = [b EXCEPT !.front = b.front \o m]
    BY DEF AddSample
  <2> QED BY <1>1, <2>1, <2>2, <2>3, <2>4
<1>3. Take(r, length) = r \/ Take(r, length) = [r EXCEPT !.buf = c, !.taken = n]
  BY DEF Take, b, m
<1> HIDE DEF c, n
<1>4. [r EXCEPT !.buf = c, !.taken = n] = SamplerOf(r, c, n, r.sent)
  BY <1>1, TakeUpdate
<1>5. SamplerOf(r, c, n, r.sent).buf = c
  BY DEF SamplerOf
<1> QED BY <1>2, <1>3, <1>4, <1>5 DEF Open

\* Nor do the flags of a deferred one, or Sample().
LEMMA FlagsStayOpen ==
  ASSUME NEW r, Live(r), Open(r), NEW a, NEW c
  PROVE  /\ Open([r EXCEPT !.sampleNeeded = a])
         /\ Open([r EXCEPT !.sampleNeeded = a, !.sampleInProgress = c])
         /\ Open([[r EXCEPT !.sampleNeeded = a] EXCEPT !.sampleInProgress = c])
<1> DEFINE q == [r EXCEPT !.sampleNeeded = a]
<1>1. r = [buf |-> r.buf, sampleNeeded |-> r.sampleNeeded,
           sampleInProgress |-> r.sampleInProgress, taken |-> r.taken, sent |-> r.sent]
  BY GoodParts DEF Live
<1>2. q = [buf |-> r.buf, sampleNeeded |-> a,
           sampleInProgress |-> r.sampleInProgress, taken |-> r.taken, sent |-> r.sent]
  BY <1>1
<1>3. [r EXCEPT !.sampleNeeded = a, !.sampleInProgress = c] = [q EXCEPT !.sampleInProgress = c]
  OBVIOUS
<1> HIDE DEF q
<1>4. [q EXCEPT !.sampleInProgress = c].buf = r.buf
  BY <1>2
<1> QED BY <1>2, <1>3, <1>4 DEF Open, q

LEMMA SampleStaysOpen ==
  ASSUME NEW s, NEW r, Live(r), Open(r), NEW length
  PROVE  Open(Sample(s, r, length))
<1> DEFINE q == [r EXCEPT !.sampleNeeded = TRUE, !.sampleInProgress = TRUE]
<1>1. Live(q) /\ Open(q)
  BY BothFlagsKeep, FlagsStayOpen
<1> HIDE DEF q
<1>2. Open(Take(r, length)) /\ Open(Take(q, length))
  BY <1>1, TakeStaysOpen
<1>3. Sample(s, r, length) \in {r, Take(r, length), Take(q, length)}
  BY DEF Sample, q
<1> QED BY <1>2, <1>3

LEMMA NewIsOpen ==
  /\ Open(NewSampler) /\ Blank(NewSampler)
  /\ \A length \in Lengths : Open(Reset(length))
<1>1. NewSampler.buf = BufferOf("Ok", <<>>, <<>>, 0)
  BY DEF NewSampler, ClearBuffer, BufferOf
<1>2. Open(NewSampler) /\ Blank(NewSampler)
  BY <1>1 DEF BufferOf, Open, Blank
<1> QED BY <1>2, NewIsLive, TakeStaysOpen DEF Reset

-----------------------------------------------------------------------------
(* The actions, while the device is not powered down.                      *)

\* The library's well-founded order, as a set of numbers that has a least one.
NatLess == {ss \in Nat \X Nat : ss[1] < ss[2]}

LEMMA LeastElement ==
  ASSUME NEW T, T \subseteq Nat, T # {}
  PROVE  \E x \in T : \A y \in T : x <= y
<1>1. IsWellFoundedOn(NatLess, Nat)
  <2>1. IsWellFoundedOn({ss \in Nat \X Nat : ss[1] < ss[2]}, Nat)
    BY NatLessThanWellFounded, Zenon DEF OpToRel
  <2> QED BY <2>1, Zenon DEF NatLess
<1>2. PICK x \in T : \A y \in T : ~ (<<y, x>> \in NatLess)
  BY <1>1, WFMin, Zenon
<1>3. \A y \in T : x <= y
  <2> TAKE y \in T
  <2>1. x \in Nat /\ y \in Nat
    OBVIOUS
  <2>2. ~ (<<y, x>> \in NatLess)
    BY <1>2
  <2>3. <<y, x>> \in Nat \X Nat /\ <<y, x>>[1] = y /\ <<y, x>>[2] = x
    BY <2>1
  <2>4. y < x => <<y, x>> \in NatLess
    BY <2>3 DEF NatLess
  <2> QED BY <2>1, <2>2, <2>4
<1> QED BY <1>3

LEMMA EnabledAreNumbers ==
  /\ Enabled \subseteq Samplers /\ \A s \in Enabled : s \in Nat
  /\ \A i : \A j \in NextEnabled(i) : j \in Enabled
  /\ \A i \in Nat : \A j \in NextEnabled(i) : \A s \in Enabled : s < j => s <= i
  /\ \A i \in Nat : NextEnabled(i) = {} => \A s \in Enabled : s <= i
<1>1. Enabled \subseteq Samplers /\ \A s \in Enabled : s \in Nat
  BY DriverAssumption DEF Samplers
<1>2. \A i : \A j \in NextEnabled(i) : j \in Enabled
  BY DEF NextEnabled
<1>3. \A i \in Nat : \A j \in NextEnabled(i) : \A s \in Enabled : s < j => s <= i
  BY <1>1 DEF NextEnabled
<1>4. \A i \in Nat : NextEnabled(i) = {} => \A s \in Enabled : s <= i
  <2> SUFFICES ASSUME NEW i \in Nat, NEW s \in Enabled, s > i
               PROVE  NextEnabled(i) # {}
    BY <1>1
  <2> DEFINE T == {k \in Enabled : k > i}
  <2>1. T \subseteq Nat /\ s \in T
    BY <1>1
  <2>2. PICK j \in T : \A k \in T : j <= k
    <3> HIDE DEF T
    <3> QED BY <2>1, LeastElement
  <2>3. j \in NextEnabled(i)
    BY <2>2 DEF NextEnabled
  <2> QED BY <2>3
<1> QED BY <1>1, <1>2, <1>3, <1>4

\* Only one sampler changes.
LEMMA OneSampler ==
  ASSUME NEW i \in Enabled, sampler = [s \in Samplers |-> sampler[s]], NEW r,
         sampler' = [sampler EXCEPT ![i] = r]
  PROVE  /\ sampler' = [s \in Samplers |-> sampler'[s]] /\ sampler'[i] = r
         /\ \A s \in Enabled : s # i => sampler'[s] = sampler[s]
<1>1. i \in Samplers /\ \A s \in Enabled : s \in Samplers
  BY EnabledAreNumbers
<1> QED BY <1>1

LEMMA SampleTickStep ==
  ASSUME Core, SampleTick
  PROVE  Core'
<1>1. PICK length \in [Enabled -> Lengths \cup {0}] :
        sampler' = [s \in Samplers |-> IF s \in Enabled THEN Sample(s, sampler[s], length[s])
                                       ELSE sampler[s]]
  BY DEF SampleTick
<1>2. iState = "running" /\ UNCHANGED <<iState, dfc, stream, power>>
  BY DEF SampleTick
<1>3. Control'
  BY <1>2 DEF Core, Control
<1>4. \A s \in Enabled : Live(sampler'[s]) /\ Open(sampler'[s])
  <2> TAKE s \in Enabled
  <2>1. Live(sampler[s]) /\ Open(sampler[s])
    BY <1>2 DEF Core, Conserved, Passed
  <2>2. length[s] \in Lengths \cup {0}
    OBVIOUS
  <2>3. sampler'[s] = Sample(s, sampler[s], length[s])
    BY <1>1, EnabledAreNumbers
  <2> QED BY <2>1, <2>2, <2>3, SampleKeeps, SampleStaysOpen
<1>5. sampler' = [s \in Samplers |-> sampler'[s]]
  BY <1>1
<1>6. \A s \in Enabled : ~ Passed(s)'
  BY <1>2 DEF Passed
<1> QED BY <1>3, <1>4, <1>5, <1>6 DEF Core, Conserved

\* Steps that change no sampler.
LEMMA QuietStep ==
  ASSUME Core, UNCHANGED <<sampler, stranded>>, Control',
         \A s \in Enabled : Passed(s)' <=> Passed(s)
  PROVE  Core'
<1>1. sampler' = sampler /\ stranded' = stranded
  OBVIOUS
<1>2. Conserved'
  BY <1>1 DEF Core, Conserved, Closed
<1> QED BY <1>2 DEF Core

LEMMA TicksStep ==
  ASSUME Core, StoppingTick \/ IdleTick \/ DfcLate
  PROVE  Core'
<1>1. UNCHANGED <<sampler, iState, dfc, stream, power, stranded>>
  BY DEF StoppingTick, IdleTick, DfcLate, history
<1>2. Control'
  BY <1>1 DEF Core, Control
<1> QED BY <1>1, <1>2, QuietStep DEF Passed

LEMMA DfcBeginStep ==
  ASSUME Core, DfcBegin
  PROVE  Core'
<1>1. /\ dfc = Idle /\ iState \in {"running", "stopping"}
      /\ UNCHANGED <<sampler, iState, stream, power, stranded>>
  BY DEF DfcBegin, history
<1>2. PICK i \in NextEnabled(0) :
        dfc' = [at |-> IF iState = "running" THEN "check" ELSE "end", i |-> i]
  BY DEF DfcBegin
<1>3. i \in Enabled
  BY EnabledAreNumbers
<1>4. Control'
  BY <1>1, <1>2, <1>3 DEF Core, Control
<1>5. \A s \in Enabled : ~ (s < i)
  <2>1. 0 \in Nat /\ \A s \in Enabled : s \in Nat /\ s # 0
    BY EnabledAreNumbers DEF Samplers
  <2>2. \A s \in Enabled : s < i => s <= 0
    BY <2>1, EnabledAreNumbers
  <2> QED BY <2>1, <2>2
<1>6. \A s \in Enabled : Passed(s)' <=> Passed(s)
  BY <1>1, <1>2, <1>5 DEF Passed, Idle
<1> QED BY <1>1, <1>4, <1>6, QuietStep

\* The loop of the running branch.
LEMMA AdvanceIsRight ==
  ASSUME NEW i, Advance(i)
  PROVE  dfc' = Idle \/ \E j \in Enabled : dfc' = [at |-> "check", i |-> j]
BY EnabledAreNumbers DEF Advance

LEMMA DfcCheckStep ==
  ASSUME Core, DfcCheck
  PROVE  Core'
<1>1. /\ dfc.at = "check" /\ UNCHANGED <<sampler, iState, stream, power, stranded>>
      /\ iState = "running" /\ dfc.i \in Enabled /\ dfc = [at |-> dfc.at, i |-> dfc.i]
  BY DEF DfcCheck, Core, Control, history
<1>2. \/ dfc' = [at |-> "sample", i |-> dfc.i] \/ dfc' = [at |-> "copy", i |-> dfc.i]
      \/ dfc' = Idle \/ \E j \in Enabled : dfc' = [at |-> "check", i |-> j]
  <2>1. CASE PostSampleNeeded(sampler[dfc.i])
    BY <1>1, <2>1 DEF DfcCheck
  <2>2. CASE ~ PostSampleNeeded(sampler[dfc.i])
    <3>1. Advance(dfc.i)
      BY <2>2 DEF DfcCheck
    <3> QED BY <3>1, AdvanceIsRight
  <2> QED BY <2>1, <2>2
<1>3. Control'
  BY <1>1, <1>2 DEF Core, Control, Idle
<1> QED BY <1>1, <1>3, QuietStep DEF Passed

\* A step of the running branch that changes one sampler.
LEMMA RunningStep ==
  ASSUME Core, iState = "running", iState' = iState, Control', NEW i \in Enabled, NEW r,
         sampler' = [sampler EXCEPT ![i] = r], Live(r), Open(r)
  PROVE  Core'
<1>1. /\ sampler' = [s \in Samplers |-> sampler'[s]] /\ sampler'[i] = r
      /\ \A s \in Enabled : s # i => sampler'[s] = sampler[s]
  BY OneSampler DEF Core, Conserved
<1>2. \A s \in Enabled : Live(sampler'[s]) /\ Open(sampler'[s])
  BY <1>1 DEF Core, Conserved, Passed
<1> QED BY <1>1, <1>2 DEF Core, Conserved, Passed

LEMMA DfcSampleStep ==
  ASSUME Core, DfcSample
  PROVE  Core'
<1> DEFINE i == dfc.i
<1>1. /\ dfc.at = "sample" /\ UNCHANGED <<iState, stream, power>>
      /\ iState = "running" /\ i \in Enabled /\ dfc = [at |-> dfc.at, i |-> i]
  BY DEF DfcSample, Core, Control, driverVars
<1>2. PICK length \in Lengths, more \in BOOLEAN :
        /\ sampler' = [sampler EXCEPT ![i] =
             IF more THEN [Take(sampler[i], length) EXCEPT !.sampleNeeded = FALSE]
             ELSE [[Take(sampler[i], length) EXCEPT !.sampleNeeded = FALSE]
                     EXCEPT !.sampleInProgress = FALSE]]
        /\ dfc' = [dfc EXCEPT !.at = IF more THEN "sample" ELSE "copy"]
  BY DEF DfcSample
<1>3. Live(Take(sampler[i], length)) /\ Open(Take(sampler[i], length))
  <2>1. Live(sampler[i]) /\ Open(sampler[i])
    BY <1>1 DEF Core, Conserved, Passed
  <2> QED BY <2>1, TakeKeeps, TakeStaysOpen
<1> DEFINE u == [Take(sampler[i], length) EXCEPT !.sampleNeeded = FALSE]
           w == [u EXCEPT !.sampleInProgress = FALSE]
           r == IF more THEN u ELSE w
<1>4. Live(u) /\ Open(u) /\ Open(w)
  BY <1>3, FlagsKeep, FlagsStayOpen
<1>5. sampler' = [sampler EXCEPT ![i] = r]
  BY <1>2
<1> HIDE DEF u
<1>6. Live(r) /\ Open(r)
  BY <1>4, FlagsKeep
<1>7. Control'
  BY <1>1, <1>2 DEF Core, Control
<1> HIDE DEF r, i
<1> QED BY <1>1, <1>5, <1>6, <1>7, RunningStep

LEMMA DfcCopyStep ==
  ASSUME Core, DfcCopy
  PROVE  Core'
<1> DEFINE i == dfc.i
           r == sampler[i]
           size == stream.dataSize
           b == AfterCopy(r.buf, size)
           s == r.sent \o Copied(r.buf, size)
           q == SamplerOf(r, b, r.taken, s)
<1>1. /\ dfc.at = "copy" /\ UNCHANGED <<iState, power>>
      /\ iState = "running" /\ i \in Enabled /\ dfc = [at |-> dfc.at, i |-> i]
      /\ stream = [current |-> stream.current, dataSize |-> size] /\ size \in Nat
      /\ stream.current \in BOOLEAN
  BY DEF DfcCopy, Core, Control
<1>2. Live(r) /\ Good(r) /\ Open(r)
  BY <1>1 DEF Core, Conserved, Live, Passed
<1>3. CASE CopyNeeded(r) /\ stream.current
  <2>1. /\ sampler' = [sampler EXCEPT ![i].buf = b, ![i].sent = s]
        /\ stream' = [stream EXCEPT !.dataSize = FilledSize(r.buf, size)]
        /\ dfc' = [dfc EXCEPT !.at = "release"]
    BY <1>3 DEF DfcCopy
  <2>2. sampler' = [sampler EXCEPT ![i] = [r EXCEPT !.buf = b, !.sent = s]]
    <3>1. i \in Samplers /\ sampler = [j \in Samplers |-> sampler[j]]
      BY <1>1, EnabledAreNumbers DEF Core, Conserved
    <3> HIDE DEF b, s, i
    <3> QED BY <2>1, <3>1
  <2>3. [r EXCEPT !.buf = b, !.sent = s] = q
    <3>1. r = SamplerOf(r, r.buf, r.taken, r.sent)
      BY <1>2, GoodParts
    <3> HIDE DEF r, b, s
    <3> DEFINE p == [r EXCEPT !.buf = b]
    <3>2. [r EXCEPT !.buf = b, !.sent = s] = [p EXCEPT !.sent = s]
      OBVIOUS
    <3>3. p = SamplerOf(r, b, r.taken, r.sent)
      BY <3>1 DEF SamplerOf
    <3> HIDE DEF p
    <3> QED BY <3>2, <3>3 DEF SamplerOf
  <2>4. Live(q) /\ Open(q)
    <3>1. Same(r, q) /\ q.buf.status = r.buf.status
      BY <1>1, <1>2, CopyKeeps
    <3> HIDE DEF q, r
    <3> QED BY <1>2, <3>1, SameKeeps DEF Open
  <2>5. FilledSize(r.buf, size) \in Nat
    BY <1>1, <1>2, AmountIsRight
  <2>6. Control'
    BY <1>1, <2>1, <2>5 DEF Core, Control
  <2> HIDE DEF q, i
  <2> QED BY <1>1, <2>2, <2>3, <2>4, <2>6, RunningStep
<1>4. CASE ~ (CopyNeeded(r) /\ stream.current)
  <2>1. Advance(i) /\ UNCHANGED <<sampler, stream, stranded>>
    BY <1>4 DEF DfcCopy, history
  <2>2. dfc' = Idle \/ \E j \in Enabled : dfc' = [at |-> "check", i |-> j]
    BY <2>1, AdvanceIsRight
  <2>3. Control'
    BY <1>1, <2>1, <2>2 DEF Core, Control, Idle
  <2> QED BY <1>1, <2>1, <2>3, QuietStep DEF Passed
<1> QED BY <1>3, <1>4

LEMMA DfcReleaseStep ==
  ASSUME Core, DfcRelease
  PROVE  Core'
<1> DEFINE i == dfc.i
           r == sampler[i]
           q == SamplerOf(r, [r.buf EXCEPT !.status = "Ok"], r.taken, r.sent)
<1>1. /\ dfc.at = "release" /\ UNCHANGED <<iState, power, stranded>>
      /\ iState = "running" /\ i \in Enabled /\ dfc = [at |-> dfc.at, i |-> i]
      /\ stream = [current |-> stream.current, dataSize |-> stream.dataSize]
      /\ stream' = [stream EXCEPT !.current = ~NearlyFull(stream.dataSize)]
      /\ Advance(i)
      /\ sampler' = IF r.buf.back = <<>>
                    THEN [sampler EXCEPT ![i].buf = ReleaseBuffer(@)] ELSE sampler
  BY DEF DfcRelease, Core, Control, history
<1>2. Live(r) /\ Good(r)
  BY <1>1 DEF Core, Conserved, Live, Passed
<1>3. dfc' = Idle \/ \E j \in Enabled : dfc' = [at |-> "check", i |-> j]
  BY <1>1, AdvanceIsRight
<1>4. Control'
  <2> DEFINE c == ~ NearlyFull(stream.dataSize)
  <2>1. c \in BOOLEAN
    OBVIOUS
  <2> HIDE DEF c
  <2>2. stream' = [current |-> c, dataSize |-> stream.dataSize]
    BY <1>1 DEF c
  <2>3. /\ stream'.current = c /\ stream'.dataSize = stream.dataSize
        /\ stream' = [current |-> stream'.current, dataSize |-> stream'.dataSize]
    BY <2>2
  <2> QED BY <1>1, <1>3, <2>1, <2>3 DEF Core, Control, Idle
<1>5. CASE r.buf.back = <<>>
  <2>1. sampler' = [sampler EXCEPT ![i] = [r EXCEPT !.buf = ReleaseBuffer(r.buf)]]
    BY <1>1, <1>5
  <2>2. [r EXCEPT !.buf = ReleaseBuffer(r.buf)] = q
    <3>1. r = SamplerOf(r, r.buf, r.taken, r.sent)
      BY <1>2, GoodParts
    <3> DEFINE b == [r.buf EXCEPT !.status = "Ok"]
    <3> HIDE DEF r, b
    <3>2. [r EXCEPT !.buf = b] = SamplerOf(r, b, r.taken, r.sent)
      BY <3>1 DEF SamplerOf
    <3> QED BY <3>2 DEF b, ReleaseBuffer
  <2>3. Live(q) /\ Open(q)
    <3>1. "Ok" \in ProfilerBufferStatus
      BY DEF ProfilerBufferStatus
    <3>2. Same(r, q) /\ q.buf.status = "Ok"
      BY <1>2, <1>5, <3>1, StatusKeeps
    <3> HIDE DEF q, r
    <3> QED BY <1>2, <3>2, SameKeeps DEF Open
  <2> HIDE DEF q, i
  <2> QED BY <1>1, <1>4, <2>1, <2>2, <2>3, RunningStep
<1>6. CASE r.buf.back # <<>>
  <2>1. sampler' = sampler
    BY <1>1, <1>6
  <2> QED BY <1>1, <1>4, <2>1, QuietStep DEF Passed
<1> QED BY <1>5, <1>6

\* The record that the stopping branch and the reads of a stopped driver serve.
LEMMA CurrentServes ==
  ASSUME Core, NEW i
  PROVE  /\ Serving(Current(i)) /\ Current(i).r = sampler[i]
         /\ Current(i).current = stream.current /\ Current(i).answer = client.answer
<1> DEFINE x == Current(i)
<1>1. x = ServiceOf(sampler[i], stream.current, stream.dataSize, client.answer)
  BY DEF Current, ServiceOf
<1> HIDE DEF x
<1>2. /\ x.r = sampler[i] /\ x.current = stream.current /\ x.dataSize = stream.dataSize
      /\ x.answer = client.answer
  BY <1>1 DEF ServiceOf
<1>3. Serving(x)
  BY <1>1, <1>2 DEF Serving, Core, Control
<1> QED BY <1>2, <1>3 DEF x

\* Giving the client's buffer back.
LEMMA ReleaseServes ==
  ASSUME NEW x, Serving(x)
  PROVE  /\ Serving(Release(x)) /\ ~ Release(x).current
         /\ x.current => Release(x).answer \in {"data", "empty"}
         /\ ~ x.current => Release(x).answer = x.answer
<1> DEFINE a == IF x.dataSize = 0 THEN "empty" ELSE "data"
           y == [x EXCEPT !.current = FALSE, !.answer = a]
<1>1. x = ServiceOf(x.r, x.current, x.dataSize, x.answer) /\ x.dataSize \in Nat
      /\ x.current \in BOOLEAN
  BY DEF Serving
<1>2. CASE x.current
  <2>1. Release(x) = y /\ a \in {"data", "empty"}
    BY <1>2 DEF Release
  <2> DEFINE c == FALSE
             w == [x EXCEPT !.current = c]
  <2> HIDE DEF a
  <2>2. y = [w EXCEPT !.answer = a]
    OBVIOUS
  <2> HIDE DEF c, y
  <2>3. w = ServiceOf(x.r, c, x.dataSize, x.answer)
    BY <1>1 DEF ServiceOf
  <2> HIDE DEF w
  <2>4. y = ServiceOf(x.r, c, x.dataSize, a)
    BY <2>2, <2>3 DEF ServiceOf
  <2>5. y.r = x.r /\ y.current = c /\ y.dataSize = x.dataSize /\ y.answer = a
    BY <2>4 DEF ServiceOf
  <2>6. Serving(y) /\ ~ y.current
    BY <1>1, <2>4, <2>5 DEF Serving, c
  <2>7. Release(x) = y
    BY <2>1
  <2> QED BY <1>2, <2>1, <2>5, <2>6, <2>7
<1>3. CASE ~ x.current
  BY <1>3 DEF Release
<1> QED BY <1>1, <1>2, <1>3

\* What EndSampling makes of a sampler.
LEMMA EndStreamCloses ==
  ASSUME NEW b \in BOOLEAN, NEW x, Serving(x), NEW y, y = EndStream(x),
         \/ Live(x.r) /\ (b <=> ~ HandsOver(x.r.buf))
         \/ Closed(b, x.r)
  PROVE  Served(x, y) /\ Closed(b, y.r)
<1>1. Live(x.r) \/ Ended(x.r)
  BY DEF Closed
<1>2. /\ Served(x, y) /\ (Live(y.r) \/ Ended(y.r)) /\ y.r.buf.status # "Ok"
      /\ y.r.buf.front = EndBuffer(x.r.buf).front
      /\ Live(x.r) /\ x.r.buf.status # "Ok" => Live(y.r)
  BY <1>1, EndStreamKeeps
<1>3. x.r.buf \in SampleBuffer
  BY <1>1, GoodParts DEF Live, Ended, Done
<1>4. CASE b
  BY <1>2, <1>4 DEF Closed, HandsOver
<1>5. CASE ~ b
  <2>1. HandsOver(x.r.buf) \/ Blank(x.r)
    BY <1>5 DEF Closed
  <2>2. Blank(y.r)
    BY <1>2, <1>3, <2>1, EndFrontIsBlank DEF Blank
  <2> QED BY <1>2, <1>5, <2>2 DEF Closed
<1> QED BY <1>4, <1>5

\* EndSampling of the sampler that the DFC thread is at.
LEMMA EndingStep ==
  ASSUME Core, NEW i \in Enabled, NEW r, Closed(i \in stranded', r),
         sampler' = [sampler EXCEPT ![i] = r], Control',
         \A s \in Enabled : s # i => (s \in stranded' <=> s \in stranded),
         \A s \in Enabled : Passed(s)' <=> s = i \/ Passed(s)
  PROVE  Core'
<1>1. /\ sampler' = [s \in Samplers |-> sampler'[s]] /\ sampler'[i] = r
      /\ \A s \in Enabled : s # i => sampler'[s] = sampler[s]
  BY OneSampler DEF Core, Conserved
<1>2. ASSUME NEW s \in Enabled
      PROVE  IF Passed(s)' THEN Closed(s \in stranded', sampler'[s]) ELSE Live(sampler'[s]) /\ Open(sampler'[s])
  <2>1. CASE s = i
    BY <1>1, <2>1
  <2>2. CASE s # i
    BY <1>1, <1>2, <2>2 DEF Core, Conserved, Closed
  <2> QED BY <2>1, <2>2
<1> QED BY <1>1, <1>2 DEF Core, Conserved

LEMMA DfcStopStep ==
  ASSUME Core, DfcStop
  PROVE  Core'
<1> DEFINE i == dfc.i
<1>1. /\ dfc.at = "end" /\ iState = "stopping" /\ i \in Enabled /\ UNCHANGED power
      /\ dfc = [at |-> dfc.at, i |-> i]
  BY DEF DfcStop, Core, Control
<1>2. Live(sampler[i])
  <2>1. ~ (i < i)
    BY <1>1, EnabledAreNumbers
  <2> QED BY <1>1, <2>1 DEF Core, Conserved, Passed
<1>3. PICK length \in Lengths :
        LET y == EndStream(Posted(i, length))
            z == Release(y)
        IN  /\ sampler' = [sampler EXCEPT ![i] = y.r]
            /\ stranded' = IF HandsOver(Posted(i, length).r.buf) THEN stranded \ {i}
                           ELSE stranded \cup {i}
            /\ IF NextEnabled(i) # {}
               THEN /\ \E j \in NextEnabled(i) : dfc' = [dfc EXCEPT !.i = j]
                    /\ stream' = [current |-> y.current, dataSize |-> y.dataSize]
                    /\ UNCHANGED iState
               ELSE /\ dfc' = Idle
                    /\ stream' = [current |-> z.current, dataSize |-> z.dataSize]
                    /\ iState' = "stopped"
  BY DEF DfcStop
<1> DEFINE x == Posted(i, length)
           y == EndStream(x)
           z == Release(y)
<1>4. Serving(x) /\ Live(x.r)
  <2>1. Serving(Current(i)) /\ Current(i).r = sampler[i]
    BY CurrentServes
  <2>2. Served(Current(i), PostSample(i, Current(i), length))
        /\ Live(PostSample(i, Current(i), length).r)
    BY <1>2, <2>1, PostSampleKeeps
  <2> QED BY <1>2, <2>1, <2>2 DEF Posted, Served
<1> HIDE DEF x
<1>5. /\ stranded' = IF HandsOver(x.r.buf) THEN stranded \ {i} ELSE stranded \cup {i}
      /\ sampler' = [sampler EXCEPT ![i] = y.r]
      /\ IF NextEnabled(i) # {}
         THEN /\ \E j \in NextEnabled(i) : dfc' = [dfc EXCEPT !.i = j]
              /\ stream' = [current |-> y.current, dataSize |-> y.dataSize]
              /\ UNCHANGED iState
         ELSE /\ dfc' = Idle
              /\ stream' = [current |-> z.current, dataSize |-> z.dataSize]
              /\ iState' = "stopped"
  BY <1>3 DEF x
<1>6. Serving(y) /\ Closed(i \in stranded', y.r)
  <2>1. i \in stranded' <=> ~ HandsOver(x.r.buf)
    BY <1>5
  <2> DEFINE left == (i \in stranded')
  <2>2. left \in BOOLEAN /\ (left <=> ~ HandsOver(x.r.buf)) /\ y = EndStream(x)
    BY <2>1
  <2> HIDE DEF left, y
  <2>3. Served(x, y) /\ Closed(left, y.r)
    BY <1>4, <2>2, EndStreamCloses
  <2> QED BY <2>3 DEF Served, left
<1> HIDE DEF y
<1>7. Serving(z)
  BY <1>6, ReleaseServes
<1> HIDE DEF z
<1>8. \A s \in Enabled : s # i => (s \in stranded' <=> s \in stranded)
  BY <1>5
<1>9. i \in Nat /\ \A s \in Enabled : s \in Nat
  BY <1>1, EnabledAreNumbers
<1>10. CASE NextEnabled(i) # {}
  <2>1. PICK j \in NextEnabled(i) : dfc' = [dfc EXCEPT !.i = j]
    BY <1>5, <1>10
  <2>2. dfc' = [at |-> "end", i |-> j] /\ j \in Enabled /\ j > i /\ iState' = iState
    BY <1>1, <1>5, <1>10, <2>1, EnabledAreNumbers DEF NextEnabled
  <2>3. Control'
    BY <1>1, <1>5, <1>6, <1>10, <2>2 DEF Core, Control, Serving
  <2>4. \A s \in Enabled : s < j <=> s = i \/ s < i
    <3>1. \A s \in Enabled : s < j => s <= i
      BY <1>9, EnabledAreNumbers
    <3> HIDE DEF i
    <3> QED BY <1>9, <2>2, <3>1
  <2>5. \A s \in Enabled : Passed(s)' <=> s = i \/ Passed(s)
    BY <1>1, <2>2, <2>4 DEF Passed
  <2> QED BY <1>1, <1>5, <1>6, <1>8, <2>3, <2>5, EndingStep
<1>11. CASE NextEnabled(i) = {}
  <2>1. Control'
    BY <1>1, <1>5, <1>7, <1>11 DEF Core, Control, Serving, Idle
  <2>2. \A s \in Enabled : s = i \/ s < i
    <3>1. \A s \in Enabled : s <= i
      BY <1>9, <1>11, EnabledAreNumbers
    <3> HIDE DEF i
    <3> QED BY <1>9, <3>1
  <2>3. \A s \in Enabled : Passed(s)' <=> s = i \/ Passed(s)
    BY <1>1, <1>5, <1>11, <2>2 DEF Passed
  <2> QED BY <1>1, <1>5, <1>6, <1>8, <2>1, <2>3, EndingStep
<1> QED BY <1>10, <1>11

LEMMA ReadEndStep ==
  ASSUME Core, ReadEnd
  PROVE  Core'
<1> DEFINE i == dfc.i
           x == Current(i)
           y == EndStream(x)
           z == IF y.r.buf.status = "DataEnd" THEN Release(y) ELSE y
<1>1. /\ dfc.at = "read" /\ iState = "stopped" /\ i \in Enabled /\ UNCHANGED <<power, iState, stranded>>
      /\ dfc = [at |-> dfc.at, i |-> i]
  BY DEF ReadEnd, Core, Control, driverVars, history
<1>2. Closed(i \in stranded', sampler[i])
  BY <1>1 DEF Core, Conserved, Passed
<1>3. Serving(x) /\ x.r = sampler[i]
  BY CurrentServes
<1>4. /\ sampler' = [sampler EXCEPT ![i] = y.r]
      /\ IF NextEnabled(i) # {}
         THEN /\ \E j \in NextEnabled(i) : dfc' = [dfc EXCEPT !.i = j]
              /\ stream' = [current |-> y.current, dataSize |-> y.dataSize]
         ELSE /\ dfc' = Idle
              /\ stream' = [current |-> z.current, dataSize |-> z.dataSize]
  BY DEF ReadEnd
<1> HIDE DEF x
<1>5. Serving(y) /\ Closed(i \in stranded', y.r)
  <2> DEFINE left == (i \in stranded')
  <2>1. left \in BOOLEAN /\ Closed(left, x.r) /\ y = EndStream(x)
    BY <1>2, <1>3
  <2> HIDE DEF left, y
  <2>2. Served(x, y) /\ Closed(left, y.r)
    BY <1>3, <2>1, EndStreamCloses
  <2> QED BY <2>2 DEF Served, left
<1> HIDE DEF y
<1>6. Serving(z)
  BY <1>5, ReleaseServes
<1> HIDE DEF z
<1>7. \A s \in Enabled : /\ s # i => (s \in stranded' <=> s \in stranded)
                         /\ Passed(s)' <=> s = i \/ Passed(s)
  BY <1>1 DEF Passed
<1>8. CASE NextEnabled(i) # {}
  <2>1. PICK j \in NextEnabled(i) : dfc' = [dfc EXCEPT !.i = j]
    BY <1>4, <1>8
  <2>2. dfc' = [at |-> "read", i |-> j] /\ j \in Enabled
    BY <1>1, <2>1, EnabledAreNumbers
  <2>3. Control'
    BY <1>1, <1>4, <1>5, <1>8, <2>2 DEF Core, Control, Serving
  <2> QED BY <1>1, <1>4, <1>5, <1>7, <2>3, EndingStep
<1>9. CASE NextEnabled(i) = {}
  <2>1. Control'
    BY <1>1, <1>4, <1>6, <1>9 DEF Core, Control, Serving, Idle
  <2> QED BY <1>1, <1>4, <1>5, <1>7, <2>1, EndingStep
<1> QED BY <1>8, <1>9

LEMMA StartStep ==
  ASSUME Core, HandleStart
  PROVE  Core'
<1>1. /\ StartSampling /\ dfc = Idle /\ power' = [power EXCEPT !.iStarted = TRUE]
      /\ UNCHANGED <<dfc, stream, stranded>>
  BY DEF HandleStart, CanHandle
<1>2. dfc.at = "idle"
  BY <1>1 DEF Idle
<1>3. power'.iOff = power.iOff
  BY <1>1
<1>4. CASE iState = "stopped"
  <2>1. PICK length \in Lengths :
          sampler' = [s \in Samplers |-> IF s \in Enabled THEN Reset(length) ELSE sampler[s]]
    BY <1>1, <1>4 DEF StartSampling
  <2>2. iState' = "running"
    BY <1>1, <1>4 DEF StartSampling
  <2>3. Control'
    BY <1>1, <1>2, <1>3, <2>2 DEF Core, Control
  <2>4. \A s \in Enabled : sampler'[s] = Reset(length)
    BY <2>1, EnabledAreNumbers
  <2>5. \A s \in Enabled : Live(sampler'[s]) /\ Open(sampler'[s])
    BY <2>4, ResetIsLive, NewIsOpen
  <2>6. sampler' = [s \in Samplers |-> sampler'[s]]
    BY <2>1
  <2> QED BY <2>2, <2>3, <2>5, <2>6 DEF Core, Conserved, Passed
<1>5. CASE iState # "stopped"
  <2>1. UNCHANGED <<sampler, iState>>
    BY <1>1, <1>5 DEF StartSampling
  <2>2. Control'
    BY <1>1, <1>3, <2>1 DEF Core, Control
  <2> QED BY <1>1, <2>1, <2>2, QuietStep DEF Passed
<1> QED BY <1>4, <1>5

LEMMA MessageStep ==
  ASSUME Core, HandleRead \/ HandleStop
  PROVE  Core'
<1>1. /\ UNCHANGED <<sampler, iState, power, stranded>> /\ dfc = Idle
      /\ stream' = stream \/ stream' = [current |-> TRUE, dataSize |-> 0]
  BY DEF HandleRead, HandleStop, CanHandle, driverVars, history
<1>2. \/ dfc' = dfc \/ dfc' = [at |-> "stop", i |-> 0]
      \/ iState = "stopped" /\ \E i \in NextEnabled(0) : dfc' = [at |-> "read", i |-> i]
  BY DEF HandleRead, HandleStop
<1>3. dfc.at = "idle"
  BY <1>1 DEF Idle
<1>4. Control'
  <2>1. /\ stream' = [current |-> stream'.current, dataSize |-> stream'.dataSize]
        /\ stream'.current \in BOOLEAN /\ stream'.dataSize \in Nat
    <3>1. CASE stream' = stream
      BY <3>1 DEF Core, Control
    <3>2. CASE stream' = [current |-> TRUE, dataSize |-> 0]
      <4>1. stream'.current = TRUE /\ stream'.dataSize = 0
        BY <3>2
      <4> QED BY <3>2, <4>1
    <3> QED BY <1>1, <3>1, <3>2
  <2>2. /\ dfc' = [at |-> dfc'.at, i |-> dfc'.i]
        /\ \/ dfc'.at \in {"idle", "stop"}
           \/ dfc'.at = "read" /\ iState = "stopped" /\ dfc'.i \in Enabled
    BY <1>1, <1>2, EnabledAreNumbers DEF Idle
  <2> QED BY <1>1, <2>1, <2>2 DEF Core, Control
<1>5. dfc'.at # "end"
  BY <1>2, <1>3
<1> QED BY <1>1, <1>3, <1>4, <1>5, QuietStep DEF Passed

LEMMA StopEndStep ==
  ASSUME Core, StopEnd
  PROVE  Core'
<1>1. /\ dfc.at = "stop" /\ dfc' = Idle /\ UNCHANGED <<sampler, stream, power, stranded>>
      /\ iState' = IF iState = "running" THEN "stopping" ELSE iState
  BY DEF StopEnd, StopSampling, history
<1>2. Control'
  BY <1>1 DEF Core, Control, Idle
<1>3. \A s \in Enabled : Passed(s)' <=> Passed(s)
  BY <1>1 DEF Passed, Idle
<1> QED BY <1>1, <1>2, <1>3, QuietStep

-----------------------------------------------------------------------------
(* The specification.                                                      *)

LEMMA InitSamples ==
  ASSUME Init
  PROVE  SampleInv
<1>1. /\ power = [iOff |-> FALSE, iStarted |-> FALSE, downs |-> 0] /\ dfc = Idle
      /\ stream = [current |-> FALSE, dataSize |-> 0] /\ iState = "stopped"
      /\ sampler = [s \in Samplers |-> NewSampler] /\ stranded = {}
  BY DEF Init
<1>2. Control
  BY <1>1 DEF Control, Idle
<1>3. \A s \in Enabled : Live(sampler[s]) /\ Blank(sampler[s])
  BY <1>1, EnabledAreNumbers, NewIsLive, NewIsOpen
<1>4. Conserved
  BY <1>1, <1>3 DEF Conserved, Passed, Closed
<1> QED BY <1>1, <1>2, <1>4 DEF SampleInv, Core

\* The number of power-downs only grows, and without one the handler does nothing.
LEMMA PowerSteps ==
  ASSUME SampleInv, [Next]_vars
  PROVE  /\ power' = [iOff |-> power'.iOff, iStarted |-> power'.iStarted, downs |-> power'.downs]
         /\ power'.downs \in Nat
         /\ power'.downs = 0 => power.downs = 0 /\ ~ PowerDown
<1>1. /\ power = [iOff |-> power.iOff, iStarted |-> power.iStarted, downs |-> power.downs]
      /\ power.downs \in Nat
  BY DEF SampleInv
<1>2. CASE UNCHANGED power /\ ~ PowerDown
  BY <1>1, <1>2
<1>3. CASE power' = [power EXCEPT !.iStarted = TRUE] /\ ~ PowerDown
  BY <1>1, <1>3
<1>4. CASE PowerDown
  <2> DEFINE n == power.downs + 1
             c == TRUE
             q == [power EXCEPT !.iOff = c]
  <2>1. n \in Nat /\ n # 0
    BY <1>1
  <2>2. power' = [q EXCEPT !.downs = n]
    BY <1>4 DEF PowerDown
  <2> HIDE DEF n, c
  <2>3. q = [iOff |-> c, iStarted |-> power.iStarted, downs |-> power.downs]
    BY <1>1
  <2> HIDE DEF q
  <2>4. power' = [iOff |-> c, iStarted |-> power.iStarted, downs |-> n]
    BY <2>2, <2>3
  <2> QED BY <2>1, <2>4
<1>5. CASE power' = [power EXCEPT !.iOff = FALSE] /\ ~ PowerDown
  BY <1>1, <1>5
<1>6. \/ PowerDown
      \/ ~ PowerDown /\ UNCHANGED power
      \/ ~ PowerDown /\ power' = [power EXCEPT !.iStarted = TRUE]
      \/ ~ PowerDown /\ power' = [power EXCEPT !.iOff = FALSE]
  <2>1. CASE HandleStart
    BY <2>1 DEF HandleStart
  <2>2. CASE PowerUp
    BY <2>2 DEF PowerUp
  <2>3. CASE Interrupt \/ NewDoDfc
    BY <2>3 DEF Interrupt, NewDoDfc, SampleTick, StoppingTick, IdleTick, DfcBegin, DfcLate,
       DfcCheck, DfcSample, DfcCopy, DfcRelease, DfcStop
  <2>4. CASE HandleRead \/ ReadEnd \/ HandleStop \/ StopEnd
    BY <2>4 DEF HandleRead, ReadEnd, HandleStop, StopEnd
  <2>5. CASE UNCHANGED vars
    BY <2>5 DEF vars
  <2> QED BY <2>1, <2>2, <2>3, <2>4, <2>5 DEF Next, HandleMsg
<1> QED BY <1>2, <1>3, <1>4, <1>5, <1>6

LEMMA SamplesStep ==
  ASSUME SampleInv, [Next]_vars
  PROVE  SampleInv'
<1>1. /\ power' = [iOff |-> power'.iOff, iStarted |-> power'.iStarted, downs |-> power'.downs]
      /\ power'.downs \in Nat
      /\ power'.downs = 0 => power.downs = 0 /\ ~ PowerDown
  BY PowerSteps
<1>2. ASSUME power.downs = 0, ~ PowerDown
      PROVE  Core'
  <2>1. Core
    BY <1>2 DEF SampleInv
  <2>2. ~ PowerUp
    BY <2>1 DEF PowerUp, Core, Control
  <2>3. CASE UNCHANGED vars
    <3>1. UNCHANGED <<sampler, iState, dfc, stream, power, stranded>>
      BY <2>3 DEF vars, driverVars, history
    <3>2. Control'
      BY <2>1, <3>1 DEF Core, Control
    <3> QED BY <2>1, <3>1, <3>2, QuietStep DEF Passed
  <2>4. CASE Interrupt
    BY <2>1, <2>4, SampleTickStep, TicksStep DEF Interrupt
  <2>5. CASE NewDoDfc
    BY <2>1, <2>5, DfcBeginStep, TicksStep, DfcCheckStep, DfcSampleStep, DfcCopyStep,
       DfcReleaseStep, DfcStopStep DEF NewDoDfc
  <2>6. CASE HandleMsg
    BY <2>1, <2>6, StartStep, MessageStep, ReadEndStep, StopEndStep DEF HandleMsg
  <2> QED BY <1>2, <2>2, <2>3, <2>4, <2>5, <2>6 DEF Next
<1> QED BY <1>1, <1>2 DEF SampleInv

\* A stretch from the beginning is all the units up to its length.
LEMMA UnitsAre ==
  ASSUME NEW w, Runs(w, 0, 0)
  PROVE  w = Units(Len(w))
<1> DEFINE m == Len(w)
<1>1. w \in Seq(Nat) /\ m \in Nat /\ \A i \in 1 .. m : w[i] = i
  BY DEF Runs
<1> HIDE DEF m
<1>2. w = [i \in 1 .. m |-> w[i]]
  BY <1>1 DEF m
<1>3. w = [i \in 1 .. m |-> i]
  BY <1>1, <1>2
<1> QED BY <1>3 DEF Units, m

\* The three stretches of a sampler are the units it took.
Contents(s, k, d, f) == s \o SubSeq(k, d + 1, Len(k)) \o f

LEMMA AllUnits ==
  ASSUME NEW s, NEW k, NEW d, NEW f, Runs(s, 0, 0), Runs(k, d, Len(s)),
         Runs(f, 0, Len(s) + Len(k) - d)
  PROVE  Contents(s, k, d, f) = Units(Len(s) + Len(k) - d + Len(f))
<1> DEFINE n == Len(k) - d
           u == SubSeq(k, d + 1, d + n)
           v == s \o u
           w == v \o f
           m == Len(s) + Len(k) - d + Len(f)
<1>1. /\ n \in Nat /\ d + n = Len(k) /\ d + n <= Len(k) /\ Len(s) \in Nat /\ Len(f) \in Nat
      /\ d \in Nat /\ Len(k) \in Nat
  BY DEF Runs
<1>2. u = SubSeq(k, d + 1, Len(k))
  BY <1>1
<1> HIDE DEF n
<1>3. Runs(u, 0, Len(s)) /\ Len(u) = n
  <2>1. Runs(k, d, Len(s)) /\ n \in Nat /\ d + n <= Len(k)
    BY <1>1
  <2> QED BY <2>1, PieceRuns, Zenon
<1> HIDE DEF u
<1>4. Runs(v, 0, 0) /\ Len(v) = Len(s) + n
  <2>1. Runs(u, 0, 0 + Len(s))
    BY <1>1, <1>3
  <2> QED BY <1>3, <2>1, ConcatRuns
<1> HIDE DEF v
<1>5. Runs(w, 0, 0) /\ Len(w) = Len(v) + Len(f)
  <2>1. 0 + Len(v) = Len(s) + Len(k) - d
    BY <1>1, <1>4
  <2>2. Runs(f, 0, 0 + Len(v))
    BY <2>1
  <2> QED BY <1>4, <2>2, ConcatRuns
<1>6. Len(w) = m
  BY <1>1, <1>4, <1>5
<1>7. w = s \o SubSeq(k, d + 1, Len(k)) \o f
  BY <1>2 DEF v
<1> HIDE DEF w, m
<1> QED BY <1>5, <1>6, <1>7, UnitsAre DEF m, Contents

\* What a sampler of either kind has taken and where it is.
LEMMA SamplerIsInOrder ==
  ASSUME NEW r, Live(r) \/ Ended(r)
  PROVE  InOrder(r)
<1> DEFINE s == r.sent
           k == r.buf.back
           d == r.buf.read
           f == r.buf.front
           e == End(r)
           g == InFront(r.buf)
<1>1. /\ Runs(s, 0, 0) /\ Runs(k, d, Len(s)) /\ e = Len(s) + Len(k) - d /\ e \in Nat
      /\ f \in Seq(Nat) /\ DOMAIN f = 1 .. Len(f)
  <2>1. Good(r)
    BY DEF Live, Ended, Done
  <2>2. Runs(s, 0, 0) /\ Runs(k, d, Len(s)) /\ e = Len(s) + Len(k) - d
    BY <2>1 DEF Good, End
  <2> QED BY <2>1, <2>2, GoodParts
<1>2. g = IF 0 \in {f[i] : i \in DOMAIN f} THEN <<>> ELSE f
  BY DEF InFront
<1> HIDE DEF g
<1>3. Runs(g, 0, e) /\ r.taken = e + Len(g)
  <2>1. CASE Live(r)
    <3>1. Runs(f, 0, e) /\ r.taken = e + Len(f)
      BY <2>1 DEF Live
    <3>2. \A i \in DOMAIN f : f[i] # 0
      <4> HIDE DEF f, e
      <4> QED BY <1>1, <3>1 DEF Runs
    <3>3. g = f
      BY <1>2, <3>2
    <3> QED BY <3>1, <3>3
  <2>2. CASE Ended(r)
    <3>1. f # <<>> /\ (\A i \in 1 .. Len(f) : f[i] = 0) /\ r.taken = e
      BY <2>2 DEF Ended, Done
    <3>2. 1 \in DOMAIN f /\ f[1] = 0
      <4> HIDE DEF f
      <4> QED BY <1>1, <3>1
    <3>3. g = <<>>
      BY <1>2, <3>2
    <3>4. Runs(g, 0, e) /\ Len(g) = 0
      BY <1>1, <3>3, EmptyRuns
    <3> HIDE DEF e
    <3> QED BY <1>1, <3>1, <3>4
  <2> QED BY <2>1, <2>2
<1> HIDE DEF s, k, d, f, e
<1>4. Contents(s, k, d, g) = Units(Len(s) + Len(k) - d + Len(g))
  <2>1. Runs(s, 0, 0) /\ Runs(k, d, Len(s)) /\ Runs(g, 0, Len(s) + Len(k) - d)
    BY <1>1, <1>3
  <2> QED BY <2>1, AllUnits
<1>5. Contents(s, k, d, g) = Units(r.taken)
  BY <1>1, <1>3, <1>4
<1> QED BY <1>5 DEF s, k, d, g, Contents, InOrder, InDouble

\* A sampler that has ended: what the client has, and what stays behind.
LEMMA EndedIsDelivered ==
  ASSUME NEW b \in BOOLEAN, NEW r, Closed(b, r), r.buf.status = "DataEnd"
  PROVE  IF b THEN Len(r.buf.front) < DataSize /\ r.sent \o r.buf.front = Units(r.taken)
         ELSE r.sent = Units(r.taken)
<1>1. Good(r)
  BY DEF Closed, Live, Ended, Done
<1>2. r.buf.back = <<>> /\ Runs(r.buf.back, r.buf.read, Len(r.sent)) /\ Runs(r.sent, 0, 0)
  BY <1>1 DEF Good, Emptied
<1>3. End(r) = Len(r.sent) /\ Len(r.sent) \in Nat
  <2>1. r.buf.read = 0 /\ Len(r.buf.back) = 0 /\ Len(r.sent) \in Nat
    BY <1>2 DEF Runs
  <2> QED BY <2>1 DEF End
<1>4. CASE b
  <2>1. Runs(r.buf.front, 0, Len(r.sent)) /\ r.taken = Len(r.sent) + Len(r.buf.front)
    BY <1>3, <1>4 DEF Closed, Live
  <2>2. /\ Runs(r.sent \o r.buf.front, 0, 0)
        /\ Len(r.sent \o r.buf.front) = Len(r.sent) + Len(r.buf.front)
    <3> DEFINE s == r.sent
               f == r.buf.front
    <3>1. Runs(s, 0, 0) /\ Runs(f, 0, 0 + Len(s))
      BY <1>2, <1>3, <2>1
    <3> HIDE DEF s, f
    <3>2. Runs(s \o f, 0, 0) /\ Len(s \o f) = Len(s) + Len(f)
      BY <3>1, ConcatRuns
    <3> QED BY <3>2 DEF s, f
  <2>3. r.sent \o r.buf.front = Units(r.taken)
    BY <2>1, <2>2, UnitsAre
  <2> QED BY <1>1, <1>4, <2>3 DEF Good
<1>5. CASE ~ b
  <2>1. r.taken = Len(r.sent)
    <3>1. CASE Ended(r)
      BY <1>3, <3>1 DEF Ended, Done
    <3>2. CASE Live(r)
      <4> DEFINE f == r.buf.front
      <4>1. /\ Runs(f, 0, Len(r.sent)) /\ r.taken = Len(r.sent) + Len(f)
            /\ \A i \in DOMAIN f : f[i] = 0
        BY <1>3, <1>5, <3>2 DEF Closed, Live, Blank
      <4> HIDE DEF f
      <4>2. f \in Seq(Nat) /\ Len(f) \in Nat /\ DOMAIN f = 1 .. Len(f)
            /\ \A i \in 1 .. Len(f) : f[i] = Len(r.sent) + i
        BY <4>1 DEF Runs
      <4>3. Len(f) = 0
        <5>1. ASSUME Len(f) > 0 PROVE FALSE
          <6>1. 1 \in 1 .. Len(f)
            BY <4>2, <5>1
          <6> QED BY <1>3, <4>1, <4>2, <6>1
        <5> QED BY <4>2, <5>1
      <4> QED BY <1>3, <4>1, <4>3
    <3> QED BY <1>5, <3>1, <3>2 DEF Closed
  <2> QED BY <1>2, <1>5, <2>1, UnitsAre
<1> QED BY <1>4, <1>5

LEMMA InvConserves ==
  ASSUME SampleInv
  PROVE  SamplesAreConserved
<1> SUFFICES ASSUME power.downs = 0, NEW s \in Enabled
             PROVE  InOrder(sampler[s]) /\ Delivered(s)
  BY Zenon DEF SamplesAreConserved
<1>1. IF Passed(s) THEN Closed(s \in stranded, sampler[s])
      ELSE Live(sampler[s]) /\ Open(sampler[s])
  BY DEF SampleInv, Core, Conserved
<1>2. Live(sampler[s]) \/ Ended(sampler[s])
  BY <1>1 DEF Closed
<1>3. Delivered(s)
  <2> SUFFICES ASSUME sampler[s].buf.status = "DataEnd"
               PROVE  LET r == sampler[s]
                      IN  IF s \in stranded
                          THEN Len(r.buf.front) < DataSize
                               /\ r.sent \o r.buf.front = Units(r.taken)
                          ELSE r.sent = Units(r.taken)
    BY DEF Delivered
  <2>1. Closed(s \in stranded, sampler[s])
    BY <1>1 DEF Open
  <2> DEFINE b == (s \in stranded)
             r == sampler[s]
  <2>2. b \in BOOLEAN /\ Closed(b, r) /\ r.buf.status = "DataEnd"
    BY <2>1
  <2> HIDE DEF b, r
  <2>3. IF b THEN Len(r.buf.front) < DataSize /\ r.sent \o r.buf.front = Units(r.taken)
        ELSE r.sent = Units(r.taken)
    BY <2>2, EndedIsDelivered
  <2> QED BY <2>3 DEF b, r
<1> QED BY <1>2, <1>3, SamplerIsInOrder

\* What AddSample accepted is, in order, what the client was given and what the two
\* buffers still hold, whatever the interrupt falls between and however samples and
\* buffers are split.  A sampler that has ended has given the client all of it,
\* except one whose double the stop found not yet copied: the samples in its front,
\* less than a buffer of them, are lost, and no others.
THEOREM SamplesAlwaysConserved == Spec => []SamplesAreConserved
<1>1. Init => SampleInv
  BY InitSamples
<1>2. SampleInv /\ [Next]_vars => SampleInv'
  BY SamplesStep
<1>3. SampleInv => SamplesAreConserved
  BY InvConserves
<1> QED BY <1>1, <1>2, <1>3, PTL DEF Spec

-----------------------------------------------------------------------------
(* The driver keeps the promises of StreamSource, but for their fairness.  *)

\* Init and steps of the abstract specification.
KeepsPromises == Source!SourceInit /\ [][Source!SourceNext]_(Source!sourceVars)

ClientType ==
    /\ client = [at |-> client.at, answer |-> client.answer]
    /\ client.at \in {"idle", "running", "stopping", "draining"}
    /\ client.answer \in {"none", "data", "empty"}
    /\ stream = [current |-> stream.current, dataSize |-> stream.dataSize]
    /\ stream.current \in BOOLEAN

\* What the client waits for goes with the state of the driver.
ClientControl ==
    /\ client.at = "idle" => iState = "stopped" /\ ~ stream.current
    /\ client.at = "draining" => iState = "stopped"
    /\ client.at = "running" => iState = "running"
    /\ client.at = "stopping" => iState # "stopped" /\ endRequest
    /\ dfc.at = "stop" => client.at = "stopping"
    /\ dfc.at = "read" => client.at = "draining" /\ client.answer # "empty"
    /\ dfc.at = "release" => stream.current

SourceInv == SampleInv /\ ClientType /\ (power.downs = 0 => ClientControl)

\* What serving samplers does to the client's buffer, whatever the samplers hold:
\* nothing, or it is answered with data.
Answering(x, y) ==
    /\ y = ServiceOf(y.r, y.current, y.dataSize, y.answer) /\ y.current \in BOOLEAN
    /\ \/ y.current = x.current /\ y.answer = x.answer
       \/ x.current /\ ~ y.current /\ y.answer = "data"

LEMMA AnsweringFollows ==
  ASSUME NEW x, NEW y, NEW z, Answering(x, y), Answering(y, z)
  PROVE  Answering(x, z)
BY Zenon DEF Answering

LEMMA PutSampler ==
  ASSUME NEW x, Answering(x, x), NEW q
  PROVE  Answering(x, [x EXCEPT !.r = q])
<1> DEFINE y == [x EXCEPT !.r = q]
<1>1. y = ServiceOf(q, x.current, x.dataSize, x.answer)
  BY DEF Answering, ServiceOf
<1> HIDE DEF y
<1>2. y.r = q /\ y.current = x.current /\ y.dataSize = x.dataSize /\ y.answer = x.answer
  BY <1>1 DEF ServiceOf
<1>3. Answering(x, y)
  BY <1>1, <1>2 DEF Answering
<1> QED BY <1>3 DEF y

LEMMA AnsweringSelf ==
  ASSUME NEW x, NEW y, Answering(x, y)
  PROVE  Answering(y, y)
BY Zenon DEF Answering

LEMMA AddSamplesAnswers ==
  ASSUME NEW x, Answering(x, x)
  PROVE  Answering(x, AddSamples(x))
<1> DEFINE b == x.r.buf
           next == AfterCopy(b, x.dataSize)
           k == IF CopiesAll(b, x.dataSize) THEN ReleaseBuffer(next) ELSE next
           s == x.r.sent \o Copied(b, x.dataSize)
           n == FilledSize(b, x.dataSize)
           c == ~ NearlyFull(n)
           a == IF NearlyFull(n) THEN "data" ELSE x.answer
           q == [[x.r EXCEPT !.buf = k] EXCEPT !.sent = s]
           y1 == [x EXCEPT !.r = q]
           y2 == [y1 EXCEPT !.dataSize = n]
           y3 == [y2 EXCEPT !.current = c]
           y == [y3 EXCEPT !.answer = a]
<1>1. CASE ~ x.current
  BY <1>1 DEF AddSamples
<1>2. CASE x.current
  <2>1. AddSamples(x) = ServeUpdated(x, k, s, n, c, a)
    BY <1>2 DEF AddSamples, ServeUpdated
  <2>2. c \in BOOLEAN /\ (c => a = x.answer) /\ (~ c => a = "data")
    OBVIOUS
  <2> HIDE DEF k, s, n, c, a
  <2>3. ServeUpdated(x, k, s, n, c, a) = y
    <3>1. [x EXCEPT !.r.buf = k] = [x EXCEPT !.r = [x.r EXCEPT !.buf = k]]
      OBVIOUS
    <3> DEFINE v == [x.r EXCEPT !.buf = k]
               w == [x EXCEPT !.r = v]
    <3> HIDE DEF v
    <3>2. w = ServiceOf(v, x.current, x.dataSize, x.answer)
      BY DEF Answering, ServiceOf
    <3> HIDE DEF w
    <3>3. w.r = v
      BY <3>2 DEF ServiceOf
    <3>4. [w EXCEPT !.r.sent = s] = [w EXCEPT !.r = [v EXCEPT !.sent = s]]
      BY <3>3
    <3> DEFINE u == [v EXCEPT !.sent = s]
    <3> HIDE DEF u
    <3>5. [w EXCEPT !.r = u] = ServiceOf(u, x.current, x.dataSize, x.answer)
      BY <3>2 DEF ServiceOf
    <3>6. [x EXCEPT !.r = u] = ServiceOf(u, x.current, x.dataSize, x.answer)
      BY DEF Answering, ServiceOf
    <3>7. [[x EXCEPT !.r.buf = k] EXCEPT !.r.sent = s] = y1
      BY <3>1, <3>4, <3>5, <3>6 DEF w, v, u
    <3>8. ServeUpdated(x, k, s, n, c, a)
            = [[[[[x EXCEPT !.r.buf = k] EXCEPT !.r.sent = s] EXCEPT !.dataSize = n]
                 EXCEPT !.current = c] EXCEPT !.answer = a]
      BY DEF ServeUpdated
    <3> HIDE DEF y1
    <3> QED BY <3>7, <3>8
  <2> HIDE DEF q
  <2>4. y1 = ServiceOf(q, x.current, x.dataSize, x.answer)
    BY DEF Answering, ServiceOf
  <2> HIDE DEF y1
  <2>5. y2 = ServiceOf(q, x.current, n, x.answer)
    BY <2>4 DEF ServiceOf
  <2> HIDE DEF y2
  <2>6. y3 = ServiceOf(q, c, n, x.answer)
    BY <2>5 DEF ServiceOf
  <2> HIDE DEF y3
  <2>7. y = ServiceOf(q, c, n, a)
    BY <2>6 DEF ServiceOf
  <2> HIDE DEF y
  <2>8. y.r = q /\ y.current = c /\ y.dataSize = n /\ y.answer = a
    BY <2>7 DEF ServiceOf
  <2>9. Answering(x, y)
    BY <1>2, <2>2, <2>7, <2>8 DEF Answering
  <2> QED BY <2>1, <2>3, <2>9
<1> QED BY <1>1, <1>2 DEF Answering

LEMMA EndStreamAnswers ==
  ASSUME NEW x, Answering(x, x)
  PROVE  Answering(x, EndStream(x))
<1> DEFINE q == [x.r EXCEPT !.buf = EndBuffer(@)]
           w == [x EXCEPT !.r = q]
           y == AddSamples(w)
           p == [y.r EXCEPT !.buf.status = "DataEnd"]
           z == [y EXCEPT !.r = p]
<1>1. [x EXCEPT !.r.buf = EndBuffer(@)] = w
  OBVIOUS
<1>2. Answering(x, w) /\ Answering(w, w)
  BY PutSampler, AnsweringSelf
<1>3. [y EXCEPT !.r.buf.status = "DataEnd"] = z
  OBVIOUS
<1>4. EndStream(x) \in {x, y, z}
  BY <1>1, <1>3, Zenon DEF EndStream
<1> HIDE DEF w
<1>5. Answering(w, y) /\ Answering(y, y)
  BY <1>2, AddSamplesAnswers, AnsweringSelf
<1> HIDE DEF y
<1>6. Answering(y, z)
  BY <1>5, PutSampler
<1> HIDE DEF z
<1>7. Answering(x, y) /\ Answering(x, z)
  BY <1>2, <1>5, <1>6, AnsweringFollows
<1> QED BY <1>4, <1>7

LEMMA PostSampleAnswers ==
  ASSUME NEW i, NEW x, Answering(x, x), NEW length
  PROVE  Answering(x, PostSample(i, x, length))
<1> DEFINE q == [Take(x.r, length) EXCEPT !.sampleNeeded = FALSE, !.sampleInProgress = FALSE]
           w == [x EXCEPT !.r = q]
<1>1. PostSample(i, x, length) \in {x, w, AddSamples(x), AddSamples(w)}
  BY Zenon DEF PostSample
<1>2. Answering(x, w) /\ Answering(w, w)
  BY PutSampler, AnsweringSelf
<1> HIDE DEF w
<1>3. Answering(x, AddSamples(x)) /\ Answering(w, AddSamples(w))
  BY <1>2, AddSamplesAnswers
<1>4. Answering(x, AddSamples(w))
  BY <1>2, <1>3, AnsweringFollows
<1> QED BY <1>1, <1>2, <1>3, <1>4

\* The record that the DFC thread serves holds the client's buffer.
LEMMA CurrentAnswers ==
  ASSUME ClientType, NEW i
  PROVE  /\ Answering(Current(i), Current(i))
         /\ Current(i).current = stream.current /\ Current(i).answer = client.answer
<1> DEFINE x == Current(i)
<1>1. x = ServiceOf(sampler[i], stream.current, stream.dataSize, client.answer)
  BY DEF Current, ServiceOf
<1> HIDE DEF x
<1>2. /\ x.r = sampler[i] /\ x.current = stream.current /\ x.dataSize = stream.dataSize
      /\ x.answer = client.answer
  BY <1>1 DEF ServiceOf
<1>3. Answering(x, x)
  BY <1>1, <1>2 DEF Answering, ClientType
<1> QED BY <1>2, <1>3 DEF x

LEMMA ReleaseAnswers ==
  ASSUME NEW x, Answering(x, x)
  PROVE  /\ Release(x).current = FALSE
         /\ x.current => Release(x).answer \in {"data", "empty"}
         /\ ~ x.current => Release(x).answer = x.answer
<1> DEFINE a == IF x.dataSize = 0 THEN "empty" ELSE "data"
           c == FALSE
           w == [x EXCEPT !.current = c]
           y == [w EXCEPT !.answer = a]
<1>1. x = ServiceOf(x.r, x.current, x.dataSize, x.answer) /\ x.current \in BOOLEAN
  BY DEF Answering
<1>2. CASE x.current
  <2>1. Release(x) = y /\ a \in {"data", "empty"}
    BY <1>2 DEF Release
  <2> HIDE DEF a, c
  <2>2. w = ServiceOf(x.r, c, x.dataSize, x.answer)
    BY <1>1 DEF ServiceOf
  <2> HIDE DEF w
  <2>3. y = ServiceOf(x.r, c, x.dataSize, a)
    BY <2>2 DEF ServiceOf
  <2> HIDE DEF y
  <2>4. y.current = c /\ y.answer = a
    BY <2>3 DEF ServiceOf
  <2> QED BY <1>2, <2>1, <2>4 DEF c
<1>3. CASE ~ x.current
  BY <1>1, <1>3 DEF Release
<1> QED BY <1>1, <1>2, <1>3

\* What the client and its buffer become.
ClientOf(c, a) == [at |-> c, answer |-> a]
StreamOf(c, n) == [current |-> c, dataSize |-> n]

LEMMA ClientParts ==
  ASSUME NEW c, NEW a
  PROVE  /\ ClientOf(c, a).at = c /\ ClientOf(c, a).answer = a
         /\ ClientOf(c, a) = [at |-> ClientOf(c, a).at, answer |-> ClientOf(c, a).answer]
BY DEF ClientOf

LEMMA StreamParts ==
  ASSUME NEW c, NEW n
  PROVE  /\ StreamOf(c, n).current = c /\ StreamOf(c, n).dataSize = n
         /\ StreamOf(c, n) = [current |-> StreamOf(c, n).current,
                              dataSize |-> StreamOf(c, n).dataSize]
BY DEF StreamOf

\* The stopping branch, for one sampler and for the last.
LEMMA DfcStopClient ==
  ASSUME ClientType, DfcStop
  PROVE  /\ ClientType'
         /\ IF NextEnabled(dfc.i) # {}
            THEN /\ client'.at = client.at /\ UNCHANGED <<iState, endRequest>>
                 /\ \E j \in NextEnabled(dfc.i) : dfc' = [dfc EXCEPT !.i = j]
                 /\ \/ stream'.current = stream.current /\ client'.answer = client.answer
                    \/ stream.current /\ ~ stream'.current /\ client'.answer = "data"
            ELSE /\ dfc' = Idle /\ iState' = "stopped" /\ stream'.current = FALSE
                 /\ client'.at \in {client.at, "idle", "draining"}
                 /\ endRequest => client'.at \in {"idle", "draining"}
                 /\ client'.answer \in IF stream.current THEN {"data", "empty"}
                                       ELSE {client.answer}
<1> DEFINE i == dfc.i
<1>1. PICK length \in Lengths :
        \E y \in {EndStream(Posted(i, length))} :
          LET z == Release(y)
          IN  IF NextEnabled(i) # {}
              THEN /\ \E j \in NextEnabled(i) : dfc' = [dfc EXCEPT !.i = j]
                   /\ stream' = [current |-> y.current, dataSize |-> y.dataSize]
                   /\ client' = [client EXCEPT !.answer = y.answer]
                   /\ UNCHANGED <<iState, endRequest>>
              ELSE /\ dfc' = Idle
                   /\ stream' = [current |-> z.current, dataSize |-> z.dataSize]
                   /\ client' = [at |-> IF ~endRequest THEN client.at
                                        ELSE IF z.answer = "empty" THEN "idle"
                                        ELSE "draining",
                                 answer |-> z.answer]
                   /\ iState' = "stopped"
  BY DEF DfcStop
<1> DEFINE x == Posted(i, length)
           y == EndStream(x)
           z == Release(y)
           c == IF ~endRequest THEN client.at
                ELSE IF z.answer = "empty" THEN "idle" ELSE "draining"
<1>2. IF NextEnabled(i) # {}
      THEN /\ \E j \in NextEnabled(i) : dfc' = [dfc EXCEPT !.i = j]
           /\ stream' = StreamOf(y.current, y.dataSize)
           /\ client' = [client EXCEPT !.answer = y.answer]
           /\ UNCHANGED <<iState, endRequest>>
      ELSE /\ dfc' = Idle
           /\ stream' = StreamOf(z.current, z.dataSize)
           /\ client' = ClientOf(c, z.answer)
           /\ iState' = "stopped"
  BY <1>1 DEF StreamOf, ClientOf
<1>3. /\ Answering(Current(i), x)
      /\ Current(i).current = stream.current /\ Current(i).answer = client.answer
  <2>1. /\ Answering(Current(i), Current(i))
        /\ Current(i).current = stream.current /\ Current(i).answer = client.answer
    BY CurrentAnswers
  <2>2. Answering(Current(i), PostSample(i, Current(i), length))
    BY <2>1, PostSampleAnswers
  <2> QED BY <2>1, <2>2 DEF Posted
<1>4. c \in {client.at, "idle", "draining"} /\ (endRequest => c \in {"idle", "draining"})
  OBVIOUS
<1> HIDE DEF x
<1>5. Answering(Current(i), y) /\ Answering(y, y)
  BY <1>3, EndStreamAnswers, AnsweringFollows, AnsweringSelf
<1> HIDE DEF y
<1>6. /\ z.current = FALSE /\ (y.current => z.answer \in {"data", "empty"})
      /\ (~ y.current => z.answer = y.answer)
  BY <1>5, ReleaseAnswers
<1>7. /\ y.current \in BOOLEAN
      /\ \/ y.current = stream.current /\ y.answer = client.answer
         \/ stream.current /\ ~ y.current /\ y.answer = "data"
  BY <1>3, <1>5 DEF Answering
<1> HIDE DEF z, c
<1>8. /\ client = ClientOf(client.at, client.answer)
      /\ client.at \in {"idle", "running", "stopping", "draining"}
      /\ client.answer \in {"none", "data", "empty"}
  BY DEF ClientType, ClientOf
<1>9. CASE NextEnabled(i) # {}
  <2>1. client' = ClientOf(client.at, y.answer) /\ stream' = StreamOf(y.current, y.dataSize)
    BY <1>2, <1>8, <1>9 DEF ClientOf
  <2>2. /\ client'.at = client.at /\ client'.answer = y.answer /\ stream'.current = y.current
        /\ client' = [at |-> client'.at, answer |-> client'.answer]
        /\ stream' = [current |-> stream'.current, dataSize |-> stream'.dataSize]
    BY <2>1, ClientParts, StreamParts
  <2>3. ClientType'
    BY <1>7, <1>8, <2>2 DEF ClientType
  <2> QED BY <1>2, <1>7, <1>9, <2>2, <2>3
<1>10. CASE NextEnabled(i) = {}
  <2>1. client' = ClientOf(c, z.answer) /\ stream' = StreamOf(z.current, z.dataSize)
    BY <1>2, <1>10
  <2>2. /\ client'.at = c /\ client'.answer = z.answer /\ stream'.current = z.current
        /\ client' = [at |-> client'.at, answer |-> client'.answer]
        /\ stream' = [current |-> stream'.current, dataSize |-> stream'.dataSize]
    BY <2>1, ClientParts, StreamParts
  <2>3. z.answer \in IF stream.current THEN {"data", "empty"} ELSE {client.answer}
    BY <1>6, <1>7
  <2>4. ClientType'
    BY <1>4, <1>6, <1>8, <2>2, <2>3 DEF ClientType
  <2> QED BY <1>2, <1>4, <1>6, <1>10, <2>2, <2>3, <2>4
<1> QED BY <1>9, <1>10

\* A read of a stopped driver, for one sampler and for the last.
LEMMA ReadEndClient ==
  ASSUME ClientType, ReadEnd
  PROVE  /\ ClientType' /\ UNCHANGED <<iState, endRequest>>
         /\ \/ stream'.current = stream.current /\ client'.answer = client.answer
            \/ /\ stream.current /\ ~ stream'.current
               /\ client'.answer \in {"data", "empty"}
         /\ IF NextEnabled(dfc.i) # {}
            THEN /\ client'.at = client.at
                 /\ client'.answer \in {client.answer, "data"}
                 /\ \E j \in NextEnabled(dfc.i) : dfc' = [dfc EXCEPT !.i = j]
            ELSE /\ dfc' = Idle
                 /\ \/ client'.at = client.at
                    \/ /\ client.at = "draining" /\ client'.at = "idle"
                       /\ ~ stream'.current \/ client.answer = "empty"
<1> DEFINE i == dfc.i
           y == EndStream(Current(i))
           z == IF y.r.buf.status = "DataEnd" THEN Release(y) ELSE y
           c == IF client.at = "draining" /\ z.answer = "empty" THEN "idle" ELSE client.at
<1>1. /\ UNCHANGED <<iState, endRequest>>
      /\ IF NextEnabled(i) # {}
         THEN /\ \E j \in NextEnabled(i) : dfc' = [dfc EXCEPT !.i = j]
              /\ stream' = StreamOf(y.current, y.dataSize)
              /\ client' = [client EXCEPT !.answer = y.answer]
         ELSE /\ dfc' = Idle
              /\ stream' = StreamOf(z.current, z.dataSize)
              /\ client' = ClientOf(c, z.answer)
  BY DEF ReadEnd, StreamOf, ClientOf, driverVars
<1>2. /\ Answering(Current(i), Current(i))
      /\ Current(i).current = stream.current /\ Current(i).answer = client.answer
  BY CurrentAnswers
<1>3. Answering(Current(i), y) /\ Answering(y, y)
  BY <1>2, EndStreamAnswers, AnsweringSelf
<1>4. \/ c = client.at
      \/ client.at = "draining" /\ c = "idle" /\ z.answer = "empty"
  OBVIOUS
<1> HIDE DEF y
<1>5. \/ z = y
      \/ /\ z.current = FALSE /\ (y.current => z.answer \in {"data", "empty"})
         /\ (~ y.current => z.answer = y.answer)
  BY <1>3, ReleaseAnswers
<1>6. /\ y.current \in BOOLEAN
      /\ \/ y.current = stream.current /\ y.answer = client.answer
         \/ stream.current /\ ~ y.current /\ y.answer = "data"
  BY <1>2, <1>3 DEF Answering
<1> HIDE DEF z, c
<1>7. /\ client = ClientOf(client.at, client.answer) /\ stream.current \in BOOLEAN
      /\ client.at \in {"idle", "running", "stopping", "draining"}
      /\ client.answer \in {"none", "data", "empty"}
  BY DEF ClientType, ClientOf
<1>8. CASE NextEnabled(i) # {}
  <2>1. client' = ClientOf(client.at, y.answer) /\ stream' = StreamOf(y.current, y.dataSize)
    BY <1>1, <1>7, <1>8 DEF ClientOf
  <2>2. /\ client'.at = client.at /\ client'.answer = y.answer /\ stream'.current = y.current
        /\ client' = [at |-> client'.at, answer |-> client'.answer]
        /\ stream' = [current |-> stream'.current, dataSize |-> stream'.dataSize]
    BY <2>1, ClientParts, StreamParts
  <2>3. ClientType'
    BY <1>6, <1>7, <2>2 DEF ClientType
  <2> QED BY <1>1, <1>6, <1>8, <2>2, <2>3
<1>9. CASE NextEnabled(i) = {}
  <2>1. client' = ClientOf(c, z.answer) /\ stream' = StreamOf(z.current, z.dataSize)
    BY <1>1, <1>9
  <2>2. /\ client'.at = c /\ client'.answer = z.answer /\ stream'.current = z.current
        /\ client' = [at |-> client'.at, answer |-> client'.answer]
        /\ stream' = [current |-> stream'.current, dataSize |-> stream'.dataSize]
    BY <2>1, ClientParts, StreamParts
  <2>3. /\ z.current \in BOOLEAN
        /\ \/ z.current = stream.current /\ z.answer = client.answer
           \/ stream.current /\ ~ z.current /\ z.answer \in {"data", "empty"}
        /\ z.answer = "empty" => ~ z.current \/ client.answer = "empty"
    BY <1>5, <1>6, <1>7
  <2>4. ClientType'
    BY <1>4, <1>7, <2>2, <2>3 DEF ClientType
  <2> QED BY <1>1, <1>4, <1>9, <2>2, <2>3, <2>4
<1> QED BY <1>8, <1>9

\* The end of AddSamples.
LEMMA DfcReleaseClient ==
  ASSUME ClientType, DfcRelease
  PROVE  /\ ClientType' /\ client'.at = client.at /\ UNCHANGED <<iState, endRequest>>
         /\ \/ stream'.current = TRUE /\ client'.answer = client.answer
            \/ stream'.current = FALSE /\ client'.answer = "data"
         /\ Advance(dfc.i)
<1> DEFINE c == ~ NearlyFull(stream.dataSize)
           a == IF NearlyFull(stream.dataSize) THEN "data" ELSE client.answer
<1>1. /\ stream' = [stream EXCEPT !.current = c] /\ client' = [client EXCEPT !.answer = a]
      /\ UNCHANGED <<iState, endRequest>> /\ Advance(dfc.i)
  BY DEF DfcRelease
<1>2. \/ c = TRUE /\ a = client.answer
      \/ c = FALSE /\ a = "data"
  OBVIOUS
<1> HIDE DEF c, a
<1>3. /\ client = ClientOf(client.at, client.answer)
      /\ stream = StreamOf(stream.current, stream.dataSize)
      /\ client.at \in {"idle", "running", "stopping", "draining"}
      /\ client.answer \in {"none", "data", "empty"}
  BY DEF ClientType, ClientOf, StreamOf
<1>4. client' = ClientOf(client.at, a) /\ stream' = StreamOf(c, stream.dataSize)
  BY <1>1, <1>3 DEF ClientOf, StreamOf
<1>5. /\ client'.at = client.at /\ client'.answer = a /\ stream'.current = c
      /\ client' = [at |-> client'.at, answer |-> client'.answer]
      /\ stream' = [current |-> stream'.current, dataSize |-> stream'.dataSize]
  BY <1>4, ClientParts, StreamParts
<1>6. ClientType'
  BY <1>2, <1>3, <1>5 DEF ClientType
<1> QED BY <1>1, <1>2, <1>5, <1>6

\* The messages of the client.
LEMMA MessageClient ==
  ASSUME ClientType
  PROVE  /\ HandleStart => /\ ClientType'
                           /\ client'.at = "running" /\ client'.answer = "none"
                           /\ stream' = stream /\ dfc' = dfc /\ dfc = Idle
         /\ HandleRead  => /\ ClientType'
                           /\ client'.at = client.at /\ client'.answer = "none"
                           /\ stream'.current = TRUE
         /\ HandleStop  => /\ ClientType'
                           /\ client'.at = "stopping" /\ client'.answer = client.answer
                           /\ stream' = stream
<1>1. /\ client = ClientOf(client.at, client.answer)
      /\ client.at \in {"idle", "running", "stopping", "draining"}
      /\ client.answer \in {"none", "data", "empty"}
  BY DEF ClientType, ClientOf
<1>2. ASSUME HandleStart
      PROVE  /\ ClientType' /\ client'.at = "running" /\ client'.answer = "none"
             /\ stream' = stream /\ dfc' = dfc /\ dfc = Idle
  <2>1. /\ client' = ClientOf("running", "none") /\ stream' = stream /\ dfc' = dfc
        /\ dfc = Idle
    BY <1>2 DEF HandleStart, ClientOf, CanHandle
  <2>2. /\ client'.at = "running" /\ client'.answer = "none"
        /\ client' = [at |-> client'.at, answer |-> client'.answer]
    BY <2>1, ClientParts
  <2> QED BY <2>1, <2>2 DEF ClientType
<1>3. ASSUME HandleRead
      PROVE  /\ ClientType' /\ client'.at = client.at /\ client'.answer = "none"
             /\ stream'.current = TRUE
  <2> DEFINE c == TRUE
  <2>1. stream' = StreamOf(c, 0) /\ client' = [client EXCEPT !.answer = "none"]
    BY <1>3 DEF HandleRead, StreamOf
  <2> HIDE DEF c
  <2>2. client' = ClientOf(client.at, "none")
    BY <1>1, <2>1 DEF ClientOf
  <2>3. /\ client'.at = client.at /\ client'.answer = "none" /\ stream'.current = c
        /\ client' = [at |-> client'.at, answer |-> client'.answer]
        /\ stream' = [current |-> stream'.current, dataSize |-> stream'.dataSize]
    BY <2>1, <2>2, ClientParts, StreamParts
  <2>4. c = TRUE
    BY DEF c
  <2> QED BY <1>1, <2>3, <2>4 DEF ClientType
<1>4. ASSUME HandleStop
      PROVE  /\ ClientType' /\ client'.at = "stopping" /\ client'.answer = client.answer
             /\ stream' = stream
  <2>1. stream' = stream /\ client' = [client EXCEPT !.at = "stopping"]
    BY <1>4 DEF HandleStop
  <2>2. client' = ClientOf("stopping", client.answer)
    BY <1>1, <2>1 DEF ClientOf
  <2>3. /\ client'.at = "stopping" /\ client'.answer = client.answer
        /\ client' = [at |-> client'.at, answer |-> client'.answer]
    BY <2>2, ClientParts
  <2> QED BY <1>1, <2>1, <2>3 DEF ClientType
<1> QED BY <1>2, <1>3, <1>4

\* A step that neither answers the client nor handles its message.
Aside == \/ Interrupt \/ DfcBegin \/ DfcLate \/ DfcCheck \/ DfcSample \/ DfcCopy \/ StopEnd
         \/ PowerDown \/ PowerUp \/ UNCHANGED vars

LEMMA AsideClient ==
  ASSUME ClientType, Aside
  PROVE  /\ ClientType' /\ client' = client /\ stream'.current = stream.current
         /\ DfcCopy \/ stream' = stream
<1>1. client' = client
  BY DEF Aside, Interrupt, SampleTick, StoppingTick, IdleTick, DfcBegin, DfcLate,
     DfcCheck, DfcSample, DfcCopy, StopEnd, PowerDown, PowerUp, vars
<1>2. stream' = stream \/ (DfcCopy /\ \E n : stream' = [stream EXCEPT !.dataSize = n])
  <2>1. CASE DfcCopy
    <3>1. \/ stream' = stream
          \/ stream' = [stream EXCEPT
                          !.dataSize = FilledSize(sampler[dfc.i].buf, stream.dataSize)]
      BY <2>1 DEF DfcCopy
    <3> QED BY <2>1, <3>1
  <2>2. CASE Aside /\ ~ DfcCopy
    BY <2>2 DEF Aside, Interrupt, SampleTick, StoppingTick, IdleTick, DfcBegin, DfcLate,
       DfcCheck, DfcSample, StopEnd, PowerDown, PowerUp, vars
  <2> QED BY <2>1, <2>2
<1>3. stream'.current = stream.current
      /\ stream' = [current |-> stream'.current, dataSize |-> stream'.dataSize]
  <2>1. CASE stream' = stream
    BY <2>1 DEF ClientType
  <2>2. ASSUME NEW n, stream' = [stream EXCEPT !.dataSize = n]
        PROVE  stream'.current = stream.current
               /\ stream' = [current |-> stream'.current, dataSize |-> stream'.dataSize]
    <3>1. stream = StreamOf(stream.current, stream.dataSize)
      BY DEF ClientType, StreamOf
    <3>2. stream' = StreamOf(stream.current, n)
      BY <2>2, <3>1 DEF StreamOf
    <3> QED BY <3>2, StreamParts
  <2> QED BY <1>2, <2>1, <2>2
<1> QED BY <1>1, <1>2, <1>3 DEF ClientType

LEMMA ClientTypeStep ==
  ASSUME ClientType, [Next]_vars
  PROVE  ClientType'
<1>1. CASE Aside
  BY <1>1, AsideClient
<1>2. CASE DfcRelease \/ DfcStop \/ ReadEnd
  BY <1>2, DfcReleaseClient, DfcStopClient, ReadEndClient
<1>3. CASE HandleStart \/ HandleRead \/ HandleStop
  BY <1>3, MessageClient
<1> QED BY <1>1, <1>2, <1>3 DEF Next, Aside, NewDoDfc, HandleMsg

LEMMA PhaseIs ==
  /\ Phase = IF client.at \in {"running", "stopping"} THEN client.at ELSE "stopped"
  /\ Phase' = IF client'.at \in {"running", "stopping"} THEN client'.at ELSE "stopped"
BY DEF Phase

\* A step of the abstract source, of a device that has not been powered down.
SourceStep == [Source!SourceNext]_(Source!sourceVars)

LEMMA AsideStep ==
  ASSUME Core, Control', ClientType, ClientControl, Aside, ~ PowerDown,
         power.downs = 0, power'.downs = 0
  PROVE  ClientControl' /\ SourceStep
<1>1. client' = client /\ stream'.current = stream.current
  BY AsideClient
<1>2. SourceStep
  BY <1>1 DEF SourceStep, Source!sourceVars, Phase
<1>3. ~ PowerUp
  BY DEF PowerUp, Core, Control
<1>4. CASE StopEnd
  <2>1. /\ dfc.at = "stop" /\ dfc' = Idle /\ endRequest' = endRequest
        /\ iState' = IF iState = "running" THEN "stopping" ELSE iState
    BY <1>4 DEF StopEnd, StopSampling
  <2>2. dfc'.at = "idle"
    BY <2>1 DEF Idle
  <2> QED BY <1>1, <1>2, <2>1, <2>2 DEF ClientControl
<1>5. CASE Interrupt \/ UNCHANGED vars
  <2>1. UNCHANGED <<iState, endRequest, dfc>>
    BY <1>5 DEF Interrupt, SampleTick, StoppingTick, IdleTick, vars, driverVars
  <2> QED BY <1>1, <1>2, <2>1 DEF ClientControl
<1>6. CASE DfcBegin \/ DfcLate \/ DfcCheck \/ DfcSample \/ DfcCopy
  <2>1. UNCHANGED <<iState, endRequest>>
    BY <1>6 DEF DfcBegin, DfcLate, DfcCheck, DfcSample, DfcCopy, driverVars
  <2>2. dfc'.at \in {"stop", "read", "release"}
          => dfc'.at = dfc.at \/ (dfc'.at = "release" /\ stream.current)
    <3>1. CASE DfcLate
      BY <3>1 DEF DfcLate
    <3>2. CASE DfcBegin
      BY <3>2 DEF DfcBegin
    <3>3. dfc = [at |-> dfc.at, i |-> dfc.i]
      BY DEF Core, Control
    <3>4. ASSUME Advance(dfc.i)
          PROVE  dfc'.at \in {"idle", "check"}
      <4>1. dfc' = Idle \/ \E j \in Enabled : dfc' = [at |-> "check", i |-> j]
        BY <3>4, AdvanceIsRight
      <4> QED BY <4>1 DEF Idle
    <3>5. CASE DfcCheck
      <4>1. Advance(dfc.i) \/ dfc' = [dfc EXCEPT !.at = "sample"]
            \/ dfc' = [dfc EXCEPT !.at = "copy"]
        BY <3>5 DEF DfcCheck
      <4> QED BY <3>3, <3>4, <4>1
    <3>6. CASE DfcSample
      <4>1. dfc' = [dfc EXCEPT !.at = "sample"] \/ dfc' = [dfc EXCEPT !.at = "copy"]
        BY <3>6 DEF DfcSample
      <4> QED BY <3>3, <4>1
    <3>7. CASE DfcCopy
      <4>1. Advance(dfc.i) \/ (stream.current /\ dfc' = [dfc EXCEPT !.at = "release"])
        BY <3>7 DEF DfcCopy
      <4> QED BY <3>3, <3>4, <4>1
    <3> QED BY <1>6, <3>1, <3>2, <3>5, <3>6, <3>7
  <2> QED BY <1>1, <1>2, <2>1, <2>2 DEF ClientControl
<1> QED BY <1>3, <1>4, <1>5, <1>6 DEF Aside

LEMMA FillStep ==
  ASSUME Core, Control', ClientType, ClientControl, DfcRelease,
         power.downs = 0, power'.downs = 0
  PROVE  ClientControl' /\ SourceStep
<1>1. /\ client'.at = client.at /\ UNCHANGED <<iState, endRequest>>
      /\ \/ stream'.current = TRUE /\ client'.answer = client.answer
         \/ stream'.current = FALSE /\ client'.answer = "data"
      /\ Advance(dfc.i)
  BY DfcReleaseClient
<1>2. dfc.at = "release" /\ iState = "running"
  BY DEF DfcRelease, Core, Control
<1>3. client.at \in {"running", "stopping"} /\ stream.current = TRUE
  BY <1>2 DEF ClientControl, ClientType
<1>4. dfc'.at \in {"idle", "check"}
  <2>1. dfc' = Idle \/ \E j \in Enabled : dfc' = [at |-> "check", i |-> j]
    BY <1>1, AdvanceIsRight
  <2> QED BY <2>1 DEF Idle
<1>5. ClientControl'
  BY <1>1, <1>2, <1>3, <1>4 DEF ClientControl
<1>6. SourceStep
  BY <1>1, <1>3, PhaseIs
     DEF SourceStep, Source!sourceVars, Source!SourceNext, Source!Fill
<1> QED BY <1>5, <1>6

LEMMA FinishStep ==
  ASSUME Core, Control', ClientType, ClientControl, DfcStop,
         power.downs = 0, power'.downs = 0
  PROVE  ClientControl' /\ SourceStep
<1>1. /\ dfc.at = "end" /\ iState = "stopping" /\ dfc = [at |-> dfc.at, i |-> dfc.i]
  BY DEF DfcStop, Core, Control
<1>2. client.at = "stopping" /\ endRequest
  BY <1>1 DEF ClientControl, ClientType
<1>3. IF NextEnabled(dfc.i) # {}
      THEN /\ client'.at = client.at /\ UNCHANGED <<iState, endRequest>>
           /\ \E j \in NextEnabled(dfc.i) : dfc' = [dfc EXCEPT !.i = j]
           /\ \/ stream'.current = stream.current /\ client'.answer = client.answer
              \/ stream.current /\ ~ stream'.current /\ client'.answer = "data"
      ELSE /\ dfc' = Idle /\ iState' = "stopped" /\ stream'.current = FALSE
           /\ endRequest => client'.at \in {"idle", "draining"}
           /\ client'.answer \in IF stream.current THEN {"data", "empty"}
                                 ELSE {client.answer}
  BY DfcStopClient
<1>4. stream.current \in BOOLEAN /\ stream'.current \in BOOLEAN
  BY DfcStopClient DEF ClientType
<1>5. CASE NextEnabled(dfc.i) # {}
  <2>1. dfc'.at = "end"
    BY <1>1, <1>3, <1>5
  <2>2. ClientControl'
    BY <1>1, <1>2, <1>3, <1>5, <2>1 DEF ClientControl
  <2>3. SourceStep
    BY <1>2, <1>3, <1>4, <1>5, PhaseIs
       DEF SourceStep, Source!sourceVars, Source!SourceNext, Source!Fill
  <2> QED BY <2>2, <2>3
<1>6. CASE NextEnabled(dfc.i) = {}
  <2>1. dfc'.at = "idle"
    BY <1>3, <1>6 DEF Idle
  <2>2. ClientControl'
    BY <1>2, <1>3, <1>6, <2>1 DEF ClientControl
  <2>3. SourceStep
    BY <1>2, <1>3, <1>4, <1>6, PhaseIs
       DEF SourceStep, Source!sourceVars, Source!SourceNext, Source!Finish
  <2> QED BY <2>2, <2>3
<1> QED BY <1>5, <1>6

LEMMA AnswerStep ==
  ASSUME Core, Control', ClientType, ClientControl, ReadEnd,
         power.downs = 0, power'.downs = 0
  PROVE  ClientControl' /\ SourceStep
<1>1. /\ dfc.at = "read" /\ iState = "stopped" /\ dfc = [at |-> dfc.at, i |-> dfc.i]
  BY DEF ReadEnd, Core, Control
<1>2. client.at = "draining" /\ client.answer # "empty"
  BY <1>1 DEF ClientControl
<1>3. /\ UNCHANGED <<iState, endRequest>>
      /\ \/ stream'.current = stream.current /\ client'.answer = client.answer
         \/ /\ stream.current /\ ~ stream'.current
            /\ client'.answer \in {"data", "empty"}
      /\ IF NextEnabled(dfc.i) # {}
         THEN /\ client'.at = client.at
              /\ client'.answer \in {client.answer, "data"}
              /\ \E j \in NextEnabled(dfc.i) : dfc' = [dfc EXCEPT !.i = j]
         ELSE /\ dfc' = Idle
              /\ \/ client'.at = client.at
                 \/ /\ client.at = "draining" /\ client'.at = "idle"
                    /\ ~ stream'.current \/ client.answer = "empty"
  BY ReadEndClient
<1>4. stream.current \in BOOLEAN /\ stream'.current \in BOOLEAN
  BY ReadEndClient DEF ClientType
<1>5. \/ dfc'.at = "read" /\ client'.at = "draining" /\ client'.answer # "empty"
      \/ /\ dfc'.at = "idle"
         /\ client'.at = "draining" \/ (client'.at = "idle" /\ ~ stream'.current)
  <2>1. CASE NextEnabled(dfc.i) # {}
    BY <1>1, <1>2, <1>3, <2>1
  <2>2. CASE NextEnabled(dfc.i) = {}
    BY <1>2, <1>3, <2>2 DEF Idle
  <2> QED BY <2>1, <2>2
<1>6. ClientControl'
  BY <1>1, <1>3, <1>5 DEF ClientControl
<1>7. SourceStep
  <2>1. Phase = "stopped" /\ Phase' = "stopped"
    BY <1>2, <1>5, PhaseIs
  <2> QED BY <1>3, <1>4, <2>1
          DEF SourceStep, Source!sourceVars, Source!SourceNext, Source!Answer
<1> QED BY <1>6, <1>7

LEMMA ClientMessageStep ==
  ASSUME Core, Control', ClientType, ClientControl, HandleStart \/ HandleRead \/ HandleStop,
         power.downs = 0, power'.downs = 0
  PROVE  ClientControl' /\ SourceStep
<1>1. dfc = Idle /\ dfc.at = "idle"
  BY DEF HandleStart, HandleRead, HandleStop, CanHandle, Idle
<1>2. CASE HandleStart
  <2>1. /\ client'.at = "running" /\ client'.answer = "none" /\ stream' = stream
        /\ dfc' = dfc
    BY <1>2, MessageClient
  <2>2. client.at = "idle" /\ StartSampling
    BY <1>2 DEF HandleStart
  <2>3. iState = "stopped" /\ stream.current = FALSE /\ iState' = "running"
    BY <2>2 DEF ClientControl, ClientType, StartSampling
  <2>4. ClientControl'
    BY <1>1, <2>1, <2>3 DEF ClientControl
  <2>5. SourceStep
    BY <2>1, <2>2, <2>3, PhaseIs
       DEF SourceStep, Source!sourceVars, Source!SourceNext, Source!Start
  <2> QED BY <2>4, <2>5
<1>3. CASE HandleRead
  <2>1. client'.at = client.at /\ client'.answer = "none" /\ stream'.current = TRUE
    BY <1>3, MessageClient
  <2>2. /\ client.at \in {"running", "draining"} /\ ~ stream.current
        /\ UNCHANGED <<iState, endRequest>>
    BY <1>3 DEF HandleRead, driverVars
  <2>3. dfc' = dfc \/ (iState = "stopped" /\ dfc'.at = "read")
    BY <1>3 DEF HandleRead
  <2>4. ClientControl'
    BY <1>1, <2>1, <2>2, <2>3 DEF ClientControl
  <2>5. stream.current = FALSE
    BY <2>2 DEF ClientType
  <2>6. SourceStep
    BY <2>1, <2>2, <2>5, PhaseIs
       DEF SourceStep, Source!sourceVars, Source!SourceNext, Source!Request
  <2> QED BY <2>4, <2>6
<1>4. CASE HandleStop
  <2>1. client'.at = "stopping" /\ client'.answer = client.answer /\ stream' = stream
    BY <1>4, MessageClient
  <2>2. /\ client.at = "running" /\ endRequest' = TRUE /\ iState' = iState
        /\ dfc' = [at |-> "stop", i |-> 0]
    BY <1>4 DEF HandleStop, driverVars
  <2>3. iState = "running" /\ dfc'.at = "stop"
    BY <2>2 DEF ClientControl
  <2>4. ClientControl'
    BY <2>1, <2>2, <2>3 DEF ClientControl
  <2>5. SourceStep
    BY <2>1, <2>2, PhaseIs
       DEF SourceStep, Source!sourceVars, Source!SourceNext, Source!Stop
  <2> QED BY <2>4, <2>5
<1> QED BY <1>2, <1>3, <1>4

\* A step with or after a power-down.
LEMMA LostStep ==
  ASSUME ClientType', power'.downs # 0
  PROVE  SourceStep
<1>1. Phase' \in {"stopped", "running", "stopping"}
  BY PhaseIs
<1>2. stream'.current \in BOOLEAN /\ client'.answer \in {"none", "data", "empty"}
  BY DEF ClientType
<1>3. (power'.downs = 0) = FALSE
  OBVIOUS
<1> QED BY <1>1, <1>2, <1>3 DEF SourceStep, Source!SourceNext, Source!PowerLost

LEMMA SourceInvStep ==
  ASSUME SourceInv, [Next]_vars
  PROVE  SourceInv' /\ SourceStep
<1>1. SampleInv' /\ ClientType'
  BY SamplesStep, ClientTypeStep DEF SourceInv
<1>2. power'.downs = 0 => power.downs = 0 /\ ~ PowerDown
  BY PowerSteps DEF SourceInv
<1>3. CASE power'.downs # 0
  BY <1>1, <1>3, LostStep DEF SourceInv
<1>4. CASE power'.downs = 0
  <2>1. /\ power.downs = 0 /\ ~ PowerDown /\ Core /\ ClientControl /\ ClientType
        /\ Control'
    BY <1>1, <1>2, <1>4 DEF SourceInv, SampleInv, Core
  <2>2. CASE Aside
    BY <1>1, <1>4, <2>1, <2>2, AsideStep DEF SourceInv
  <2>3. CASE DfcRelease \/ DfcStop \/ ReadEnd
    BY <1>1, <1>4, <2>1, <2>3, FillStep, FinishStep, AnswerStep DEF SourceInv
  <2>4. CASE HandleStart \/ HandleRead \/ HandleStop
    BY <1>1, <1>4, <2>1, <2>4, ClientMessageStep DEF SourceInv
  <2> QED BY <2>2, <2>3, <2>4 DEF Next, Aside, NewDoDfc, HandleMsg
<1> QED BY <1>3, <1>4

LEMMA InitSource ==
  ASSUME Init
  PROVE  SourceInv /\ Source!SourceInit
<1>1. /\ power = [iOff |-> FALSE, iStarted |-> FALSE, downs |-> 0] /\ dfc = Idle
      /\ stream = [current |-> FALSE, dataSize |-> 0] /\ iState = "stopped"
      /\ client = [at |-> "idle", answer |-> "none"]
  BY DEF Init
<1>2. /\ power.downs = 0 /\ dfc.at = "idle" /\ stream.current = FALSE
      /\ client.at = "idle" /\ client.answer = "none"
      /\ client = [at |-> client.at, answer |-> client.answer]
      /\ stream = [current |-> stream.current, dataSize |-> stream.dataSize]
  BY <1>1 DEF Idle
<1>3. ClientType /\ ClientControl
  BY <1>1, <1>2 DEF ClientType, ClientControl
<1>4. Source!SourceInit
  <2>1. (power.downs = 0) = TRUE
    BY <1>2
  <2> QED BY <1>2, <2>1, PhaseIs DEF Source!SourceInit
<1> QED BY <1>3, <1>4, InitSamples DEF SourceInv

\* A device that is not powered down treats the client's buffers as StreamSource
\* says: kept until it has data, answered no later than a stop is, and after a stop
\* answered until the empty one.
THEOREM DriverKeepsPromises == Spec => KeepsPromises
<1>1. Init => SourceInv /\ Source!SourceInit
  BY InitSource
<1>2. SourceInv /\ [Next]_vars => SourceInv' /\ [Source!SourceNext]_(Source!sourceVars)
  BY SourceInvStep DEF SourceStep
<1> QED BY <1>1, <1>2, PTL DEF Spec, KeepsPromises
=============================================================================
