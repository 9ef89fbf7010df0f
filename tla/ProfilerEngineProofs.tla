------------------------ MODULE ProfilerEngineProofs ------------------------
(***************************************************************************)
(* Proofs about ProfilerEngine, for any number of buffers, buffers of data *)
(* and sessions: a TBapBuf has one owner at a time, and the file of a      *)
(* session gets the driver's data once and in order.                       *)
(***************************************************************************)
EXTENDS ProfilerEngine, SequenceTheorems, FiniteSetTheorems, TLAPS

-----------------------------------------------------------------------------
(* Sequences and sets.                                                     *)

\* No element is in the sequence twice.
NoRepeats(s) == \A i, j \in 1 .. Len(s) : s[i] = s[j] => i = j

\* Putting an element in front adds it to the elements.
LEMMA ElementsAfterPrepend ==
    ASSUME NEW S, NEW s \in Seq(S), NEW e \in S
    PROVE  <<e>> \o s \in Seq(S) /\ ToSet(<<e>> \o s) = ToSet(s) \cup {e}
<1> DEFINE r == <<e>> \o s
<1>1. <<e>> \in Seq(S) /\ Len(<<e>>) = 1 /\ <<e>>[1] = e /\ Len(s) \in Nat
  OBVIOUS
<1>2. /\ r \in Seq(S) /\ Len(r) = Len(s) + 1
      /\ \A i \in 1 .. Len(s) + 1 : r[i] = IF i <= 1 THEN <<e>>[i] ELSE s[i - 1]
  BY <1>1, ConcatProperties
<1> HIDE DEF r
<1>3. r[1] = e /\ \A i \in 1 .. Len(s) : r[i + 1] = s[i]
  BY <1>1, <1>2
<1>4. DOMAIN r = 1 .. Len(s) + 1 /\ DOMAIN s = 1 .. Len(s)
  BY <1>2
<1>5. ASSUME NEW x \in ToSet(r) PROVE x \in ToSet(s) \/ x = e
  <2>1. PICK i \in 1 .. Len(s) + 1 : r[i] = x
    BY <1>4 DEF ToSet
  <2>2. CASE i = 1
    BY <1>3, <2>1, <2>2
  <2>3. CASE i # 1
    <3>1. i - 1 \in 1 .. Len(s) /\ (i - 1) + 1 = i
      BY <1>1, <2>3
    <3> QED BY <1>3, <1>4, <2>1, <3>1 DEF ToSet
  <2> QED BY <2>2, <2>3
<1>6. ASSUME NEW x, x \in ToSet(s) \/ x = e PROVE x \in ToSet(r)
  <2>1. CASE x = e
    BY <1>1, <1>3, <1>4, <2>1 DEF ToSet
  <2>2. CASE x \in ToSet(s)
    <3>1. PICK i \in 1 .. Len(s) : s[i] = x
      BY <1>4, <2>2 DEF ToSet
    <3>2. i + 1 \in 1 .. Len(s) + 1 /\ r[i + 1] = x
      BY <1>1, <1>3, <3>1
    <3> QED BY <1>4, <3>2 DEF ToSet
  <2> QED BY <1>6, <2>1, <2>2
<1>7. ToSet(r) = ToSet(s) \cup {e}
  BY <1>5, <1>6
<1> QED BY <1>2, <1>7 DEF r

\* The head and the tail of a sequence are elements of it.
LEMMA ElementsOfTail ==
    ASSUME NEW S, NEW s \in Seq(S), s # <<>>
    PROVE  /\ Head(s) \in ToSet(s) /\ Head(s) \in S
           /\ Tail(s) \in Seq(S) /\ ToSet(Tail(s)) \subseteq ToSet(s)
<1>1. /\ Head(s) \in S /\ Tail(s) \in Seq(S) /\ Len(Tail(s)) = Len(s) - 1
      /\ \A i \in 1 .. Len(Tail(s)) : Tail(s)[i] = s[i + 1]
  BY HeadTailProperties
<1>2. Len(s) \in Nat \ {0} /\ Head(s) = s[1] /\ DOMAIN s = 1 .. Len(s)
  BY EmptySeq
<1>3. DOMAIN Tail(s) = 1 .. Len(s) - 1
  BY <1>1
<1>4. \A i \in 1 .. Len(s) - 1 : i + 1 \in 1 .. Len(s)
  BY <1>2
<1> QED BY <1>1, <1>2, <1>3, <1>4 DEF ToSet

\* A function on 1 .. n is a sequence of length n.
LEMMA FunctionIsSeq ==
  ASSUME NEW S, NEW n \in Nat, NEW f \in [1 .. n -> S]
  PROVE  f \in Seq(S) /\ Len(f) = n
<1>1. f \in Seq(S)
  BY SeqDef
<1>2. DOMAIN f = 1 .. n
  OBVIOUS
<1> QED BY <1>1, <1>2, LenProperties

-----------------------------------------------------------------------------
(* The inductive invariant.                                                *)

\* The two lists, the buffer w that is being written and the buffer p that is
\* with the driver, if it is not 0, share no TBapBuf.
Apart(free, filled, w, p) ==
  /\ free \in Seq(Buffers) /\ NoRepeats(free)
  /\ filled \in Seq(Buffers) /\ NoRepeats(filled)
  /\ ToSet(free) \cap ToSet(filled) = {}
  /\ w = [active |-> w.active, done |-> w.done, buf |-> w.buf] /\ w.active \in BOOLEAN
  /\ w.active => w.buf \in Buffers /\ w.buf \notin ToSet(free) \cup ToSet(filled)
  /\ p # 0 => p \in Buffers /\ p \notin ToSet(free) \cup ToSet(filled)
  /\ p # 0 /\ w.active => p # w.buf

\* Between AddToFilledBuffers and the next request of HandleEndOfStream the
\* buffer that was answered belongs to the list.
Held == IF thread \in {"drain", "panicked"} THEN 0 ELSE inProcess

Owners == Apart(freeBuffers, filledBuffers, writer, Held)

\* Where the thread is decides which requests there are: none of an engine that
\* is idle, and only an idle engine is started.
Control ==
  /\ thread \in {"scheduler", "starting", "waitEnd", "waitBuffer", "drain", "stopWriter",
                 "panicked", "hung"}
  /\ handler = [active |-> handler.active, done |-> handler.done]
  /\ handler.active \in BOOLEAN
  /\ handler.active \/ thread = "waitBuffer" => inProcess # 0 \/ thread = "hung"
  /\ thread = "starting" => freeBuffers # <<>> /\ inProcess = 0 /\ ~ writer.active
  /\ thread = "stopWriter" => ~ handler.active
  /\ iState = "idle" => /\ ~ handler.active /\ ~ writer.active
                        /\ filledBuffers = <<>> /\ thread = "scheduler"
  /\ command \in {"start", "startTimed"} => iState = "idle"

OwnerInv == Owners /\ Control

-----------------------------------------------------------------------------
(* The lists.                                                              *)

\* Putting an element in front of a list that has it not.
LEMMA PrependNoRepeats ==
  ASSUME NEW S, NEW s \in Seq(S), NoRepeats(s), NEW e \in S, e \notin ToSet(s)
  PROVE  /\ <<e>> \o s \in Seq(S) /\ NoRepeats(<<e>> \o s)
         /\ ToSet(<<e>> \o s) = ToSet(s) \cup {e}
<1> DEFINE r == <<e>> \o s
<1>1. r \in Seq(S) /\ ToSet(r) = ToSet(s) \cup {e}
  BY ElementsAfterPrepend
<1>2. <<e>> \in Seq(S) /\ Len(<<e>>) = 1 /\ <<e>>[1] = e /\ Len(s) \in Nat
  OBVIOUS
<1>3. /\ Len(r) = Len(s) + 1
      /\ \A i \in 1 .. Len(s) + 1 : r[i] = IF i <= 1 THEN <<e>>[i] ELSE s[i - 1]
  BY <1>2, ConcatProperties
<1> HIDE DEF r
<1>4. \A i \in 1 .. Len(s) : s[i] # e
  BY DEF ToSet
<1>5. r[1] = e /\ \A i \in 1 .. Len(s) + 1 : i # 1 => i - 1 \in 1 .. Len(s) /\ r[i] = s[i - 1]
  BY <1>2, <1>3
<1>6. ASSUME NEW i \in 1 .. Len(s) + 1, NEW j \in 1 .. Len(s) + 1, r[i] = r[j]
      PROVE  i = j
  <2>1. CASE i = 1 \/ j = 1
    BY <1>4, <1>5, <1>6, <2>1
  <2>2. CASE i # 1 /\ j # 1
    <3>1. i - 1 \in 1 .. Len(s) /\ j - 1 \in 1 .. Len(s) /\ s[i - 1] = s[j - 1]
      BY <1>5, <1>6, <2>2
    <3>2. i - 1 = j - 1
      BY <3>1 DEF NoRepeats
    <3> QED BY <1>2, <3>2
  <2> QED BY <2>1, <2>2
<1>7. NoRepeats(r)
  BY <1>3, <1>6 DEF NoRepeats
<1> QED BY <1>1, <1>7 DEF r

\* Taking the first element.
LEMMA TailNoRepeats ==
  ASSUME NEW S, NEW s \in Seq(S), NoRepeats(s), s # <<>>
  PROVE  /\ Tail(s) \in Seq(S) /\ NoRepeats(Tail(s)) /\ Head(s) \in ToSet(s) /\ Head(s) \in S
         /\ ToSet(Tail(s)) \subseteq ToSet(s) /\ Head(s) \notin ToSet(Tail(s))
<1> DEFINE r == Tail(s)
<1>1. /\ r \in Seq(S) /\ Head(s) \in ToSet(s) /\ Head(s) \in S /\ ToSet(r) \subseteq ToSet(s)
  BY ElementsOfTail
<1>2. /\ Len(s) \in Nat /\ Len(s) >= 1 /\ Len(r) = Len(s) - 1 /\ Head(s) = s[1]
      /\ DOMAIN r = 1 .. Len(s) - 1 /\ \A k \in 1 .. Len(s) - 1 : r[k] = s[k + 1]
  OBVIOUS
<1> HIDE DEF r
<1>3. \A k \in 1 .. Len(s) - 1 : k + 1 \in 1 .. Len(s) /\ k + 1 # 1 /\ 1 \in 1 .. Len(s)
  BY <1>2
<1>4. NoRepeats(r)
  <2> SUFFICES ASSUME NEW i \in 1 .. Len(s) - 1, NEW j \in 1 .. Len(s) - 1, r[i] = r[j]
               PROVE  i = j
    BY <1>2 DEF NoRepeats
  <2>1. i + 1 = j + 1
    BY <1>2, <1>3 DEF NoRepeats
  <2> QED BY <2>1
<1>5. Head(s) \notin ToSet(r)
  <2> SUFFICES ASSUME NEW k \in 1 .. Len(s) - 1, r[k] = s[1] PROVE FALSE
    BY <1>2 DEF ToSet
  <2>1. s[k + 1] = s[1] /\ k + 1 \in 1 .. Len(s) /\ 1 \in 1 .. Len(s) /\ k + 1 # 1
    BY <1>2, <1>3
  <2> QED BY <2>1 DEF NoRepeats
<1> QED BY <1>1, <1>4, <1>5 DEF r

\* Taking the last element.
LEMMA FrontNoRepeats ==
  ASSUME NEW S, NEW s \in Seq(S), NoRepeats(s), s # <<>>
  PROVE  /\ Front(s) \in Seq(S) /\ NoRepeats(Front(s)) /\ Last(s) \in ToSet(s) /\ Last(s) \in S
         /\ ToSet(Front(s)) \subseteq ToSet(s) /\ Last(s) \notin ToSet(Front(s))
<1> DEFINE r == Front(s)
           n == Len(s)
<1>1. n \in Nat /\ n >= 1 /\ Last(s) = s[n] /\ n \in 1 .. n /\ DOMAIN s = 1 .. n
  BY DEF Last
<1>2. r = SubSeq(s, 1, n - 1)
  BY DEF Front
<1>3. /\ r \in Seq(S) /\ Len(r) = n - 1 /\ DOMAIN r = 1 .. n - 1
      /\ \A k \in 1 .. n - 1 : r[k] = s[k]
  BY <1>1, <1>2
<1> HIDE DEF r, n
<1>4. \A k \in 1 .. n - 1 : k \in 1 .. n /\ k # n
  BY <1>1
<1>5. NoRepeats(r)
  BY <1>3, <1>4 DEF NoRepeats, n
<1>6. Last(s) \in ToSet(s) /\ Last(s) \in S /\ ToSet(r) \subseteq ToSet(s)
  <2>1. s[n] \in S
    BY <1>1, ElementOfSeq DEF n
  <2> QED BY <1>1, <1>3, <1>4, <2>1 DEF ToSet
<1>7. Last(s) \notin ToSet(r)
  <2> SUFFICES ASSUME NEW k \in 1 .. n - 1, r[k] = s[n] PROVE FALSE
    BY <1>1, <1>3 DEF ToSet
  <2> QED BY <1>1, <1>3, <1>4 DEF NoRepeats, n
<1> QED BY <1>3, <1>5, <1>6, <1>7 DEF r

\* Two lists without a common element.
LEMMA ConcatNoRepeats ==
  ASSUME NEW S, NEW s \in Seq(S), NoRepeats(s), NEW t \in Seq(S), NoRepeats(t),
         ToSet(s) \cap ToSet(t) = {}
  PROVE  /\ s \o t \in Seq(S) /\ NoRepeats(s \o t)
         /\ ToSet(s \o t) = ToSet(s) \cup ToSet(t)
<1> DEFINE r == s \o t
           m == Len(s)
           n == Len(t)
<1>1. m \in Nat /\ n \in Nat /\ DOMAIN s = 1 .. m /\ DOMAIN t = 1 .. n
  OBVIOUS
<1>2. /\ r \in Seq(S) /\ Len(r) = m + n
      /\ \A i \in 1 .. m + n : r[i] = IF i <= m THEN s[i] ELSE t[i - m]
  BY ConcatProperties
<1>3. DOMAIN r = 1 .. m + n
  BY <1>2
<1> HIDE DEF r, m, n
<1>4. ASSUME NEW i \in 1 .. m + n
      PROVE  \/ i \in 1 .. m /\ r[i] = s[i] /\ r[i] \in ToSet(s)
             \/ i - m \in 1 .. n /\ r[i] = t[i - m] /\ r[i] \in ToSet(t) /\ i \notin 1 .. m
  <2>1. CASE i <= m
    <3>1. i \in 1 .. m /\ r[i] = s[i]
      BY <1>1, <1>2, <2>1
    <3> QED BY <1>1, <3>1 DEF ToSet
  <2>2. CASE ~ (i <= m)
    <3>1. i - m \in 1 .. n /\ r[i] = t[i - m] /\ i \notin 1 .. m
      BY <1>1, <1>2, <2>2
    <3> QED BY <1>1, <3>1 DEF ToSet
  <2> QED BY <2>1, <2>2
<1>5. ASSUME NEW i \in 1 .. m + n, NEW j \in 1 .. m + n, r[i] = r[j]
      PROVE  i = j
  <2>1. CASE i \in 1 .. m /\ r[i] = s[i] /\ r[i] \in ToSet(s)
    <3>1. j \in 1 .. m /\ r[j] = s[j]
      BY <1>4, <1>5, <2>1
    <3> QED BY <1>5, <2>1, <3>1 DEF NoRepeats, m
  <2>2. CASE i - m \in 1 .. n /\ r[i] = t[i - m] /\ r[i] \in ToSet(t)
    <3>1. j - m \in 1 .. n /\ r[j] = t[j - m]
      BY <1>4, <1>5, <2>2
    <3>2. i - m = j - m
      BY <1>5, <2>2, <3>1 DEF NoRepeats, n
    <3> QED BY <1>1, <3>2
  <2> QED BY <1>4, <2>1, <2>2
<1>6. NoRepeats(r)
  BY <1>2, <1>5 DEF NoRepeats
<1>7. ASSUME NEW x \in ToSet(s) \cup ToSet(t) PROVE x \in ToSet(r)
  <2>1. CASE x \in ToSet(s)
    <3>1. PICK i \in 1 .. m : s[i] = x
      BY <1>1, <2>1 DEF ToSet
    <3>2. i \in 1 .. m + n /\ i <= m
      BY <1>1, <3>1
    <3> QED BY <1>2, <1>3, <3>1, <3>2 DEF ToSet
  <2>2. CASE x \in ToSet(t)
    <3>1. PICK i \in 1 .. n : t[i] = x
      BY <1>1, <2>2 DEF ToSet
    <3>2. i + m \in 1 .. m + n /\ ~ (i + m <= m) /\ (i + m) - m = i
      BY <1>1, <3>1
    <3>3. r[i + m] = x
      BY <1>2, <3>1, <3>2
    <3> QED BY <1>3, <3>2, <3>3 DEF ToSet
  <2> QED BY <2>1, <2>2
<1>8. ASSUME NEW x \in ToSet(r) PROVE x \in ToSet(s) \cup ToSet(t)
  BY <1>3, <1>4 DEF ToSet
<1> QED BY <1>2, <1>6, <1>7, <1>8 DEF r

-----------------------------------------------------------------------------
(* What the operations on the lists keep.                                  *)

IsLists(l) == l = [data |-> l.data, free |-> l.free, filled |-> l.filled,
                   writer |-> l.writer, disk |-> l.disk, panic |-> l.panic]

\* A buffer that is nowhere else is added to the filled ones.
LEMMA FilledKeeps ==
  ASSUME NEW l, IsLists(l), NEW p, NEW b \in Buffers, Apart(l.free, l.filled, l.writer, p),
         b # p, b \notin ToSet(l.free) \cup ToSet(l.filled), l.writer.active => l.writer.buf # b
  PROVE  /\ IsLists(AddToFilled(l, b))
         /\ Apart(AddToFilled(l, b).free, AddToFilled(l, b).filled, AddToFilled(l, b).writer, p)
<1> DEFINE m == AddToFilled(l, b)
           f == <<b>> \o l.filled
<1>1. m = [data |-> l.data, free |-> l.free, filled |-> f,
           writer |-> l.writer, disk |-> l.disk, panic |-> l.panic]
  <2>1. m = [l EXCEPT !.filled = f]
    BY DEF AddToFilled
  <2> HIDE DEF f, m
  <2> QED BY <2>1 DEF IsLists
<1>2. f \in Seq(Buffers) /\ NoRepeats(f) /\ ToSet(f) = ToSet(l.filled) \cup {b}
  BY PrependNoRepeats DEF Apart
<1> HIDE DEF m, f
<1>3. m.free = l.free /\ m.filled = f /\ m.writer = l.writer /\ IsLists(m)
  BY <1>1 DEF IsLists
<1>4. Apart(l.free, f, l.writer, p)
  BY <1>2 DEF Apart
<1> QED BY <1>3, <1>4 DEF m

\* A write of the last filled buffer is begun.
LEMMA WriteKeeps ==
  ASSUME NEW l, IsLists(l), NEW p, Apart(l.free, l.filled, l.writer, p), l.filled # <<>>,
         NEW full
  PROVE  LET m == WriteBufferToOutput(WithoutNextFilled(l), Last(l.filled), full)
         IN  m.free = l.free /\ Apart(m.free, m.filled, m.writer, p)
<1> DEFINE k == WithoutNextFilled(l)
           b == Last(l.filled)
           f == Front(l.filled)
           m == WriteBufferToOutput(k, b, full)
           d == full \/ l.disk = "closed"
           w == [active |-> TRUE, done |-> d, buf |-> b]
<1>1. k = [data |-> l.data, free |-> l.free, filled |-> f,
           writer |-> l.writer, disk |-> l.disk, panic |-> l.panic]
  BY DEF WithoutNextFilled, IsLists
<1>2. /\ f \in Seq(Buffers) /\ NoRepeats(f) /\ ToSet(f) \subseteq ToSet(l.filled)
      /\ b \in Buffers /\ b \in ToSet(l.filled) /\ b \notin ToSet(f)
  BY FrontNoRepeats DEF Apart
<1>3. m = [k EXCEPT !.writer = [active |-> TRUE, done |-> full \/ k.disk = "closed", buf |-> b],
                    !.disk = IF full THEN "closed" ELSE k.disk,
                    !.panic = k.disk = "closed"]
  BY DEF WriteBufferToOutput
<1> HIDE DEF k, f, b, m
<1>4. m.free = l.free /\ m.filled = f /\ m.writer = w
  BY <1>1, <1>3
<1>5. w.active = TRUE /\ w.buf = b /\ w = [active |-> w.active, done |-> w.done, buf |-> w.buf]
  OBVIOUS
<1> HIDE DEF w
<1>6. Apart(l.free, f, w, p)
  BY <1>2, <1>5 DEF Apart
<1> QED BY <1>4, <1>6 DEF m, k, b

LEMMA NotifyKeeps ==
  ASSUME NEW l, IsLists(l), NEW p, Apart(l.free, l.filled, l.writer, p), NEW full
  PROVE  LET m == NotifyWriter(l, full) IN  m.free = l.free /\ Apart(m.free, m.filled, m.writer, p)
<1>1. CASE ~ l.writer.active /\ l.filled # <<>>
  <2>1. NotifyWriter(l, full) = WriteBufferToOutput(WithoutNextFilled(l), Last(l.filled), full)
    BY <1>1 DEF NotifyWriter
  <2> QED BY <1>1, <2>1, WriteKeeps
<1>2. CASE ~ (~ l.writer.active /\ l.filled # <<>>)
  <2>1. NotifyWriter(l, full) = l
    BY <1>2 DEF NotifyWriter
  <2> QED BY <2>1
<1> QED BY <1>1, <1>2

\* The buffer that was written goes to the free ones.
LEMMA HandleFullKeeps ==
  ASSUME NEW l, IsLists(l), NEW p, Apart(l.free, l.filled, l.writer, p), l.writer.active, NEW full
  PROVE  LET m == HandleFullBuffers(l, full) IN Apart(m.free, m.filled, m.writer, p)
<1> DEFINE b == l.writer.buf
           w == [active |-> FALSE, done |-> FALSE, buf |-> b]
           f == <<b>> \o l.free
           d == [l.data EXCEPT ![b] = 0]
           n == AddToFree([l EXCEPT !.writer = [active |-> FALSE, done |-> FALSE, buf |-> @.buf]],
                          l.writer.buf)
           m == HandleFullBuffers(l, full)
<1>1. n = [data |-> d, free |-> f, filled |-> l.filled,
           writer |-> w, disk |-> l.disk, panic |-> l.panic]
  <2> DEFINE k == [l EXCEPT !.writer = [active |-> FALSE, done |-> FALSE, buf |-> @.buf]]
  <2>1. k = [data |-> l.data, free |-> l.free, filled |-> l.filled,
             writer |-> w, disk |-> l.disk, panic |-> l.panic]
    <3>1. k = [l EXCEPT !.writer = w]
      OBVIOUS
    <3> HIDE DEF k, w
    <3> QED BY <3>1 DEF IsLists
  <2> HIDE DEF k
  <2>2. n = AddToFree(k, b)
    BY DEF k
  <2> HIDE DEF n
  <2> QED BY <2>1, <2>2 DEF AddToFree
<1>2. /\ f \in Seq(Buffers) /\ NoRepeats(f) /\ ToSet(f) = ToSet(l.free) \cup {b}
  BY PrependNoRepeats DEF Apart
<1>3. w.active = FALSE /\ w = [active |-> w.active, done |-> w.done, buf |-> w.buf]
  OBVIOUS
<1>4. m = IF n.filled = <<>> THEN n
          ELSE IF n.data[Last(n.filled)] = 0 THEN WithoutNextFilled(n)
          ELSE WriteBufferToOutput(WithoutNextFilled(n), Last(n.filled), full)
  BY DEF HandleFullBuffers
<1> HIDE DEF n, m, f, w, d
<1>5. /\ n.free = f /\ n.filled = l.filled /\ n.writer = w /\ IsLists(n)
  BY <1>1 DEF IsLists
<1>6. Apart(f, l.filled, w, p)
  BY <1>2, <1>3 DEF Apart
<1>7. Apart(n.free, n.filled, n.writer, p)
  BY <1>5, <1>6
<1>8. CASE n.filled = <<>>
  BY <1>4, <1>7, <1>8 DEF m
<1>9. CASE n.filled # <<>> /\ n.data[Last(n.filled)] = 0
  <2> DEFINE g == Front(n.filled)
  <2>1. m = WithoutNextFilled(n)
    BY <1>4, <1>9
  <2>2. m = [data |-> n.data, free |-> n.free, filled |-> g,
             writer |-> n.writer, disk |-> n.disk, panic |-> n.panic]
    BY <1>5, <2>1 DEF WithoutNextFilled, IsLists
  <2>3. g \in Seq(Buffers) /\ NoRepeats(g) /\ ToSet(g) \subseteq ToSet(n.filled)
    BY <1>7, <1>9, FrontNoRepeats DEF Apart
  <2> HIDE DEF g
  <2>4. Apart(n.free, g, n.writer, p)
    BY <1>7, <2>3 DEF Apart
  <2>5. m.free = n.free /\ m.filled = g /\ m.writer = n.writer
    BY <2>2
  <2> QED BY <2>4, <2>5 DEF m
<1>10. CASE n.filled # <<>> /\ n.data[Last(n.filled)] # 0
  <2>1. m = WriteBufferToOutput(WithoutNextFilled(n), Last(n.filled), full)
    BY <1>4, <1>10
  <2>2. Apart(m.free, m.filled, m.writer, p)
    BY <1>5, <1>7, <1>10, <2>1, WriteKeeps
  <2> QED BY <2>2 DEF m
<1> QED BY <1>8, <1>9, <1>10


\* A buffer that is given up is with nobody.
LEMMA ApartWithout ==
  ASSUME NEW f, NEW g, NEW w, NEW p, Apart(f, g, w, p)
  PROVE  Apart(f, g, w, 0)
BY DEF Apart

\* GetNextFreeBuffer takes the first free buffer or allocates one.
LEMMA NextFreeKeeps ==
  ASSUME Owners, thread # "panicked", NEW b \in NextFree
  PROVE  LET l == WithoutNextFree(Lists)
         IN  /\ IsLists(l) /\ l.filled = filledBuffers /\ l.writer = writer
             /\ Apart(l.free, filledBuffers, writer, b) /\ b # 0
             /\ thread # "drain" => /\ Apart(l.free, filledBuffers, writer, inProcess)
                                   /\ b # inProcess
<1> DEFINE f == IF freeBuffers = <<>> THEN freeBuffers ELSE Tail(freeBuffers)
           l == WithoutNextFree(Lists)
<1>1. l = [data |-> data, free |-> f, filled |-> filledBuffers,
           writer |-> writer, disk |-> disk, panic |-> FALSE]
  <2> DEFINE k == Lists
  <2>1. /\ k = [data |-> data, free |-> freeBuffers, filled |-> filledBuffers,
                writer |-> writer, disk |-> disk, panic |-> FALSE]
        /\ k.free = freeBuffers
    BY DEF Lists
  <2> HIDE DEF k
  <2>2. WithoutNextFree(k) = [k EXCEPT !.free = f]
    BY <2>1 DEF WithoutNextFree
  <2> HIDE DEF f
  <2> QED BY <2>1, <2>2 DEF k
<1>2. Apart(freeBuffers, filledBuffers, writer, Held)
  BY DEF Owners
<1>3. thread # "drain" => Held = inProcess
  BY DEF Held
<1>4. \A x \in Buffers : x # 0
  BY DEF Buffers
<1>5. /\ f \in Seq(Buffers) /\ NoRepeats(f) /\ ToSet(f) \subseteq ToSet(freeBuffers)
      /\ b \in Buffers /\ b \notin ToSet(f) /\ b \notin ToSet(filledBuffers)
      /\ writer.active => b # writer.buf
      /\ b \in ToSet(freeBuffers) \/ b # inProcess
  <2>1. CASE freeBuffers # <<>>
    <3>1. f = Tail(freeBuffers) /\ b = Head(freeBuffers)
      BY <2>1 DEF NextFree
    <3>2. /\ f \in Seq(Buffers) /\ NoRepeats(f) /\ ToSet(f) \subseteq ToSet(freeBuffers)
          /\ b \in Buffers /\ b \in ToSet(freeBuffers) /\ b \notin ToSet(f)
      BY <1>2, <2>1, <3>1, TailNoRepeats DEF Apart
    <3> HIDE DEF f
    <3> QED BY <1>2, <3>2 DEF Apart
  <2>2. CASE freeBuffers = <<>>
    <3>1. f = freeBuffers /\ b \in Unused
      BY <2>2 DEF NextFree
    <3>2. /\ b \in Buffers /\ b \notin Range(freeBuffers) /\ b \notin Range(filledBuffers)
          /\ b # inProcess /\ (writer.active => b # writer.buf)
      BY <3>1 DEF Unused, Used
    <3>3. Range(freeBuffers) = ToSet(freeBuffers) /\ Range(filledBuffers) = ToSet(filledBuffers)
      BY DEF Range, ToSet
    <3> HIDE DEF f
    <3> QED BY <1>2, <3>1, <3>2, <3>3 DEF Apart
  <2> QED BY <2>1, <2>2
<1> HIDE DEF f, l
<1>6. IsLists(l) /\ l.free = f /\ l.filled = filledBuffers /\ l.writer = writer
  BY <1>1 DEF IsLists
<1>7. Apart(f, filledBuffers, writer, b) /\ b # 0
  BY <1>2, <1>4, <1>5 DEF Apart
<1>8. thread # "drain" => Apart(f, filledBuffers, writer, inProcess) /\ b # inProcess
  <2> SUFFICES ASSUME thread # "drain"
               PROVE  Apart(f, filledBuffers, writer, inProcess) /\ b # inProcess
    OBVIOUS
  <2>1. Apart(freeBuffers, filledBuffers, writer, inProcess)
    BY <1>2, <1>3
  <2>2. inProcess # 0 => inProcess \notin ToSet(freeBuffers)
    BY <2>1 DEF Apart
  <2>3. b # inProcess
    BY <1>4, <1>5, <2>2
  <2> QED BY <1>5, <2>1, <2>3 DEF Apart
<1> QED BY <1>6, <1>7, <1>8 DEF l

\* A step that moves no buffer.
LEMMA StillStep ==
  ASSUME OwnerInv, UNCHANGED <<freeBuffers, filledBuffers, inProcess, thread, iState>>,
         UNCHANGED writer \/ writer' = [writer EXCEPT !.done = TRUE],
         UNCHANGED handler \/ handler' = [handler EXCEPT !.done = TRUE],
         command' \in {"start", "startTimed"} => iState = "idle"
  PROVE  OwnerInv'
<1>1. /\ writer' = [active |-> writer'.active, done |-> writer'.done, buf |-> writer'.buf]
      /\ writer'.active = writer.active /\ writer'.buf = writer.buf
  <2>1. CASE UNCHANGED writer
    BY <2>1 DEF OwnerInv, Owners, Apart
  <2>2. CASE writer' = [writer EXCEPT !.done = TRUE]
    <3>1. writer = [active |-> writer.active, done |-> writer.done, buf |-> writer.buf]
      BY DEF OwnerInv, Owners, Apart
    <3>2. writer' = [active |-> writer.active, done |-> TRUE, buf |-> writer.buf]
      BY <2>2, <3>1
    <3> QED BY <3>2
  <2> QED BY <2>1, <2>2
<1>2. /\ handler' = [active |-> handler'.active, done |-> handler'.done]
      /\ handler'.active = handler.active
  <2>1. CASE UNCHANGED handler
    BY <2>1 DEF OwnerInv, Control
  <2>2. CASE handler' = [handler EXCEPT !.done = TRUE]
    <3>1. handler = [active |-> handler.active, done |-> handler.done]
      BY DEF OwnerInv, Control
    <3>2. handler' = [active |-> handler.active, done |-> TRUE]
      BY <2>2, <3>1
    <3> QED BY <3>2
  <2> QED BY <2>1, <2>2
<1>3. Owners'
  <2>1. Held' = Held
    BY DEF Held
  <2>2. Apart(freeBuffers, filledBuffers, writer, Held)
    BY DEF OwnerInv, Owners
  <2>3. Apart(freeBuffers, filledBuffers, writer', Held)
    BY <1>1, <2>2 DEF Apart
  <2> QED BY <2>1, <2>3 DEF Owners
<1>4. Control'
  BY <1>1, <1>2 DEF OwnerInv, Control
<1> QED BY <1>3, <1>4 DEF OwnerInv

-----------------------------------------------------------------------------
(* The steps.                                                              *)

\* Completions and the messages of the client.
LEMMA OuterStep ==
  ASSUME OwnerInv, Environment \/ ClientSends
  PROVE  OwnerInv'
<1> DEFINE Still == /\ UNCHANGED <<freeBuffers, filledBuffers, inProcess, thread, iState>>
                    /\ UNCHANGED writer \/ writer' = [writer EXCEPT !.done = TRUE]
                    /\ UNCHANGED handler \/ handler' = [handler EXCEPT !.done = TRUE]
                    /\ command' \in {"start", "startTimed"} => iState = "idle"
<1>0. command \in {"start", "startTimed"} => iState = "idle"
  BY DEF OwnerInv, Control
<1>1. ASSUME DriverFill PROVE Still
  BY <1>0, <1>1 DEF DriverFill, Complete
<1>2. ASSUME DriverFinish PROVE Still
  BY <1>0, <1>2 DEF DriverFinish, Complete
<1>3. ASSUME DriverAnswer PROVE Still
  BY <1>0, <1>3 DEF DriverAnswer, Complete
<1>4. ASSUME WriteDone PROVE Still
  BY <1>0, <1>4 DEF WriteDone, lists
<1>5. ASSUME TimerExpires PROVE Still
  BY <1>0, <1>5 DEF TimerExpires, lists
<1>6. ASSUME ClientSends PROVE Still
  BY <1>6 DEF ClientSends, lists
<1>7. Still
  BY <1>1, <1>2, <1>3, <1>4, <1>5, <1>6 DEF Environment
<1> QED BY <1>7, StillStep

LEMMA HandlerRunStep ==
  ASSUME OwnerInv, HandlerRun
  PROVE  OwnerInv'
<1>1. /\ thread = "scheduler" /\ handler.active /\ UNCHANGED <<iState, command>>
      /\ Owners /\ Control
  BY DEF HandlerRun, Schedule, OwnerInv
<1>2. /\ inProcess # 0 /\ iState # "idle" /\ Held = inProcess
      /\ command \notin {"start", "startTimed"}
  BY <1>1 DEF Control, Held
<1>3. CASE /\ \E next \in NextFree, full \in FullDisk :
                /\ SetLists(NotifyWriter(AddToFilled(WithoutNextFree(Lists), inProcess), full),
                            "scheduler")
                /\ inProcess' = next
           /\ handler' = Waiting
  <2>1. PICK next \in NextFree, full \in FullDisk :
          /\ SetLists(NotifyWriter(AddToFilled(WithoutNextFree(Lists), inProcess), full),
                      "scheduler")
          /\ inProcess' = next
    BY <1>3
  <2> DEFINE l == WithoutNextFree(Lists)
             k == AddToFilled(l, inProcess)
             m == NotifyWriter(k, full)
  <2>2. /\ IsLists(l) /\ l.filled = filledBuffers /\ l.writer = writer
        /\ Apart(l.free, filledBuffers, writer, next) /\ next # 0
        /\ Apart(l.free, filledBuffers, writer, inProcess) /\ next # inProcess
    BY <1>1, NextFreeKeeps
  <2>3. SetLists(m, "scheduler")
    BY <2>1
  <2> HIDE DEF l
  <2>4. IsLists(k) /\ Apart(k.free, k.filled, k.writer, next)
    <3>1. /\ inProcess \in Buffers /\ inProcess \notin ToSet(l.free) \cup ToSet(l.filled)
          /\ l.writer.active => l.writer.buf # inProcess
      BY <1>2, <2>2 DEF Apart
    <3> QED BY <2>2, <3>1, FilledKeeps
  <2> HIDE DEF k
  <2>5. Apart(m.free, m.filled, m.writer, next)
    BY <2>4, NotifyKeeps
  <2> HIDE DEF m
  <2>6. /\ freeBuffers' = m.free /\ filledBuffers' = m.filled /\ writer' = m.writer
        /\ thread' \in {"scheduler", "panicked"} /\ inProcess' = next
    BY <2>1, <2>3 DEF SetLists
  <2>7. Owners'
    <3>1. Held' = next \/ Held' = 0
      BY <2>6 DEF Held
    <3>2. Apart(m.free, m.filled, m.writer, 0)
      BY <2>5, ApartWithout
    <3> QED BY <2>5, <2>6, <3>1, <3>2 DEF Owners
  <2>8. Control'
    BY <1>1, <1>2, <1>3, <2>2, <2>6 DEF Control, Waiting
  <2> QED BY <2>7, <2>8 DEF OwnerInv
<1>4. CASE handler' = Inactive /\ UNCHANGED <<source, lists, inProcess, writer, disk, thread>>
  <2>1. Owners'
    BY <1>1, <1>4 DEF Owners, Held, lists
  <2>2. Control'
    BY <1>1, <1>2, <1>4 DEF Control, Inactive, lists
  <2> QED BY <2>1, <2>2 DEF OwnerInv
<1> QED BY <1>3, <1>4 DEF HandlerRun

LEMMA WriterRunStep ==
  ASSUME OwnerInv, WriterRun
  PROVE  OwnerInv'
<1>1. /\ thread = "scheduler" /\ writer.active
      /\ UNCHANGED <<iState, command, inProcess, handler>> /\ Owners /\ Control
  BY DEF WriterRun, Schedule, OwnerInv
<1>2. iState # "idle" /\ Held = inProcess
  BY <1>1 DEF Control, Held
<1>3. PICK full \in FullDisk : SetLists(HandleFullBuffers(Lists, full), "scheduler")
  BY DEF WriterRun
<1> DEFINE l == Lists
           m == HandleFullBuffers(l, full)
<1>4. IsLists(l) /\ l.free = freeBuffers /\ l.filled = filledBuffers /\ l.writer = writer
  BY DEF Lists, IsLists
<1>5. SetLists(m, "scheduler")
  BY <1>3
<1> HIDE DEF l
<1>6. Apart(m.free, m.filled, m.writer, inProcess)
  <2>1. Apart(l.free, l.filled, l.writer, inProcess) /\ l.writer.active
    BY <1>1, <1>2, <1>4 DEF Owners
  <2> QED BY <1>4, <2>1, HandleFullKeeps
<1> HIDE DEF m
<1>7. /\ freeBuffers' = m.free /\ filledBuffers' = m.filled /\ writer' = m.writer
      /\ thread' \in {"scheduler", "panicked"}
  BY <1>5 DEF SetLists
<1>8. Owners'
  <2>1. Held' = inProcess \/ Held' = 0
    BY <1>1, <1>7 DEF Held
  <2>2. Apart(m.free, m.filled, m.writer, 0)
    BY <1>6, ApartWithout
  <2> QED BY <1>6, <1>7, <2>1, <2>2 DEF Owners
<1>9. Control'
  BY <1>1, <1>2, <1>7 DEF Control
<1> QED BY <1>8, <1>9 DEF OwnerInv

\* ResetBuffers.
LEMMA StartSamplingStep ==
  ASSUME OwnerInv, StartSampling
  PROVE  OwnerInv'
<1> DEFINE s == [i \in 1 .. InitialBuffers |-> i]
           f == Reverse(s)
           n == InitialBuffers
<1>1. /\ command' = NoCommand /\ iState' = "running" /\ freeBuffers' = f
      /\ filledBuffers' = <<>> /\ inProcess' = 0 /\ handler' = Inactive
      /\ thread' = "starting" /\ UNCHANGED writer
      /\ command \in {"start", "startTimed"} /\ Owners /\ Control
  BY DEF StartSampling, OwnerInv
<1>2. ~ writer.active
  BY <1>1 DEF Control
<1>3. /\ n \in Nat /\ n >= 1 /\ n <= MaxBuffers /\ MaxBuffers \in Nat
  BY EngineAssumption
<1>4. f \in [1 .. n -> Buffers] /\ \A i \in 1 .. n : f[i] = n - i + 1
  <2>1. s \in [1 .. n -> Nat]
    OBVIOUS
  <2>2. Len(s) = n
    BY <1>3, <2>1, FunctionIsSeq
  <2>3. \A i \in 1 .. n : n - i + 1 \in 1 .. n /\ s[n - i + 1] = n - i + 1
    BY <1>3
  <2>4. \A i \in 1 .. n : n - i + 1 \in Buffers
    BY <1>3 DEF Buffers
  <2> HIDE DEF s, n
  <2>5. f = [i \in 1 .. Len(s) |-> s[Len(s) - i + 1]]
    BY Zenon DEF Reverse
  <2>6. f = [i \in 1 .. n |-> s[n - i + 1]]
    BY <2>2, <2>5, Zenon
  <2> HIDE DEF f
  <2> QED BY <2>3, <2>4, <2>6
<1> HIDE DEF f
<1>5. f \in Seq(Buffers) /\ Len(f) = n
  BY <1>3, <1>4, FunctionIsSeq
<1>6. NoRepeats(f) /\ f # <<>>
  BY <1>3, <1>4, <1>5 DEF NoRepeats
<1>7. <<>> \in Seq(Buffers) /\ NoRepeats(<<>>) /\ ToSet(<<>>) = {}
  BY DEF NoRepeats, ToSet
<1>8. Apart(f, <<>>, writer, 0)
  BY <1>1, <1>2, <1>5, <1>6, <1>7 DEF Apart, Owners
<1>9. Owners'
  BY <1>1, <1>8 DEF Owners, Held
<1>10. Control'
  BY <1>1, <1>2, <1>6 DEF Control, Inactive, NoCommand
<1> QED BY <1>9, <1>10 DEF OwnerInv

LEMMA StartReceivingStep ==
  ASSUME OwnerInv, StartReceivingData
  PROVE  OwnerInv'
<1> DEFINE b == Head(freeBuffers)
           f == Tail(freeBuffers)
<1>1. /\ thread = "starting" /\ inProcess' = b /\ freeBuffers' = f /\ handler' = Waiting
      /\ thread' = "scheduler" /\ UNCHANGED <<filledBuffers, writer, iState, command>>
      /\ Owners /\ Control
  BY DEF StartReceivingData, OwnerInv
<1>2. freeBuffers # <<>> /\ ~ writer.active /\ iState # "idle"
  BY <1>1 DEF Control
<1>3. /\ f \in Seq(Buffers) /\ NoRepeats(f) /\ ToSet(f) \subseteq ToSet(freeBuffers)
      /\ b \in Buffers /\ b \in ToSet(freeBuffers) /\ b \notin ToSet(f)
  BY <1>1, <1>2, TailNoRepeats DEF Owners, Apart
<1>4. b # 0
  BY <1>3 DEF Buffers
<1> HIDE DEF b, f
<1>5. Apart(f, filledBuffers, writer, b)
  BY <1>1, <1>2, <1>3 DEF Owners, Apart
<1>6. Owners'
  BY <1>1, <1>5 DEF Owners, Held
<1>7. Control'
  BY <1>1, <1>2, <1>4 DEF Control, Waiting
<1> QED BY <1>6, <1>7 DEF OwnerInv

LEMMA StopSamplingStep ==
  ASSUME OwnerInv, StopSampling
  PROVE  OwnerInv'
<1>1. /\ thread = "scheduler" /\ UNCHANGED <<freeBuffers, filledBuffers, inProcess, handler, writer>>
      /\ command' = NoCommand \/ command' = command
      /\ \/ iState = "running" /\ iState' = "stopping" /\ thread' = "waitEnd"
         \/ iState # "running" /\ UNCHANGED <<iState, thread>>
      /\ Owners /\ Control
  BY DEF StopSampling, Schedule, OwnerInv, lists
<1>2. Owners'
  <2>1. Held' = Held
    BY <1>1 DEF Held
  <2> QED BY <1>1, <2>1 DEF Owners
<1>3. Control'
  BY <1>1 DEF Control, NoCommand
<1> QED BY <1>2, <1>3 DEF OwnerInv

\* The buffer that the driver answered goes to the writer.
LEMMA PassOnStep ==
  ASSUME OwnerInv, PassOn, thread \in {"waitEnd", "waitBuffer"}, inProcess # 0,
         UNCHANGED <<inProcess, handler, iState, command>>
  PROVE  OwnerInv'
<1>1. PICK full \in FullDisk : SetLists(NotifyWriter(AddToFilled(Lists, inProcess), full), "drain")
  BY DEF PassOn
<1> DEFINE l == Lists
           k == AddToFilled(l, inProcess)
           m == NotifyWriter(k, full)
<1>2. IsLists(l) /\ l.free = freeBuffers /\ l.filled = filledBuffers /\ l.writer = writer
  BY DEF Lists, IsLists
<1>3. SetLists(m, "drain")
  BY <1>1
<1> HIDE DEF l
<1>4. Apart(l.free, l.filled, l.writer, inProcess)
  BY <1>2 DEF OwnerInv, Owners, Held
<1>5. IsLists(k) /\ Apart(k.free, k.filled, k.writer, 0)
  <2>1. /\ inProcess \in Buffers /\ inProcess \notin ToSet(l.free) \cup ToSet(l.filled)
        /\ l.writer.active => l.writer.buf # inProcess
    BY <1>4 DEF Apart
  <2>2. Apart(l.free, l.filled, l.writer, 0)
    BY <1>4, ApartWithout
  <2> QED BY <1>2, <2>1, <2>2, FilledKeeps
<1> HIDE DEF k
<1>6. Apart(m.free, m.filled, m.writer, 0)
  BY <1>5, NotifyKeeps
<1> HIDE DEF m
<1>7. /\ freeBuffers' = m.free /\ filledBuffers' = m.filled /\ writer' = m.writer
      /\ thread' \in {"drain", "panicked"}
  BY <1>3 DEF SetLists
<1>8. Owners'
  BY <1>6, <1>7 DEF Owners, Held
<1>9. Control'
  BY <1>7 DEF OwnerInv, Control
<1> QED BY <1>8, <1>9 DEF OwnerInv

LEMMA EndDoneStep ==
  ASSUME OwnerInv, EndDone
  PROVE  OwnerInv'
<1>1. /\ thread = "waitEnd" /\ UNCHANGED <<inProcess, handler, iState, command>>
      /\ Owners /\ Control
  BY DEF EndDone, OwnerInv
<1>2. CASE handler.active /\ handler.done
  <2>1. PassOn /\ inProcess # 0
    BY <1>1, <1>2 DEF EndDone, Control
  <2> QED BY <1>1, <2>1, PassOnStep
<1>3. CASE ~ (handler.active /\ handler.done)
  <2>1. /\ thread' = (IF handler.active THEN "waitBuffer" ELSE "stopWriter")
        /\ UNCHANGED <<freeBuffers, filledBuffers, writer>>
    BY <1>3 DEF EndDone, lists
  <2>2. Owners'
    BY <1>1, <2>1 DEF Owners, Held
  <2>3. Control'
    BY <1>1, <2>1 DEF Control
  <2> QED BY <2>2, <2>3 DEF OwnerInv
<1> QED BY <1>2, <1>3

LEMMA AskForRestStep ==
  ASSUME OwnerInv, AskForRest
  PROVE  OwnerInv'
<1> DEFINE l == WithoutNextFree(Lists)
<1>1. /\ thread = "drain" /\ handler' = Waiting
      /\ UNCHANGED <<filledBuffers, writer, iState, command>> /\ Owners /\ Control
  BY DEF AskForRest, OwnerInv
<1>2. CASE inProcess' \in NextFree /\ freeBuffers' = l.free /\ thread' = "waitBuffer"
  <2>1. PICK b \in NextFree : inProcess' = b
    BY <1>2
  <2>2. Apart(l.free, filledBuffers, writer, b) /\ b # 0
    BY <1>1, NextFreeKeeps
  <2> HIDE DEF l
  <2>3. Owners'
    BY <1>1, <1>2, <2>1, <2>2 DEF Owners, Held
  <2>4. Control'
    BY <1>1, <1>2, <2>1, <2>2 DEF Control, Waiting
  <2> QED BY <2>3, <2>4 DEF OwnerInv
<1>3. CASE inProcess' = 0 /\ freeBuffers' = freeBuffers /\ thread' = "hung"
  <2>1. Owners'
    BY <1>1, <1>3 DEF Owners, Held
  <2>2. Control'
    BY <1>1, <1>3 DEF Control, Waiting
  <2> QED BY <2>1, <2>2 DEF OwnerInv
<1> QED BY <1>2, <1>3 DEF AskForRest

LEMMA TakeRestStep ==
  ASSUME OwnerInv, TakeRest
  PROVE  OwnerInv'
<1>1. thread = "waitBuffer" /\ PassOn /\ UNCHANGED <<inProcess, handler, iState, command>>
  BY DEF TakeRest
<1>2. inProcess # 0
  BY <1>1 DEF OwnerInv, Control
<1> QED BY <1>1, <1>2, PassOnStep

LEMMA CancelledStep ==
  ASSUME OwnerInv, HandlerCancelled
  PROVE  OwnerInv'
<1>1. /\ thread = "drain" /\ handler' = Inactive /\ inProcess' = 0 /\ thread' = "stopWriter"
      /\ UNCHANGED <<freeBuffers, filledBuffers, writer, iState, command>> /\ Owners /\ Control
  BY DEF HandlerCancelled, OwnerInv, lists
<1>2. Owners'
  BY <1>1 DEF Owners, Held
<1>3. Control'
  BY <1>1 DEF Control, Inactive
<1> QED BY <1>2, <1>3 DEF OwnerInv

LEMMA StopWriterStep ==
  ASSUME OwnerInv, StopWriter
  PROVE  OwnerInv'
<1> DEFINE f == filledBuffers \o freeBuffers
<1>1. /\ thread = "stopWriter" /\ writer' = [writer EXCEPT !.active = FALSE, !.done = FALSE]
      /\ freeBuffers' = f /\ filledBuffers' = <<>>
      /\ UNCHANGED <<inProcess, handler, command>> /\ Owners /\ Control
  BY DEF StopWriter, OwnerInv
<1>2. \/ thread' = "panicked" /\ UNCHANGED iState
      \/ thread' = "scheduler" /\ iState' = "idle"
  BY DEF StopWriter
<1>3. Apart(freeBuffers, filledBuffers, writer, inProcess) /\ ~ handler.active /\ iState # "idle"
  BY <1>1 DEF Owners, Held, Control
<1>4. /\ writer' = [active |-> writer'.active, done |-> writer'.done, buf |-> writer'.buf]
      /\ writer'.active = FALSE
  <2>1. writer = [active |-> writer.active, done |-> writer.done, buf |-> writer.buf]
    BY <1>3 DEF Apart
  <2>2. writer' = [active |-> FALSE, done |-> FALSE, buf |-> writer.buf]
    BY <1>1, <2>1
  <2> QED BY <2>2
<1>5. /\ f \in Seq(Buffers) /\ NoRepeats(f)
      /\ ToSet(f) = ToSet(filledBuffers) \cup ToSet(freeBuffers)
  BY <1>3, ConcatNoRepeats DEF Apart
<1> HIDE DEF f
<1>6. <<>> \in Seq(Buffers) /\ NoRepeats(<<>>) /\ ToSet(<<>>) = {}
  BY DEF NoRepeats, ToSet
<1>7. Apart(f, <<>>, writer', inProcess)
  BY <1>3, <1>4, <1>5, <1>6 DEF Apart
<1>8. Apart(f, <<>>, writer', 0)
  BY <1>7, ApartWithout
<1>9. Owners'
  BY <1>1, <1>2, <1>7, <1>8 DEF Owners, Held
<1>10. Control'
  BY <1>1, <1>2, <1>3, <1>4 DEF Control
<1> QED BY <1>9, <1>10 DEF OwnerInv

-----------------------------------------------------------------------------
LEMMA InitOwners ==
  ASSUME Init
  PROVE  OwnerInv
<1>1. <<>> \in Seq(Buffers) /\ NoRepeats(<<>>) /\ ToSet(<<>>) = {}
  BY DEF NoRepeats, ToSet
<1>2. Owners
  BY <1>1 DEF Init, Owners, Held, Apart
<1>3. Control
  BY DEF Init, Control, Inactive, NoCommand
<1> QED BY <1>2, <1>3 DEF OwnerInv

LEMMA OwnersStep ==
  ASSUME OwnerInv, [Next]_vars
  PROVE  OwnerInv'
<1>1. CASE UNCHANGED vars
  <2>1. /\ UNCHANGED <<freeBuffers, filledBuffers, inProcess, thread, iState>>
        /\ UNCHANGED writer /\ UNCHANGED handler /\ UNCHANGED command
    BY <1>1 DEF vars, lists
  <2>2. command' \in {"start", "startTimed"} => iState = "idle"
    BY <2>1 DEF OwnerInv, Control
  <2> QED BY <2>1, <2>2, StillStep
<1>2. CASE Environment \/ ClientSends
  BY <1>2, OuterStep
<1>3. CASE EngineThread
  BY <1>3, HandlerRunStep, WriterRunStep, StartSamplingStep, StartReceivingStep,
     StopSamplingStep, EndDoneStep, AskForRestStep, TakeRestStep, CancelledStep,
     StopWriterStep DEF EngineThread
<1> QED BY <1>1, <1>2, <1>3 DEF Next

\* A sequence without repetitions is injective.
LEMMA OnlyOnce ==
  ASSUME NEW S, NEW s \in Seq(S), NoRepeats(s)
  PROVE  IsInjective(s)
<1>1. DOMAIN s = 1 .. Len(s)
  OBVIOUS
<1> QED BY <1>1 DEF NoRepeats, IsInjective

\* Buffers without a common owner make one list without repetitions.
LEMMA OneList ==
  ASSUME OwnerInv
  PROVE  BuffersHaveOneOwner
<1> DEFINE isRecent == inProcess # 0 /\ thread \notin {"drain", "panicked"}
           w == IF writer.active THEN <<writer.buf>> ELSE <<>>
           p == IF isRecent THEN <<inProcess>> ELSE <<>>
           a == freeBuffers \o filledBuffers
           b == a \o w
           c == b \o p
<1>1. Apart(freeBuffers, filledBuffers, writer, Held)
  BY DEF OwnerInv, Owners
<1>2. \A x \in Buffers : <<x>> \in Seq(Buffers) /\ NoRepeats(<<x>>) /\ ToSet(<<x>>) = {x}
  BY DEF NoRepeats, ToSet
<1>3. <<>> \in Seq(Buffers) /\ NoRepeats(<<>>) /\ ToSet(<<>>) = {}
  BY DEF NoRepeats, ToSet
<1>4. /\ w \in Seq(Buffers) /\ NoRepeats(w)
      /\ ToSet(w) = IF writer.active THEN {writer.buf} ELSE {}
  BY <1>1, <1>2, <1>3 DEF Apart
<1>5. isRecent => Held = inProcess
  BY DEF Held
<1>6. /\ p \in Seq(Buffers) /\ NoRepeats(p)
      /\ ToSet(p) = IF isRecent THEN {inProcess} ELSE {}
      /\ isRecent => inProcess \notin ToSet(freeBuffers) \cup ToSet(filledBuffers) \cup ToSet(w)
  <2> HIDE DEF w
  <2>1. CASE isRecent
    <3>1. Held = inProcess /\ inProcess # 0
      BY <1>5, <2>1
    <3>2. /\ inProcess \in Buffers /\ inProcess \notin ToSet(freeBuffers) \cup ToSet(filledBuffers)
          /\ writer.active => inProcess # writer.buf
      BY <1>1, <3>1 DEF Apart
    <3>3. inProcess \notin ToSet(w)
      BY <1>4, <3>2
    <3>4. p = <<inProcess>>
      BY <2>1
    <3> HIDE DEF isRecent, p
    <3> QED BY <1>2, <2>1, <3>2, <3>3, <3>4
  <2>2. CASE ~ isRecent
    <3>1. p = <<>>
      BY <2>2
    <3> HIDE DEF isRecent, p
    <3> QED BY <1>3, <2>2, <3>1
  <2> QED BY <2>1, <2>2
<1> HIDE DEF isRecent, w, p
<1>7. /\ a \in Seq(Buffers) /\ NoRepeats(a)
      /\ ToSet(a) = ToSet(freeBuffers) \cup ToSet(filledBuffers)
  BY <1>1, ConcatNoRepeats DEF Apart
<1> HIDE DEF a
<1>8. b \in Seq(Buffers) /\ NoRepeats(b) /\ ToSet(b) = ToSet(a) \cup ToSet(w)
  <2>1. ToSet(a) \cap ToSet(w) = {}
    BY <1>1, <1>4, <1>7 DEF Apart
  <2> QED BY <1>4, <1>7, <2>1, ConcatNoRepeats
<1> HIDE DEF b
<1>9. c \in Seq(Buffers) /\ NoRepeats(c)
  <2>1. ToSet(b) \cap ToSet(p) = {}
    BY <1>6, <1>7, <1>8
  <2> QED BY <1>6, <1>8, <2>1, ConcatNoRepeats
<1>10. IsInjective(c)
  BY <1>9, OnlyOnce
<1>11. iState = "idle" => filledBuffers = <<>>
  BY DEF OwnerInv, Control
<1> QED BY <1>10, <1>11 DEF BuffersHaveOneOwner, a, b, w, p, isRecent

\* A TBapBuf is in one of the two lists, with the driver or being written, and
\* never in two places, whatever requests complete in whatever order, and no
\* session leaves filled buffers to the ResetBuffers of the next one.
THEOREM BuffersAlwaysHaveOneOwner == Spec => []BuffersHaveOneOwner
<1>1. Init => OwnerInv
  BY InitOwners
<1>2. OwnerInv /\ [Next]_vars => OwnerInv'
  BY OwnersStep
<1>3. OwnerInv => BuffersHaveOneOwner
  BY OneList
<1> QED BY <1>1, <1>2, <1>3, PTL DEF Spec

-----------------------------------------------------------------------------
(* The order of the data.  The buffers that the driver has filled are      *)
(* numbered.  Behind the file come, in this order, the buffer that is      *)
(* being written, the filled ones from last to first, and the one that was *)
(* just answered.                                                          *)

\* The writer has a buffer whose data is not yet in the file.
Under(w, d) == w.active /\ ~ w.done /\ d[w.buf] # 0

Taken(w, d) == IF Under(w, d) THEN 1 ELSE 0

\* The numbers len + 1 .. top are with the writer and in the filled list; the
\* first e entries of the list are empty.
Lined(d, filled, w, len, e, top) ==
  LET n == Len(filled)
      u == Taken(w, d)
  IN  /\ e <= n
      /\ Under(w, d) => d[w.buf] = len + 1
      /\ e = 1 => d[filled[1]] = 0
      /\ \A j \in e + 1 .. n : d[filled[j]] = len + u + n - j + 1
      /\ top = len + u + n - e

\* The driver has answered with data that is in no list yet.
Fresh == handler.active /\ handler.done /\ thread # "drain" /\ data[inProcess] # 0

Ordered ==
  \E e \in {0, 1}, top \in Nat :
    /\ Lined(data, filledBuffers, writer, Len(file), e, top)
    /\ e = 1 => thread \in {"drain", "stopWriter"}
    /\ Fresh => data[inProcess] = sent
    /\ "memory" \notin fault => sent = top + IF Fresh THEN 1 ELSE 0

Counted == /\ file \in Seq(Nat) /\ \A i \in 1 .. Len(file) : file[i] \in {i, 0}
           /\ data \in [Buffers -> Nat] /\ sent \in Nat /\ disk \in {"ok", "closed"}

\* What the requests and the faults have to do with where the thread is.
Answers ==
  /\ pending => handler.active /\ ~ handler.done /\ thread \notin {"drain", "stopWriter", "starting"}
  /\ thread \in {"waitBuffer", "drain"} => handler.active
  /\ "memory" \in fault => (~ handler.active \/ thread = "hung") /\ thread # "starting"
  /\ thread = "hung" => ~ pending /\ ~ handler.done
  /\ disk = "closed" => "disk" \in fault /\ (writer.active => writer.done)
  /\ thread = "panicked" => disk = "closed"
  /\ thread = "starting" => ~ handler.active
  /\ thread = "drain" /\ filledBuffers # <<>> => filledBuffers[1] = inProcess

FileInv == Counted /\ Answers /\ (disk = "ok" => Ordered)

\* A list depends on the data of its own buffers only.
LEMMA LinedElsewhere ==
  ASSUME NEW d, NEW c, NEW filled \in Seq(Buffers), NEW w, NEW len, NEW e, NEW top,
         Lined(d, filled, w, len, e, top),
         \A j \in 1 .. Len(filled) : c[filled[j]] = d[filled[j]],
         w.active => c[w.buf] = d[w.buf], e \in {0, 1}
  PROVE  Lined(c, filled, w, len, e, top)
<1>1. Under(w, c) <=> Under(w, d)
  BY DEF Under
<1>6. Taken(w, c) = Taken(w, d)
  BY <1>1 DEF Taken
<1>2. Len(filled) \in Nat
  OBVIOUS
<1>3. Under(w, d) => w.active
  BY DEF Under
<1>4. e = 1 => 1 \in 1 .. Len(filled)
  BY <1>2 DEF Lined
<1>5. \A j \in e + 1 .. Len(filled) : j \in 1 .. Len(filled)
  BY <1>2
<1> QED BY <1>1, <1>3, <1>4, <1>5, <1>6 DEF Lined

\* A writer without data is like any other.
LEMMA LinedWriter ==
  ASSUME NEW d, NEW filled, NEW w, NEW v, NEW len, NEW e, NEW top,
         Lined(d, filled, w, len, e, top), ~ Under(w, d), ~ Under(v, d)
  PROVE  Lined(d, filled, v, len, e, top)
BY DEF Lined, Taken

\* The next number is put in front.
LEMMA LinedAdd ==
  ASSUME NEW d, NEW filled \in Seq(Buffers), NEW w, NEW len \in Nat, NEW top \in Nat,
         Lined(d, filled, w, len, 0, top), NEW b \in Buffers, d[b] = top + 1
  PROVE  Lined(d, <<b>> \o filled, w, len, 0, top + 1)
<1> DEFINE f == <<b>> \o filled
           n == Len(filled)
           u == Taken(w, d)
<1>1. n \in Nat /\ u \in Nat
  BY DEF Taken
<1>2. Len(f) = n + 1 /\ f[1] = b /\ \A j \in 2 .. n + 1 : f[j] = filled[j - 1]
  OBVIOUS
<1>3. /\ Under(w, d) => d[w.buf] = len + 1
      /\ \A j \in 1 .. n : d[filled[j]] = len + u + n - j + 1
      /\ top = len + u + n
  BY <1>1 DEF Lined
<1> HIDE DEF f, n, u
<1>4. \A j \in 1 .. n + 1 : d[f[j]] = len + u + (n + 1) - j + 1
  <2> SUFFICES ASSUME NEW j \in 1 .. n + 1 PROVE d[f[j]] = len + u + (n + 1) - j + 1
    OBVIOUS
  <2>1. CASE j = 1
    BY <1>1, <1>2, <1>3, <2>1
  <2>2. CASE j # 1
    <3>1. j \in 2 .. n + 1 /\ j - 1 \in 1 .. n
      BY <1>1, <2>2
    <3>2. d[f[j]] = len + u + n - (j - 1) + 1
      BY <1>2, <1>3, <3>1
    <3> QED BY <1>1, <3>2
  <2> QED BY <2>1, <2>2
<1>5. Lined(d, f, w, len, 0, top + 1)
  <2>1. \A j \in 0 + 1 .. n + 1 : d[f[j]] = len + u + (n + 1) - j + 1
    BY <1>4
  <2>2. 0 <= n + 1 /\ top + 1 = len + u + (n + 1) - 0
    BY <1>1, <1>3
  <2> QED BY <1>2, <1>3, <2>1, <2>2 DEF Lined, u
<1> QED BY <1>5 DEF f

\* An empty buffer is put in front.
LEMMA LinedAddEmpty ==
  ASSUME NEW d, NEW filled \in Seq(Buffers), NEW w, NEW len \in Nat, NEW top \in Nat,
         Lined(d, filled, w, len, 0, top), NEW b \in Buffers, d[b] = 0
  PROVE  Lined(d, <<b>> \o filled, w, len, 1, top)
<1> DEFINE f == <<b>> \o filled
           n == Len(filled)
           u == Taken(w, d)
<1>1. n \in Nat /\ u \in Nat
  BY DEF Taken
<1>2. Len(f) = n + 1 /\ f[1] = b /\ \A j \in 2 .. n + 1 : f[j] = filled[j - 1]
  OBVIOUS
<1>3. /\ Under(w, d) => d[w.buf] = len + 1
      /\ \A j \in 1 .. n : d[filled[j]] = len + u + n - j + 1
      /\ top = len + u + n
  BY <1>1 DEF Lined
<1> HIDE DEF f, n, u
<1>4. \A j \in 1 + 1 .. n + 1 : d[f[j]] = len + u + (n + 1) - j + 1
  <2> SUFFICES ASSUME NEW j \in 2 .. n + 1 PROVE d[f[j]] = len + u + (n + 1) - j + 1
    OBVIOUS
  <2>1. j - 1 \in 1 .. n
    BY <1>1
  <2>2. d[f[j]] = len + u + n - (j - 1) + 1
    BY <1>2, <1>3, <2>1
  <2> QED BY <1>1, <2>2
<1>5. d[f[1]] = 0 /\ 1 <= n + 1 /\ top = len + u + (n + 1) - 1
  BY <1>1, <1>2, <1>3
<1>6. Lined(d, f, w, len, 1, top)
  BY <1>2, <1>3, <1>4, <1>5 DEF Lined, u
<1> QED BY <1>6 DEF f

\* The writer takes the last buffer of the list.
LEMMA LinedWrite ==
  ASSUME NEW d, NEW filled \in Seq(Buffers), filled # <<>>, NEW w, NEW len \in Nat,
         NEW top \in Nat, NEW e \in {0, 1}, Lined(d, filled, w, len, e, top), ~ Under(w, d),
         NEW v, v.active, ~ v.done, v.buf = Last(filled)
  PROVE  \E g \in {0, 1} : g <= e /\ Lined(d, Front(filled), v, len, g, top)
<1> DEFINE f == Front(filled)
           n == Len(filled)
<1>1. n \in Nat /\ n >= 1 /\ v.buf = filled[n] /\ DOMAIN filled = 1 .. n
  BY DEF Last
<1>2. f = SubSeq(filled, 1, n - 1)
  BY DEF Front
<1>3. /\ f \in Seq(Buffers) /\ Len(f) = n - 1 /\ DOMAIN f = 1 .. n - 1
      /\ \A j \in 1 .. n - 1 : f[j] = filled[j]
  BY <1>1, <1>2
<1>4. /\ e <= n /\ (e = 1 => d[filled[1]] = 0)
      /\ \A j \in e + 1 .. n : d[filled[j]] = len + n - j + 1
      /\ top = len + n - e
  BY <1>1 DEF Lined, Taken
<1> HIDE DEF f, n
<1>5. CASE e = 1 /\ n = 1
  <2>1. ~ Under(v, d)
    BY <1>1, <1>4, <1>5 DEF Under
  <2>2. Lined(d, f, v, len, 0, top)
    BY <1>3, <1>4, <1>5, <2>1 DEF Lined, Taken
  <2> QED BY <1>5, <2>2 DEF f
<1>6. CASE ~ (e = 1 /\ n = 1)
  <2>1. e + 1 <= n
    BY <1>1, <1>4, <1>6
  <2>2. d[v.buf] = len + 1
    BY <1>1, <1>4, <2>1
  <2>3. Under(v, d) /\ Taken(v, d) = 1
    BY <2>2 DEF Under, Taken
  <2>4. \A j \in e + 1 .. n - 1 : d[f[j]] = len + 1 + (n - 1) - j + 1
    <3> SUFFICES ASSUME NEW j \in e + 1 .. n - 1 PROVE d[f[j]] = len + 1 + (n - 1) - j + 1
      OBVIOUS
    <3>1. j \in 1 .. n - 1 /\ j \in e + 1 .. n /\ j \in Int
      BY <1>1
    <3>2. d[f[j]] = len + n - j + 1
      BY <1>3, <1>4, <3>1
    <3> QED BY <1>1, <3>1, <3>2
  <2>5. e = 1 => d[f[1]] = 0
    BY <1>1, <1>3, <1>4, <2>1
  <2>6. e <= n - 1 /\ top = len + 1 + (n - 1) - e
    BY <1>1, <1>4, <2>1
  <2>7. Lined(d, f, v, len, e, top)
    BY <1>3, <2>2, <2>3, <2>4, <2>5, <2>6 DEF Lined
  <2> QED BY <2>7 DEF f
<1> QED BY <1>5, <1>6

-----------------------------------------------------------------------------
(* The writer.                                                             *)

\* What the operations need of the lists: while the disk has room, they are in
\* order; afterwards nothing more is written.
Sound(l, len, e, top) ==
  /\ IsLists(l) /\ l.filled \in Seq(Buffers) /\ l.disk \in {"ok", "closed"}
  /\ l.disk = "ok" => Lined(l.data, l.filled, l.writer, len, e, top)
  /\ l.disk = "closed" => (l.writer.active => l.writer.done)
  /\ l.panic => l.disk = "closed"

\* The lists l have become m by beginning a write: at most the empty buffer is gone.
Begun(m, l, len, e, top) ==
  /\ m.data = l.data /\ \E g \in {0, 1} : g <= e /\ Sound(m, len, g, top)
  /\ m.filled # <<>> => m.filled[1] = l.filled[1]
  /\ m.disk = "ok" => l.disk = "ok"

\* A write is begun by a writer that has none.
LEMMA WriteLined ==
  ASSUME NEW l, NEW len \in Nat, NEW top \in Nat, NEW e \in {0, 1}, Sound(l, len, e, top),
         l.filled # <<>>, ~ l.writer.active, NEW full \in BOOLEAN, l.disk = "closed" => ~ full
  PROVE  Begun(WriteBufferToOutput(WithoutNextFilled(l), Last(l.filled), full), l, len, e, top)
<1> DEFINE k == WithoutNextFilled(l)
           b == Last(l.filled)
           f == Front(l.filled)
           m == WriteBufferToOutput(k, b, full)
           w == [active |-> TRUE, done |-> full \/ l.disk = "closed", buf |-> b]
           n == Len(l.filled)
<1>0. IsLists(l) /\ l.filled \in Seq(Buffers) /\ l.disk \in {"ok", "closed"}
  BY DEF Sound
<1>1. k = [data |-> l.data, free |-> l.free, filled |-> f,
           writer |-> l.writer, disk |-> l.disk, panic |-> l.panic]
  BY <1>0 DEF WithoutNextFilled, IsLists
<1>2. m = [k EXCEPT !.writer = [active |-> TRUE, done |-> full \/ k.disk = "closed", buf |-> b],
                    !.disk = IF full THEN "closed" ELSE k.disk,
                    !.panic = k.disk = "closed"]
  BY DEF WriteBufferToOutput
<1>3. /\ n \in Nat /\ n >= 1 /\ f \in Seq(Buffers) /\ Len(f) = n - 1
      /\ \A j \in 1 .. n - 1 : f[j] = l.filled[j]
  <2>1. n \in Nat /\ n >= 1 /\ DOMAIN l.filled = 1 .. n
    BY <1>0
  <2>2. f = SubSeq(l.filled, 1, n - 1)
    BY DEF Front
  <2> QED BY <1>0, <2>1, <2>2
<1>4. f # <<>> => f[1] = l.filled[1]
  <2> HIDE DEF f, n
  <2> QED BY <1>3
<1> HIDE DEF k, f, b, m
<1>5. /\ m.data = l.data /\ m.filled = f /\ m.writer = w /\ IsLists(m)
      /\ m.disk = (IF full THEN "closed" ELSE l.disk) /\ m.panic = (l.disk = "closed")
  BY <1>1, <1>2 DEF IsLists
<1>6. w.active /\ w.buf = b /\ (w.done <=> full \/ l.disk = "closed")
  OBVIOUS
<1> HIDE DEF w
<1>7. CASE full \/ l.disk = "closed"
  <2>1. m.disk = "closed"
    BY <1>0, <1>5, <1>7
  <2>2. Sound(m, len, e, top)
    BY <1>3, <1>5, <1>6, <1>7, <2>1 DEF Sound
  <2>3. e <= e /\ (m.filled # <<>> => m.filled[1] = l.filled[1])
    BY <1>4, <1>5
  <2>4. Begun(m, l, len, e, top)
    BY <1>5, <2>1, <2>2, <2>3 DEF Begun
  <2> QED BY <2>4 DEF m, k, b
<1>8. CASE ~ full /\ l.disk # "closed"
  <2>1. l.disk = "ok" /\ m.disk = "ok" /\ ~ m.panic
    BY <1>0, <1>5, <1>8
  <2>2. ~ Under(l.writer, l.data)
    BY DEF Under
  <2>3. PICK g \in {0, 1} : g <= e /\ Lined(l.data, f, w, len, g, top)
    <3> DEFINE d == l.data
               s == l.filled
               v == l.writer
    <3>1. Lined(d, s, v, len, e, top) /\ w.active /\ ~ w.done /\ w.buf = Last(s)
      BY <1>6, <1>8, <2>1 DEF Sound, b
    <3>2. s \in Seq(Buffers) /\ s # <<>> /\ ~ Under(v, d) /\ f = Front(s)
      BY <1>0, <2>2 DEF f
    <3> HIDE DEF d, s, v
    <3>3. \E g \in {0, 1} : g <= e /\ Lined(d, Front(s), w, len, g, top)
      BY <3>1, <3>2, LinedWrite
    <3> QED BY <3>2, <3>3 DEF d
  <2>4. Sound(m, len, g, top)
    BY <1>3, <1>5, <2>1, <2>3 DEF Sound
  <2>5. (m.filled # <<>> => m.filled[1] = l.filled[1]) /\ m.data = l.data
    BY <1>4, <1>5
  <2>6. Begun(m, l, len, e, top)
    BY <2>1, <2>3, <2>4, <2>5 DEF Begun
  <2> QED BY <2>6 DEF m, k, b
<1> QED BY <1>7, <1>8

\* A writer that is idle begins with the last filled buffer.
LEMMA NotifyLined ==
  ASSUME NEW l, NEW len \in Nat, NEW top \in Nat, NEW e \in {0, 1}, Sound(l, len, e, top),
         NEW full \in BOOLEAN, l.disk = "closed" => ~ full
  PROVE  Begun(NotifyWriter(l, full), l, len, e, top)
<1>1. CASE ~ l.writer.active /\ l.filled # <<>>
  <2>1. NotifyWriter(l, full) = WriteBufferToOutput(WithoutNextFilled(l), Last(l.filled), full)
    BY <1>1 DEF NotifyWriter
  <2> QED BY <1>1, <2>1, WriteLined
<1>2. CASE ~ (~ l.writer.active /\ l.filled # <<>>)
  <2>1. NotifyWriter(l, full) = l /\ e <= e
    BY <1>2 DEF NotifyWriter
  <2> QED BY <2>1 DEF Begun
<1> QED BY <1>1, <1>2

\* The buffer that was written is free and the next one is written.
LEMMA HandleFullLined ==
  ASSUME NEW l, NEW len \in Nat, NEW top \in Nat, Sound(l, len, 0, top), NEW p,
         Apart(l.free, l.filled, l.writer, p), l.writer.active, l.writer.done,
         l.data \in [Buffers -> Nat], ~ l.panic,
         NEW full \in BOOLEAN, l.disk = "closed" => ~ full
  PROVE  LET m == HandleFullBuffers(l, full)
         IN  /\ m.data = [l.data EXCEPT ![l.writer.buf] = 0]
             /\ \E g \in {0, 1} : g <= 0 /\ Sound(m, len, g, top)
             /\ m.disk = "ok" => l.disk = "ok"
<1> DEFINE b == l.writer.buf
           w == [active |-> FALSE, done |-> FALSE, buf |-> b]
           f == <<b>> \o l.free
           d == [l.data EXCEPT ![b] = 0]
           n == AddToFree([l EXCEPT !.writer = [active |-> FALSE, done |-> FALSE, buf |-> @.buf]],
                          l.writer.buf)
           m == HandleFullBuffers(l, full)
<1>0. IsLists(l) /\ l.filled \in Seq(Buffers) /\ l.disk \in {"ok", "closed"}
  BY DEF Sound
<1>1. n = [data |-> d, free |-> f, filled |-> l.filled,
           writer |-> w, disk |-> l.disk, panic |-> l.panic]
  <2> DEFINE k == [l EXCEPT !.writer = [active |-> FALSE, done |-> FALSE, buf |-> @.buf]]
  <2>1. k = [data |-> l.data, free |-> l.free, filled |-> l.filled,
             writer |-> w, disk |-> l.disk, panic |-> l.panic]
    <3>1. k = [l EXCEPT !.writer = w]
      OBVIOUS
    <3> HIDE DEF k, w
    <3> QED BY <1>0, <3>1 DEF IsLists
  <2> HIDE DEF k
  <2>2. n = AddToFree(k, b)
    BY DEF k
  <2> HIDE DEF n
  <2> QED BY <2>1, <2>2 DEF AddToFree
<1>2. m = IF n.filled = <<>> THEN n
          ELSE IF n.data[Last(n.filled)] = 0 THEN WithoutNextFilled(n)
          ELSE WriteBufferToOutput(WithoutNextFilled(n), Last(n.filled), full)
  BY DEF HandleFullBuffers
<1>3. ~ w.active /\ ~ w.done
  OBVIOUS
<1>4. b \in Buffers /\ \A j \in 1 .. Len(l.filled) : l.filled[j] \in Buffers /\ l.filled[j] # b
  <2>1. b \in Buffers /\ b \notin ToSet(l.filled)
    BY DEF Apart
  <2>2. DOMAIN l.filled = 1 .. Len(l.filled)
    BY <1>0
  <2> QED BY <1>0, <2>1, <2>2, ElementOfSeq DEF ToSet
<1>5. d \in [Buffers -> Nat] /\ \A x \in Buffers : x # b => d[x] = l.data[x]
  BY <1>4
<1> HIDE DEF n, m, f, w, d
<1>6. /\ n.filled = l.filled /\ n.writer = w /\ n.disk = l.disk /\ n.data = d
      /\ n.panic = l.panic /\ IsLists(n)
  BY <1>1 DEF IsLists
<1>7. Sound(n, len, 0, top)
  <2>1. n.disk = "ok" => Lined(n.data, n.filled, n.writer, len, 0, top)
    <3> SUFFICES ASSUME l.disk = "ok" PROVE Lined(d, l.filled, w, len, 0, top)
      BY <1>6
    <3>1. Lined(l.data, l.filled, l.writer, len, 0, top)
      BY DEF Sound
    <3>2. ~ Under(l.writer, l.data) /\ ~ Under(w, l.data)
      BY <1>3 DEF Under
    <3>3. Lined(l.data, l.filled, w, len, 0, top)
      BY <3>1, <3>2, LinedWriter
    <3>4. \A j \in 1 .. Len(l.filled) : d[l.filled[j]] = l.data[l.filled[j]]
      BY <1>4, <1>5
    <3> QED BY <1>0, <1>3, <3>3, <3>4, LinedElsewhere
  <2> QED BY <1>0, <1>3, <1>6, <2>1 DEF Sound
<1>8. CASE n.filled = <<>>
  BY <1>2, <1>6, <1>7, <1>8 DEF m, d, b
<1>9. CASE n.filled # <<>> /\ n.data[Last(n.filled)] # 0
  <2>1. m = WriteBufferToOutput(WithoutNextFilled(n), Last(n.filled), full)
    BY <1>2, <1>9
  <2>2. /\ m.data = n.data /\ \E g \in {0, 1} : g <= 0 /\ Sound(m, len, g, top)
        /\ m.disk = "ok" => n.disk = "ok"
    <3>1. Sound(n, len, 0, top) /\ n.filled # <<>> /\ ~ n.writer.active
          /\ (n.disk = "closed" => ~ full)
      BY <1>3, <1>6, <1>7, <1>9
    <3>2. Begun(m, n, len, 0, top)
      BY <2>1, <3>1, WriteLined
    <3> QED BY <3>2 DEF Begun
  <2> QED BY <1>6, <2>2 DEF m, d, b
<1>10. CASE n.filled # <<>> /\ n.data[Last(n.filled)] = 0
  <2> DEFINE g == Front(n.filled)
             c == Len(n.filled)
  <2>1. m = WithoutNextFilled(n)
    BY <1>2, <1>10
  <2>2. m = [data |-> n.data, free |-> n.free, filled |-> g,
             writer |-> n.writer, disk |-> n.disk, panic |-> n.panic]
    BY <1>6, <2>1 DEF WithoutNextFilled, IsLists
  <2>3. c \in Nat /\ c >= 1 /\ Last(n.filled) = n.filled[c]
    BY <1>0, <1>6, <1>10 DEF Last
  <2>4. g \in Seq(Buffers)
    <3>1. g = SubSeq(n.filled, 1, c - 1)
      BY DEF Front
    <3> QED BY <1>0, <1>6, <2>3, <3>1
  <2> HIDE DEF g, c
  <2>5. n.disk = "closed"
    <3> SUFFICES ASSUME n.disk = "ok" PROVE FALSE
      BY <1>0, <1>6
    <3>1. Lined(n.data, n.filled, n.writer, len, 0, top) /\ Taken(n.writer, n.data) \in Nat
      BY <1>7 DEF Sound, Taken
    <3>2. c \in 0 + 1 .. c
      BY <2>3
    <3>3. n.data[n.filled[c]] = len + Taken(n.writer, n.data) + c - c + 1
      BY <3>1, <3>2 DEF Lined, c
    <3> QED BY <1>10, <2>3, <3>1, <3>3
  <2>6. m.data = n.data /\ m.filled = g /\ m.writer = n.writer /\ m.disk = n.disk /\ m.panic = n.panic
        /\ IsLists(m)
    BY <2>2 DEF IsLists
  <2>7. Sound(m, len, 0, top) /\ 0 <= 0
    BY <1>3, <1>6, <2>4, <2>5, <2>6 DEF Sound
  <2> QED BY <1>6, <2>5, <2>6, <2>7 DEF m, d, b
<1> QED BY <1>8, <1>9, <1>10

-----------------------------------------------------------------------------
(* The steps.                                                              *)

\* What a look at the state of the engine says of its lists.
LEMMA ListsSound ==
  ASSUME OwnerInv, FileInv
  PROVE  \E e \in {0, 1}, top \in Nat :
           /\ Sound(Lists, Len(file), e, top)
           /\ disk = "ok" =>
                /\ e = 1 => thread \in {"drain", "stopWriter"}
                /\ Fresh => data[inProcess] = sent
                /\ "memory" \notin fault => sent = top + IF Fresh THEN 1 ELSE 0
<1>1. /\ IsLists(Lists) /\ Lists.filled = filledBuffers /\ Lists.writer = writer
      /\ Lists.disk = disk /\ Lists.data = data /\ ~ Lists.panic
  BY DEF Lists, IsLists
<1>2. filledBuffers \in Seq(Buffers) /\ disk \in {"ok", "closed"}
  BY DEF OwnerInv, Owners, Apart, FileInv, Counted
<1>3. CASE disk = "ok"
  <2>1. PICK e \in {0, 1}, top \in Nat :
           /\ Lined(data, filledBuffers, writer, Len(file), e, top)
           /\ e = 1 => thread \in {"drain", "stopWriter"}
           /\ Fresh => data[inProcess] = sent
           /\ "memory" \notin fault => sent = top + IF Fresh THEN 1 ELSE 0
    BY <1>3 DEF FileInv, Ordered
  <2>2. Sound(Lists, Len(file), e, top)
    BY <1>1, <1>2, <1>3, <2>1 DEF Sound
  <2> QED BY <2>1, <2>2
<1>4. CASE disk # "ok"
  <2>1. disk = "closed" /\ (writer.active => writer.done)
    BY <1>2, <1>4 DEF FileInv, Answers
  <2>2. Sound(Lists, Len(file), 0, 0)
    BY <1>1, <1>2, <2>1 DEF Sound
  <2> QED BY <1>4, <2>2
<1> QED BY <1>3, <1>4

\* A step that changes neither the lists nor the file.
LEMMA FileStill ==
  ASSUME OwnerInv, FileInv, UNCHANGED <<data, filledBuffers, inProcess, handler, writer, file, disk, sent>>,
         fault' = fault, pending' => pending,
         thread' = thread \/ (thread = "scheduler" /\ thread' = "waitEnd")
  PROVE  FileInv'
<1>1. Counted' /\ Answers'
  BY DEF FileInv, Counted, Answers
<1>2. Fresh' <=> Fresh
  BY DEF Fresh
<1>3. disk = "ok" => Ordered'
  <2> SUFFICES ASSUME disk = "ok" PROVE Ordered'
    OBVIOUS
  <2>1. PICK e \in {0, 1}, top \in Nat :
           /\ Lined(data, filledBuffers, writer, Len(file), e, top)
           /\ e = 1 => thread \in {"drain", "stopWriter"}
           /\ Fresh => data[inProcess] = sent
           /\ "memory" \notin fault => sent = top + IF Fresh THEN 1 ELSE 0
    BY DEF FileInv, Ordered
  <2>2. Lined(data', filledBuffers', writer', Len(file'), e, top)
    BY <2>1
  <2>3. e = 1 => thread' \in {"drain", "stopWriter"}
    BY <2>1
  <2>4. /\ Fresh' => data'[inProcess'] = sent'
        /\ "memory" \notin fault' => sent' = top + IF Fresh' THEN 1 ELSE 0
    BY <1>2, <2>1
  <2> QED BY <2>2, <2>3, <2>4 DEF Ordered
<1> QED BY <1>1, <1>3 DEF FileInv

\* The driver answers the buffer that it has, with the data x, 0 for none.
LEMMA CompleteStep ==
  ASSUME OwnerInv, FileInv, pending, NEW x,
         (x = sent + 1 /\ sent' = sent + 1) \/ (x = 0 /\ sent' = sent),
         data' = [data EXCEPT ![inProcess] = x], handler' = [handler EXCEPT !.done = TRUE],
         pending' = FALSE,
         UNCHANGED <<filledBuffers, inProcess, writer, file, disk, fault, thread>>
  PROVE  FileInv'
<1>1. /\ Counted /\ Answers /\ Owners /\ Control
  BY DEF OwnerInv, FileInv
<1>2. /\ handler.active /\ ~ handler.done
      /\ thread \notin {"drain", "stopWriter", "starting", "hung"}
  BY <1>1 DEF Answers
<1>3. handler' = [active |-> handler.active, done |-> TRUE]
  BY <1>1 DEF Control
<1>4. handler'.active = handler.active /\ handler'.done
  BY <1>3
<1>5. inProcess # 0 /\ x \in Nat /\ sent' \in Nat
  BY <1>1, <1>2 DEF Control, Counted
<1>6. Answers'
  BY <1>1, <1>2, <1>4 DEF Answers
<1>7. CASE disk # "ok"
  <2>1. disk = "closed" /\ disk' = "closed"
    BY <1>1, <1>7 DEF Counted
  <2>2. data' \in [Buffers -> Nat]
    BY <1>1, <1>5 DEF Counted
  <2> QED BY <1>1, <1>5, <1>6, <2>1, <2>2 DEF FileInv, Counted
<1>8. CASE disk = "ok"
  <2>1. PICK e \in {0, 1}, top \in Nat :
           /\ Lined(data, filledBuffers, writer, Len(file), e, top)
           /\ e = 1 => thread \in {"drain", "stopWriter"}
           /\ Fresh => data[inProcess] = sent
           /\ "memory" \notin fault => sent = top + IF Fresh THEN 1 ELSE 0
    BY <1>8 DEF FileInv, Ordered
  <2>2. thread # "panicked" /\ "memory" \notin fault /\ ~ Fresh
    BY <1>1, <1>2, <1>8 DEF Answers, Fresh
  <2>3. Held = inProcess /\ Apart(freeBuffers, filledBuffers, writer, inProcess)
    BY <1>1, <1>2, <2>2 DEF Held, Owners
  <2>4. /\ inProcess \in Buffers /\ inProcess \notin ToSet(filledBuffers)
        /\ writer.active => inProcess # writer.buf /\ writer.buf \in Buffers
        /\ filledBuffers \in Seq(Buffers)
    BY <1>5, <2>3 DEF Apart
  <2>5. /\ data' \in [Buffers -> Nat] /\ data'[inProcess] = x
        /\ \A y \in Buffers : y # inProcess => data'[y] = data[y]
    BY <1>1, <1>5, <2>4 DEF Counted
  <2>6. \A j \in 1 .. Len(filledBuffers) : data'[filledBuffers[j]] = data[filledBuffers[j]]
    <3>1. DOMAIN filledBuffers = 1 .. Len(filledBuffers)
      BY <2>4
    <3> QED BY <2>4, <2>5, <3>1, ElementOfSeq DEF ToSet
  <2>7. Lined(data', filledBuffers, writer, Len(file), e, top)
    <3> DEFINE c == data'
    <3>1. /\ \A j \in 1 .. Len(filledBuffers) : c[filledBuffers[j]] = data[filledBuffers[j]]
          /\ writer.active => c[writer.buf] = data[writer.buf]
      BY <2>4, <2>5, <2>6
    <3> HIDE DEF c
    <3>2. Lined(c, filledBuffers, writer, Len(file), e, top)
      BY <2>1, <2>4, <3>1, LinedElsewhere
    <3> QED BY <3>2 DEF c
  <2>8. sent = top
    BY <2>1, <2>2
  <2>9. Fresh' <=> x # 0
    BY <1>2, <1>4, <2>5 DEF Fresh
  <2>10. /\ Fresh' => data'[inProcess'] = sent'
         /\ sent' = top + IF Fresh' THEN 1 ELSE 0
    BY <1>1, <2>5, <2>8, <2>9 DEF Counted
  <2>11. Ordered'
    BY <2>1, <2>7, <2>10 DEF Ordered
  <2> QED BY <1>1, <1>5, <1>6, <2>5, <2>11 DEF FileInv, Counted
<1> QED BY <1>7, <1>8

LEMMA WriteDoneStep ==
  ASSUME OwnerInv, FileInv, WriteDone
  PROVE  FileInv'
<1>1. /\ writer.active /\ ~ writer.done /\ writer' = [writer EXCEPT !.done = TRUE]
      /\ \E written \in BOOLEAN : file' = file \o Appended(writer.buf, written)
      /\ UNCHANGED <<pending, sent, data, filledBuffers, inProcess, handler, disk, thread, fault>>
      /\ Counted /\ Answers /\ Owners
  BY DEF WriteDone, OwnerInv, FileInv, source, lists
<1>2. /\ writer' = [active |-> TRUE, done |-> TRUE, buf |-> writer.buf]
      /\ writer.buf \in Buffers /\ filledBuffers \in Seq(Buffers)
  <2>1. /\ writer = [active |-> writer.active, done |-> writer.done, buf |-> writer.buf]
        /\ writer.active \in BOOLEAN
        /\ writer.buf \in Buffers /\ filledBuffers \in Seq(Buffers)
    BY <1>1 DEF Owners, Apart
  <2> QED BY <1>1, <2>1
<1>3. writer'.active /\ writer'.done /\ writer'.buf = writer.buf
  BY <1>2
<1>4. disk = "ok"
  BY <1>1 DEF Answers, Counted
<1>5. PICK e \in {0, 1}, top \in Nat :
           /\ Lined(data, filledBuffers, writer, Len(file), e, top)
           /\ e = 1 => thread \in {"drain", "stopWriter"}
           /\ Fresh => data[inProcess] = sent
           /\ "memory" \notin fault => sent = top + IF Fresh THEN 1 ELSE 0
  BY <1>4 DEF FileInv, Ordered
<1>6. Fresh' <=> Fresh
  BY <1>1 DEF Fresh
<1>7. Answers'
  BY <1>1, <1>3 DEF Answers
<1>8. ~ Under(writer', data) /\ Taken(writer', data) = 0
  BY <1>3 DEF Under, Taken
<1>9. Len(file) \in Nat /\ file \in Seq(Nat)
  BY <1>1 DEF Counted
<1>10. Lined(data, filledBuffers, writer', Len(file'), e, top) /\ Counted'
  <2>1. CASE data[writer.buf] = 0
    <3>1. file' = file /\ ~ Under(writer, data)
      BY <1>1, <1>9, <2>1 DEF Appended, Under
    <3> QED BY <1>1, <1>5, <1>8, <3>1, LinedWriter DEF Counted
  <2>2. CASE data[writer.buf] # 0
    <3>1. Under(writer, data) /\ Taken(writer, data) = 1
      BY <1>1, <2>2 DEF Under, Taken
    <3>2. data[writer.buf] = Len(file) + 1
      BY <1>5, <3>1 DEF Lined
    <3>3. PICK x \in {Len(file) + 1, 0} : file' = file \o <<x>>
      BY <1>1, <2>2, <3>2 DEF Appended
    <3>4. /\ file' \in Seq(Nat) /\ Len(file') = Len(file) + 1
          /\ \A i \in 1 .. Len(file) + 1 : file'[i] = IF i <= Len(file) THEN file[i] ELSE x
      BY <1>9, <3>3
    <3>5. \A i \in 1 .. Len(file') : file'[i] \in {i, 0}
      BY <1>1, <1>9, <3>4 DEF Counted
    <3> DEFINE n == Len(filledBuffers)
               c == Len(file)
    <3>6. n \in Nat
      BY <1>2
    <3>7. /\ e <= n /\ (e = 1 => data[filledBuffers[1]] = 0)
          /\ \A j \in e + 1 .. n : data[filledBuffers[j]] = c + 1 + n - j + 1
          /\ top = c + 1 + n - e
      BY <1>5, <3>1 DEF Lined
    <3> HIDE DEF n, c
    <3>8. /\ \A j \in e + 1 .. n : data[filledBuffers[j]] = (c + 1) + 0 + n - j + 1
          /\ top = (c + 1) + 0 + n - e
      BY <1>9, <3>6, <3>7 DEF c
    <3>9. Lined(data, filledBuffers, writer', c + 1, e, top)
      BY <1>8, <3>7, <3>8 DEF Lined, n
    <3> QED BY <1>1, <3>4, <3>5, <3>9 DEF Counted, c
  <2> QED BY <2>1, <2>2
<1>11. Ordered'
  BY <1>1, <1>5, <1>6, <1>10 DEF Ordered
<1> QED BY <1>7, <1>10, <1>11 DEF FileInv

\* Completions and the messages of the client.
LEMMA OuterFile ==
  ASSUME OwnerInv, FileInv, Environment \/ ClientSends
  PROVE  FileInv'
<1>1. CASE DriverFill
  <2> DEFINE x == sent + 1
  <2>1. /\ pending /\ pending' = FALSE /\ Complete(TRUE)
        /\ UNCHANGED <<filledBuffers, inProcess, writer, file, disk, fault, thread>>
    BY <1>1 DEF DriverFill, Driver!Fill
  <2>2. /\ x = sent + 1 /\ sent' = sent + 1 /\ data' = [data EXCEPT ![inProcess] = x]
        /\ handler' = [handler EXCEPT !.done = TRUE]
    BY <2>1 DEF Complete
  <2> HIDE DEF x
  <2>3. (x = sent + 1 /\ sent' = sent + 1) \/ (x = 0 /\ sent' = sent)
    BY <2>2, Zenon
  <2> QED BY <2>1, <2>2, <2>3, CompleteStep, Zenon
<1>2. CASE DriverFinish
  <2>1. CASE pending
    <3>1. /\ pending' = FALSE /\ Complete(answer' = "data")
          /\ UNCHANGED <<filledBuffers, inProcess, writer, file, disk, fault, thread>>
      BY <1>2, <2>1 DEF DriverFinish, Driver!Finish
    <3>2. CASE answer' = "data"
      <4> DEFINE x == sent + 1
      <4>1. /\ x = sent + 1 /\ sent' = sent + 1 /\ data' = [data EXCEPT ![inProcess] = x]
            /\ handler' = [handler EXCEPT !.done = TRUE]
        BY <3>1, <3>2 DEF Complete
      <4> HIDE DEF x
      <4>2. (x = sent + 1 /\ sent' = sent + 1) \/ (x = 0 /\ sent' = sent)
        BY <4>1, Zenon
      <4> QED BY <2>1, <3>1, <4>1, <4>2, CompleteStep, Zenon
    <3>3. CASE answer' # "data"
      <4>1. /\ sent' = sent /\ data' = [data EXCEPT ![inProcess] = 0]
            /\ handler' = [handler EXCEPT !.done = TRUE]
        BY <3>1, <3>3 DEF Complete
      <4> QED BY <2>1, <3>1, <4>1, CompleteStep
    <3> QED BY <3>2, <3>3
  <2>2. CASE ~ pending
    <3>1. /\ ~ pending' /\ UNCHANGED <<data, filledBuffers, inProcess, handler, writer, file, disk, sent>>
          /\ fault' = fault /\ thread' = thread
      BY <1>2, <2>2 DEF DriverFinish, Driver!Finish
    <3> QED BY <3>1, FileStill
  <2> QED BY <2>1, <2>2
<1>3. CASE DriverAnswer
  <2>1. /\ pending /\ pending' = FALSE /\ Complete(answer' = "data")
        /\ UNCHANGED <<filledBuffers, inProcess, writer, file, disk, fault, thread>>
    BY <1>3 DEF DriverAnswer, Driver!Answer
  <2>2. CASE answer' = "data"
    <3> DEFINE x == sent + 1
    <3>1. /\ x = sent + 1 /\ sent' = sent + 1 /\ data' = [data EXCEPT ![inProcess] = x]
          /\ handler' = [handler EXCEPT !.done = TRUE]
      BY <2>1, <2>2 DEF Complete
    <3> HIDE DEF x
    <3>2. (x = sent + 1 /\ sent' = sent + 1) \/ (x = 0 /\ sent' = sent)
      BY <3>1, Zenon
    <3> QED BY <2>1, <3>1, <3>2, CompleteStep, Zenon
  <2>3. CASE answer' # "data"
    <3>1. /\ sent' = sent /\ data' = [data EXCEPT ![inProcess] = 0]
          /\ handler' = [handler EXCEPT !.done = TRUE]
      BY <2>1, <2>3 DEF Complete
    <3> QED BY <2>1, <3>1, CompleteStep
  <2> QED BY <2>2, <2>3
<1>4. CASE WriteDone
  BY <1>4, WriteDoneStep
<1>5. CASE TimerExpires \/ ClientSends
  <2>1. /\ UNCHANGED <<data, filledBuffers, inProcess, handler, writer, file, disk, sent>>
        /\ fault' = fault /\ thread' = thread /\ pending' = pending
    BY <1>5 DEF TimerExpires, ClientSends, source, lists
  <2> QED BY <2>1, FileStill
<1> QED BY <1>1, <1>2, <1>3, <1>4, <1>5 DEF Environment

\* The lists m are l after buffer b, with the next number or empty, was added.
Passed(m, l, b, len, top) ==
  /\ m.data = l.data /\ (m.disk = "ok" => l.disk = "ok")
  /\ m.filled # <<>> => m.filled[1] = b
  /\ \E g \in {0, 1}, t \in Nat :
       /\ Sound(m, len, g, t)
       /\ m.disk = "ok" => IF l.data[b] = 0 THEN t = top ELSE g = 0 /\ t = top + 1

\* A buffer that holds the next number, or nothing, goes to the writer.
LEMMA PassLined ==
  ASSUME NEW l, NEW len \in Nat, NEW top \in Nat, NEW e \in {0, 1}, Sound(l, len, e, top),
         ~ l.panic, NEW b \in Buffers,
         l.disk = "ok" => e = 0 /\ (l.data[b] = 0 \/ l.data[b] = top + 1),
         NEW full \in BOOLEAN, l.disk = "closed" => ~ full
  PROVE  Passed(NotifyWriter(AddToFilled(l, b), full), l, b, len, top)
<1> DEFINE k == AddToFilled(l, b)
           f == <<b>> \o l.filled
           m == NotifyWriter(k, full)
<1>0. IsLists(l) /\ l.filled \in Seq(Buffers) /\ l.disk \in {"ok", "closed"}
  BY DEF Sound
<1>1. k = [data |-> l.data, free |-> l.free, filled |-> f,
           writer |-> l.writer, disk |-> l.disk, panic |-> l.panic]
  <2>1. k = [l EXCEPT !.filled = f]
    BY DEF AddToFilled
  <2> HIDE DEF f, k
  <2> QED BY <1>0, <2>1 DEF IsLists
<1>2. f \in Seq(Buffers) /\ f[1] = b /\ f # <<>>
  BY <1>0
<1> HIDE DEF f, k
<1>3. /\ k.data = l.data /\ k.filled = f /\ k.writer = l.writer /\ k.disk = l.disk
      /\ k.panic = l.panic /\ IsLists(k)
  BY <1>1 DEF IsLists
<1>4. PICK h \in {0, 1}, t \in Nat :
          /\ Sound(k, len, h, t)
          /\ l.disk = "ok" => IF l.data[b] = 0 THEN t = top ELSE h = 0 /\ t = top + 1
  <2>1. CASE l.disk = "closed"
    <3>1. Sound(k, len, 0, 0)
      BY <1>2, <1>3, <2>1 DEF Sound
    <3> QED BY <2>1, <3>1
  <2>2. CASE l.disk = "ok" /\ l.data[b] = 0
    <3>1. Lined(l.data, l.filled, l.writer, len, 0, top)
      BY <2>2 DEF Sound
    <3>2. Lined(l.data, f, l.writer, len, 1, top)
      BY <1>0, <2>2, <3>1, LinedAddEmpty DEF f
    <3>3. Sound(k, len, 1, top)
      BY <1>2, <1>3, <2>2, <3>2 DEF Sound
    <3> QED BY <2>2, <3>3
  <2>3. CASE l.disk = "ok" /\ l.data[b] # 0
    <3>1. Lined(l.data, l.filled, l.writer, len, 0, top) /\ l.data[b] = top + 1
      BY <2>3 DEF Sound
    <3>2. Lined(l.data, f, l.writer, len, 0, top + 1)
      BY <1>0, <3>1, LinedAdd DEF f
    <3>3. Sound(k, len, 0, top + 1) /\ top + 1 \in Nat
      BY <1>2, <1>3, <2>3, <3>2 DEF Sound
    <3> QED BY <2>3, <3>3
  <2> QED BY <1>0, <2>1, <2>2, <2>3
<1>5. /\ m.data = k.data /\ \E g \in {0, 1} : g <= h /\ Sound(m, len, g, t)
      /\ m.filled # <<>> => m.filled[1] = k.filled[1]
      /\ m.disk = "ok" => k.disk = "ok"
  <2>1. Sound(k, len, h, t)
    BY <1>4
  <2>2. k.disk = "closed" => ~ full
    BY <1>3
  <2>3. Begun(m, k, len, h, t)
    BY <2>1, <2>2, NotifyLined
  <2> HIDE DEF m
  <2> QED BY <2>3 DEF Begun
<1> HIDE DEF m
<1>6. PICK g \in {0, 1} : g <= h /\ Sound(m, len, g, t)
  BY <1>5
<1>7. m.disk = "ok" => IF l.data[b] = 0 THEN t = top ELSE g = 0 /\ t = top + 1
  BY <1>3, <1>4, <1>5, <1>6
<1>8. Passed(m, l, b, len, top)
  BY <1>2, <1>3, <1>5, <1>6, <1>7 DEF Passed
<1> QED BY <1>8 DEF m, k

\* The lists after SetLists.
LEMMA ListsSet ==
  ASSUME NEW m, NEW at, SetLists(m, at), NEW len, NEW e, NEW top, Sound(m, len, e, top), DiskFault
  PROVE  /\ data' = m.data /\ filledBuffers' = m.filled /\ writer' = m.writer /\ disk' = m.disk
         /\ disk' \in {"ok", "closed"} /\ (disk' = "ok" => thread' = at)
         /\ thread' \in {at, "panicked"} /\ (at # "panicked" /\ thread' = "panicked" => disk' = "closed")
         /\ disk' = "closed" => "disk" \in fault' /\ (writer'.active => writer'.done)
         /\ "memory" \in fault' <=> "memory" \in fault
         /\ disk' = "ok" => Lined(data', filledBuffers', writer', len, e, top)
<1>1. /\ data' = m.data /\ filledBuffers' = m.filled /\ writer' = m.writer /\ disk' = m.disk
      /\ thread' = IF m.panic THEN "panicked" ELSE at
  BY DEF SetLists
<1>2. /\ disk' \in {"ok", "closed"} /\ (m.panic => disk' = "closed")
      /\ disk' = "closed" => (writer'.active => writer'.done)
      /\ disk' = "ok" => Lined(data', filledBuffers', writer', len, e, top)
  BY <1>1 DEF Sound
<1>3. fault' = IF disk' = "closed" THEN fault \cup {"disk"} ELSE fault
  BY DEF DiskFault
<1> QED BY <1>1, <1>2, <1>3

LEMMA FullIsBoolean ==
  ASSUME NEW full \in FullDisk
  PROVE  full \in BOOLEAN /\ (disk = "closed" => ~ full)
BY DEF FullDisk

LEMMA ListsFields ==
  /\ Lists.data = data /\ Lists.filled = filledBuffers /\ Lists.writer = writer
  /\ Lists.disk = disk /\ ~ Lists.panic /\ Lists.free = freeBuffers
BY DEF Lists

LEMMA HandlerRunFile ==
  ASSUME OwnerInv, FileInv, HandlerRun
  PROVE  FileInv'
<1>1. /\ thread = "scheduler" /\ handler.active /\ handler.done /\ data[inProcess] # 0
      /\ UNCHANGED <<sent, file>> /\ Counted /\ Answers /\ Owners /\ Control
  BY DEF HandlerRun, Schedule, OwnerInv, FileInv
<1>2. Fresh /\ "memory" \notin fault /\ ~ pending /\ inProcess # 0
  BY <1>1 DEF Fresh, Answers, Control
<1>3. PICK e \in {0, 1}, top \in Nat :
           /\ Sound(Lists, Len(file), e, top)
           /\ disk = "ok" =>
                /\ e = 1 => thread \in {"drain", "stopWriter"}
                /\ Fresh => data[inProcess] = sent
                /\ "memory" \notin fault => sent = top + IF Fresh THEN 1 ELSE 0
  BY ListsSound
<1>4. disk = "ok" => e = 0 /\ sent = top + 1 /\ data[inProcess] = sent
  BY <1>1, <1>2, <1>3
<1>5. CASE /\ Driver!Request
           /\ \E next \in NextFree, full \in FullDisk :
                /\ SetLists(NotifyWriter(AddToFilled(WithoutNextFree(Lists), inProcess), full),
                            "scheduler")
                /\ inProcess' = next
           /\ handler' = Waiting
           /\ DiskFault
  <2>1. PICK next \in NextFree, full \in FullDisk :
          /\ SetLists(NotifyWriter(AddToFilled(WithoutNextFree(Lists), inProcess), full), "scheduler")
          /\ inProcess' = next
    BY <1>5
  <2> DEFINE l == WithoutNextFree(Lists)
             m == NotifyWriter(AddToFilled(l, inProcess), full)
             len == Len(file)
  <2>2. /\ IsLists(l) /\ l.filled = filledBuffers /\ l.writer = writer
        /\ l.data = data /\ l.disk = disk /\ ~ l.panic
    <3> DEFINE k == Lists
               f == IF freeBuffers = <<>> THEN freeBuffers ELSE Tail(freeBuffers)
    <3>1. /\ k = [data |-> data, free |-> freeBuffers, filled |-> filledBuffers,
                  writer |-> writer, disk |-> disk, panic |-> FALSE]
          /\ k.free = freeBuffers
      BY DEF Lists
    <3> HIDE DEF k
    <3>2. WithoutNextFree(k) = [k EXCEPT !.free = f]
      BY <3>1 DEF WithoutNextFree
    <3> HIDE DEF f
    <3>3. WithoutNextFree(k) = [data |-> data, free |-> f, filled |-> filledBuffers,
                                writer |-> writer, disk |-> disk, panic |-> FALSE]
      BY <3>1, <3>2
    <3> QED BY <3>3 DEF k, IsLists
  <2> HIDE DEF l, len
  <2>3. Sound(l, len, e, top)
    BY <1>3, <2>2, ListsFields DEF Sound, len
  <2>4. inProcess \in Buffers /\ len \in Nat
    <3>1. Held = inProcess
      BY <1>1 DEF Held
    <3> QED BY <1>1, <1>2, <3>1 DEF Owners, Apart, Counted, len
  <2>5. l.disk = "ok" => e = 0 /\ (l.data[inProcess] = 0 \/ l.data[inProcess] = top + 1)
    BY <1>4, <2>2
  <2>6. full \in BOOLEAN /\ (l.disk = "closed" => ~ full)
    BY <2>2, FullIsBoolean
  <2>7. /\ m.data = l.data /\ (m.disk = "ok" => l.disk = "ok")
        /\ \E g \in {0, 1}, t \in Nat :
             /\ Sound(m, len, g, t)
             /\ m.disk = "ok" => IF l.data[inProcess] = 0 THEN t = top ELSE g = 0 /\ t = top + 1
    <3>1. ~ l.panic
      BY <2>2
    <3>2. Passed(m, l, inProcess, len, top)
      BY <2>3, <2>4, <2>5, <2>6, <3>1, PassLined
    <3> HIDE DEF m
    <3> QED BY <3>2 DEF Passed
  <2>8. SetLists(m, "scheduler") /\ DiskFault
    BY <1>5, <2>1 DEF l
  <2> HIDE DEF m
  <2>9. PICK g \in {0, 1}, t \in Nat :
             /\ Sound(m, len, g, t)
             /\ m.disk = "ok" => IF l.data[inProcess] = 0 THEN t = top ELSE g = 0 /\ t = top + 1
    BY <2>7
  <2>10. /\ data' = m.data /\ filledBuffers' = m.filled /\ writer' = m.writer /\ disk' = m.disk
         /\ disk' \in {"ok", "closed"} /\ (disk' = "ok" => thread' = "scheduler")
         /\ thread' \in {"scheduler", "panicked"} /\ (thread' = "panicked" => disk' = "closed")
         /\ disk' = "closed" => "disk" \in fault' /\ (writer'.active => writer'.done)
         /\ "memory" \in fault' <=> "memory" \in fault
         /\ disk' = "ok" => Lined(data', filledBuffers', writer', len, g, t)
    BY <2>8, <2>9, ListsSet
  <2>11. handler'.active /\ ~ handler'.done
    BY <1>5 DEF Waiting
  <2>12. Counted'
    BY <1>1, <2>2, <2>7, <2>10 DEF Counted
  <2>13. Answers'
    BY <1>1, <1>2, <2>10, <2>11 DEF Answers
  <2>14. disk' = "ok" => Ordered'
    <3> SUFFICES ASSUME disk' = "ok" PROVE Ordered'
      OBVIOUS
    <3>1. g = 0 /\ sent' = t /\ disk = "ok"
      BY <1>1, <1>4, <2>2, <2>7, <2>9, <2>10
    <3>2. ~ Fresh'
      BY <2>11 DEF Fresh
    <3>3. Lined(data', filledBuffers', writer', Len(file'), g, t)
      BY <1>1, <2>10 DEF len
    <3>4. sent' = t + IF Fresh' THEN 1 ELSE 0
      BY <3>1, <3>2
    <3> QED BY <3>1, <3>2, <3>3, <3>4 DEF Ordered
  <2> QED BY <2>12, <2>13, <2>14 DEF FileInv
<1>6. CASE /\ freeBuffers = <<>> /\ handler' = Inactive /\ fault' = fault \cup {"memory"}
           /\ UNCHANGED <<source, lists, inProcess, writer, disk, thread>>
  <2>1. /\ UNCHANGED <<pending, data, filledBuffers, writer, disk, thread>> /\ ~ handler'.active
        /\ "memory" \in fault' /\ ("disk" \in fault => "disk" \in fault')
    BY <1>6 DEF source, lists, Inactive
  <2>2. Counted' /\ Answers'
    BY <1>1, <1>2, <2>1 DEF Counted, Answers
  <2>3. disk = "ok" => Ordered'
    <3> SUFFICES ASSUME disk = "ok" PROVE Ordered'
      OBVIOUS
    <3>1. ~ Fresh'
      BY <2>1 DEF Fresh
    <3>2. Lined(data', filledBuffers', writer', Len(file'), e, top)
      BY <1>1, <1>3, <2>1, ListsFields DEF Sound
    <3> QED BY <1>4, <2>1, <3>1, <3>2 DEF Ordered
  <2> QED BY <2>1, <2>2, <2>3 DEF FileInv
<1> QED BY <1>5, <1>6 DEF HandlerRun

LEMMA WriterRunFile ==
  ASSUME OwnerInv, FileInv, WriterRun
  PROVE  FileInv'
<1>1. /\ thread = "scheduler" /\ writer.active /\ writer.done
      /\ UNCHANGED <<pending, sent, inProcess, handler, file>> /\ DiskFault
      /\ Counted /\ Answers /\ Owners /\ Control
  BY DEF WriterRun, Schedule, OwnerInv, FileInv, source
<1>2. PICK full \in FullDisk : SetLists(HandleFullBuffers(Lists, full), "scheduler")
  BY DEF WriterRun
<1>3. PICK e \in {0, 1}, top \in Nat :
           /\ Sound(Lists, Len(file), e, top)
           /\ disk = "ok" =>
                /\ e = 1 => thread \in {"drain", "stopWriter"}
                /\ Fresh => data[inProcess] = sent
                /\ "memory" \notin fault => sent = top + IF Fresh THEN 1 ELSE 0
  BY ListsSound
<1> DEFINE l == Lists
           m == HandleFullBuffers(l, full)
           len == Len(file)
<1>4. /\ l.data = data /\ l.filled = filledBuffers /\ l.writer = writer
      /\ l.disk = disk /\ ~ l.panic /\ l.free = freeBuffers
  BY ListsFields
<1>5. Held = inProcess /\ Apart(l.free, l.filled, l.writer, inProcess)
  BY <1>1, <1>4 DEF Held, Owners
<1>6. len \in Nat /\ data \in [Buffers -> Nat]
  BY <1>1 DEF Counted
<1>7. SetLists(m, "scheduler")
  BY <1>2
<1> HIDE DEF l, len
<1>8. Sound(l, len, 0, top)
  <2>1. CASE disk = "ok"
    BY <1>1, <1>3, <2>1 DEF l, len
  <2>2. CASE disk # "ok"
    BY <1>3, <1>4, <2>2 DEF Sound, l, len
  <2> QED BY <2>1, <2>2
<1>9. /\ m.data = [l.data EXCEPT ![l.writer.buf] = 0]
      /\ \E g \in {0, 1} : g <= 0 /\ Sound(m, len, g, top)
      /\ m.disk = "ok" => l.disk = "ok"
  <2>1. full \in BOOLEAN /\ (l.disk = "closed" => ~ full)
    BY <1>4, FullIsBoolean
  <2> QED BY <1>1, <1>4, <1>5, <1>6, <1>8, <2>1, HandleFullLined
<1> HIDE DEF m
<1>10. Sound(m, len, 0, top)
  BY <1>9
<1>11. /\ data' = m.data /\ disk' = m.disk
       /\ disk' \in {"ok", "closed"} /\ (disk' = "ok" => thread' = "scheduler")
       /\ thread' \in {"scheduler", "panicked"} /\ (thread' = "panicked" => disk' = "closed")
       /\ disk' = "closed" => "disk" \in fault' /\ (writer'.active => writer'.done)
       /\ "memory" \in fault' <=> "memory" \in fault
       /\ disk' = "ok" => Lined(data', filledBuffers', writer', len, 0, top)
  <2>1. DiskFault
    BY <1>1
  <2> QED BY <1>7, <1>10, <2>1, ListsSet
<1>12. data' = [data EXCEPT ![writer.buf] = 0]
  BY <1>4, <1>9, <1>11
<1>13. Counted'
  <2>1. writer.buf \in Buffers
    BY <1>1, <1>4, <1>5 DEF Apart
  <2>2. data' \in [Buffers -> Nat]
    BY <1>6, <1>12, <2>1
  <2> QED BY <1>1, <1>11, <2>2 DEF Counted
<1>14. Answers'
  BY <1>1, <1>11 DEF Answers
<1>15. handler.active => data'[inProcess] = data[inProcess]
  <2> SUFFICES ASSUME handler.active PROVE data'[inProcess] = data[inProcess]
    OBVIOUS
  <2>1. inProcess # 0
    BY <1>1 DEF Control
  <2>2. inProcess \in Buffers /\ inProcess # writer.buf
    BY <1>1, <1>4, <1>5, <2>1 DEF Apart
  <2> QED BY <1>6, <1>12, <2>2
<1>16. disk' = "ok" => Ordered'
  <2> SUFFICES ASSUME disk' = "ok" PROVE Ordered'
    OBVIOUS
  <2>1. disk = "ok" /\ thread' = thread
    BY <1>1, <1>4, <1>9, <1>11
  <2>2. (Fresh' <=> Fresh) /\ (Fresh => data'[inProcess] = data[inProcess])
    BY <1>1, <1>15, <2>1 DEF Fresh
  <2>3. Lined(data', filledBuffers', writer', Len(file'), 0, top)
    BY <1>1, <1>11 DEF len
  <2>4. Fresh' => data'[inProcess'] = sent'
    BY <1>1, <1>3, <2>1, <2>2
  <2>5. "memory" \notin fault' => sent' = top + IF Fresh' THEN 1 ELSE 0
    BY <1>1, <1>3, <1>11, <2>1, <2>2
  <2> QED BY <2>3, <2>4, <2>5 DEF Ordered
<1> QED BY <1>13, <1>14, <1>16 DEF FileInv

LEMMA StartSamplingFile ==
  ASSUME OwnerInv, FileInv, StartSampling
  PROVE  FileInv'
<1>1. /\ ~ pending /\ UNCHANGED <<pending, writer>> /\ file' = <<>> /\ disk' = "ok" /\ sent' = 0
      /\ fault' = fault \ {"memory"} /\ data' = [b \in Buffers |-> 0] /\ filledBuffers' = <<>>
      /\ inProcess' = 0 /\ handler' = Inactive /\ thread' = "starting"
      /\ command \in {"start", "startTimed"} /\ Owners /\ Control
  BY DEF StartSampling, Driver!Start, OwnerInv
<1>2. ~ writer.active
  BY <1>1 DEF Control
<1>3. ~ handler'.active /\ "memory" \notin fault'
  BY <1>1 DEF Inactive
<1>4. Counted' /\ Answers'
  BY <1>1, <1>2, <1>3 DEF Counted, Answers
<1>5. ~ Under(writer', data') /\ Taken(writer', data') = 0 /\ ~ Fresh'
  BY <1>1, <1>2, <1>3 DEF Under, Taken, Fresh
<1>6. Lined(data', filledBuffers', writer', Len(file'), 0, 0)
  BY <1>1, <1>5 DEF Lined
<1>7. Ordered'
  BY <1>1, <1>5, <1>6 DEF Ordered
<1> QED BY <1>4, <1>7 DEF FileInv

\* A buffer is asked for while no data is on its way: the thread goes on at
\* "scheduler" or at "waitBuffer".
LEMMA AskFile ==
  ASSUME OwnerInv, FileInv, handler' = Waiting, ~ Fresh, "memory" \notin fault, pending',
         UNCHANGED <<data, filledBuffers, writer, file, disk, sent, fault>>,
         thread # "stopWriter", thread = "drain" => data[inProcess] # 0,
         thread' \in {"scheduler", "waitBuffer"}
  PROVE  FileInv'
<1>1. Counted /\ Answers /\ handler'.active /\ ~ handler'.done /\ filledBuffers \in Seq(Buffers)
  BY DEF FileInv, Waiting, OwnerInv, Owners, Apart
<1>2. Counted' /\ Answers'
  BY <1>1 DEF Counted, Answers
<1>3. ~ Fresh'
  BY <1>1 DEF Fresh
<1>4. disk = "ok" => Ordered'
  <2> SUFFICES ASSUME disk = "ok" PROVE Ordered'
    OBVIOUS
  <2>1. PICK e \in {0, 1}, top \in Nat :
           /\ Lined(data, filledBuffers, writer, Len(file), e, top)
           /\ e = 1 => thread \in {"drain", "stopWriter"}
           /\ Fresh => data[inProcess] = sent
           /\ "memory" \notin fault => sent = top + IF Fresh THEN 1 ELSE 0
    BY DEF FileInv, Ordered
  <2>2. e = 0
    <3> SUFFICES ASSUME e = 1 PROVE FALSE
      OBVIOUS
    <3>1. thread = "drain" /\ data[filledBuffers[1]] = 0 /\ 1 <= Len(filledBuffers)
      BY <2>1 DEF Lined
    <3>2. filledBuffers # <<>>
      BY <1>1, <3>1
    <3> QED BY <1>1, <3>1, <3>2 DEF Answers
  <2>3. sent' = top + IF Fresh' THEN 1 ELSE 0
    BY <1>3, <2>1
  <2>4. Lined(data', filledBuffers', writer', Len(file'), e, top)
    BY <2>1
  <2> QED BY <1>3, <2>2, <2>3, <2>4 DEF Ordered
<1> QED BY <1>2, <1>4 DEF FileInv

\* There is no memory for it: the thread waits for ever, and what was filled before
\* stays in the list.
LEMMA HangFile ==
  ASSUME OwnerInv, FileInv, handler' = Waiting, ~ Fresh, ~ pending',
         fault' = fault \cup {"memory"},
         UNCHANGED <<data, filledBuffers, writer, file, disk, sent>>,
         thread = "drain", data[inProcess] # 0, thread' = "hung"
  PROVE  FileInv'
<1>1. Counted /\ Answers /\ handler'.active /\ ~ handler'.done /\ filledBuffers \in Seq(Buffers)
  BY DEF FileInv, Waiting, OwnerInv, Owners, Apart
<1>2. Counted' /\ Answers'
  BY <1>1 DEF Counted, Answers
<1>3. disk = "ok" => Ordered'
  <2> SUFFICES ASSUME disk = "ok" PROVE Ordered'
    OBVIOUS
  <2>1. PICK e \in {0, 1}, top \in Nat :
           /\ Lined(data, filledBuffers, writer, Len(file), e, top)
           /\ e = 1 => thread \in {"drain", "stopWriter"}
    BY DEF FileInv, Ordered
  <2>2. e = 0
    <3> SUFFICES ASSUME e = 1 PROVE FALSE
      OBVIOUS
    <3>1. data[filledBuffers[1]] = 0 /\ filledBuffers # <<>>
      BY <1>1, <2>1 DEF Lined
    <3> QED BY <1>1, <3>1 DEF Answers
  <2>3. Lined(data', filledBuffers', writer', Len(file'), e, top)
    BY <2>1
  <2>4. ~ Fresh'
    BY <1>1 DEF Fresh
  <2> QED BY <2>2, <2>3, <2>4 DEF Ordered
<1> QED BY <1>2, <1>3 DEF FileInv

LEMMA AskFiles ==
  ASSUME OwnerInv, FileInv, StartReceivingData \/ AskForRest
  PROVE  FileInv'
<1>1. Counted /\ Answers
  BY DEF FileInv
<1>2. CASE StartReceivingData
  <2>1. /\ thread = "starting" /\ handler' = Waiting /\ pending' /\ thread' = "scheduler"
        /\ UNCHANGED <<data, filledBuffers, writer, file, disk, sent, fault>>
    BY <1>2 DEF StartReceivingData, Driver!Request
  <2>2. ~ Fresh /\ "memory" \notin fault
    BY <1>1, <2>1 DEF Answers, Fresh
  <2> QED BY <2>1, <2>2, AskFile
<1>3. CASE AskForRest
  <2>1. /\ thread = "drain" /\ handler' = Waiting /\ data[inProcess] # 0
        /\ UNCHANGED <<data, filledBuffers, writer, file, disk, sent>>
    BY <1>3 DEF AskForRest
  <2>2. ~ Fresh /\ "memory" \notin fault /\ ~ pending
    BY <1>1, <2>1 DEF Answers, Fresh
  <2>3. CASE pending' /\ thread' = "waitBuffer" /\ UNCHANGED fault
    BY <2>1, <2>2, <2>3, AskFile
  <2>4. CASE ~ pending' /\ thread' = "hung" /\ fault' = fault \cup {"memory"}
    BY <2>1, <2>2, <2>4, HangFile
  <2> QED BY <1>3, <2>2, <2>3, <2>4 DEF AskForRest, Driver!Request, source
<1> QED BY <1>2, <1>3

\* The buffer that was answered goes to the writer.
LEMMA PassOnFile ==
  ASSUME OwnerInv, FileInv, PassOn, DiskFault, thread \in {"waitEnd", "waitBuffer"},
         handler.active, handler.done, UNCHANGED <<pending, sent, inProcess, handler, file>>
  PROVE  FileInv'
<1>1. Counted /\ Answers /\ Owners /\ Control
  BY DEF OwnerInv, FileInv
<1>2. "memory" \notin fault /\ ~ pending /\ inProcess # 0 /\ (Fresh <=> data[inProcess] # 0)
  BY <1>1 DEF Fresh, Answers, Control
<1>3. PICK full \in FullDisk : SetLists(NotifyWriter(AddToFilled(Lists, inProcess), full), "drain")
  BY DEF PassOn
<1>4. PICK e \in {0, 1}, top \in Nat :
           /\ Sound(Lists, Len(file), e, top)
           /\ disk = "ok" =>
                /\ e = 1 => thread \in {"drain", "stopWriter"}
                /\ Fresh => data[inProcess] = sent
                /\ "memory" \notin fault => sent = top + IF Fresh THEN 1 ELSE 0
  BY ListsSound
<1> DEFINE l == Lists
           m == NotifyWriter(AddToFilled(l, inProcess), full)
           len == Len(file)
<1>5. /\ l.data = data /\ l.disk = disk /\ ~ l.panic
  BY ListsFields
<1>6. SetLists(m, "drain")
  BY <1>3
<1>7. inProcess \in Buffers /\ len \in Nat
  <2>1. Held = inProcess
    BY DEF Held
  <2> QED BY <1>1, <1>2, <2>1 DEF Owners, Apart, Counted
<1> HIDE DEF l, len
<1>8. disk = "ok" => e = 0 /\ sent = top + IF Fresh THEN 1 ELSE 0
  BY <1>2, <1>4
<1>9. l.disk = "ok" => e = 0 /\ (l.data[inProcess] = 0 \/ l.data[inProcess] = top + 1)
  BY <1>2, <1>4, <1>5, <1>8
<1>10. /\ m.data = l.data /\ (m.disk = "ok" => l.disk = "ok")
       /\ m.filled # <<>> => m.filled[1] = inProcess
       /\ \E g \in {0, 1}, t \in Nat :
             /\ Sound(m, len, g, t)
             /\ m.disk = "ok" => IF l.data[inProcess] = 0 THEN t = top ELSE g = 0 /\ t = top + 1
  <2>1. full \in BOOLEAN /\ (l.disk = "closed" => ~ full)
    BY <1>5, FullIsBoolean
  <2>2. Sound(l, len, e, top)
    BY <1>4 DEF l, len
  <2>3. ~ l.panic
    BY <1>5
  <2>4. Passed(m, l, inProcess, len, top)
    BY <1>7, <1>9, <2>1, <2>2, <2>3, PassLined
  <2> HIDE DEF m
  <2> QED BY <2>4 DEF Passed
<1> HIDE DEF m
<1>11. PICK g \in {0, 1}, t \in Nat :
             /\ Sound(m, len, g, t)
             /\ m.disk = "ok" => IF l.data[inProcess] = 0 THEN t = top ELSE g = 0 /\ t = top + 1
  BY <1>10
<1>12. /\ data' = m.data /\ filledBuffers' = m.filled /\ disk' = m.disk
       /\ disk' \in {"ok", "closed"} /\ (disk' = "ok" => thread' = "drain")
       /\ thread' \in {"drain", "panicked"} /\ (thread' = "panicked" => disk' = "closed")
       /\ disk' = "closed" => "disk" \in fault' /\ (writer'.active => writer'.done)
       /\ "memory" \in fault' <=> "memory" \in fault
       /\ disk' = "ok" => Lined(data', filledBuffers', writer', len, g, t)
  BY <1>6, <1>11, ListsSet
<1>13. Counted'
  BY <1>1, <1>5, <1>10, <1>12 DEF Counted
<1>14. Answers'
  BY <1>1, <1>2, <1>10, <1>12 DEF Answers
<1>15. disk' = "ok" => Ordered'
  <2> SUFFICES ASSUME disk' = "ok" PROVE Ordered'
    OBVIOUS
  <2>1. thread' = "drain" /\ ~ Fresh' /\ disk = "ok"
    BY <1>5, <1>10, <1>12 DEF Fresh
  <2>2. sent' = t + IF Fresh' THEN 1 ELSE 0
    BY <1>2, <1>5, <1>8, <1>11, <1>12, <2>1
  <2>3. Lined(data', filledBuffers', writer', Len(file'), g, t)
    BY <1>12 DEF len
  <2> QED BY <2>1, <2>2, <2>3 DEF Ordered
<1> QED BY <1>13, <1>14, <1>15 DEF FileInv

LEMMA EndDoneFile ==
  ASSUME OwnerInv, FileInv, EndDone
  PROVE  FileInv'
<1>1. /\ thread = "waitEnd" /\ DiskFault /\ UNCHANGED <<pending, sent, inProcess, handler, file>>
      /\ Counted /\ Answers
  BY DEF EndDone, FileInv, source
<1>2. CASE handler.active /\ handler.done
  <2>1. PassOn
    BY <1>2 DEF EndDone
  <2> QED BY <1>1, <1>2, <2>1, PassOnFile
<1>3. CASE ~ (handler.active /\ handler.done)
  <2>1. /\ thread' = (IF handler.active THEN "waitBuffer" ELSE "stopWriter")
        /\ UNCHANGED <<data, filledBuffers, writer, disk>>
    BY <1>3 DEF EndDone, lists
  <2>2. fault' = fault
    BY <1>1, <2>1 DEF DiskFault, Answers
  <2>3. Counted' /\ Answers'
    BY <1>1, <2>1, <2>2 DEF Counted, Answers
  <2>4. ~ Fresh /\ ~ Fresh'
    BY <1>1, <1>3 DEF Fresh
  <2>5. disk = "ok" => Ordered'
    <3> SUFFICES ASSUME disk = "ok" PROVE Ordered'
      OBVIOUS
    <3>1. PICK e \in {0, 1}, top \in Nat :
           /\ Lined(data, filledBuffers, writer, Len(file), e, top)
           /\ e = 1 => thread \in {"drain", "stopWriter"}
           /\ Fresh => data[inProcess] = sent
           /\ "memory" \notin fault => sent = top + IF Fresh THEN 1 ELSE 0
      BY DEF FileInv, Ordered
    <3>2. Lined(data', filledBuffers', writer', Len(file'), e, top) /\ e = 0
      BY <1>1, <2>1, <3>1
    <3>3. "memory" \notin fault' => sent' = top + IF Fresh' THEN 1 ELSE 0
      BY <1>1, <2>2, <2>4, <3>1
    <3> QED BY <2>4, <3>2, <3>3 DEF Ordered
  <2> QED BY <2>1, <2>3, <2>5 DEF FileInv
<1> QED BY <1>2, <1>3

LEMMA RestFile ==
  ASSUME OwnerInv, FileInv, TakeRest \/ HandlerCancelled \/ StopSampling
  PROVE  FileInv'
<1>1. Counted /\ Answers
  BY DEF FileInv
<1>2. CASE TakeRest
  <2>1. /\ thread = "waitBuffer" /\ handler.done /\ PassOn /\ DiskFault
        /\ UNCHANGED <<pending, sent, inProcess, handler, file>>
    BY <1>2 DEF TakeRest, source
  <2>2. handler.active
    BY <1>1, <2>1 DEF Answers
  <2> QED BY <2>1, <2>2, PassOnFile
<1>3. CASE HandlerCancelled
  <2>1. /\ thread = "drain" /\ thread' = "stopWriter" /\ handler' = Inactive
        /\ UNCHANGED <<pending, sent, data, filledBuffers, writer, file, disk, fault>>
    BY <1>3 DEF HandlerCancelled, source, lists
  <2>2. ~ handler'.active /\ ~ Fresh /\ ~ Fresh' /\ ~ pending /\ "memory" \notin fault
    BY <1>1, <2>1 DEF Inactive, Fresh, Answers
  <2>3. Counted' /\ Answers'
    BY <1>1, <2>1, <2>2 DEF Counted, Answers
  <2>4. disk = "ok" => Ordered'
    <3> SUFFICES ASSUME disk = "ok" PROVE Ordered'
      OBVIOUS
    <3>1. PICK e \in {0, 1}, top \in Nat :
           /\ Lined(data, filledBuffers, writer, Len(file), e, top)
           /\ e = 1 => thread \in {"drain", "stopWriter"}
           /\ Fresh => data[inProcess] = sent
           /\ "memory" \notin fault => sent = top + IF Fresh THEN 1 ELSE 0
      BY DEF FileInv, Ordered
    <3>2. Lined(data', filledBuffers', writer', Len(file'), e, top)
      BY <2>1, <3>1
    <3>3. sent' = top + IF Fresh' THEN 1 ELSE 0
      BY <2>1, <2>2, <3>1
    <3> QED BY <2>1, <2>2, <3>2, <3>3 DEF Ordered
  <2> QED BY <2>1, <2>3, <2>4 DEF FileInv
<1>4. CASE StopSampling
  <2>1. /\ UNCHANGED <<data, filledBuffers, inProcess, handler, writer, file, disk, sent>>
        /\ fault' = fault /\ pending' = pending
        /\ thread = "scheduler" /\ thread' \in {thread, "waitEnd"}
    BY <1>4 DEF StopSampling, Schedule, Driver!Stop, source, lists
  <2> QED BY <2>1, FileStill
<1> QED BY <1>2, <1>3, <1>4

\* The filled buffers from the last to the first, but for an empty first one.
LEMMA ToWriteLined ==
  ASSUME filledBuffers \in Seq(Buffers), NEW w, NEW len \in Nat, NEW e \in {0, 1}, NEW top \in Nat,
         Lined(data, filledBuffers, w, len, e, top), ~ Under(w, data)
  PROVE  /\ ToWrite \in Seq(Nat) /\ Len(ToWrite) = top - len /\ top - len \in Nat
         /\ \A k \in 1 .. top - len : ToWrite[k] = len + k
<1> DEFINE n == Len(filledBuffers)
           full == {i \in DOMAIN filledBuffers : data[filledBuffers[i]] # 0}
           kth(k) == CHOOSE i \in full : Cardinality({j \in full : i <= j}) = k
           c == top - len
<1>1. n \in Nat /\ DOMAIN filledBuffers = 1 .. n
  OBVIOUS
<1>2. /\ e <= n /\ (e = 1 => data[filledBuffers[1]] = 0)
      /\ \A j \in e + 1 .. n : data[filledBuffers[j]] = len + n - j + 1
      /\ c = n - e /\ c \in Nat
  BY <1>1 DEF Lined, Taken
<1>3. full = e + 1 .. n
  <2>1. ASSUME NEW i \in 1 .. n PROVE data[filledBuffers[i]] # 0 <=> i \in e + 1 .. n
    <3>1. CASE i \in e + 1 .. n
      <4>1. data[filledBuffers[i]] = len + n - i + 1
        BY <1>2, <3>1
      <4>2. len + n - i + 1 # 0
        BY <1>1
      <4> QED BY <3>1, <4>1, <4>2
    <3>2. CASE i \notin e + 1 .. n
      <4>1. e = 1 /\ i = 1
        BY <1>1, <3>2
      <4> QED BY <1>2, <3>2, <4>1
    <3> QED BY <3>1, <3>2
  <2>2. \A i \in e + 1 .. n : i \in 1 .. n
    BY <1>1
  <2> QED BY <1>1, <2>1, <2>2
<1> HIDE DEF full
<1>4. Cardinality(full) = c
  <2> DEFINE a == e + 1
  <2>1. a \in Int /\ n \in Int
    BY <1>1
  <2> HIDE DEF a, n
  <2>2. Cardinality(a .. n) = IF a > n THEN 0 ELSE n - a + 1
    BY <2>1, FS_Interval
  <2>3. Cardinality(full) = IF a > n THEN 0 ELSE n - a + 1
    BY <1>3, <2>2 DEF a
  <2> QED BY <1>2, <2>1, <2>3 DEF a
<1>5. ASSUME NEW i \in e + 1 .. n
      PROVE  Cardinality({j \in full : i <= j}) = n - i + 1
  <2>1. {j \in full : i <= j} = i .. n
    <3>1. \A j \in e + 1 .. n : i <= j <=> j \in i .. n
      BY <1>1
    <3>2. \A j \in i .. n : j \in e + 1 .. n
      BY <1>1
    <3> QED BY <1>3, <3>1, <3>2
  <2>2. i \in Int /\ n \in Int /\ ~ (i > n)
    BY <1>1
  <2> HIDE DEF n
  <2>3. Cardinality(i .. n) = IF i > n THEN 0 ELSE n - i + 1
    BY <2>2, FS_Interval
  <2> QED BY <2>1, <2>2, <2>3
<1>6. ASSUME NEW k \in 1 .. c PROVE kth(k) = n - k + 1 /\ kth(k) \in e + 1 .. n
  <2> DEFINE i == n - k + 1
             P(x) == Cardinality({j \in full : x <= j}) = k
  <2>1. i \in e + 1 .. n /\ n - i + 1 = k
    BY <1>1, <1>2
  <2>2. i \in full /\ P(i)
    BY <1>3, <1>5, <2>1
  <2>3. kth(k) = CHOOSE x \in full : P(x)
    OBVIOUS
  <2> HIDE DEF P, i, kth
  <2>4. kth(k) \in full /\ P(kth(k))
    BY <2>2, <2>3, Zenon
  <2> DEFINE x == kth(k)
  <2> HIDE DEF x
  <2>5. x \in e + 1 .. n /\ P(x)
    BY <1>3, <2>4 DEF x
  <2>6. n - x + 1 = k
    BY <1>5, <2>5 DEF P
  <2>7. x = n - k + 1
    BY <1>1, <2>5, <2>6
  <2> QED BY <2>5, <2>7 DEF x
<1> HIDE DEF kth
<1>7. ToWrite = [k \in 1 .. c |-> data[filledBuffers[kth(k)]]]
  BY <1>4 DEF ToWrite, full, kth
<1>8. ASSUME NEW k \in 1 .. c PROVE data[filledBuffers[kth(k)]] = len + k
  <2>1. data[filledBuffers[kth(k)]] = len + n - kth(k) + 1
    BY <1>2, <1>6
  <2> QED BY <1>1, <1>2, <1>6, <2>1
<1>9. \A k \in 1 .. c : len + k \in Nat
  BY <1>2
<1> HIDE DEF c
<1>10. ToWrite \in [1 .. c -> Nat]
  BY <1>7, <1>8, <1>9
<1>11. ToWrite \in Seq(Nat) /\ Len(ToWrite) = c
  BY <1>2, <1>10, FunctionIsSeq
<1>12. \A k \in 1 .. c : ToWrite[k] = len + k
  BY <1>7, <1>8
<1> QED BY <1>2, <1>11, <1>12 DEF c

\* The list of what is to be written is a sequence whatever the buffers hold.
LEMMA ToWriteIsSeq ==
  ASSUME filledBuffers \in Seq(Buffers)
  PROVE  \E S : ToWrite \in Seq(S)
<1> DEFINE full == {i \in DOMAIN filledBuffers : data[filledBuffers[i]] # 0}
           c == Cardinality(full)
           S == {ToWrite[k] : k \in 1 .. c}
           n == Len(filledBuffers)
<1>1. c \in Nat
  <2>1. n \in Nat /\ DOMAIN filledBuffers = 1 .. n
    OBVIOUS
  <2>2. IsFiniteSet(1 .. n) /\ full \subseteq 1 .. n
    BY <2>1, FS_Interval
  <2> HIDE DEF full
  <2>3. IsFiniteSet(full)
    BY <2>2, FS_Subset
  <2> QED BY <2>3, FS_CardinalityType
<1>2. ToWrite = [k \in 1 .. c |-> ToWrite[k]]
  BY DEF ToWrite
<1> HIDE DEF c
<1>3. ToWrite \in [1 .. c -> S]
  BY <1>2
<1> HIDE DEF S
<1> QED BY <1>1, <1>3, FunctionIsSeq

LEMMA StopWriterFile ==
  ASSUME OwnerInv, FileInv, StopWriter
  PROVE  FileInv'
<1> DEFINE room == IF disk = "closed" THEN {0} ELSE 0 .. Len(ToWrite)
<1>1. /\ thread = "stopWriter" /\ (writer.active => writer.done)
      /\ writer' = [writer EXCEPT !.active = FALSE, !.done = FALSE]
      /\ filledBuffers' = <<>> /\ DiskFault
      /\ data' = [b \in Buffers |-> IF b \in Range(filledBuffers) THEN 0 ELSE data[b]]
      /\ UNCHANGED <<pending, sent, inProcess, handler>>
      /\ Counted /\ Answers /\ Owners /\ Control
  BY DEF StopWriter, OwnerInv, FileInv, source
<1>2. PICK written \in room :
         /\ file' = file \o SubSeq(ToWrite, 1, written)
         /\ disk' = IF written = Len(ToWrite) THEN disk ELSE "closed"
         /\ IF written + 1 < Len(ToWrite) \/ (disk = "closed" /\ ToWrite # <<>>)
            THEN thread' = "panicked" /\ UNCHANGED iState
            ELSE thread' = "scheduler" /\ iState' = "idle"
  BY DEF StopWriter
<1>3. /\ filledBuffers \in Seq(Buffers) /\ ~ handler.active
      /\ ~ writer'.active /\ disk \in {"ok", "closed"}
  <2>1. writer = [active |-> writer.active, done |-> writer.done, buf |-> writer.buf]
    BY <1>1 DEF Owners, Apart
  <2>2. writer' = [active |-> FALSE, done |-> FALSE, buf |-> writer.buf]
    BY <1>1, <2>1
  <2> QED BY <1>1, <2>2 DEF Owners, Apart, Control, Counted
<1>4. data' \in [Buffers -> Nat]
  BY <1>1 DEF Counted
<1>5. fault' = IF disk' = "closed" THEN fault \cup {"disk"} ELSE fault
  BY <1>1 DEF DiskFault
<1>6. ~ Fresh /\ ~ Fresh' /\ ~ Under(writer, data) /\ ~ Under(writer', data') /\ Taken(writer', data') = 0
  BY <1>1, <1>3 DEF Fresh, Under, Taken
<1>7. (thread' = "panicked" => disk' = "closed") /\ thread' \in {"panicked", "scheduler"}
  <2>1. Len(ToWrite) \in Nat
    <3>1. PICK S : ToWrite \in Seq(S)
      BY <1>3, ToWriteIsSeq
    <3> QED BY <3>1
  <2>2. written \in Nat
    BY <2>1, <1>2
  <2>3. disk = "closed" => disk' = "closed"
    BY <1>2
  <2>4. written + 1 < Len(ToWrite) => disk' = "closed"
    BY <1>2, <2>1, <2>2
  <2> QED BY <1>2, <2>3, <2>4
<1>8. Answers'
  BY <1>1, <1>3, <1>5, <1>7 DEF Answers
<1>9. CASE disk = "closed"
  <2>1. written = 0 /\ disk' = "closed"
    BY <1>2, <1>9
  <2>2. PICK S : ToWrite \in Seq(S)
    BY <1>3, ToWriteIsSeq
  <2>3. SubSeq(ToWrite, 1, 0) = <<>>
    BY <2>2
  <2>4. file' = file
    <3>1. file' = file \o <<>>
      BY <1>2, <2>1, <2>3
    <3> QED BY <1>1, <3>1 DEF Counted
  <2>5. Counted'
    BY <1>1, <1>4, <2>1, <2>4 DEF Counted
  <2> QED BY <1>8, <2>1, <2>5 DEF FileInv
<1>10. CASE disk = "ok"
  <2> DEFINE len == Len(file)
  <2>1. PICK e \in {0, 1}, top \in Nat :
           /\ Lined(data, filledBuffers, writer, len, e, top)
           /\ e = 1 => thread \in {"drain", "stopWriter"}
           /\ Fresh => data[inProcess] = sent
           /\ "memory" \notin fault => sent = top + IF Fresh THEN 1 ELSE 0
    BY <1>10 DEF FileInv, Ordered
  <2>2. len \in Nat /\ file \in Seq(Nat) /\ \A i \in 1 .. len : file[i] \in {i, 0}
    BY <1>1 DEF Counted
  <2> DEFINE c == top - len
             all == SubSeq(ToWrite, 1, written)
  <2>3. /\ ToWrite \in Seq(Nat) /\ Len(ToWrite) = c /\ c \in Nat
        /\ \A k \in 1 .. c : ToWrite[k] = len + k
    BY <1>3, <1>6, <2>1, <2>2, ToWriteLined
  <2>4. written \in 0 .. c
    BY <1>2, <1>10, <2>3
  <2> HIDE DEF c
  <2>5. /\ all \in Seq(Nat) /\ Len(all) = written
        /\ \A k \in 1 .. written : all[k] = len + k
    <3>1. all \in Seq(Nat) /\ Len(all) = written /\ \A k \in 1 .. written : all[k] = ToWrite[k]
      BY <2>3, <2>4
    <3>2. \A k \in 1 .. written : k \in 1 .. c
      BY <2>3, <2>4
    <3> QED BY <2>3, <3>1, <3>2
  <2>6. file' = file \o all
    BY <1>2
  <2> HIDE DEF all, len
  <2>7. /\ file' \in Seq(Nat) /\ Len(file') = len + written
        /\ \A i \in 1 .. len + written : file'[i] = IF i <= len THEN file[i] ELSE all[i - len]
    BY <2>2, <2>5, <2>6, ConcatProperties DEF len
  <2>8. \A i \in 1 .. len + written : file'[i] \in {i, 0}
    <3> SUFFICES ASSUME NEW i \in 1 .. len + written PROVE file'[i] \in {i, 0}
      OBVIOUS
    <3>1. CASE i <= len
      <4>1. i \in 1 .. len /\ file'[i] = file[i]
        BY <2>2, <2>4, <2>7, <3>1
      <4> QED BY <2>2, <4>1
    <3>2. CASE ~ (i <= len)
      <4>1. i - len \in 1 .. written /\ file'[i] = all[i - len]
        BY <2>2, <2>4, <2>7, <3>2
      <4>2. file'[i] = len + (i - len)
        BY <2>5, <4>1
      <4> QED BY <2>2, <4>2
    <3> QED BY <3>1, <3>2
  <2>9. Counted'
    BY <1>1, <1>2, <1>4, <1>10, <2>7, <2>8 DEF Counted
  <2>10. disk' = "ok" => Ordered'
    <3> SUFFICES ASSUME disk' = "ok" PROVE Ordered'
      OBVIOUS
    <3>1. written = c
      BY <1>2, <2>3
    <3>2. Len(file') = top
      BY <2>2, <2>7, <3>1 DEF c
    <3>3. Lined(data', filledBuffers', writer', Len(file'), 0, top)
      BY <1>1, <1>6, <3>2 DEF Lined
    <3>4. "memory" \notin fault' => sent' = top + IF Fresh' THEN 1 ELSE 0
      BY <1>1, <1>5, <1>6, <2>1
    <3> QED BY <1>6, <3>3, <3>4 DEF Ordered
  <2> QED BY <1>8, <2>9, <2>10 DEF FileInv
<1> QED BY <1>3, <1>9, <1>10

-----------------------------------------------------------------------------
LEMMA InitFile ==
  ASSUME Init
  PROVE  FileInv
<1>1. /\ ~ pending /\ file = <<>> /\ disk = "ok" /\ sent = 0 /\ fault = {}
      /\ data = [b \in Buffers |-> 0] /\ filledBuffers = <<>> /\ thread = "scheduler"
      /\ handler = Inactive /\ writer = [active |-> FALSE, done |-> FALSE, buf |-> 0]
  BY DEF Init, Driver!SourceInit
<1>2. ~ handler.active /\ ~ writer.active
  BY <1>1 DEF Inactive
<1>3. Counted /\ Answers
  BY <1>1, <1>2 DEF Counted, Answers
<1>4. ~ Under(writer, data) /\ Taken(writer, data) = 0 /\ ~ Fresh
  BY <1>2 DEF Under, Taken, Fresh
<1>5. Lined(data, filledBuffers, writer, Len(file), 0, 0)
  BY <1>1, <1>4 DEF Lined
<1>6. Ordered
  BY <1>1, <1>4, <1>5 DEF Ordered
<1> QED BY <1>3, <1>6 DEF FileInv

LEMMA FileStep ==
  ASSUME OwnerInv, FileInv, [Next]_vars
  PROVE  FileInv'
<1>1. CASE UNCHANGED vars
  <2>1. /\ UNCHANGED <<data, filledBuffers, inProcess, handler, writer, file, disk, sent>>
        /\ fault' = fault /\ pending' = pending /\ thread' = thread
    BY <1>1 DEF vars, lists, source
  <2> QED BY <2>1, FileStill
<1>2. CASE Environment \/ ClientSends
  BY <1>2, OuterFile
<1>3. CASE EngineThread
  BY <1>3, HandlerRunFile, WriterRunFile, StartSamplingFile, AskFiles, EndDoneFile, RestFile,
     StopWriterFile DEF EngineThread
<1> QED BY <1>1, <1>2, <1>3 DEF Next

\* An engine that is idle has no buffer left to write.
LEMMA FileWhole ==
  ASSUME OwnerInv, FileInv
  PROVE  FileIsComplete
<1>1. file \in Seq(Nat) /\ \A i \in 1 .. Len(file) : file[i] \in {i, 0}
  BY DEF FileInv, Counted
<1>2. \A i \in DOMAIN file : file[i] \in {i, 0}
  BY <1>1
<1>3. ASSUME iState = "idle", fault = {} PROVE Len(file) = sent
  <2>1. ~ handler.active /\ ~ writer.active /\ filledBuffers = <<>>
    BY <1>3 DEF OwnerInv, Control
  <2>2. disk = "ok"
    BY <1>3 DEF FileInv, Answers, Counted
  <2>3. ~ Fresh /\ Taken(writer, data) = 0
    BY <2>1 DEF Fresh, Under, Taken
  <2>4. PICK e \in {0, 1}, top \in Nat :
           /\ Lined(data, filledBuffers, writer, Len(file), e, top)
           /\ e = 1 => thread \in {"drain", "stopWriter"}
           /\ Fresh => data[inProcess] = sent
           /\ "memory" \notin fault => sent = top + IF Fresh THEN 1 ELSE 0
    BY <2>2 DEF FileInv, Ordered
  <2>5. sent = top /\ e <= 0 /\ top = Len(file) + 0 + 0 - e
    BY <1>3, <2>1, <2>3, <2>4 DEF Lined
  <2> QED BY <1>1, <2>5
<1> QED BY <1>2, <1>3 DEF FileIsComplete

\* The buffers that the driver filled reach the file of the profiler in the order in
\* which they were filled, none doubled and none left out, and all of them when the
\* session has ended, unless memory or disk space ran out.  CDiskWriterHandler does
\* not look at the status of its writes, so what the file lacks in the end are
\* exactly the buffers whose own write failed.
THEOREM FileAlwaysComplete == Spec => []FileIsComplete
<1>1. Init => OwnerInv /\ FileInv
  BY InitOwners, InitFile
<1>2. OwnerInv /\ FileInv /\ [Next]_vars => OwnerInv' /\ FileInv'
  BY OwnersStep, FileStep
<1>3. OwnerInv /\ FileInv => FileIsComplete
  BY FileWhole
<1> QED BY <1>1, <1>2, <1>3, PTL DEF Spec
=============================================================================
