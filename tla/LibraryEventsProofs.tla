------------------------ MODULE LibraryEventsProofs ------------------------
(***************************************************************************)
(* The driver of AnalyzeTool and the active object that serves its events  *)
(* never disagree about the request between them, the main allocator       *)
(* outlives every thread its table can know of, and its tables lag behind  *)
(* the process only by the events on their way, for any number of threads, *)
(* libraries and events.                                                   *)
(***************************************************************************)
EXTENDS LibraryEvents, SequenceTheorems, FiniteSetTheorems, TLAPS

-----------------------------------------------------------------------------
(* Sequences and sets.                                                     *)

\* No element is in the sequence twice.
NoRepeats(s) == \A i, j \in 1 .. Len(s) : s[i] = s[j] => i = j

\* The elements of a sequence.
LEMMA ElementsOfSeq ==
    ASSUME NEW S, NEW s \in Seq(S)
    PROVE  /\ ToSet(s) \subseteq S
           /\ \A e : e \in ToSet(s) <=> \E i \in 1 .. Len(s) : s[i] = e
BY DEF ToSet

\* Appending an element adds it to the elements.
LEMMA ElementsAfterAppend ==
    ASSUME NEW S, NEW s \in Seq(S), NEW e \in S
    PROVE  Append(s, e) \in Seq(S) /\ ToSet(Append(s, e)) = ToSet(s) \cup {e}
<1>1. /\ Append(s, e) \in Seq(S) /\ Len(Append(s, e)) = Len(s) + 1 /\ Len(s) \in Nat
      /\ \A i \in 1 .. Len(s) : Append(s, e)[i] = s[i]
      /\ Append(s, e)[Len(s) + 1] = e
  BY AppendProperties
<1>2. DOMAIN Append(s, e) = 1 .. Len(s) + 1 /\ DOMAIN s = 1 .. Len(s)
  BY <1>1
<1>3. \A x : x \in ToSet(Append(s, e)) <=> x \in ToSet(s) \/ x = e
  BY <1>1, <1>2 DEF ToSet
<1> QED BY <1>1, <1>3

\* And so does putting it in front.
LEMMA ElementsAfterPrepend ==
    ASSUME NEW S, NEW s \in Seq(S), NEW e \in S
    PROVE  <<e>> \o s \in Seq(S) /\ ToSet(<<e>> \o s) = ToSet(s) \cup {e}
<1> DEFINE r == <<e>> \o s
<1>1. <<e>> \in Seq(S) /\ Len(<<e>>) = 1 /\ <<e>>[1] = e /\ Len(s) \in Nat
  OBVIOUS
<1>2. /\ r \in Seq(S) /\ Len(r) = Len(s) + 1
      /\ \A i \in 1 .. Len(s) + 1 : r[i] = IF i <= 1 THEN <<e>>[i] ELSE s[i - 1]
  BY <1>1, ConcatProperties
<1> HIDE DEF r
<1>3. r[1] = e /\ \A i \in 1 .. Len(s) : r[i + 1] = s[i]
  BY <1>1, <1>2
<1>4. DOMAIN r = 1 .. Len(s) + 1 /\ DOMAIN s = 1 .. Len(s)
  BY <1>2
<1>5. ASSUME NEW x \in ToSet(r) PROVE x \in ToSet(s) \/ x = e
  <2>1. PICK i \in 1 .. Len(s) + 1 : r[i] = x
    BY <1>4 DEF ToSet
  <2>2. CASE i = 1
    BY <1>3, <2>1, <2>2
  <2>3. CASE i # 1
    <3>1. i - 1 \in 1 .. Len(s) /\ (i - 1) + 1 = i
      BY <1>1, <2>3
    <3> QED BY <1>3, <1>4, <2>1, <3>1 DEF ToSet
  <2> QED BY <2>2, <2>3
<1>6. ASSUME NEW x, x \in ToSet(s) \/ x = e PROVE x \in ToSet(r)
  <2>1. CASE x = e
    BY <1>1, <1>3, <1>4, <2>1 DEF ToSet
  <2>2. CASE x \in ToSet(s)
    <3>1. PICK i \in 1 .. Len(s) : s[i] = x
      BY <1>4, <2>2 DEF ToSet
    <3>2. i + 1 \in 1 .. Len(s) + 1 /\ r[i + 1] = x
      BY <1>1, <1>3, <3>1
    <3> QED BY <1>4, <3>2 DEF ToSet
  <2> QED BY <1>6, <2>1, <2>2
<1>7. ToSet(r) = ToSet(s) \cup {e}
  BY <1>5, <1>6
<1> QED BY <1>2, <1>7 DEF r

\* The head and the tail of a sequence are elements of it.
LEMMA ElementsOfTail ==
    ASSUME NEW S, NEW s \in Seq(S), s # <<>>
    PROVE  /\ Head(s) \in ToSet(s) /\ Head(s) \in S
           /\ Tail(s) \in Seq(S) /\ ToSet(Tail(s)) \subseteq ToSet(s)
<1>1. /\ Head(s) \in S /\ Tail(s) \in Seq(S) /\ Len(Tail(s)) = Len(s) - 1
      /\ \A i \in 1 .. Len(Tail(s)) : Tail(s)[i] = s[i + 1]
  BY HeadTailProperties
<1>2. Len(s) \in Nat \ {0} /\ Head(s) = s[1] /\ DOMAIN s = 1 .. Len(s)
  BY EmptySeq
<1>3. DOMAIN Tail(s) = 1 .. Len(s) - 1
  BY <1>1
<1>4. \A i \in 1 .. Len(s) - 1 : i + 1 \in 1 .. Len(s)
  BY <1>2
<1> QED BY <1>1, <1>2, <1>3, <1>4 DEF ToSet

\* RemoveAt closes the gap and leaves everything else in its order.
LEMMA RemoveAtIndex ==
    ASSUME NEW S, NEW s \in Seq(S), NEW i \in 1 .. Len(s)
    PROVE  /\ RemoveAt(s, i) \in Seq(S)
           /\ DOMAIN RemoveAt(s, i) = 1 .. Len(s) - 1
           /\ \A m \in 1 .. Len(s) - 1 :
                RemoveAt(s, i)[m] = s[IF m < i THEN m ELSE m + 1]
<1> DEFINE a == SubSeq(s, 1, i - 1)
           b == SubSeq(s, i + 1, Len(s))
<1>1. /\ a \in Seq(S) /\ Len(a) = i - 1
      /\ \A k \in 1 .. i - 1 : a[k] = s[k]
  BY SubSeqProperties
<1>2. /\ b \in Seq(S) /\ Len(b) = Len(s) - i
      /\ \A k \in 1 .. Len(s) - i : b[k] = s[i + k]
  BY SubSeqProperties
<1> HIDE DEF a, b
<1>3. RemoveAt(s, i) = a \o b
  BY DEF RemoveAt, a, b
<1>4. /\ a \o b \in Seq(S) /\ Len(a \o b) = Len(a) + Len(b)
      /\ \A k \in 1 .. Len(a) + Len(b) :
           (a \o b)[k] = IF k <= Len(a) THEN a[k] ELSE b[k - Len(a)]
  BY <1>1, <1>2, ConcatProperties
<1>5. Len(s) \in Nat /\ Len(a) + Len(b) = Len(s) - 1
  BY <1>1, <1>2
<1>6. DOMAIN (a \o b) = 1 .. Len(s) - 1
  BY <1>4, <1>5
<1>7. ASSUME NEW m \in 1 .. Len(s) - 1
      PROVE  (a \o b)[m] = s[IF m < i THEN m ELSE m + 1]
  <2>1. (a \o b)[m] = IF m <= i - 1 THEN a[m] ELSE b[m - (i - 1)]
    BY <1>1, <1>4, <1>5
  <2>2. CASE m < i
    BY <1>1, <2>1, <2>2
  <2>3. CASE ~(m < i)
    <3>1. m - (i - 1) \in 1 .. Len(s) - i /\ i + (m - (i - 1)) = m + 1
      BY <1>5, <2>3
    <3>2. b[m - (i - 1)] = s[i + (m - (i - 1))]
      BY <1>2, <3>1
    <3> QED BY <2>1, <2>3, <3>1, <3>2
  <2> QED BY <2>2, <2>3
<1> QED BY <1>3, <1>4, <1>6, <1>7

\* Removing one element of a sequence keeps the others.
LEMMA RemoveAtKeeps ==
    ASSUME NEW S, NEW s \in Seq(S), NEW i \in 1 .. Len(s)
    PROVE  /\ RemoveAt(s, i) \in Seq(S)
           /\ \A k \in DOMAIN s \ {i} :
                \E m \in DOMAIN RemoveAt(s, i) : RemoveAt(s, i)[m] = s[k]
<1> DEFINE r == RemoveAt(s, i)
<1>1. /\ r \in Seq(S) /\ DOMAIN r = 1 .. Len(s) - 1
      /\ \A m \in 1 .. Len(s) - 1 : r[m] = s[IF m < i THEN m ELSE m + 1]
  BY RemoveAtIndex
<1> HIDE DEF r
<1>2. ASSUME NEW k \in DOMAIN s \ {i}
      PROVE  \E m \in DOMAIN r : r[m] = s[k]
  <2>1. k \in 1 .. Len(s) /\ k # i /\ Len(s) \in Nat
    OBVIOUS
  <2>2. CASE k < i
    BY <1>1, <2>1, <2>2
  <2>3. CASE k > i
    <3>1. PICK m \in 1 .. Len(s) - 1 : m + 1 = k /\ ~(m < i)
      BY <2>1, <2>3
    <3>2. r[m] = s[m + 1]
      BY <1>1, <3>1
    <3> QED BY <1>1, <3>1, <3>2
  <2> QED BY <2>1, <2>2, <2>3
<1> QED BY <1>1, <1>2 DEF r

\* RemoveFirst takes an element that is there once, and only that one.
LEMMA RemoveFirstTakes ==
    ASSUME NEW S, NEW s \in Seq(S), NoRepeats(s), NEW e
    PROVE  /\ RemoveFirst(s, e) \in Seq(S) /\ NoRepeats(RemoveFirst(s, e))
           /\ ToSet(RemoveFirst(s, e)) = ToSet(s) \ {e}
<1>1. Len(s) \in Nat /\ DOMAIN s = 1 .. Len(s)
  OBVIOUS
<1>2. CASE ~\E i \in 1 .. Len(s) : s[i] = e
  BY <1>1, <1>2 DEF RemoveFirst, ToSet
<1>3. CASE \E i \in 1 .. Len(s) : s[i] = e
  <2>1. PICK i \in 1 .. Len(s) : s[i] = e
    BY <1>3
  <2>2. {k \in 1 .. Len(s) : s[k] = e} = {i}
    BY <2>1 DEF NoRepeats
  <2>3. Min({i}) = i
    <3>1. i <= i
      OBVIOUS
    <3> QED BY <3>1 DEF Min
  <2>4. SelectInSeq(s, LAMBDA v : v = e) = i
    BY <2>2, <2>3 DEF SelectInSeq
  <2>5. RemoveFirst(s, e) = RemoveAt(s, i)
    BY <1>3, <2>4 DEF RemoveFirst
  <2> DEFINE r == RemoveAt(s, i)
  <2>6. /\ r \in Seq(S) /\ DOMAIN r = 1 .. Len(s) - 1 /\ Len(r) = Len(s) - 1
        /\ \A m \in 1 .. Len(s) - 1 : r[m] = s[IF m < i THEN m ELSE m + 1]
    <3>1. /\ r \in Seq(S) /\ DOMAIN r = 1 .. Len(s) - 1
          /\ \A m \in 1 .. Len(s) - 1 : r[m] = s[IF m < i THEN m ELSE m + 1]
      BY RemoveAtIndex
    <3> HIDE DEF r
    <3>2. Len(r) = Len(s) - 1
      <4>1. Len(s) - 1 \in Nat
        BY <1>1
      <4>2. Len(r) \in Nat /\ DOMAIN r = 1 .. Len(r)
        BY <3>1
      <4> QED BY <3>1, <4>1, <4>2
    <3> QED BY <3>1, <3>2
  <2>7. \A k \in DOMAIN s \ {i} : \E m \in DOMAIN r : r[m] = s[k]
    BY RemoveAtKeeps
  <2> HIDE DEF r
  <2>8. \A m \in 1 .. Len(s) - 1 : (IF m < i THEN m ELSE m + 1) \in 1 .. Len(s) \ {i}
    BY <1>1
  <2>9. NoRepeats(r)
    <3> SUFFICES ASSUME NEW m \in 1 .. Len(s) - 1, NEW n \in 1 .. Len(s) - 1, r[m] = r[n]
                 PROVE  m = n
      BY <2>6 DEF NoRepeats
    <3>1. (IF m < i THEN m ELSE m + 1) = (IF n < i THEN n ELSE n + 1)
      BY <2>6, <2>8 DEF NoRepeats
    <3> QED BY <1>1, <3>1
  <2>10. ToSet(r) = ToSet(s) \ {e}
    <3>1. ASSUME NEW x \in ToSet(r) PROVE x \in ToSet(s) /\ x # e
      <4>1. PICK m \in 1 .. Len(s) - 1 : r[m] = x
        BY <2>6 DEF ToSet
      <4>2. PICK k \in 1 .. Len(s) \ {i} : s[k] = x
        BY <2>6, <2>8, <4>1
      <4> QED BY <1>1, <2>1, <4>2 DEF ToSet, NoRepeats
    <3>2. ASSUME NEW x \in ToSet(s), x # e PROVE x \in ToSet(r)
      <4>1. PICK k \in DOMAIN s : s[k] = x
        BY DEF ToSet
      <4>2. k \in DOMAIN s \ {i}
        BY <2>1, <3>2, <4>1
      <4> QED BY <2>7, <4>1, <4>2 DEF ToSet
    <3> QED BY <3>1, <3>2
  <2> QED BY <2>5, <2>6, <2>9, <2>10 DEF r
<1> QED BY <1>2, <1>3

\* A sequence without repetitions has as many elements as places.
LEMMA NoRepeatsLength ==
    ASSUME NEW S, NEW s \in Seq(S), NoRepeats(s)
    PROVE  IsFiniteSet(ToSet(s)) /\ Cardinality(ToSet(s)) = Len(s)
<1>1. Len(s) \in Nat /\ DOMAIN s = 1 .. Len(s) /\ s \in [1 .. Len(s) -> ToSet(s)]
  BY DEF ToSet
<1>2. \A x \in ToSet(s) : \E i \in 1 .. Len(s) : s[i] = x
  BY <1>1 DEF ToSet
<1>3. s \in Bijection(1 .. Len(s), ToSet(s))
  BY <1>1, <1>2 DEF NoRepeats, Bijection, Injection, IsInjective, Surjection
<1>4. /\ IsFiniteSet(1 .. Len(s))
      /\ Cardinality(1 .. Len(s)) = IF 1 > Len(s) THEN 0 ELSE Len(s) - 1 + 1
  BY <1>1, FS_Interval
<1>5. ExistsBijection(1 .. Len(s), ToSet(s))
  BY <1>3 DEF ExistsBijection
<1>6. /\ IsFiniteSet(ToSet(s))
      /\ Cardinality(ToSet(s)) = Cardinality(1 .. Len(s))
  BY <1>4, <1>5, FS_Bijection
<1> QED BY <1>1, <1>4, <1>6

\* Appending an element that is not there makes no repetition.
LEMMA AppendNoRepeats ==
    ASSUME NEW S, NEW s \in Seq(S), NoRepeats(s), NEW e \in S \ ToSet(s)
    PROVE  NoRepeats(Append(s, e))
<1>1. /\ Len(Append(s, e)) = Len(s) + 1 /\ Len(s) \in Nat
      /\ \A i \in 1 .. Len(s) : Append(s, e)[i] = s[i]
      /\ Append(s, e)[Len(s) + 1] = e
  BY AppendProperties
<1>2. \A i \in 1 .. Len(s) : s[i] # e
  BY ElementsOfSeq
<1> SUFFICES ASSUME NEW i \in 1 .. Len(s) + 1, NEW j \in 1 .. Len(s) + 1,
                    Append(s, e)[i] = Append(s, e)[j]
             PROVE  i = j
  BY <1>1 DEF NoRepeats
<1>3. CASE i \in 1 .. Len(s) /\ j \in 1 .. Len(s)
  BY <1>1, <1>3 DEF NoRepeats
<1>4. CASE i = Len(s) + 1 \/ j = Len(s) + 1
  BY <1>1, <1>2, <1>4
<1> QED BY <1>1, <1>3, <1>4

\* What the argument needs to know of the types.
Shape ==
    /\ thread \in [Threads -> Places]
    /\ thread[Main] # "new"
    /\ scheduler \in Threads \cup {None}

Inv == Shape /\ RequestsMeetEvents

-----------------------------------------------------------------------------
(* What the parts of the actions do to the request.                         *)

\* A thread that moves to a place of a thread that has been created keeps the
\* shape of the state.
LEMMA ThreadMoves ==
    ASSUME Shape, NEW t \in Threads, NEW p \in Places \ {"new"},
           thread' = [thread EXCEPT ![t] = p],
           scheduler' \in Threads \cup {None}
    PROVE  Shape'
BY EventsAssumption DEF Shape

\* A thread other than a created one does not bring the main thread back.
LEMMA MainStays ==
    ASSUME Shape, NEW t \in Threads, NEW p \in Places \ {"new"},
           thread[t] \notin {"ended"},
           thread' = [thread EXCEPT ![t] = p],
           (Main \in Alive)'
    PROVE  Main \in Alive
BY EventsAssumption DEF Shape, Alive

\* An event that joins the queue, or is lost, wakes a request that waits for it.
LEMMA QueueWakes ==
    ASSUME RequestsMeetEvents, NEW e, QueueEvent(e), (Main \in Alive)' => Main \in Alive,
           UNCHANGED handler
    PROVE  RequestsMeetEvents'
BY DEF RequestsMeetEvents, QueueEvent, handler

\* While the driver and the handler are left alone nothing is to be shown.
LEMMA NothingToMeet ==
    ASSUME RequestsMeetEvents, (Main \in Alive)' => Main \in Alive,
           UNCHANGED <<driver, iStatus, isActive>>
    PROVE  RequestsMeetEvents'
BY DEF RequestsMeetEvents, driver

\* A subscription puts the same request on both sides, and a DFC behind it.
LEMMA SubscriptionMeets ==
    ASSUME NEW t \in Threads, Subscribe(t)
    PROVE  RequestsMeetEvents'
BY EventsAssumption DEF RequestsMeetEvents, Subscribe, InformLibraryEvent

\* A cancel takes the request off both sides or leaves it on both, in which case
\* no event was queued.
LEMMA CancelMeets ==
    ASSUME RequestsMeetEvents, (Main \in Alive)' => Main \in Alive, DoCancel
    PROVE  RequestsMeetEvents'
BY DEF RequestsMeetEvents, DoCancel, CancelInformLibraryEvent

-----------------------------------------------------------------------------
\* At the start nothing is requested and nothing is queued.
LEMMA InitInv == Init => Inv
BY EventsAssumption DEF Init, Inv, Shape, RequestsMeetEvents, Alive, Places

\* Steps of the driver and of the system around the process.
LEMMA DriverStep == ASSUME Inv, EventDfc PROVE Inv'
<1>1. Shape'
  BY DEF Inv, Shape, EventDfc, process
<1>2. RequestsMeetEvents'
  BY DEF Inv, RequestsMeetEvents, EventDfc, process, Alive
<1> QED BY <1>1, <1>2 DEF Inv

\* Loading and unloading a library queues an event or does nothing.
LEMMA LibraryStep ==
    ASSUME Inv, NEW l, NEW p, AddLibrary(l, p) \/ RemoveLibrary(l, p)
    PROVE  Inv'
<1>1. UNCHANGED <<handler, process>>
  BY DEF AddLibrary, RemoveLibrary
<1>2. \E e : HandleLibraryEvent(e)
  BY DEF AddLibrary, RemoveLibrary
<1>3. Shape'
  BY <1>1 DEF Inv, Shape, handler, process
<1>4. (Main \in Alive)' => Main \in Alive
  BY <1>1 DEF process, Alive
<1>5. RequestsMeetEvents'
  <2>1. PICK e : HandleLibraryEvent(e)
    BY <1>2
  <2>2. CASE QueueEvent(e)
    BY <1>1, <1>4, <2>2, QueueWakes DEF Inv
  <2>3. CASE UNCHANGED driver
    BY <1>1, <1>4, <2>3, NothingToMeet DEF Inv, handler
  <2> QED BY <2>1, <2>2, <2>3 DEF HandleLibraryEvent
<1> QED BY <1>3, <1>5 DEF Inv

\* The end of a thread: of the main thread with the whole process, or of another.
LEMMA EndStep == ASSUME Inv, NEW t \in Threads, End(t) PROVE Inv'
<1>1. UNCHANGED handler
  BY DEF End
<1>2. CASE t = Main
  <2>1. thread' = [u \in Threads |-> "ended"] /\ open' = FALSE
        /\ UNCHANGED <<iEventArray, iClientThread>>
    BY <1>2 DEF End
  <2>2. Shape'
    BY <1>1, <2>1, EventsAssumption DEF Inv, Shape, handler, Places
  <2>3. RequestsMeetEvents'
    BY <1>1, <2>1, EventsAssumption DEF Inv, RequestsMeetEvents, handler, Alive
  <2> QED BY <2>2, <2>3 DEF Inv
<1>3. CASE t # Main
  <2>1. thread' = [thread EXCEPT ![t] = "ended"] /\ HandleKillThreadEvent(t)
    BY <1>3 DEF End
  <2>2. Shape'
    BY <1>1, <2>1, ThreadMoves DEF Inv, Shape, handler, Places
  <2>3. (Main \in Alive)' => Main \in Alive
    BY <1>3, <2>1, EventsAssumption DEF Inv, Shape, Alive
  <2>4. RequestsMeetEvents'
    <3>1. CASE QueueEvent(Event("killed", t, "own"))
      BY <1>1, <2>3, <3>1, QueueWakes DEF Inv
    <3>2. CASE UNCHANGED driver
      BY <1>1, <2>3, <3>2, NothingToMeet DEF Inv, handler
    <3> QED BY <2>1, <3>1, <3>2 DEF HandleKillThreadEvent
  <2> QED BY <2>2, <2>4 DEF Inv
<1> QED BY <1>2, <1>3

\* A fault ends one thread and touches neither the driver nor the handler.
LEMMA FaultStep ==
    ASSUME Inv, NEW t \in Threads, Fault(t)
    PROVE  Inv'
<1>1. thread' = [thread EXCEPT ![t] = "ended"] /\ UNCHANGED <<driver, handler>>
  BY DEF Fault
<1>2. Shape'
  BY <1>1, ThreadMoves DEF Inv, Shape, handler, Places
<1>3. (Main \in Alive)' => Main \in Alive
  BY <1>1, EventsAssumption DEF Inv, Shape, Alive
<1>4. RequestsMeetEvents'
  BY <1>1, <1>3, NothingToMeet DEF Inv, handler
<1> QED BY <1>2, <1>4 DEF Inv

\* A living thread goes on to p and leaves the driver and the handler alone.
LEMMA QuietStep ==
    ASSUME Inv, NEW t \in Threads, NEW p \in Places \ {"new"},
           thread[t] # "ended", thread' = [thread EXCEPT ![t] = p],
           UNCHANGED <<driver, handler>>
    PROVE  Inv'
<1>1. Shape'
  BY ThreadMoves DEF Inv, Shape, handler
<1>2. (Main \in Alive)' => Main \in Alive
  BY MainStays DEF Inv
<1>3. RequestsMeetEvents'
  BY <1>2, NothingToMeet DEF Inv, handler
<1> QED BY <1>1, <1>3 DEF Inv

\* The steps of a thread that leave the driver and the handler alone.
LEMMA ThreadStep ==
    ASSUME Inv, NEW t \in Threads,
           \/ Create(t) \/ ShareHeap(t) \/ InstallAllocator(t) \/ UseDeleted(t)
           \/ Uninstall(t) \/ CountUsers(t) \/ Close(t)
    PROVE  Inv'
<1>1. CASE Create(t)
  BY <1>1, QuietStep DEF Create, Places
<1>2. CASE ShareHeap(t)
  <2>1. CASE Fault(t)
    BY <2>1, FaultStep
  <2>2. CASE ~deleted
    BY <1>2, <2>2, QuietStep DEF ShareHeap, Places
  <2> QED BY <1>2, <2>1, <2>2 DEF ShareHeap
<1>3. CASE InstallAllocator(t)
  <2>1. CASE Fault(t)
    BY <2>1, FaultStep
  <2>2. CASE ~deleted
    BY <1>3, <2>2, QuietStep DEF InstallAllocator, Places
  <2> QED BY <1>3, <2>1, <2>2 DEF InstallAllocator
<1>4. CASE UseDeleted(t)
  BY <1>4, FaultStep DEF UseDeleted
<1>5. CASE Uninstall(t)
  <2>1. PICK p \in {"left", "deleting", "asked"} : thread' = [thread EXCEPT ![t] = p]
    BY <1>5 DEF Uninstall
  <2> QED BY <1>5, <2>1, QuietStep DEF Uninstall, Places
<1>6. CASE CountUsers(t)
  <2>1. PICK p \in {"closing", "deleting"} : thread' = [thread EXCEPT ![t] = p]
    BY <1>6 DEF CountUsers
  <2> QED BY <1>6, <2>1, QuietStep DEF CountUsers, Places
<1>7. CASE Close(t)
  BY <1>7, QuietStep DEF Close, Places
<1> QED BY <1>1, <1>2, <1>3, <1>4, <1>5, <1>6, <1>7

\* The steps of the handler: it subscribes, is cancelled or reads an error.
LEMMA RunLStep == ASSUME Inv, RunL PROVE Inv'
<1>1. scheduler \in Threads /\ Subscribe(scheduler) /\ UNCHANGED thread
  BY DEF Inv, Shape, RunL, SchedulerRuns, process
<1>2. Shape'
  BY <1>1 DEF Inv, Shape, Subscribe
<1>3. RequestsMeetEvents'
  BY <1>1, SubscriptionMeets
<1> QED BY <1>2, <1>3 DEF Inv

\* RunL of a cancelled request does not subscribe again.
LEMMA RunLErrorStep == ASSUME Inv, RunLError PROVE Inv'
<1>1. Shape'
  BY DEF Inv, Shape, RunLError, process
<1>2. RequestsMeetEvents'
  BY DEF Inv, RequestsMeetEvents, RunLError, driver, process, Alive
<1> QED BY <1>1, <1>2 DEF Inv

\* Start of the handler, from an allocation: at once, or after a cancel.
LEMMA AllocStep ==
    ASSUME Inv, NEW t \in Threads, Alloc(t) \/ Restart(t)
    PROVE  Inv'
<1>1. CASE Subscribe(t) /\ (UNCHANGED thread \/ thread' = [thread EXCEPT ![t] = "running"])
  <2>1. scheduler' \in Threads \cup {None}
    BY <1>1 DEF Inv, Shape, Subscribe
  <2>2. Shape'
    BY <1>1, <2>1, ThreadMoves DEF Inv, Shape, Places
  <2>3. RequestsMeetEvents'
    BY <1>1, SubscriptionMeets
  <2> QED BY <2>2, <2>3 DEF Inv
<1>2. CASE /\ thread[t] = "running" /\ DoCancel
           /\ thread' = [thread EXCEPT ![t] = "restarting"]
  <2>1. Shape'
    BY <1>2, ThreadMoves DEF Inv, Shape, DoCancel, Places
  <2>2. (Main \in Alive)' => Main \in Alive
    BY <1>2, MainStays DEF Inv, Places
  <2>3. RequestsMeetEvents'
    BY <1>2, <2>2, CancelMeets DEF Inv
  <2> QED BY <2>1, <2>3 DEF Inv
<1> QED BY <1>1, <1>2 DEF Alloc, Restart

\* The destructor first cancels a handler that is active.
LEMMA CancelHandlerStep == ASSUME Inv, NEW t \in Threads, CancelHandler(t) PROVE Inv'
<1>1. thread[t] = "deleting" /\ DoCancel /\ thread' = [thread EXCEPT ![t] = "waiting"]
  BY DEF CancelHandler
<1>2. Shape'
  BY <1>1, ThreadMoves DEF Inv, Shape, DoCancel, Places
<1>3. (Main \in Alive)' => Main \in Alive
  BY <1>1, MainStays DEF Inv, Places
<1>4. RequestsMeetEvents'
  BY <1>1, <1>3, CancelMeets DEF Inv
<1> QED BY <1>2, <1>4 DEF Inv

\* Then it forgets the request on the handler's side; the driver's side is free
\* by then, because the wait in Cancel has returned or because the handler was
\* not active.
LEMMA DestroyStep == ASSUME Inv, NEW t \in Threads, Destroy(t) PROVE Inv'
<1>1. /\ thread[t] # "ended" /\ thread' = [thread EXCEPT ![t] = "left"]
      /\ UNCHANGED <<iEventArray, iClientThread, scheduler>>
      /\ iStatus' = "none" /\ open' = FALSE
  BY DEF Destroy
<1>2. Shape'
  BY <1>1, ThreadMoves DEF Inv, Shape, Places
<1>3. (Main \in Alive)' => Main \in Alive
  BY <1>1, MainStays DEF Inv, Places
<1>4. iStatus # "pending"
  BY DEF Inv, RequestsMeetEvents, Destroy, WaitReturns
<1>5. RequestsMeetEvents'
  BY <1>1, <1>3, <1>4 DEF Inv, RequestsMeetEvents
<1> QED BY <1>2, <1>5 DEF Inv

-----------------------------------------------------------------------------
\* Every step keeps the invariant.
LEMMA NextInv == Inv /\ [Next]_vars => Inv'
<1> SUFFICES ASSUME Inv, [Next]_vars PROVE Inv'
  OBVIOUS
<1>1. CASE EventDfc
  BY <1>1, DriverStep
<1>2. CASE \E l \in Libs \cup Foreign, p \in {"own", "other"} :
             AddLibrary(l, p) \/ RemoveLibrary(l, p)
  BY <1>2, LibraryStep
<1>3. CASE RunL
  BY <1>3, RunLStep
<1>4. CASE RunLError
  BY <1>4, RunLErrorStep
<1>5. ASSUME NEW t \in Threads, End(t) PROVE Inv'
  BY <1>5, EndStep
<1>6. ASSUME NEW t \in Threads,
             \/ Create(t) \/ ShareHeap(t) \/ InstallAllocator(t) \/ UseDeleted(t)
             \/ Uninstall(t) \/ CountUsers(t) \/ Close(t)
      PROVE  Inv'
  BY <1>6, ThreadStep
<1>7. ASSUME NEW t \in Threads, Alloc(t) \/ Restart(t) PROVE Inv'
  BY <1>7, AllocStep
<1>8. ASSUME NEW t \in Threads, CancelHandler(t) \/ Destroy(t) PROVE Inv'
  BY <1>8, CancelHandlerStep, DestroyStep
<1>9. CASE UNCHANGED vars
  <2>1. UNCHANGED <<driver, handler, process>>
    BY <1>9 DEF vars
  <2>2. Shape'
    BY <2>1 DEF Inv, Shape, handler, process
  <2>3. (Main \in Alive)' => Main \in Alive
    BY <2>1 DEF process, Alive
  <2>4. RequestsMeetEvents'
    BY <2>1, <2>3, NothingToMeet DEF Inv, handler
  <2> QED BY <2>2, <2>4 DEF Inv
<1> QED BY <1>1, <1>2, <1>3, <1>4, <1>5, <1>6, <1>7, <1>8, <1>9 DEF Next

\* InformLibraryEvent of the driver and Start of CLibraryEventHandler agree in every
\* reachable state: no subscription meets a pending one, and while an event and
\* a request are both there the DFC that brings them together is queued.
THEOREM RequestsAlwaysMeet == Spec => []RequestsMeetEvents
<1>1. Inv => RequestsMeetEvents
  BY DEF Inv
<1> QED BY <1>1, InitInv, NextInv, PTL DEF Spec

-----------------------------------------------------------------------------
(* The users of the allocator.                                              *)

Kinds == {"none", "shared", "late", "own"}

\* The places of a thread from which it may still use the allocator it has.
Using == {"running", "asked", "closing", "restarting"}

\* The events on their way: a thread whose death is reported has ended.
Reports ==
    /\ iEventArray \in Seq(Events)
    /\ iLibraryInfo \in Events \cup {NoEvent}
    /\ \A e \in ToSet(iEventArray) \cup {iLibraryInfo} :
         e.type = "killed" => thread[e.what] = "ended"

\* The thread table: no thread twice, none that has not begun, and everyone who
\* shares the allocator and has not left it.
Table ==
    /\ iThreadArray \in Seq(Threads)
    /\ NoRepeats(iThreadArray)
    /\ \A t \in ToSet(iThreadArray) : thread[t] \notin {"new", "created"}
    /\ ~deleted => \A t \in Alive : thread[t] # "left" /\ heap[t] \in {"shared", "late"}
                        => t \in ToSet(iThreadArray)

\* The allocator of a thread: none before it begins; one that it shares while it
\* is in Uninstall or in Start; and once the destructor is certain, whoever may
\* still use the allocator has a heap of its own or came late.
Heaps ==
    /\ heap \in [Threads -> Kinds]
    /\ \A t \in Threads :
         /\ thread[t] \in {"new", "created"} => heap[t] = "none"
         /\ thread[t] = "running" => heap[t] # "none"
         /\ thread[t] \in {"asked", "closing", "restarting", "deleting", "waiting"}
              => heap[t] \in {"shared", "late"}
         /\ Doomed /\ thread[t] \in Using => heap[t] \in {"own", "late"}
    /\ faults \subseteq Threads
    /\ \A t \in faults : thread[t] = "ended" /\ heap[t] \in {"own", "late"}

Users == Reports /\ Table /\ Heaps

\* No event on its way is about a thread that lives.
LEMMA ReportsKept ==
    ASSUME Reports, \A u \in Threads : thread[u] = "ended" => thread'[u] = "ended",
           NEW X, \A e \in X : e.type = "killed" => thread'[e.what] = "ended",
           iEventArray' \in Seq(Events),
           ToSet(iEventArray)' \subseteq ToSet(iEventArray) \cup X,
           iLibraryInfo' \in ToSet(iEventArray) \cup {iLibraryInfo}
    PROVE  Reports'
<1>1. ToSet(iEventArray) \subseteq Events
  BY ElementsOfSeq DEF Reports
<1>2. iLibraryInfo' \in Events \cup {NoEvent}
  BY <1>1 DEF Reports
<1>3. ASSUME NEW e \in ToSet(iEventArray) \cup {iLibraryInfo}, e.type = "killed"
      PROVE  thread'[e.what] = "ended"
  <2>1. e \in Events \cup {NoEvent}
    BY <1>1 DEF Reports
  <2>2. e.what \in Threads
    BY <1>3, <2>1 DEF Events, NoEvent, Event
  <2> QED BY <1>3, <2>2 DEF Reports
<1> QED BY <1>2, <1>3 DEF Reports

\* QueueEvent adds the event it is given, or none.
LEMMA QueueReports ==
    ASSUME Reports, \A u \in Threads : thread[u] = "ended" => thread'[u] = "ended",
           NEW e \in Events, e.type = "killed" => thread'[e.what] = "ended",
           QueueEvent(e), UNCHANGED iLibraryInfo
    PROVE  Reports'
<1>1. iEventArray' \in {iEventArray, <<e>> \o iEventArray, Append(iEventArray, e)}
  BY DEF QueueEvent
<1>2. iEventArray' \in Seq(Events) /\ ToSet(iEventArray)' \subseteq ToSet(iEventArray) \cup {e}
  <2>1. iEventArray \in Seq(Events)
    BY DEF Reports
  <2>2. /\ Append(iEventArray, e) \in Seq(Events)
        /\ ToSet(Append(iEventArray, e)) = ToSet(iEventArray) \cup {e}
        /\ <<e>> \o iEventArray \in Seq(Events)
        /\ ToSet(<<e>> \o iEventArray) = ToSet(iEventArray) \cup {e}
    BY <2>1, ElementsAfterAppend, ElementsAfterPrepend
  <2>3. CASE iEventArray' = iEventArray
    BY <2>1, <2>3, Zenon
  <2>4. CASE iEventArray' = <<e>> \o iEventArray
    BY <2>2, <2>4, Zenon
  <2>5. CASE iEventArray' = Append(iEventArray, e)
    BY <2>2, <2>5, Zenon
  <2> QED BY <1>1, <2>3, <2>4, <2>5
<1>3. \A x \in {e} : x.type = "killed" => thread'[x.what] = "ended"
  OBVIOUS
<1> QED BY <1>2, <1>3, ReportsKept

\* Nothing happens to the events on their way.
LEMMA ReportsUnchanged ==
    ASSUME Reports, \A u \in Threads : thread[u] = "ended" => thread'[u] = "ended",
           iEventArray' \in {iEventArray, <<>>}, UNCHANGED iLibraryInfo
    PROVE  Reports'
<1> DEFINE X == {}
<1>1. iEventArray' \in Seq(Events) /\ ToSet(iEventArray)' \subseteq ToSet(iEventArray) \cup X
  <2>1. iEventArray \in Seq(Events) /\ <<>> \in Seq(Events)
    BY DEF Reports
  <2>2. ToSet(<<>>) = {}
    BY DEF ToSet
  <2>3. CASE iEventArray' = iEventArray
    BY <2>1, <2>3, Zenon
  <2>4. CASE iEventArray' = <<>>
    BY <2>1, <2>2, <2>4, Zenon
  <2> QED BY <2>3, <2>4
<1>2. \A e \in X : e.type = "killed" => thread'[e.what] = "ended"
  OBVIOUS
<1> HIDE DEF X
<1>3. iLibraryInfo' \in ToSet(iEventArray) \cup {iLibraryInfo}
  OBVIOUS
<1> QED BY <1>1, <1>2, <1>3, ReportsKept

\* What the table and the heaps depend on.
LEMMA UsersUnchanged ==
    ASSUME Table, Heaps, UNCHANGED <<thread, heap, iThreadArray, deleted, faults>>
    PROVE  Table' /\ Heaps'
BY DEF Table, Heaps, Alive, Doomed

\* A thread moves on, and nothing else about the users changes.  It takes up the
\* destructor only when nobody else is left who has to be waited for.
LEMMA UserMoves ==
    ASSUME Shape, Table, Heaps, NEW t \in Threads, NEW p \in Places \ {"new", "created"},
           thread[t] \notin {"new", "created", "ended"},
           thread' = [thread EXCEPT ![t] = p],
           UNCHANGED <<heap, iThreadArray, deleted, faults>>,
           thread[t] = "left" => p \in {"left", "ended"},
           p \in {"asked", "closing", "restarting", "deleting", "waiting"}
             => heap[t] \in {"shared", "late"},
           p = "running" => heap[t] # "none",
           p \in Using => thread[t] \in Using,
           p \in {"deleting", "waiting"} =>
             Doomed \/ \A u \in Threads \ {t} : thread[u] \in Using => heap[u] \in {"own", "late"}
    PROVE  Table' /\ Heaps'
<1>1. \A u \in Threads : thread'[u] = IF u = t THEN p ELSE thread[u]
  BY DEF Shape
<1>2. Table'
  <2>1. \A u \in ToSet(iThreadArray) : u \in Threads
    BY ElementsOfSeq DEF Table
  <2> QED BY <1>1, <2>1 DEF Table, Alive
<1>3. ASSUME NEW u \in Threads, Doomed', thread'[u] \in Using
      PROVE  heap[u] \in {"own", "late"}
  <2>1. CASE Doomed
    BY <1>1, <1>3, <2>1 DEF Heaps
  <2>2. CASE ~Doomed
    <3>1. p \in {"deleting", "waiting"}
      BY <1>1, <1>3, <2>2 DEF Doomed
    <3> QED BY <1>1, <1>3, <2>2, <3>1 DEF Using
  <2> QED BY <2>1, <2>2
<1>4. Heaps'
  BY <1>1, <1>3 DEF Heaps
<1> QED BY <1>2, <1>4

\* A thread ends in a fault after the destructor: it has a heap of its own, or
\* came late.
LEMMA UserFaults ==
    ASSUME Shape, Table, Heaps, NEW t \in Threads, Fault(t), deleted,
           NEW k \in {"own", "late"}, heap' = [heap EXCEPT ![t] = k]
    PROVE  Table' /\ Heaps'
<1>1. /\ \A u \in Threads : thread'[u] = IF u = t THEN "ended" ELSE thread[u]
      /\ \A u \in Threads : heap'[u] = IF u = t THEN k ELSE heap[u]
      /\ heap' \in [Threads -> Kinds]
      /\ UNCHANGED <<iThreadArray, deleted>> /\ faults' = faults \cup {t}
  BY DEF Shape, Heaps, Fault, allocator, Kinds
<1>2. Table'
  <2>1. \A u \in ToSet(iThreadArray) : u \in Threads
    BY ElementsOfSeq DEF Table
  <2> QED BY <1>1, <2>1 DEF Table
<1>3. \A u \in Threads : Doomed /\ thread[u] \in Using => heap[u] \in {"own", "late"}
  BY DEF Heaps
<1>4. Heaps'
  BY <1>1, <1>3 DEF Heaps, Doomed, Using
<1> QED BY <1>2, <1>4

-----------------------------------------------------------------------------
(* The actions and the users of the allocator.                              *)

\* The process begins with its main thread as the only user.
LEMMA InitUsers == Init => Users
<1> SUFFICES ASSUME Init PROVE Users
  OBVIOUS
<1>1. Reports
  BY DEF Init, Reports, ToSet, NoEvent, Event
<1>2. iThreadArray = <<Main>> /\ Main \in Threads /\ thread[Main] = "running"
  BY EventsAssumption DEF Init
<1>3. iThreadArray \in Seq(Threads) /\ NoRepeats(iThreadArray)
  BY <1>2 DEF NoRepeats
<1>4. ToSet(iThreadArray) = {Main}
  BY <1>2 DEF ToSet
<1>5. Table
  BY <1>2, <1>3, <1>4 DEF Init, Table, Alive
<1>6. Heaps
  BY DEF Init, Heaps, Kinds, Doomed, Using
<1> QED BY <1>1, <1>5, <1>6 DEF Users

\* The driver hands an event to the handler, or gets one.
LEMMA DriverUsers ==
    ASSUME Users, EventDfc \/ \E l \in Libs \cup Foreign, p \in {"own", "other"} :
                                AddLibrary(l, p) \/ RemoveLibrary(l, p)
    PROVE  Users'
<1>1. UNCHANGED <<thread, heap, iThreadArray, deleted, faults>>
  BY DEF EventDfc, AddLibrary, RemoveLibrary, allocator, process, history
<1>2. Table' /\ Heaps'
  BY <1>1, UsersUnchanged DEF Users
<1>3. Reports /\ \A u \in Threads : thread[u] = "ended" => thread'[u] = "ended"
  BY <1>1 DEF Users
<1>4. CASE EventDfc
  <2>1. CASE iClientThread # None /\ iEventArray # <<>>
    <3>1. iLibraryInfo' = Head(iEventArray) /\ iEventArray' = Tail(iEventArray)
      BY <1>4, <2>1 DEF EventDfc
    <3>2. /\ Head(iEventArray) \in ToSet(iEventArray) /\ Tail(iEventArray) \in Seq(Events)
          /\ ToSet(Tail(iEventArray)) \subseteq ToSet(iEventArray)
      BY <1>3, <2>1, ElementsOfTail DEF Reports
    <3> DEFINE X == {}
    <3>3. /\ iEventArray' \in Seq(Events)
          /\ ToSet(iEventArray)' \subseteq ToSet(iEventArray) \cup X
          /\ iLibraryInfo' \in ToSet(iEventArray) \cup {iLibraryInfo}
      BY <3>1, <3>2, Zenon
    <3>4. \A e \in X : e.type = "killed" => thread'[e.what] = "ended"
      OBVIOUS
    <3> HIDE DEF X
    <3>5. Reports'
      BY <1>3, <3>3, <3>4, ReportsKept
    <3> QED BY <1>2, <3>5 DEF Users
  <2>2. CASE ~(iClientThread # None /\ iEventArray # <<>>)
    <3>1. UNCHANGED <<iLibraryInfo, iEventArray>>
      BY <1>4, <2>2 DEF EventDfc
    <3> QED BY <1>2, <1>3, <3>1, ReportsUnchanged DEF Users
  <2> QED BY <2>1, <2>2
<1>5. ASSUME NEW l \in Libs \cup Foreign, NEW p \in {"own", "other"},
             AddLibrary(l, p) \/ RemoveLibrary(l, p)
      PROVE  Users'
  <2>1. PICK type \in {"added", "removed"} : HandleLibraryEvent(Event(type, l, p))
    BY <1>5 DEF AddLibrary, RemoveLibrary
  <2> DEFINE e == Event(type, l, p)
  <2>2. e \in Events /\ e.type # "killed"
    BY DEF Event, Events
  <2>3. UNCHANGED iLibraryInfo
    BY <1>5 DEF AddLibrary, RemoveLibrary, handler
  <2>4. QueueEvent(e) \/ UNCHANGED iEventArray
    BY <2>1 DEF HandleLibraryEvent, driver
  <2> HIDE DEF e
  <2>5. Reports'
    BY <1>3, <2>2, <2>3, <2>4, QueueReports, ReportsUnchanged
  <2> QED BY <1>2, <2>5 DEF Users
<1> QED BY <1>4, <1>5

\* The end of a thread is reported; with the main thread everyone has ended.
LEMMA EndUsers == ASSUME Shape, Users, NEW t \in Threads, End(t) PROVE Users'
<1>1. /\ UNCHANGED <<iLibraryInfo, heap, iThreadArray, deleted, faults>>
      /\ thread[t] \in {"running", "left"}
  BY DEF End, handler, allocator
<1>2. Reports /\ Table /\ Heaps
  BY DEF Users
<1>3. CASE t = Main
  <2>1. (\A u \in Threads : thread'[u] = "ended") /\ UNCHANGED iEventArray
    BY <1>3 DEF End
  <2>2. Reports'
    BY <1>1, <1>2, <2>1, ReportsUnchanged
  <2>3. Table'
    <3>1. \A u \in ToSet(iThreadArray) : u \in Threads
      BY <1>2, ElementsOfSeq DEF Table
    <3> QED BY <1>1, <1>2, <2>1, <3>1 DEF Table, Alive
  <2>4. Heaps'
    BY <1>1, <1>2, <2>1 DEF Heaps, Using
  <2> QED BY <2>2, <2>3, <2>4 DEF Users
<1>4. CASE t # Main
  <2>1. thread' = [thread EXCEPT ![t] = "ended"] /\ HandleKillThreadEvent(t)
    BY <1>4 DEF End
  <2>2. \A u \in Threads : thread'[u] = IF u = t THEN "ended" ELSE thread[u]
    BY <2>1 DEF Shape
  <2>3. Table' /\ Heaps'
    BY <1>1, <1>2, <2>1, UserMoves DEF Places, Using
  <2> DEFINE e == Event("killed", t, "own")
  <2>4. e \in Events /\ e.what = t
    BY DEF Event, Events
  <2>5. QueueEvent(e) \/ UNCHANGED iEventArray
    BY <2>1 DEF HandleKillThreadEvent, driver
  <2> HIDE DEF e
  <2>6. Reports'
    BY <1>1, <1>2, <2>2, <2>4, <2>5, QueueReports, ReportsUnchanged
  <2> QED BY <2>3, <2>6 DEF Users
<1> QED BY <1>3, <1>4

\* RunL takes a thread off the table only when it has ended.
LEMMA RunLUsers == ASSUME Shape, Users, RunL \/ RunLError PROVE Users'
<1>1. /\ UNCHANGED <<iLibraryInfo, iEventArray, thread, heap, deleted, faults>>
      /\ \/ UNCHANGED iThreadArray
         \/ /\ iLibraryInfo.type = "killed"
            /\ iThreadArray' = RemoveFirst(iThreadArray, iLibraryInfo.what)
  <2>1. CASE RunL
    BY <2>1 DEF RunL, Subscribe, InformLibraryEvent, process, history
  <2>2. CASE RunLError
    BY <2>2 DEF RunLError, driver, allocator, process, history
  <2> QED BY <2>1, <2>2
<1>2. Reports'
  BY <1>1, ReportsUnchanged DEF Users
<1>3. CASE UNCHANGED iThreadArray
  BY <1>1, <1>2, <1>3, UsersUnchanged DEF Users
<1>4. CASE ~UNCHANGED iThreadArray
  <2> DEFINE u == iLibraryInfo.what
  <2>1. thread[u] = "ended" /\ iThreadArray' = RemoveFirst(iThreadArray, u)
    BY <1>1, <1>4 DEF Users, Reports
  <2> HIDE DEF u
  <2>2. /\ RemoveFirst(iThreadArray, u) \in Seq(Threads) /\ NoRepeats(RemoveFirst(iThreadArray, u))
        /\ ToSet(RemoveFirst(iThreadArray, u)) = ToSet(iThreadArray) \ {u}
    BY RemoveFirstTakes DEF Users, Table
  <2>3. /\ iThreadArray' \in Seq(Threads) /\ NoRepeats(iThreadArray)'
        /\ ToSet(iThreadArray)' = ToSet(iThreadArray) \ {u}
    BY <2>1, <2>2, Zenon
  <2>4. Table'
    BY <1>1, <2>1, <2>3 DEF Users, Table, Alive
  <2>5. Heaps'
    BY <1>1 DEF Users, Heaps, Doomed
  <2> QED BY <1>2, <2>4, <2>5 DEF Users
<1> QED BY <1>3, <1>4

\* A thread begins: it is on the table when it shares the allocator.
LEMMA BeginUsers ==
    ASSUME Shape, Users, NEW t \in Threads,
           Create(t) \/ ShareHeap(t) \/ InstallAllocator(t) \/ UseDeleted(t)
    PROVE  Users'
<1>1. UNCHANGED <<iLibraryInfo, iEventArray>>
  BY DEF Create, ShareHeap, InstallAllocator, UseDeleted, Fault, driver, handler
<1>2. Reports /\ Table /\ Heaps
  BY DEF Users
<1>3. PICK p \in {"created", "running", "ended"} :
        thread' = [thread EXCEPT ![t] = p] /\ thread[t] # "ended"
  BY DEF Create, ShareHeap, InstallAllocator, UseDeleted, Fault
<1>4. \A u \in Threads : thread'[u] = IF u = t THEN p ELSE thread[u]
  BY <1>3 DEF Shape
<1>5. Reports'
  BY <1>1, <1>2, <1>3, <1>4, ReportsUnchanged
<1>6. thread[t] \in {"new", "created"} => heap[t] = "none" /\ t \notin ToSet(iThreadArray)
  BY <1>2 DEF Table, Heaps
<1>7. \A u \in ToSet(iThreadArray) : u \in Threads
  BY <1>2, ElementsOfSeq DEF Table
<1>8. CASE Create(t)
  <2>1. /\ thread[t] = "new" /\ thread'[t] = "created"
        /\ UNCHANGED <<heap, iThreadArray, deleted, faults>>
    BY <1>8 DEF Create, allocator, history, Shape
  <2>2. Table'
    BY <1>2, <1>4, <1>6, <1>7, <2>1 DEF Table, Alive
  <2>3. Doomed' => Doomed
    BY <1>4, <2>1 DEF Doomed
  <2>4. Heaps'
    BY <1>2, <1>4, <1>6, <2>1, <2>3 DEF Heaps, Using
  <2> QED BY <1>5, <2>2, <2>4 DEF Users
<1>9. CASE ShareHeap(t) /\ ~deleted
  <2> DEFINE k == IF Doomed THEN "late" ELSE "shared"
  <2>1. /\ thread[t] = "created" /\ thread'[t] = "running"
        /\ iThreadArray' = Append(iThreadArray, t) /\ heap' = [heap EXCEPT ![t] = k]
        /\ UNCHANGED <<deleted, faults>>
    BY <1>9 DEF ShareHeap, history, Shape
  <2>2. k \in {"shared", "late"} /\ (Doomed => k = "late")
    OBVIOUS
  <2> HIDE DEF k
  <2>3. /\ heap' \in [Threads -> Kinds]
        /\ \A u \in Threads : heap'[u] = IF u = t THEN k ELSE heap[u]
    BY <1>2, <2>1, <2>2 DEF Heaps, Kinds
  <2>4. /\ Append(iThreadArray, t) \in Seq(Threads) /\ NoRepeats(Append(iThreadArray, t))
        /\ ToSet(Append(iThreadArray, t)) = ToSet(iThreadArray) \cup {t}
    <3>1. iThreadArray \in Seq(Threads) /\ NoRepeats(iThreadArray)
      BY <1>2 DEF Table
    <3>2. t \in Threads \ ToSet(iThreadArray)
      BY <1>6, <2>1
    <3>3. NoRepeats(Append(iThreadArray, t))
      BY <3>1, <3>2, AppendNoRepeats
    <3>4. /\ Append(iThreadArray, t) \in Seq(Threads)
          /\ ToSet(Append(iThreadArray, t)) = ToSet(iThreadArray) \cup {t}
      BY <3>1, ElementsAfterAppend
    <3> QED BY <3>3, <3>4
  <2>5. /\ iThreadArray' \in Seq(Threads) /\ NoRepeats(iThreadArray)'
        /\ ToSet(iThreadArray)' = ToSet(iThreadArray) \cup {t}
    BY <2>1, <2>4, Zenon
  <2>6. Table'
    BY <1>2, <1>4, <1>7, <2>1, <2>3, <2>5 DEF Table, Alive
  <2>7. Doomed' => Doomed
    BY <1>4, <2>1 DEF Doomed
  <2>8. Heaps'
    BY <1>2, <1>4, <2>1, <2>2, <2>3, <2>7 DEF Heaps, Using
  <2> QED BY <1>5, <2>6, <2>8 DEF Users
<1>10. CASE InstallAllocator(t) /\ ~deleted
  <2>1. /\ thread[t] = "created" /\ thread'[t] = "running"
        /\ heap' = [heap EXCEPT ![t] = "own"]
        /\ UNCHANGED <<iThreadArray, deleted, faults>>
    BY <1>10 DEF InstallAllocator, allocator, history, Shape
  <2>2. /\ heap' \in [Threads -> Kinds]
        /\ \A u \in Threads : heap'[u] = IF u = t THEN "own" ELSE heap[u]
    BY <1>2, <2>1 DEF Heaps, Kinds
  <2>3. Table'
    BY <1>2, <1>4, <1>7, <2>1, <2>2 DEF Table, Alive
  <2>4. Doomed' => Doomed
    BY <1>4, <2>1 DEF Doomed
  <2>5. Heaps'
    BY <1>2, <1>4, <2>1, <2>2, <2>4 DEF Heaps, Using
  <2> QED BY <1>5, <2>3, <2>5 DEF Users
<1>11. CASE /\ deleted /\ Fault(t)
            /\ \E k \in {"own", "late"} : heap' = [heap EXCEPT ![t] = k]
  BY <1>2, <1>5, <1>11, UserFaults DEF Users
<1>12. UseDeleted(t) => /\ deleted /\ Fault(t)
                        /\ \E k \in {"own", "late"} : heap' = [heap EXCEPT ![t] = k]
  <2> SUFFICES ASSUME UseDeleted(t)
               PROVE  \E k \in {"own", "late"} : heap' = [heap EXCEPT ![t] = k]
    BY DEF UseDeleted
  <2>1. heap[t] \in {"own", "late"} /\ heap' = heap
    BY <1>2 DEF UseDeleted, Heaps, Doomed, Using
  <2>2. heap' = [heap EXCEPT ![t] = heap[t]]
    BY <1>2, <2>1 DEF Heaps
  <2> QED BY <2>1, <2>2
<1> QED BY <1>8, <1>9, <1>10, <1>11, <1>12 DEF ShareHeap, InstallAllocator

\* Uninstall and the start of the handler: who takes up the destructor was alone
\* in the process, or is the only thread of the table.
LEMMA UninstallUsers ==
    ASSUME Shape, Users, NEW t \in Threads,
           Uninstall(t) \/ CountUsers(t) \/ CancelHandler(t) \/ Alloc(t) \/ Restart(t)
    PROVE  Users'
<1>1. UNCHANGED <<iLibraryInfo, heap, iThreadArray, deleted, faults>>
  BY DEF Uninstall, CountUsers, CancelHandler, Alloc, Restart, Subscribe, DoCancel,
         handler, allocator, history
<1>2. Reports /\ Table /\ Heaps
  BY DEF Users
<1> DEFINE Ok(p) ==
      /\ thread' = [thread EXCEPT ![t] = p]
      /\ thread[t] \in Using \cup {"deleting"}
      /\ p \in {"asked", "closing", "restarting", "deleting", "waiting"}
           => heap[t] \in {"shared", "late"}
      /\ p = "running" => heap[t] # "none"
      /\ p \in Using => thread[t] \in Using
      /\ p \in {"deleting", "waiting"} =>
           Doomed \/ \A u \in Threads \ {t} : thread[u] \in Using => heap[u] \in {"own", "late"}
<1>3. PICK p \in Places \ {"new", "created", "ended"} : Ok(p)
  <2> SUFFICES \E p \in {"running", "asked", "closing", "deleting", "waiting",
                          "restarting", "left"} : Ok(p)
    <3> HIDE DEF Ok
    <3> QED BY DEF Places
  <2>1. CASE Uninstall(t)
    <3>1. thread[t] = "running" /\ heap[t] \in {"shared", "late", "own"}
      BY <1>2, <2>1 DEF Uninstall, Heaps, Kinds
    <3>2. CASE heap[t] = "own"
      <4>1. thread' = [thread EXCEPT ![t] = "left"]
        BY <2>1, <3>2 DEF Uninstall
      <4>2. Ok("left")
        BY <3>1, <4>1 DEF Using
      <4> HIDE DEF Ok
      <4> QED BY <4>2
    <3>3. CASE heap[t] # "own" /\ Alone
      <4>1. \A u \in Alive : u = t
        <5>1. t \in Alive /\ Alive \in SUBSET Threads
          BY <3>1 DEF Alive
        <5>2. IsFiniteSet(Alive)
          BY <5>1, FS_Subset, EventsAssumption, Zenon
        <5>3. PICK x : Alive = {x}
          BY <3>3, <5>2, FS_Singleton DEF Alone
        <5> QED BY <5>1, <5>3
      <4>2. \A u \in Threads \ {t} : thread[u] \notin Using
        BY <4>1 DEF Alive, Using
      <4>3. thread' = [thread EXCEPT ![t] = "deleting"]
        BY <2>1, <3>3 DEF Uninstall
      <4>4. Ok("deleting")
        BY <3>1, <3>3, <4>2, <4>3 DEF Using
      <4> HIDE DEF Ok
      <4> QED BY <4>4
    <3>4. CASE heap[t] # "own" /\ ~Alone
      <4>1. thread' = [thread EXCEPT ![t] = "asked"]
        BY <2>1, <3>4 DEF Uninstall
      <4>2. Ok("asked")
        BY <3>1, <3>4, <4>1 DEF Using
      <4> HIDE DEF Ok
      <4> QED BY <4>2
    <3> QED BY <3>2, <3>3, <3>4
  <2>2. CASE CountUsers(t)
    <3>1. thread[t] = "asked" /\ heap[t] \in {"shared", "late"} /\ ~deleted
      BY <1>2, <2>2 DEF CountUsers, Heaps
    <3>2. CASE Len(iThreadArray) > KThreadCount
      <4>1. thread' = [thread EXCEPT ![t] = "closing"]
        BY <2>2, <3>2 DEF CountUsers
      <4>2. Ok("closing")
        BY <3>1, <4>1 DEF Using
      <4> HIDE DEF Ok
      <4> QED BY <4>2
    <3>3. CASE ~(Len(iThreadArray) > KThreadCount)
      <4>1. \A u \in Threads : thread[u] \in Using /\ heap[u] \in {"shared", "late"}
                                => \E i \in 1 .. Len(iThreadArray) : iThreadArray[i] = u
        <5>1. \A u \in Threads : thread[u] \in Using /\ heap[u] \in {"shared", "late"}
                                  => u \in ToSet(iThreadArray)
          BY <1>2, <3>1 DEF Table, Alive, Using
        <5> QED BY <1>2, <5>1, ElementsOfSeq DEF Table
      <4>2. Len(iThreadArray) \in Nat /\ Len(iThreadArray) <= 1
        BY <1>2, <3>3 DEF Table, KThreadCount
      <4>3. \A u \in Threads : thread[u] \in Using /\ heap[u] \in {"shared", "late"}
                                => u = iThreadArray[1]
        BY <4>1, <4>2
      <4>4. t = iThreadArray[1]
        BY <3>1, <4>3 DEF Using
      <4>5. \A u \in Threads : thread[u] \in Using => heap[u] # "none"
        BY <1>2 DEF Heaps, Using
      <4>6. \A u \in Threads \ {t} : thread[u] \in Using => heap[u] \in {"own", "late"}
        BY <1>2, <4>3, <4>4, <4>5 DEF Heaps, Kinds
      <4>7. thread' = [thread EXCEPT ![t] = "deleting"]
        BY <2>2, <3>3 DEF CountUsers
      <4>8. Ok("deleting")
        BY <3>1, <4>6, <4>7 DEF Using
      <4> HIDE DEF Ok
      <4> QED BY <4>8
    <3> QED BY <3>2, <3>3
  <2>3. CASE CancelHandler(t)
    <3>1. /\ thread[t] = "deleting" /\ heap[t] \in {"shared", "late"} /\ Doomed
          /\ thread' = [thread EXCEPT ![t] = "waiting"]
      BY <1>2, <2>3 DEF CancelHandler, Heaps, Doomed
    <3>2. Ok("waiting")
      BY <3>1 DEF Using
    <3> HIDE DEF Ok
    <3> QED BY <3>2
  <2>4. CASE Alloc(t)
    <3>1. thread[t] = "running" /\ heap[t] \in {"shared", "late"}
      BY <1>2, <2>4 DEF Alloc, Heaps, Kinds
    <3>2. \/ thread' = [thread EXCEPT ![t] = "running"]
          \/ thread' = [thread EXCEPT ![t] = "restarting"]
      BY <2>4, <3>1 DEF Alloc, Shape
    <3>3. Ok("running") \/ Ok("restarting")
      BY <3>1, <3>2 DEF Using
    <3> HIDE DEF Ok
    <3> QED BY <3>3
  <2>5. CASE Restart(t)
    <3>1. /\ thread[t] = "restarting" /\ heap[t] \in {"shared", "late"}
          /\ thread' = [thread EXCEPT ![t] = "running"]
      BY <1>2, <2>5 DEF Restart, Heaps
    <3>2. Ok("running")
      BY <3>1 DEF Using
    <3> HIDE DEF Ok
    <3> QED BY <3>2
  <2> QED BY <2>1, <2>2, <2>3, <2>4, <2>5
<1>4. Table' /\ Heaps'
  BY <1>1, <1>2, <1>3, UserMoves DEF Using
<1>5. Reports'
  <2>1. \A u \in Threads : thread[u] = "ended" => thread'[u] = "ended"
    BY <1>3 DEF Shape, Using
  <2>2. iEventArray' \in {iEventArray, <<>>}
    BY DEF Uninstall, CountUsers, CancelHandler, Alloc, Restart, Subscribe, DoCancel,
           InformLibraryEvent, CancelInformLibraryEvent, driver
  <2> QED BY <1>1, <1>2, <2>1, <2>2, ReportsUnchanged
<1> QED BY <1>4, <1>5 DEF Users

\* Close takes the thread off the table; the destructor frees the table.
LEMMA LeaveUsers ==
    ASSUME Shape, Users, NEW t \in Threads, Close(t) \/ Destroy(t)
    PROVE  Users'
<1>1. /\ UNCHANGED <<iLibraryInfo, iEventArray, heap, faults>>
      /\ thread' = [thread EXCEPT ![t] = "left"]
      /\ thread[t] \in {"closing", "deleting", "waiting"}
  BY DEF Close, Destroy, driver, handler, history
<1>2. Reports /\ Table /\ Heaps
  BY DEF Users
<1>3. \A u \in Threads : thread'[u] = IF u = t THEN "left" ELSE thread[u]
  BY <1>1 DEF Shape
<1>4. Reports'
  BY <1>1, <1>2, <1>3, ReportsUnchanged
<1>5. CASE Close(t)
  <2>1. iThreadArray' = RemoveFirst(iThreadArray, t) /\ UNCHANGED deleted
    BY <1>5 DEF Close
  <2>2. /\ RemoveFirst(iThreadArray, t) \in Seq(Threads) /\ NoRepeats(RemoveFirst(iThreadArray, t))
        /\ ToSet(RemoveFirst(iThreadArray, t)) = ToSet(iThreadArray) \ {t}
    BY <1>2, RemoveFirstTakes DEF Table
  <2>3. /\ iThreadArray' \in Seq(Threads) /\ NoRepeats(iThreadArray)'
        /\ ToSet(iThreadArray)' = ToSet(iThreadArray) \ {t}
    BY <2>1, <2>2, Zenon
  <2>4. \A u \in ToSet(iThreadArray) : u \in Threads
    BY <1>2, ElementsOfSeq DEF Table
  <2>5. Table'
    BY <1>1, <1>2, <1>3, <2>1, <2>3, <2>4 DEF Table, Alive
  <2>6. Doomed' => Doomed
    BY <1>3, <2>1 DEF Doomed
  <2>7. Heaps'
    BY <1>1, <1>2, <1>3, <2>6 DEF Heaps, Using
  <2> QED BY <1>4, <2>5, <2>7 DEF Users
<1>6. CASE Destroy(t)
  <2>1. iThreadArray' = <<>> /\ deleted' = TRUE /\ Doomed
    BY <1>1, <1>6 DEF Destroy, Doomed
  <2>2. <<>> \in Seq(Threads) /\ NoRepeats(<<>>) /\ ToSet(<<>>) = {}
    BY DEF NoRepeats, ToSet
  <2>3. /\ iThreadArray' \in Seq(Threads) /\ NoRepeats(iThreadArray)'
        /\ ToSet(iThreadArray)' = {}
    BY <2>1, <2>2, Zenon
  <2>4. Table'
    BY <2>1, <2>3 DEF Table
  <2>5. Heaps'
    BY <1>1, <1>2, <1>3, <2>1 DEF Heaps, Using
  <2> QED BY <1>4, <2>4, <2>5 DEF Users
<1> QED BY <1>5, <1>6

\* Every step keeps what is known of the users.
LEMMA NextUsers == Shape /\ Users /\ [Next]_vars => Users'
<1> SUFFICES ASSUME Shape, Users, [Next]_vars PROVE Users'
  OBVIOUS
<1>1. CASE EventDfc \/ \E l \in Libs \cup Foreign, p \in {"own", "other"} :
                         AddLibrary(l, p) \/ RemoveLibrary(l, p)
  BY <1>1, DriverUsers
<1>2. CASE RunL \/ RunLError
  BY <1>2, RunLUsers
<1>3. ASSUME NEW t \in Threads, End(t) PROVE Users'
  BY <1>3, EndUsers
<1>4. ASSUME NEW t \in Threads,
             Create(t) \/ ShareHeap(t) \/ InstallAllocator(t) \/ UseDeleted(t)
      PROVE  Users'
  BY <1>4, BeginUsers
<1>5. ASSUME NEW t \in Threads,
             \/ Uninstall(t) \/ CountUsers(t) \/ CancelHandler(t)
             \/ Alloc(t) \/ Restart(t)
      PROVE  Users'
  BY <1>5, UninstallUsers
<1>6. ASSUME NEW t \in Threads, Close(t) \/ Destroy(t) PROVE Users'
  BY <1>6, LeaveUsers
<1>7. CASE UNCHANGED vars
  <2>1. UNCHANGED <<thread, heap, iThreadArray, deleted, faults, iEventArray, iLibraryInfo>>
    BY <1>7 DEF vars, driver, handler, allocator, process, history
  <2> QED BY <2>1, UsersUnchanged, ReportsUnchanged DEF Users
<1> QED BY <1>1, <1>2, <1>3, <1>4, <1>5, <1>6, <1>7 DEF Next

\* The table of the main allocator holds each thread that shares it once, and no
\* such thread uses the allocator after its end.  Two kinds of threads do, which the
\* table cannot know: those with a heap of their own, and those that were created
\* before the destructor was certain and join after.
THEOREM AllocatorAlwaysOutlives == Spec => []AllocatorOutlivesUsers
<1>1. Users => AllocatorOutlivesUsers
  <2> SUFFICES ASSUME Users PROVE AllocatorOutlivesUsers
    OBVIOUS
  <2>1. Cardinality(ToSet(iThreadArray)) = Len(iThreadArray)
    BY NoRepeatsLength DEF Users, Table
  <2> QED BY <2>1 DEF Users, Table, Heaps, AllocatorOutlivesUsers
<1>2. Inv => Shape
  BY DEF Inv
<1> QED BY <1>1, <1>2, InitInv, NextInv, InitUsers, NextUsers, PTL DEF Spec

-----------------------------------------------------------------------------
(* The tables catch up.                                                     *)

\* f lists the code blocks after each of the events s.  What CodeblocksAfter says is
\* the last of them; that there is such a list, and where every such list ends, is
\* carried along by the steps, because an induction over the events is not at
\* hand.
Replays(f, blocks, s) ==
    /\ f = [n \in 0 .. Len(s) |-> f[n]]
    /\ f[0] = blocks
    /\ \A n \in 1 .. Len(s) : f[n] = Replay(f[n - 1], s[n])

\* The code blocks are those of the libraries libs, each once.
Right(blocks, libs) ==
    blocks \in Seq(Libs) /\ NoRepeats(blocks) /\ ToSet(blocks) = libs

Lags(blocks, s, libs) ==
    /\ \E f : Replays(f, blocks, s)
    /\ \A f : Replays(f, blocks, s) => Right(f[Len(s)], libs)

\* The code blocks after the event that the handler has been given.
Behind == IF iStatus = "done" THEN Replay(iCodeblocks, iLibraryInfo) ELSE iCodeblocks

\* The event that reports the death of t is on its way.
Announced(t) ==
    \/ iStatus = "done" /\ iLibraryInfo = Event("killed", t, "own")
    \/ Event("killed", t, "own") \in ToSet(iEventArray)

Usable == ~lost /\ ~Doomed /\ open

\* While the allocator is used the handler is active between its start and the
\* destructor, and nobody has to cancel it.
Steady ==
    /\ Main \in Alive
    /\ iStatus = "done" => isActive
    /\ isActive => iStarted
    /\ \A t \in Threads : thread[t] # "restarting"
    /\ strayed \subseteq loaded

CaughtUp ==
    Usable =>
      /\ Steady
      /\ Lags(Behind, iEventArray, Ours)
      /\ \A t \in ToSet(iThreadArray) : thread[t] = "ended" => Announced(t)

\* Without events on their way the table is what it should be.
LEMMA LagsNot ==
    ASSUME NEW libs, NEW blocks, Right(blocks, libs)
    PROVE  Lags(blocks, <<>>, libs)
<1>1. Len(<<>>) = 0
  OBVIOUS
<1> DEFINE f == [n \in 0 .. 0 |-> blocks]
<1>2. Replays(f, blocks, <<>>)
  BY <1>1 DEF Replays
<1>3. \A g : Replays(g, blocks, <<>>) => g[Len(<<>>)] = blocks
  BY <1>1 DEF Replays
<1> QED BY <1>2, <1>3 DEF Lags

\* An event at the end of the queue is handled after all others.
LEMMA LagsAppend ==
    ASSUME NEW S, NEW s \in Seq(S), NEW e \in S, NEW blocks, NEW libs, NEW new,
           Lags(blocks, s, libs),
           \A x : Right(x, libs) => Right(Replay(x, e), new)
    PROVE  Lags(blocks, Append(s, e), new)
<1> DEFINE r == Append(s, e)
           k == Len(s)
<1>1. /\ k \in Nat /\ Len(r) = k + 1 /\ r[k + 1] = e
      /\ \A n \in 1 .. k : r[n] = s[n]
  BY AppendProperties
<1> HIDE DEF r
<1>2. PICK f : Replays(f, blocks, s)
  BY DEF Lags
<1> DEFINE g == [n \in 0 .. k + 1 |-> IF n = k + 1 THEN Replay(f[k], e) ELSE f[n]]
<1>3. Replays(g, blocks, r)
  <2>1. g = [n \in 0 .. Len(r) |-> g[n]] /\ g[0] = blocks
    BY <1>1, <1>2 DEF Replays
  <2>2. ASSUME NEW n \in 1 .. k + 1 PROVE g[n] = Replay(g[n - 1], r[n])
    <3>1. CASE n = k + 1
      BY <1>1, <3>1
    <3>2. CASE n # k + 1
      <4>1. n \in 1 .. k /\ n - 1 \in 0 .. k + 1 /\ n - 1 # k + 1
        BY <1>1, <3>2
      <4>2. g[n] = f[n] /\ g[n - 1] = f[n - 1]
        BY <1>1, <3>2, <4>1
      <4> QED BY <1>1, <1>2, <4>1, <4>2 DEF Replays
    <3> QED BY <3>1, <3>2
  <2> HIDE DEF g
  <2> QED BY <1>1, <2>1, <2>2 DEF Replays
<1>4. ASSUME NEW h, Replays(h, blocks, r) PROVE Right(h[Len(r)], new)
  <2> DEFINE j == [n \in 0 .. k |-> h[n]]
  <2>1. Replays(j, blocks, s)
    <3>1. j = [n \in 0 .. Len(s) |-> j[n]] /\ j[0] = blocks
      BY <1>1, <1>4 DEF Replays
    <3>2. ASSUME NEW n \in 1 .. k PROVE j[n] = Replay(j[n - 1], s[n])
      <4>1. n \in 1 .. Len(r) /\ n \in 0 .. k /\ n - 1 \in 0 .. k
        BY <1>1
      <4> QED BY <1>1, <1>4, <4>1 DEF Replays
    <3> HIDE DEF j
    <3> QED BY <3>1, <3>2 DEF Replays
  <2>2. Right(j[k], libs)
    <3> HIDE DEF j
    <3> QED BY <2>1 DEF Lags
  <2>3. Right(h[k], libs)
    BY <1>1, <2>2
  <2>4. h[Len(r)] = Replay(h[k], e)
    <3>1. k + 1 \in 1 .. Len(r) /\ (k + 1) - 1 = k
      BY <1>1
    <3>2. h[k + 1] = Replay(h[(k + 1) - 1], r[k + 1])
      BY <1>4, <3>1 DEF Replays
    <3> QED BY <1>1, <3>1, <3>2
  <2> QED BY <2>3, <2>4
<1> HIDE DEF g
<1> QED BY <1>3, <1>4 DEF Lags, r

\* The first event is handled before all others.
LEMMA LagsFirst ==
    ASSUME NEW S, NEW s \in Seq(S), s # <<>>, NEW blocks, NEW libs
    PROVE  Lags(blocks, s, libs) <=> Lags(Replay(blocks, Head(s)), Tail(s), libs)
<1> DEFINE r == Tail(s)
           e == Head(s)
           k == Len(r)
           b == Replay(blocks, e)
<1>1. /\ k \in Nat /\ Len(s) = k + 1 /\ s[1] = e
      /\ \A n \in 1 .. k : r[n] = s[n + 1]
  BY HeadTailProperties, EmptySeq
<1> HIDE DEF r, e
<1>2. ASSUME NEW f, Replays(f, blocks, s)
      PROVE  \E g : Replays(g, b, r) /\ g[k] = f[k + 1]
  <2> DEFINE g == [n \in 0 .. k |-> f[n + 1]]
  <2>1. g = [n \in 0 .. Len(r) |-> g[n]]
    OBVIOUS
  <2>2. g[0] = b
    BY <1>1, <1>2 DEF Replays
  <2>3. ASSUME NEW n \in 1 .. k PROVE g[n] = Replay(g[n - 1], r[n])
    <3>1. /\ n + 1 \in 1 .. Len(s) /\ n \in 0 .. k /\ n - 1 \in 0 .. k
          /\ (n - 1) + 1 = n /\ (n + 1) - 1 = n
      BY <1>1
    <3>2. f[n + 1] = Replay(f[n], s[n + 1])
      BY <1>2, <3>1 DEF Replays
    <3>3. g[n] = f[n + 1] /\ g[n - 1] = f[n]
      BY <3>1
    <3> QED BY <1>1, <3>2, <3>3
  <2>4. g[k] = f[k + 1]
    BY <1>1
  <2> HIDE DEF g
  <2>5. Replays(g, b, r)
    BY <2>1, <2>2, <2>3 DEF Replays
  <2> QED BY <2>4, <2>5
<1>3. ASSUME NEW g, Replays(g, b, r)
      PROVE  \E f : Replays(f, blocks, s) /\ f[k + 1] = g[k]
  <2> DEFINE f == [n \in 0 .. k + 1 |-> IF n = 0 THEN blocks ELSE g[n - 1]]
  <2>1. f = [n \in 0 .. Len(s) |-> f[n]] /\ f[0] = blocks
    BY <1>1
  <2>2. ASSUME NEW n \in 1 .. k + 1 PROVE f[n] = Replay(f[n - 1], s[n])
    <3>1. CASE n = 1
      <4>1. f[1] = g[0] /\ f[0] = blocks
        BY <1>1
      <4>2. g[0] = b
        BY <1>3 DEF Replays
      <4> QED BY <1>1, <3>1, <4>1, <4>2
    <3>2. CASE n # 1
      <4>1. n - 1 \in 1 .. k /\ n - 1 \in 0 .. k + 1 /\ n - 1 # 0 /\ (n - 1) + 1 = n
        BY <1>1, <3>2
      <4>2. g[n - 1] = Replay(g[(n - 1) - 1], r[n - 1])
        BY <1>3, <4>1 DEF Replays
      <4>3. r[n - 1] = s[n]
        BY <1>1, <4>1
      <4>4. f[n] = g[n - 1] /\ f[n - 1] = g[(n - 1) - 1]
        BY <1>1, <3>2, <4>1
      <4> QED BY <4>2, <4>3, <4>4
    <3> QED BY <3>1, <3>2
  <2>3. f[k + 1] = g[k]
    BY <1>1
  <2> HIDE DEF f
  <2>4. Replays(f, blocks, s)
    BY <1>1, <2>1, <2>2 DEF Replays
  <2> QED BY <2>3, <2>4
<1> HIDE DEF b
<1>4. Lags(blocks, s, libs) <=> Lags(b, r, libs)
  <2>1. ASSUME Lags(blocks, s, libs) PROVE Lags(b, r, libs)
    <3>1. \E g : Replays(g, b, r)
      BY <1>2, <2>1 DEF Lags
    <3>2. \A g : Replays(g, b, r) => Right(g[k], libs)
      BY <1>1, <1>3, <2>1 DEF Lags
    <3> QED BY <3>1, <3>2 DEF Lags
  <2>2. ASSUME Lags(b, r, libs) PROVE Lags(blocks, s, libs)
    <3>1. \E f : Replays(f, blocks, s)
      BY <1>3, <2>2 DEF Lags
    <3>2. \A f : Replays(f, blocks, s) => Right(f[k + 1], libs)
      BY <1>2, <2>2 DEF Lags
    <3> QED BY <1>1, <3>1, <3>2 DEF Lags
  <2> QED BY <2>1, <2>2
<1> QED BY <1>4 DEF b, r, e

\* The recursive function of CodeblocksAfter is such a list.
LEMMA LagsEnd ==
    ASSUME NEW S, NEW s \in Seq(S), NEW blocks, NEW libs, Lags(blocks, s, libs)
    PROVE  Right(CodeblocksAfter(blocks, s), libs)
<1> DEFINE F(f) == [n \in 0 .. Len(s) |-> IF n = 0 THEN blocks ELSE Replay(f[n - 1], s[n])]
           g == CHOOSE f : f = F(f)
<1>0. Len(s) \in Nat
  OBVIOUS
<1>1. CodeblocksAfter(blocks, s) = g[Len(s)]
  BY DEF CodeblocksAfter
<1>2. \E f : f = F(f)
  <2>1. PICK f : Replays(f, blocks, s)
    BY DEF Lags
  <2>2. f = F(f)
    <3>1. ASSUME NEW n \in 0 .. Len(s)
          PROVE  f[n] = IF n = 0 THEN blocks ELSE Replay(f[n - 1], s[n])
      <4>1. n = 0 \/ n \in 1 .. Len(s)
        BY <1>0
      <4>2. f[0] = blocks /\ \A i \in 1 .. Len(s) : f[i] = Replay(f[i - 1], s[i])
        BY <2>1 DEF Replays
      <4> QED BY <1>0, <4>1, <4>2
    <3>2. f = [n \in 0 .. Len(s) |-> f[n]]
      BY <2>1 DEF Replays
    <3> QED BY <3>1, <3>2
  <2> QED BY <2>2
<1>3. g = F(g)
  <2> HIDE DEF F
  <2> QED BY <1>2
<1> HIDE DEF g
<1>4. \A f : f = F(f) => Replays(f, blocks, s)
  <2> SUFFICES ASSUME NEW f, f = F(f) PROVE Replays(f, blocks, s)
    OBVIOUS
  <2>1. \A n \in 0 .. Len(s) : f[n] = IF n = 0 THEN blocks ELSE Replay(f[n - 1], s[n])
    OBVIOUS
  <2>2. f = [n \in 0 .. Len(s) |-> f[n]]
    BY <2>1
  <2> HIDE DEF F
  <2>3. f[0] = blocks /\ \A n \in 1 .. Len(s) : f[n] = Replay(f[n - 1], s[n])
    BY <1>0, <2>1
  <2> QED BY <2>2, <2>3 DEF Replays
<1> HIDE DEF F
<1>5. Replays(g, blocks, s)
  BY <1>3, <1>4
<1> QED BY <1>1, <1>5 DEF Lags

\* A loaded library joins the right table, an unloaded one leaves it.
LEMMA RightChange ==
    ASSUME NEW x, NEW libs, Right(x, libs), NEW l
    PROVE  /\ l \in Libs \ libs => Right(Append(x, l), libs \cup {l})
           /\ Right(RemoveFirst(x, l), libs \ {l})
<1>1. x \in Seq(Libs) /\ NoRepeats(x) /\ ToSet(x) = libs
  BY DEF Right
<1>2. ASSUME l \in Libs \ libs PROVE Right(Append(x, l), libs \cup {l})
  <2>1. Append(x, l) \in Seq(Libs) /\ ToSet(Append(x, l)) = ToSet(x) \cup {l}
    BY <1>1, <1>2, ElementsAfterAppend
  <2>2. NoRepeats(Append(x, l))
    BY <1>1, <1>2, AppendNoRepeats
  <2> QED BY <1>1, <2>1, <2>2 DEF Right
<1>3. Right(RemoveFirst(x, l), libs \ {l})
  BY <1>1, RemoveFirstTakes DEF Right
<1> QED BY <1>2, <1>3

\* An element of a queue is its first or one of the others.
LEMMA FirstOrLater ==
    ASSUME NEW S, NEW s \in Seq(S), s # <<>>, NEW e \in ToSet(s)
    PROVE  e = Head(s) \/ e \in ToSet(Tail(s))
<1>1. /\ Len(Tail(s)) = Len(s) - 1 /\ Tail(s) \in Seq(S) /\ Head(s) = s[1]
      /\ \A i \in 1 .. Len(Tail(s)) : Tail(s)[i] = s[i + 1]
  BY HeadTailProperties
<1>2. PICK i \in 1 .. Len(s) : s[i] = e
  BY ElementsOfSeq
<1>3. CASE i = 1
  BY <1>1, <1>2, <1>3
<1>4. CASE i # 1
  <2>1. i - 1 \in 1 .. Len(Tail(s)) /\ (i - 1) + 1 = i
    BY <1>1, <1>4
  <2>2. Tail(s)[i - 1] = e
    BY <1>1, <1>2, <2>1
  <2>3. \A x : x \in ToSet(Tail(s)) <=> \E j \in 1 .. Len(Tail(s)) : Tail(s)[j] = x
    BY <1>1, ElementsOfSeq
  <2> QED BY <2>1, <2>2, <2>3, Zenon
<1> QED BY <1>3, <1>4

\* The process begins without libraries.
LEMMA InitCaughtUp == Init => CaughtUp
<1> SUFFICES ASSUME Init PROVE CaughtUp
  OBVIOUS
<1>1. Steady
  BY EventsAssumption DEF Init, Steady, Alive
<1>2. Right(<<>>, {})
  BY DEF Right, NoRepeats, ToSet
<1>3. Lags(Behind, iEventArray, Ours)
  BY <1>2, LagsNot DEF Init, Behind, Ours
<1>4. iThreadArray = <<Main>> /\ thread[Main] = "running"
  BY EventsAssumption DEF Init
<1>5. \A t \in ToSet(iThreadArray) : thread[t] # "ended"
  BY <1>4 DEF ToSet
<1> QED BY <1>1, <1>3, <1>5 DEF CaughtUp

\* Steps that leave the events on their way alone.
LEMMA StillCaughtUp ==
    ASSUME CaughtUp, Usable' => Usable /\ Steady',
           UNCHANGED <<Behind, iEventArray, iLibraryInfo, Ours>>,
           (iStatus = "done")' = (iStatus = "done"),
           \A u \in ToSet(iThreadArray)' :
             thread'[u] = "ended" => u \in ToSet(iThreadArray) /\ thread[u] = "ended"
    PROVE  CaughtUp'
<1> SUFFICES ASSUME Usable'
             PROVE  /\ Lags(Behind, iEventArray, Ours)'
                    /\ \A t \in ToSet(iThreadArray)' : thread'[t] = "ended" => Announced(t)'
  BY DEF CaughtUp
<1>1. Lags(Behind, iEventArray, Ours)'
  BY DEF CaughtUp
<1>2. ASSUME NEW t, Announced(t) PROVE Announced(t)'
  BY <1>2 DEF Announced
<1> QED BY <1>1, <1>2 DEF CaughtUp

\* The driver gives the first event to the handler.
LEMMA DfcCaughtUp == ASSUME Inv, Reports, CaughtUp, EventDfc PROVE CaughtUp'
<1>1. /\ UNCHANGED <<thread, iThreadArray, iCodeblocks, deleted, loaded, strayed, Ours, lost, open>>
      /\ UNCHANGED <<isActive, iStarted>>
  BY DEF EventDfc, allocator, process, system, history, Ours
<1>2. Usable' <=> Usable
  BY <1>1 DEF Usable, Doomed
<1>3. CASE ~(iClientThread # None /\ iEventArray # <<>>)
  <2>1. UNCHANGED <<iLibraryInfo, iStatus, iEventArray>>
    BY <1>3 DEF EventDfc
  <2>2. Usable' => Usable /\ Steady'
    BY <1>1, <1>2, <2>1 DEF CaughtUp, Steady, Alive
  <2>3. UNCHANGED Behind
    BY <1>1, <2>1 DEF Behind
  <2> QED BY <1>1, <2>1, <2>2, <2>3, StillCaughtUp
<1>4. CASE iClientThread # None /\ iEventArray # <<>>
  <2> SUFFICES ASSUME Usable
               PROVE  /\ Steady' /\ Lags(Behind, iEventArray, Ours)'
                      /\ \A t \in ToSet(iThreadArray)' : thread'[t] = "ended" => Announced(t)'
    BY <1>2 DEF CaughtUp
  <2>1. /\ iLibraryInfo' = Head(iEventArray) /\ iStatus' = "done"
        /\ iEventArray' = Tail(iEventArray)
    BY <1>4 DEF EventDfc
  <2>2. Main \in Alive /\ iStatus = "pending" /\ isActive /\ iStarted
    BY <1>4 DEF CaughtUp, Steady, Inv, RequestsMeetEvents
  <2>3. Steady'
    BY <1>1, <2>2 DEF CaughtUp, Steady, Alive
  <2>4. iEventArray \in Seq(Events)
    BY DEF Reports
  <2>5. Lags(iCodeblocks, iEventArray, Ours)
    BY <2>2 DEF CaughtUp, Behind
  <2>6. Lags(Replay(iCodeblocks, Head(iEventArray)), Tail(iEventArray), Ours)
    BY <1>4, <2>4, <2>5, LagsFirst
  <2>7. Behind' = Replay(iCodeblocks, Head(iEventArray))
    BY <1>1, <2>1 DEF Behind
  <2>8. Lags(Behind, iEventArray, Ours)'
    BY <1>1, <2>1, <2>6, <2>7, Zenon
  <2>9. ASSUME NEW t \in ToSet(iThreadArray), thread[t] = "ended" PROVE Announced(t)'
    <3>1. Event("killed", t, "own") \in ToSet(iEventArray)
      BY <2>2, <2>9 DEF CaughtUp, Announced
    <3>2. \/ Event("killed", t, "own") = Head(iEventArray)
          \/ Event("killed", t, "own") \in ToSet(Tail(iEventArray))
      BY <1>4, <2>4, <3>1, FirstOrLater
    <3> QED BY <2>1, <3>2 DEF Announced
  <2> QED BY <1>1, <2>3, <2>8, <2>9
<1> QED BY <1>3, <1>4

\* An event that is queued and not lost is on its way behind all others or, when it
\* reports a death, before them.
LEMMA QueueCaughtUp ==
    ASSUME Reports, NEW e \in Events, QueueEvent(e), ~lost',
           NEW blocks, NEW libs, NEW new, Lags(blocks, iEventArray, libs),
           \A x : Right(x, libs) => Right(Replay(x, e), new),
           e.type = "killed" => new = libs
    PROVE  /\ Lags(blocks, iEventArray', new)
           /\ ToSet(iEventArray)' = ToSet(iEventArray) \cup {e}
<1>1. iEventArray \in Seq(Events)
  BY DEF Reports
<1>2. CASE e.type = "killed"
  <2> DEFINE s == <<e>> \o iEventArray
  <2>1. iEventArray' = s
    BY <1>2 DEF QueueEvent
  <2>2. s \in Seq(Events) /\ ToSet(s) = ToSet(iEventArray) \cup {e}
    BY <1>1, ElementsAfterPrepend
  <2>3. s # <<>> /\ Head(s) = e /\ Tail(s) = iEventArray
    BY <1>1
  <2>4. Replay(blocks, e) = blocks
    BY <1>2 DEF Replay
  <2> HIDE DEF s
  <2>5. Lags(blocks, s, libs)
    BY <2>2, <2>3, <2>4, LagsFirst
  <2> QED BY <1>2, <2>1, <2>2, <2>5, Zenon
<1>3. CASE e.type # "killed"
  <2> DEFINE s == Append(iEventArray, e)
  <2>1. iEventArray' = s
    BY <1>3 DEF QueueEvent
  <2>2. ToSet(s) = ToSet(iEventArray) \cup {e}
    BY <1>1, ElementsAfterAppend
  <2>3. Lags(blocks, s, new)
    BY <1>1, LagsAppend
  <2> HIDE DEF s
  <2> QED BY <2>1, <2>2, <2>3, Zenon
<1> QED BY <1>2, <1>3

\* The events of the system: a library that the process loads or unloads, while the
\* queue takes the event.  A name that another process unloads is no longer ours.
LEMMA LibraryCaughtUp ==
    ASSUME Inv, Reports, CaughtUp,
           NEW l \in Libs \cup Foreign, NEW p \in {"own", "other"},
           AddLibrary(l, p) \/ RemoveLibrary(l, p)
    PROVE  CaughtUp'
<1>1. /\ UNCHANGED <<thread, iThreadArray, iCodeblocks, deleted>>
      /\ UNCHANGED <<iStatus, iLibraryInfo, isActive, iStarted>>
  BY DEF AddLibrary, RemoveLibrary, handler, allocator, process
<1>2. Usable' => Usable
  BY <1>1 DEF Usable, Doomed, AddLibrary, RemoveLibrary, HandleLibraryEvent, QueueEvent, driver
<1> SUFFICES ASSUME Usable'
             PROVE  /\ Steady' /\ Lags(Behind, iEventArray, Ours)'
                    /\ \A t \in ToSet(iThreadArray)' : thread'[t] = "ended" => Announced(t)'
  BY DEF CaughtUp
<1>3. Usable /\ Steady /\ Lags(Behind, iEventArray, Ours)
  BY <1>2 DEF CaughtUp
<1>4. Steady'
  <2>1. strayed' \subseteq loaded'
    BY <1>3 DEF Steady, AddLibrary, RemoveLibrary
  <2> QED BY <1>1, <1>3, <2>1 DEF Steady, Alive
<1>5. UNCHANGED Behind
  BY <1>1 DEF Behind
<1>6. CASE UNCHANGED <<iEventArray, Ours>>
  <2>1. Lags(Behind, iEventArray, Ours)'
    BY <1>3, <1>5, <1>6
  <2>2. \A t \in ToSet(iThreadArray)' : thread'[t] = "ended" => Announced(t)'
    BY <1>1, <1>3, <1>6 DEF CaughtUp, Announced
  <2> QED BY <1>4, <2>1, <2>2
<1>7. ASSUME NEW e \in Events, QueueEvent(e), e.type # "killed",
             \A x : Right(x, Ours) => Right(Replay(x, e), Ours')
      PROVE  /\ Lags(Behind, iEventArray, Ours)'
             /\ \A t \in ToSet(iThreadArray)' : thread'[t] = "ended" => Announced(t)'
  <2> DEFINE b == Behind
             new == Ours'
  <2>1. ~lost' /\ Lags(b, iEventArray, Ours)
    BY <1>3 DEF Usable
  <2> HIDE DEF b, new
  <2>2. \A x : Right(x, Ours) => Right(Replay(x, e), new)
    BY <1>7 DEF new
  <2>3. Lags(b, iEventArray', new) /\ ToSet(iEventArray)' = ToSet(iEventArray) \cup {e}
    BY <1>7, <2>1, <2>2, QueueCaughtUp
  <2>4. Lags(Behind, iEventArray, Ours)'
    BY <1>5, <2>3 DEF b, new
  <2>5. \A t : Announced(t) => Announced(t)'
    BY <1>1, <2>3 DEF Announced
  <2>6. \A t \in ToSet(iThreadArray)' : thread'[t] = "ended" => Announced(t)'
    BY <1>1, <1>3, <2>5 DEF CaughtUp
  <2> QED BY <2>4, <2>6
<1>8. CASE AddLibrary(l, p)
  <2>1. HandleLibraryEvent(Event("added", l, p)) /\ open
    BY <1>3, <1>8 DEF AddLibrary, Usable
  <2>2. CASE p = "own"
    <3>1. l \in Libs \ Ours /\ Ours' = Ours \cup {l}
      BY <1>3, <1>8, <2>2 DEF AddLibrary, Ours, Steady
    <3> DEFINE e == Event("added", l, p)
    <3>2. e \in Events /\ e.type = "added" /\ e.proc = "own" /\ e.what = l
      BY <2>2 DEF Event, Events
    <3>3. QueueEvent(e)
      BY <2>1, <3>2 DEF HandleLibraryEvent
    <3> HIDE DEF e
    <3>4. \A x : Replay(x, e) = Append(x, l)
      BY <3>2 DEF Replay
    <3>5. \A x : Right(x, Ours) => Right(Append(x, l), Ours \cup {l})
      BY <3>1, RightChange
    <3> QED BY <1>4, <1>7, <3>1, <3>2, <3>3, <3>4, <3>5
  <2>3. CASE p = "other"
    <3>1. UNCHANGED Ours
      BY <1>8, <2>3 DEF AddLibrary, Ours
    <3>2. UNCHANGED iEventArray
      BY <2>1, <2>3 DEF HandleLibraryEvent, Event, driver
    <3> QED BY <1>6, <3>1, <3>2
  <2> QED BY <2>2, <2>3
<1>9. CASE RemoveLibrary(l, p)
  <2> DEFINE e == Event("removed", l, p)
  <2>1. e \in Events /\ e.type = "removed" /\ e.what = l
    BY DEF Event, Events
  <2>2. QueueEvent(e)
    BY <1>3, <1>9, <2>1 DEF RemoveLibrary, Usable, HandleLibraryEvent
  <2>3. Ours' = Ours \ {l}
    BY <1>9 DEF RemoveLibrary, Ours
  <2> HIDE DEF e
  <2>4. \A x : Replay(x, e) = RemoveFirst(x, l)
    BY <2>1 DEF Replay
  <2>5. \A x : Right(x, Ours) => Right(RemoveFirst(x, l), Ours \ {l})
    BY RightChange
  <2> QED BY <1>4, <1>7, <2>1, <2>2, <2>3, <2>4, <2>5
<1> QED BY <1>8, <1>9

\* RunL does what the replay says and takes a dead thread off the table.
LEMMA RunLCaughtUp == ASSUME Inv, Users, CaughtUp, RunL \/ RunLError PROVE CaughtUp'
<1>1. UNCHANGED <<thread, iLibraryInfo, iEventArray, deleted, loaded, strayed, Ours, lost, open>>
  BY DEF RunL, RunLError, Subscribe, InformLibraryEvent, driver, allocator, process, system,
         history, Ours
<1>2. Usable' <=> Usable
  BY <1>1 DEF Usable, Doomed
<1>3. CASE RunLError
  <2>1. /\ iStatus = "cancelled" /\ ~isActive'
        /\ UNCHANGED <<iStatus, iCodeblocks, iThreadArray>>
    BY <1>3 DEF RunLError, allocator
  <2>2. UNCHANGED Behind
    BY <1>1, <2>1 DEF Behind
  <2>3. Usable' => Usable /\ Steady'
    BY <1>1, <1>2, <2>1 DEF CaughtUp, Steady, Alive
  <2> QED BY <1>1, <2>1, <2>2, <2>3, StillCaughtUp
<1>4. CASE RunL
  <2> SUFFICES ASSUME Usable
               PROVE  /\ Steady' /\ Lags(Behind, iEventArray, Ours)'
                      /\ \A t \in ToSet(iThreadArray)' : thread'[t] = "ended" => Announced(t)'
    BY <1>2 DEF CaughtUp
  <2>1. iStatus = "done" /\ iStatus' = "pending" /\ isActive' /\ iStarted'
    BY <1>4 DEF RunL, Subscribe, InformLibraryEvent
  <2>2. Steady'
    BY <1>1, <2>1 DEF CaughtUp, Steady, Alive
  <2>3. iCodeblocks' = Replay(iCodeblocks, iLibraryInfo)
    BY <1>4 DEF RunL, Replay
  <2>4. Behind' = Behind
    BY <2>1, <2>3 DEF Behind
  <2>5. Lags(Behind, iEventArray, Ours)'
    BY <1>1, <2>4 DEF CaughtUp
  <2>6. ASSUME NEW t \in ToSet(iThreadArray)', thread'[t] = "ended"
        PROVE  Announced(t)'
    <3>1. CASE iLibraryInfo.type = "killed"
      <4> DEFINE u == iLibraryInfo.what
                 r == RemoveFirst(iThreadArray, u)
      <4>1. iThreadArray' = r
        BY <1>4, <3>1 DEF RunL
      <4>2. iThreadArray \in Seq(Threads) /\ NoRepeats(iThreadArray)
        BY DEF Users, Table
      <4> HIDE DEF u
      <4>3. ToSet(r) = ToSet(iThreadArray) \ {u}
        BY <4>2, RemoveFirstTakes
      <4> HIDE DEF r
      <4>4. t \in ToSet(iThreadArray) /\ t # u
        BY <2>6, <4>1, <4>3
      <4>5. Announced(t) /\ iLibraryInfo # Event("killed", t, "own")
        BY <1>1, <2>6, <4>4 DEF CaughtUp, Event, u
      <4> QED BY <1>1, <4>5 DEF Announced
    <3>2. CASE iLibraryInfo.type # "killed"
      <4>1. iThreadArray' = iThreadArray
        BY <1>4, <3>2 DEF RunL
      <4>2. Announced(t) /\ iLibraryInfo # Event("killed", t, "own")
        BY <1>1, <2>6, <3>2, <4>1 DEF CaughtUp, Event
      <4> QED BY <1>1, <4>2 DEF Announced
    <3> QED BY <3>1, <3>2
  <2> QED BY <2>2, <2>5, <2>6
<1> QED BY <1>3, <1>4

\* A thread that dies while the main thread lives is not alone, so it is reported.
LEMMA EndCaughtUp == ASSUME Inv, Users, CaughtUp, NEW t \in Threads, End(t) PROVE CaughtUp'
<1>1. /\ UNCHANGED <<iStatus, iLibraryInfo, isActive, iStarted, iThreadArray, iCodeblocks>>
      /\ UNCHANGED <<deleted, loaded, strayed, Ours>> /\ thread[t] \in {"running", "left"}
  BY DEF End, handler, allocator, system, Ours
<1> SUFFICES ASSUME Usable'
             PROVE  /\ Steady' /\ Lags(Behind, iEventArray, Ours)'
                    /\ \A u \in ToSet(iThreadArray)' : thread'[u] = "ended" => Announced(u)'
  BY DEF CaughtUp
<1>2. t # Main /\ thread' = [thread EXCEPT ![t] = "ended"] /\ HandleKillThreadEvent(t)
  BY DEF End, Usable
<1>3. \A u \in Threads : thread'[u] = IF u = t THEN "ended" ELSE thread[u]
  BY <1>2 DEF Inv, Shape
<1>4. Usable
  BY <1>1, <1>2, <1>3 DEF Usable, Doomed, HandleKillThreadEvent, QueueEvent, driver
<1>5. Steady /\ Lags(Behind, iEventArray, Ours)
  BY <1>4 DEF CaughtUp
<1>6. Steady'
  BY <1>1, <1>2, <1>3, <1>5, EventsAssumption DEF Steady, Alive
<1>7. ~Alone
  <2>1. Alive \in SUBSET Threads /\ Main \in Alive /\ t \in Alive
    BY <1>1, <1>5 DEF Steady, Alive
  <2>2. IsFiniteSet(Alive)
    BY <2>1, FS_Subset, EventsAssumption, Zenon
  <2>3. ASSUME Alone PROVE FALSE
    <3>1. PICK x : Alive = {x}
      BY <2>2, <2>3, FS_Singleton DEF Alone
    <3> QED BY <1>2, <2>1, <3>1
  <2> QED BY <2>3
<1> DEFINE e == Event("killed", t, "own")
           b == Behind
<1>8. QueueEvent(e) /\ ~lost'
  BY <1>2, <1>4, <1>7 DEF HandleKillThreadEvent, Usable
<1>9. e \in Events /\ e.type = "killed"
  BY DEF Event, Events
<1> HIDE DEF e, b
<1>10. Lags(b, iEventArray, Ours) /\ Reports
  BY <1>5 DEF b, Users
<1>11. \A x : Right(x, Ours) => Right(Replay(x, e), Ours)
  BY <1>9 DEF Replay
<1>12. Lags(b, iEventArray', Ours) /\ ToSet(iEventArray)' = ToSet(iEventArray) \cup {e}
  BY <1>8, <1>9, <1>10, <1>11, QueueCaughtUp
<1>13. Lags(Behind, iEventArray, Ours)'
  <2>1. Behind' = b
    BY <1>1 DEF Behind, b
  <2> QED BY <1>1, <1>12, <2>1
<1>14. ASSUME NEW u \in ToSet(iThreadArray), thread'[u] = "ended" PROVE Announced(u)'
  <2>1. u \in Threads
    BY ElementsOfSeq DEF Users, Table
  <2>2. CASE u = t
    BY <1>12, <2>2 DEF Announced, e
  <2>3. CASE u # t
    <3>1. Announced(u)
      BY <1>3, <1>4, <1>14, <2>1, <2>3 DEF CaughtUp
    <3> QED BY <1>1, <1>12, <3>1 DEF Announced
  <2> QED BY <2>2, <2>3
<1> QED BY <1>1, <1>6, <1>13, <1>14

\* A thread that moves on, without ending, while the handler and the queue are left
\* alone.
LEMMA MoveCaughtUp ==
    ASSUME Inv, Users, CaughtUp, NEW t \in Threads,
           NEW p \in Places \ {"new", "ended", "restarting"},
           thread[t] \notin {"ended", "deleting", "waiting"},
           thread' = [thread EXCEPT ![t] = p],
           UNCHANGED <<driver, handler, iCodeblocks, deleted, system, lost>>,
           \A u \in ToSet(iThreadArray)' : u \in ToSet(iThreadArray) \/ u = t
    PROVE  CaughtUp'
<1>1. \A u \in Threads : thread'[u] = IF u = t THEN p ELSE thread[u]
  BY DEF Inv, Shape
<1>2. /\ UNCHANGED <<iStatus, iLibraryInfo, isActive, iStarted, iEventArray, open>>
      /\ UNCHANGED <<loaded, strayed, Ours>>
  BY DEF driver, handler, system, Ours
<1>3. Usable' => Usable
  BY <1>1, <1>2 DEF Usable, Doomed
<1>4. Usable => Steady
  BY DEF CaughtUp
<1>5. Steady => Steady'
  BY <1>1, <1>2 DEF Steady, Alive
<1>6. UNCHANGED Behind
  BY <1>2 DEF Behind
<1>7. \A u \in ToSet(iThreadArray) : u \in Threads
  BY ElementsOfSeq DEF Users, Table
<1>8. ASSUME NEW u \in ToSet(iThreadArray)', thread'[u] = "ended"
      PROVE  u \in ToSet(iThreadArray) /\ thread[u] = "ended"
  <2>1. u \in Threads
    BY <1>7
  <2>2. u # t /\ thread[u] = "ended"
    BY <1>1, <1>8, <2>1
  <2> QED BY <2>2
<1> QED BY <1>2, <1>3, <1>4, <1>5, <1>6, <1>8, StillCaughtUp

\* The allocator starts to go, or is gone: nothing is promised any more.
LEMMA NoLongerUsable ==
    ASSUME Shape, NEW t \in Threads, CancelHandler(t) \/ Destroy(t)
    PROVE  ~Usable'
<1>1. CASE CancelHandler(t)
  <2>1. thread'[t] = "waiting"
    BY <1>1 DEF CancelHandler, Shape
  <2> QED BY <2>1 DEF Usable, Doomed
<1>2. CASE Destroy(t)
  BY <1>2 DEF Destroy, Usable
<1> QED BY <1>1, <1>2

\* The steps of a thread that concern its heap and its share in the allocator.
LEMMA ThreadCaughtUp ==
    ASSUME Inv, Users, CaughtUp, NEW t \in Threads,
           \/ Create(t) \/ ShareHeap(t) \/ InstallAllocator(t) \/ UseDeleted(t)
           \/ Uninstall(t) \/ CountUsers(t) \/ Close(t)
    PROVE  CaughtUp'
<1>1. iThreadArray \in Seq(Threads) /\ NoRepeats(iThreadArray)
  BY DEF Users, Table
<1>2. CASE Create(t)
  BY <1>2, MoveCaughtUp DEF Create, allocator, history, Places
<1>3. CASE deleted /\ Fault(t)
  BY <1>3 DEF Fault, allocator, CaughtUp, Usable, Doomed
<1>4. CASE ShareHeap(t) /\ ~deleted
  <2>1. iThreadArray' = Append(iThreadArray, t)
    BY <1>4 DEF ShareHeap
  <2>2. ToSet(Append(iThreadArray, t)) = ToSet(iThreadArray) \cup {t}
    BY <1>1, ElementsAfterAppend
  <2>3. \A u \in ToSet(iThreadArray)' : u \in ToSet(iThreadArray) \/ u = t
    BY <2>1, <2>2
  <2> QED BY <1>4, <2>3, MoveCaughtUp DEF ShareHeap, history, Places
<1>5. CASE InstallAllocator(t) /\ ~deleted
  BY <1>5, MoveCaughtUp DEF InstallAllocator, allocator, history, Places
<1>6. CASE Uninstall(t)
  <2>1. PICK p \in {"left", "deleting", "asked"} : thread' = [thread EXCEPT ![t] = p]
    BY <1>6 DEF Uninstall
  <2> QED BY <1>6, <2>1, MoveCaughtUp DEF Uninstall, allocator, history, Places
<1>7. CASE CountUsers(t)
  <2>1. PICK p \in {"closing", "deleting"} : thread' = [thread EXCEPT ![t] = p]
    BY <1>7 DEF CountUsers
  <2> QED BY <1>7, <2>1, MoveCaughtUp DEF CountUsers, allocator, history, Places
<1>8. CASE Close(t)
  <2>1. iThreadArray' = RemoveFirst(iThreadArray, t)
    BY <1>8 DEF Close
  <2>2. ToSet(RemoveFirst(iThreadArray, t)) = ToSet(iThreadArray) \ {t}
    BY <1>1, RemoveFirstTakes
  <2>3. \A u \in ToSet(iThreadArray)' : u \in ToSet(iThreadArray) \/ u = t
    BY <2>1, <2>2
  <2> QED BY <1>8, <2>3, MoveCaughtUp DEF Close, history, Places
<1> QED BY <1>2, <1>3, <1>4, <1>5, <1>6, <1>7, <1>8 DEF ShareHeap, InstallAllocator, UseDeleted

\* A handler that is started while the allocator is used was not active, so there is
\* no event that it loses; nobody cancels it to start it again.
LEMMA AllocCaughtUp ==
    ASSUME Inv, Users, CaughtUp, NEW t \in Threads, Alloc(t) \/ Restart(t)
    PROVE  CaughtUp'
<1>1. UNCHANGED <<iLibraryInfo, iCodeblocks, iThreadArray, deleted, loaded, strayed, Ours, lost, open>>
  BY DEF Alloc, Restart, Subscribe, InformLibraryEvent, DoCancel, system, history, Ours
<1> SUFFICES ASSUME Usable' PROVE CaughtUp'
  BY DEF CaughtUp
<1>2. Usable
  <2>1. ~Doomed
    <3>1. \A u \in Threads : thread[u] \in {"deleting", "waiting"} => thread'[u] = thread[u]
      BY DEF Alloc, Restart, Inv, Shape
    <3> QED BY <1>1, <3>1 DEF Usable, Doomed
  <2> QED BY <1>1, <2>1 DEF Usable
<1>3. Steady
  BY <1>2 DEF CaughtUp
<1>4. Alloc(t) /\ ~isActive /\ Subscribe(t) /\ UNCHANGED thread
  BY <1>3 DEF Alloc, Restart, Steady
<1>5. iStatus # "done" /\ iStatus' = "pending" /\ isActive' /\ iStarted' /\ UNCHANGED iEventArray
  BY <1>3, <1>4 DEF Steady, Subscribe, InformLibraryEvent
<1>6. Steady'
  BY <1>1, <1>3, <1>4, <1>5 DEF Steady, Alive
<1>7. UNCHANGED Behind
  BY <1>1, <1>5 DEF Behind
<1> QED BY <1>1, <1>2, <1>4, <1>5, <1>6, <1>7, StillCaughtUp

\* Every step keeps the tables behind the process and never astray.
LEMMA NextCaughtUp == Inv /\ Users /\ CaughtUp /\ [Next]_vars => CaughtUp'
<1> SUFFICES ASSUME Inv, Users, CaughtUp, [Next]_vars PROVE CaughtUp'
  OBVIOUS
<1>0. Reports
  BY DEF Users
<1>1. CASE EventDfc
  BY <1>0, <1>1, DfcCaughtUp
<1>2. CASE \E l \in Libs \cup Foreign, p \in {"own", "other"} :
             AddLibrary(l, p) \/ RemoveLibrary(l, p)
  BY <1>0, <1>2, LibraryCaughtUp
<1>3. CASE RunL \/ RunLError
  BY <1>3, RunLCaughtUp
<1>4. ASSUME NEW t \in Threads, End(t) PROVE CaughtUp'
  BY <1>4, EndCaughtUp
<1>5. ASSUME NEW t \in Threads,
             \/ Create(t) \/ ShareHeap(t) \/ InstallAllocator(t) \/ UseDeleted(t)
             \/ Uninstall(t) \/ CountUsers(t) \/ Close(t)
      PROVE  CaughtUp'
  BY <1>5, ThreadCaughtUp
<1>6. ASSUME NEW t \in Threads, Alloc(t) \/ Restart(t) PROVE CaughtUp'
  BY <1>6, AllocCaughtUp
<1>7. ASSUME NEW t \in Threads, CancelHandler(t) \/ Destroy(t) PROVE CaughtUp'
  BY <1>7, NoLongerUsable DEF Inv, CaughtUp
<1>8. CASE UNCHANGED vars
  <2>1. /\ UNCHANGED <<iStatus, iLibraryInfo, isActive, iStarted, iEventArray, open>>
        /\ UNCHANGED <<thread, iThreadArray, iCodeblocks, deleted, loaded, strayed, Ours, lost>>
    BY <1>8 DEF vars, driver, handler, allocator, process, system, history, Ours
  <2>2. Usable' => Usable /\ Steady'
    BY <2>1 DEF Usable, Doomed, CaughtUp, Steady, Alive
  <2>3. UNCHANGED Behind
    BY <2>1 DEF Behind
  <2> QED BY <2>1, <2>2, <2>3, StillCaughtUp
<1> QED BY <1>1, <1>2, <1>3, <1>4, <1>5, <1>6, <1>7, <1>8 DEF Next

\* The code block table and the thread table of the main allocator lag behind the
\* process by the events that the driver has queued and by nothing else, as long as no
\* event was lost and the allocator is not being removed: what the table misses in
\* the end are exactly the libraries whose name another process has unloaded, because
\* RunL does not compare the process of an unload.
THEOREM TablesAlwaysCatchUp == Spec => []TablesCatchUp
<1>1. Users /\ CaughtUp => TablesCatchUp
  <2> SUFFICES ASSUME Users, CaughtUp, Usable PROVE TablesCatchUp
    BY DEF TablesCatchUp, Usable
  <2>1. Lags(Behind, iEventArray, Ours) /\ iEventArray \in Seq(Events)
    BY DEF CaughtUp, Users, Reports
  <2>2. CASE iStatus # "done"
    <3>1. Pending = iEventArray
      BY <2>1, <2>2 DEF Pending
    <3>2. Right(CodeblocksAfter(iCodeblocks, Pending), Ours)
      BY <2>1, <2>2, <3>1, LagsEnd DEF Behind
    <3>3. \A t \in ToSet(iThreadArray) : thread[t] = "ended" =>
             Event("killed", t, "own") \in ToSet(Pending)
      BY <2>2, <3>1 DEF CaughtUp, Announced
    <3> DEFINE b == CodeblocksAfter(iCodeblocks, Pending)
    <3> HIDE DEF b
    <3>4. Right(b, Ours)
      BY <3>2 DEF b
    <3>5. ToSet(b) = Ours /\ Len(b) = Cardinality(Ours)
      BY <3>4, NoRepeatsLength DEF Right
    <3> QED BY <3>3, <3>5 DEF TablesCatchUp, b
  <2>3. CASE iStatus = "done"
    <3> DEFINE s == <<iLibraryInfo>> \o iEventArray
               S == Events \cup {NoEvent}
               b == CodeblocksAfter(iCodeblocks, s)
    <3>1. Pending = s
      BY <2>3 DEF Pending
    <3>2. iLibraryInfo \in S /\ iEventArray \in Seq(S)
      BY <2>1 DEF Users, Reports
    <3>3. s \in Seq(S) /\ ToSet(s) = ToSet(iEventArray) \cup {iLibraryInfo}
      <4> HIDE DEF S
      <4> QED BY <3>2, ElementsAfterPrepend
    <3>4. s # <<>> /\ Head(s) = iLibraryInfo /\ Tail(s) = iEventArray
      BY <3>2
    <3> HIDE DEF s, S, b
    <3>5. Lags(Replay(iCodeblocks, Head(s)), Tail(s), Ours)
      BY <2>1, <2>3, <3>4 DEF Behind
    <3>6. Lags(iCodeblocks, s, Ours)
      BY <3>3, <3>4, <3>5, LagsFirst
    <3>7. Right(b, Ours)
      BY <3>3, <3>6, LagsEnd DEF b
    <3>8. ToSet(b) = Ours /\ Len(b) = Cardinality(Ours)
      BY <3>7, NoRepeatsLength DEF Right
    <3>9. \A t \in ToSet(iThreadArray) : thread[t] = "ended" =>
             Event("killed", t, "own") \in ToSet(Pending)
      BY <3>1, <3>3 DEF CaughtUp, Announced
    <3>10. b = CodeblocksAfter(iCodeblocks, Pending)
      BY <3>1 DEF b
    <3> QED BY <3>8, <3>9, <3>10 DEF TablesCatchUp
  <2> QED BY <2>2, <2>3
<1>2. Inv => Shape
  BY DEF Inv
<1> QED BY <1>1, <1>2, InitInv, NextInv, InitUsers, NextUsers, InitCaughtUp, NextCaughtUp, PTL
        DEF Spec
=============================================================================
