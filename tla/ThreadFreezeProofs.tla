------------------------- MODULE ThreadFreezeProofs -------------------------
(***************************************************************************)
(* FSWait of the run-mode debug driver, which runs without the data lock,  *)
(* goes wrong in one way only, for any number of threads, agents and       *)
(* events; and no thread waits on a semaphore that a resume cannot find.   *)
(***************************************************************************)
EXTENDS ThreadFreeze, SequenceTheorems, FiniteSetTheorems, TLAPS

-----------------------------------------------------------------------------
(* Sequences and sets.                                                     *)

\* A set of indices of a sequence is finite.
LEMMA IndicesAreFinite ==
    ASSUME NEW n \in Int, NEW S, S \subseteq 1 .. n
    PROVE  IsFiniteSet(S)
<1>1. IsFiniteSet(1 .. n)
  BY FS_Interval
<1>2. S \in SUBSET (1 .. n)
  OBVIOUS
<1> QED BY <1>1, <1>2, FS_Subset, Zenon

\* The union of two disjoint sets.
LEMMA DisjointUnion ==
    ASSUME NEW S, NEW T, IsFiniteSet(S), IsFiniteSet(T), S \cap T = {}
    PROVE  Cardinality(S \cup T) = Cardinality(S) + Cardinality(T)
<1>1. Cardinality(S \cup T) = Cardinality(S) + Cardinality(T) - Cardinality(S \cap T)
  BY FS_Union, Zenon
<1>2. /\ Cardinality(S) \in Nat /\ Cardinality(T) \in Nat
      /\ Cardinality(S \cap T) = 0
  BY FS_CardinalityType, FS_EmptySet
<1> QED BY <1>1, <1>2

\* RemoveAt closes the gap and leaves everything else in its order.
LEMMA RemoveAtIndex ==
    ASSUME NEW S, NEW s \in Seq(S), NEW i \in 1 .. Len(s)
    PROVE  /\ RemoveAt(s, i) \in Seq(S)
           /\ DOMAIN RemoveAt(s, i) = 1 .. Len(s) - 1
           /\ \A m \in 1 .. Len(s) - 1 :
                RemoveAt(s, i)[m] = s[IF m < i THEN m ELSE m + 1]
<1> DEFINE a == SubSeq(s, 1, i - 1)
           b == SubSeq(s, i + 1, Len(s))
<1>1. /\ a \in Seq(S) /\ Len(a) = i - 1
      /\ \A k \in 1 .. i - 1 : a[k] = s[k]
  BY SubSeqProperties
<1>2. /\ b \in Seq(S) /\ Len(b) = Len(s) - i
      /\ \A k \in 1 .. Len(s) - i : b[k] = s[i + k]
  BY SubSeqProperties
<1> HIDE DEF a, b
<1>3. RemoveAt(s, i) = a \o b
  BY DEF RemoveAt, a, b
<1>4. /\ a \o b \in Seq(S) /\ Len(a \o b) = Len(a) + Len(b)
      /\ \A k \in 1 .. Len(a) + Len(b) :
           (a \o b)[k] = IF k <= Len(a) THEN a[k] ELSE b[k - Len(a)]
  BY <1>1, <1>2, ConcatProperties
<1>5. Len(s) \in Nat /\ Len(a) + Len(b) = Len(s) - 1
  BY <1>1, <1>2
<1>6. DOMAIN (a \o b) = 1 .. Len(s) - 1
  BY <1>4, <1>5
<1>7. ASSUME NEW m \in 1 .. Len(s) - 1
      PROVE  (a \o b)[m] = s[IF m < i THEN m ELSE m + 1]
  <2>1. (a \o b)[m] = IF m <= i - 1 THEN a[m] ELSE b[m - (i - 1)]
    BY <1>1, <1>4, <1>5
  <2>2. CASE m < i
    BY <1>1, <2>1, <2>2
  <2>3. CASE ~(m < i)
    <3>1. m - (i - 1) \in 1 .. Len(s) - i /\ i + (m - (i - 1)) = m + 1
      BY <1>5, <2>3
    <3>2. b[m - (i - 1)] = s[i + (m - (i - 1))]
      BY <1>2, <3>1
    <3> QED BY <2>1, <2>3, <3>1, <3>2
  <2> QED BY <2>2, <2>3
<1> QED BY <1>3, <1>4, <1>6, <1>7

\* Removing one element of a sequence keeps the others.
LEMMA RemoveAtKeeps ==
    ASSUME NEW S, NEW s \in Seq(S), NEW i \in 1 .. Len(s)
    PROVE  /\ RemoveAt(s, i) \in Seq(S)
           /\ \A k \in DOMAIN s \ {i} :
                \E m \in DOMAIN RemoveAt(s, i) : RemoveAt(s, i)[m] = s[k]
<1> DEFINE r == RemoveAt(s, i)
<1>1. /\ r \in Seq(S) /\ DOMAIN r = 1 .. Len(s) - 1
      /\ \A m \in 1 .. Len(s) - 1 : r[m] = s[IF m < i THEN m ELSE m + 1]
  BY RemoveAtIndex
<1> HIDE DEF r
<1>2. ASSUME NEW k \in DOMAIN s \ {i}
      PROVE  \E m \in DOMAIN r : r[m] = s[k]
  <2>1. k \in 1 .. Len(s) /\ k # i /\ Len(s) \in Nat
    OBVIOUS
  <2>2. CASE k < i
    BY <1>1, <2>1, <2>2
  <2>3. CASE k > i
    <3>1. PICK m \in 1 .. Len(s) - 1 : m + 1 = k /\ ~(m < i)
      BY <2>1, <2>3
    <3>2. r[m] = s[m + 1]
      BY <1>1, <3>1
    <3> QED BY <1>1, <3>1, <3>2
  <2> QED BY <2>1, <2>2, <2>3
<1> QED BY <1>1, <1>2 DEF r

Semaphore(A) == [owner : Threads, addr : A]
Context(A) == [at : Places, i : Nat, sem : A, iSuspendCount : Int, dies : BOOLEAN]

\* The types of the list and of the threads, over a set A of addresses.
Shape(A) ==
    /\ list \in Seq(Semaphore(A))
    /\ thread \in [Threads -> Context(A)]
    /\ \A t \in Threads : thread[t].at \in {"scan", "found"} => thread[t].i >= 1

\* Thread t has the semaphore at an address.
Has(t, a) == \E k \in Own(t) : list[k].addr = a

\* What a thread in FSWait has seen is still there, unless it was raced.
SeesItsOwn ==
    \A t \in Threads \ raced :
      /\ thread[t].at = "found" => thread[t].i \in Own(t)
      /\ thread[t].at = "enter" => Has(t, thread[t].sem)

\* A thread that waits does so on a semaphore in the list, where ResumeFrozenThread
\* finds it: nobody waits in the driver for a signal that cannot come.
WaitersAreListed ==
    \A t \in Threads : thread[t].at = "wait" => Has(t, thread[t].sem)

Inv == (\E A : Shape(A)) /\ SeesItsOwn /\ FaultsAreRaces /\ WaitersAreListed

-----------------------------------------------------------------------------
(* The list.                                                                *)

\* More addresses admit more contexts.
LEMMA ContextGrows ==
    ASSUME NEW A, NEW B
    PROVE  /\ Context(A) \subseteq Context(A \cup B)
           /\ \A f \in [Threads -> Context(A)] : f \in [Threads -> Context(A \cup B)]
<1>1. Context(A) \subseteq Context(A \cup B)
  BY DEF Context
<1> QED BY <1>1

\* The new semaphores are a sequence of semaphores of their thread.
LEMMA NewSemaphoresShape ==
    ASSUME NEW t \in Threads, NEW n \in Nat
    PROVE  \E B : NewSemaphores(t, n) \in Seq([owner : {t}, addr : B])
<1> DEFINE B == {Ascending(Fresh(n))[i] : i \in 1 .. n}
<1>1. NewSemaphores(t, n) \in Seq([owner : {t}, addr : B])
  BY DEF NewSemaphores
<1> QED BY <1>1

\* Appending semaphores of one thread leaves every entry in its place.
LEMMA AppendKeeps ==
    ASSUME NEW A, list \in Seq(Semaphore(A)),
           NEW B, NEW new \in Seq(Semaphore(B)), list' = list \o new
    PROVE  /\ list' \in Seq(Semaphore(A \cup B))
           /\ \A u \in Threads : \A k \in Own(u) : k \in Own(u)' /\ list'[k] = list[k]
<1> DEFINE S == Semaphore(A \cup B)
<1>1. list \in Seq(S) /\ new \in Seq(S)
  <2>1. Semaphore(A) \subseteq S /\ Semaphore(B) \subseteq S
    BY DEF Semaphore
  <2>2. list \in Seq(S)
    BY <2>1, SeqMonotonic
  <2>3. new \in Seq(S)
    BY <2>1, SeqMonotonic
  <2> QED BY <2>2, <2>3
<1>2. /\ list' \in Seq(S) /\ Len(list') = Len(list) + Len(new)
      /\ \A k \in 1 .. Len(list) : list'[k] = list[k]
  BY <1>1, ConcatProperties
<1> QED BY <1>2 DEF Own

\* What the steps of one thread in FSWait share: the list and the history stay,
\* and the other threads too.
LEMMA OwnStep ==
    ASSUME NEW A, Shape(A), SeesItsOwn, FaultsAreRaces, WaitersAreListed,
           NEW t \in Threads, NEW c \in Context(A),
           thread' = [thread EXCEPT ![t] = c], UNCHANGED <<list, raced>>,
           c.at \in {"scan", "found"} => c.i >= 1,
           c.at = "found" /\ t \notin raced => c.i \in Own(t),
           c.at = "enter" /\ t \notin raced => Has(t, c.sem),
           c.at = "fault" => t \in raced,
           c.at = "wait" => Has(t, c.sem)
    PROVE  Inv'
<1>1. Shape(A)'
  BY DEF Shape
<1>2. \A u \in Threads : Own(u)' = Own(u)
  BY DEF Own
<1>3. \A u \in Threads : thread'[u] = IF u = t THEN c ELSE thread[u]
  BY DEF Shape
<1>4. SeesItsOwn'
  BY <1>2, <1>3 DEF SeesItsOwn, Has
<1>5. FaultsAreRaces'
  BY <1>3 DEF FaultsAreRaces
<1>6. WaitersAreListed'
  BY <1>2, <1>3 DEF WaitersAreListed, Has
<1> QED BY <1>1, <1>4, <1>5, <1>6 DEF Inv

-----------------------------------------------------------------------------
(* The actions.                                                             *)

\* At the start no thread is in the driver.
LEMMA InitInv == Init => Inv
<1> SUFFICES ASSUME Init PROVE Inv
  OBVIOUS
<1>1. Shape({0})
  BY DEF Init, Shape, Context, Places, Semaphore
<1> QED BY <1>1 DEF Init, Inv, SeesItsOwn, FaultsAreRaces, WaitersAreListed

\* FSWait itself: the four things that can happen in its rounds.
LEMMA FSWaitStep ==
    ASSUME Inv, NEW t \in Threads, FSWaitLook(t) \/ FSWaitCall(t) \/ FSWait(t)
    PROVE  Inv'
<1>1. PICK A : Shape(A)
  BY DEF Inv
<1>2. /\ thread[t] \in Context(A) /\ thread[t].i \in Nat /\ thread[t].sem \in A
      /\ list \in Seq(Semaphore(A)) /\ UNCHANGED <<list, raced>>
  BY <1>1 DEF Shape, Context, FSWaitLook, FSWaitCall, FSWait
<1>3. CASE FSWaitLook(t)
  <2>1. thread[t].at = "scan" /\ thread[t].i >= 1
    BY <1>1, <1>3 DEF Shape, FSWaitLook
  <2>2. CASE ~HasElement(thread[t].i)
    <3> DEFINE c == [thread[t] EXCEPT !.at = Leave(t), !.i = 0]
    <3>1. thread' = [thread EXCEPT ![t] = c]
      BY <1>3, <2>2 DEF FSWaitLook
    <3>2. c \in Context(A) /\ c.at \in {"run", "dead"}
      BY <1>2 DEF Context, Leave, Places
    <3> HIDE DEF c
    <3> QED BY <1>1, <1>2, <3>1, <3>2, OwnStep DEF Inv
  <2>3. CASE HasElement(thread[t].i) /\ list[thread[t].i].owner = t
    <3> DEFINE c == [thread[t] EXCEPT !.at = "found"]
    <3>1. thread' = [thread EXCEPT ![t] = c]
      BY <1>3, <2>3 DEF FSWaitLook
    <3>2. c \in Context(A) /\ c.at = "found" /\ c.i = thread[t].i /\ c.i >= 1
      BY <1>2, <2>1 DEF Context, Places
    <3>3. c.i \in Own(t)
      BY <1>2, <2>1, <2>3, <3>2 DEF Own, HasElement
    <3> HIDE DEF c
    <3> QED BY <1>1, <1>2, <3>1, <3>2, <3>3, OwnStep DEF Inv
  <2>4. CASE HasElement(thread[t].i) /\ list[thread[t].i].owner # t
    <3> DEFINE c == [thread[t] EXCEPT !.i = thread[t].i + 1]
    <3>1. thread' = [thread EXCEPT ![t] = c]
      BY <1>3, <2>4 DEF FSWaitLook
    <3>2. c \in Context(A) /\ c.at = "scan" /\ c.i >= 1
      BY <1>2, <2>1 DEF Context
    <3> HIDE DEF c
    <3> QED BY <1>1, <1>2, <3>1, <3>2, OwnStep DEF Inv
  <2> QED BY <2>2, <2>3, <2>4
<1>4. CASE FSWaitCall(t)
  <2>1. thread[t].at = "found" /\ thread[t].i >= 1
    BY <1>1, <1>4 DEF Shape, FSWaitCall
  <2>2. CASE HasElement(thread[t].i) /\ list[thread[t].i].owner = t
    <3> DEFINE c == [thread[t] EXCEPT !.at = "enter", !.sem = list[thread[t].i].addr]
    <3>1. thread' = [thread EXCEPT ![t] = c]
      BY <1>4, <2>2 DEF FSWaitCall
    <3>0. thread[t].i \in Own(t)
      BY <1>2, <2>1, <2>2 DEF Own, HasElement
    <3>2. list[thread[t].i] \in Semaphore(A)
      BY <1>2, <3>0, ElementOfSeq DEF Own
    <3>3. c \in Context(A) /\ c.at = "enter" /\ c.sem = list[thread[t].i].addr
      BY <1>2, <3>2 DEF Context, Places, Semaphore
    <3>4. Has(t, c.sem)
      BY <3>0, <3>3 DEF Has
    <3> HIDE DEF c
    <3> QED BY <1>1, <1>2, <3>1, <3>3, <3>4, OwnStep DEF Inv
  <2>3. CASE ~(HasElement(thread[t].i) /\ list[thread[t].i].owner = t)
    <3> DEFINE c == [thread[t] EXCEPT !.at = "fault"]
    <3>1. thread' = [thread EXCEPT ![t] = c]
      BY <1>4, <2>3 DEF FSWaitCall
    <3>2. c \in Context(A) /\ c.at = "fault"
      BY <1>2 DEF Context, Places
    <3>3. t \in raced
      BY <1>2, <2>1, <2>3 DEF Inv, SeesItsOwn, Own, HasElement
    <3> HIDE DEF c
    <3> QED BY <1>1, <1>2, <3>1, <3>2, <3>3, OwnStep DEF Inv
  <2> QED BY <2>2, <2>3
<1>5. CASE FSWait(t)
  <2>1. thread[t].at = "enter"
    BY <1>5 DEF FSWait
  <2>2. CASE Has(t, thread[t].sem)
    <3> DEFINE c == [thread[t] EXCEPT !.at = "wait"]
    <3>1. thread' = [thread EXCEPT ![t] = c]
      BY <1>5, <2>2 DEF FSWait, Has
    <3>2. c \in Context(A) /\ c.at = "wait" /\ c.sem = thread[t].sem
      BY <1>2 DEF Context, Places
    <3> HIDE DEF c
    <3> QED BY <1>1, <1>2, <2>2, <3>1, <3>2, OwnStep DEF Inv
  <2>3. CASE ~Has(t, thread[t].sem)
    <3> DEFINE c == [thread[t] EXCEPT !.at = "fault"]
    <3>1. thread' = [thread EXCEPT ![t] = c]
      BY <1>5, <2>3 DEF FSWait, Has
    <3>2. c \in Context(A) /\ c.at = "fault"
      BY <1>2 DEF Context, Places
    <3>3. t \in raced
      BY <2>1, <2>3 DEF Inv, SeesItsOwn
    <3> HIDE DEF c
    <3> QED BY <1>1, <1>2, <3>1, <3>2, <3>3, OwnStep DEF Inv
  <2> QED BY <2>2, <2>3
<1> QED BY <1>3, <1>4, <1>5

\* An exception or a panic of thread t: the list grows and t begins to look.
LEMMA HandleEventStep ==
    ASSUME Inv, NEW t \in Threads, HandleEvent(t)
    PROVE  Inv'
<1>1. PICK A : Shape(A)
  BY DEF Inv
<1>2. PICK n \in Nat, dies \in BOOLEAN :
        /\ list' = list \o NewSemaphores(t, n)
        /\ thread' = [thread EXCEPT ![t].at = "scan", ![t].i = 1, ![t].dies = dies]
  <2>1. PICK stopping \in 0 .. NumAgents, dies \in BOOLEAN : \E frozen \in 0 .. stopping :
          /\ list' = FreezeThread(t, frozen)
          /\ thread' = [thread EXCEPT ![t].at = "scan", ![t].i = 1, ![t].dies = dies]
    BY Zenon DEF HandleEvent
  <2>2. PICK frozen \in 0 .. stopping :
          /\ list' = FreezeThread(t, frozen)
          /\ thread' = [thread EXCEPT ![t].at = "scan", ![t].i = 1, ![t].dies = dies]
    BY <2>1
  <2>3. frozen \in Nat
    OBVIOUS
  <2>4. list' = list \o NewSemaphores(t, frozen)
    BY <2>2 DEF FreezeThread
  <2> QED BY <2>2, <2>3, <2>4, Zenon
<1>3. UNCHANGED raced
  BY DEF HandleEvent
<1>4. PICK B : NewSemaphores(t, n) \in Seq(Semaphore(B))
  <2>1. PICK B : NewSemaphores(t, n) \in Seq([owner : {t}, addr : B])
    BY NewSemaphoresShape
  <2>2. [owner : {t}, addr : B] \subseteq Semaphore(B)
    BY DEF Semaphore
  <2> QED BY <2>1, <2>2, SeqMonotonic
<1>5. /\ list' \in Seq(Semaphore(A \cup B))
      /\ \A u \in Threads : \A k \in Own(u) : k \in Own(u)' /\ list'[k] = list[k]
  BY <1>1, <1>2, <1>4, AppendKeeps DEF Shape
<1>6. /\ thread'[t] \in Context(A \cup B) /\ thread'[t].at = "scan" /\ thread'[t].i = 1
      /\ \A u \in Threads \ {t} : thread'[u] = thread[u] /\ thread[u] \in Context(A \cup B)
      /\ thread' \in [Threads -> Context(A \cup B)]
  <2> DEFINE c == [thread[t] EXCEPT !.at = "scan", !.i = 1, !.dies = dies]
  <2>1. thread \in [Threads -> Context(A \cup B)]
    BY <1>1, ContextGrows DEF Shape
  <2>2. thread' = [thread EXCEPT ![t] = c]
    BY <1>2, <2>1
  <2>3. c \in Context(A \cup B) /\ c.at = "scan" /\ c.i = 1
    BY <2>1 DEF Context, Places
  <2> HIDE DEF c
  <2> QED BY <2>1, <2>2, <2>3
<1>7. Shape(A \cup B)'
  <2>1. \A u \in Threads : thread'[u].at \in {"scan", "found"} => thread'[u].i >= 1
    <3> SUFFICES ASSUME NEW u \in Threads, thread'[u].at \in {"scan", "found"}
                 PROVE  thread'[u].i >= 1
      OBVIOUS
    <3>1. CASE u = t
      BY <1>6, <3>1
    <3>2. CASE u # t
      BY <1>1, <1>6, <3>2 DEF Shape
    <3> QED BY <3>1, <3>2
  <2> QED BY <1>5, <1>6, <2>1 DEF Shape
<1>8. SeesItsOwn'
  BY <1>3, <1>5, <1>6 DEF Inv, SeesItsOwn, Has
<1>9. FaultsAreRaces' /\ WaitersAreListed'
  BY <1>3, <1>5, <1>6 DEF Inv, FaultsAreRaces, WaitersAreListed, Has
<1> QED BY <1>7, <1>8, <1>9 DEF Inv

\* Kern::ThreadSuspend and Kern::ThreadResume change a count and nothing else.
LEMMA SuspendStep ==
    ASSUME Inv, NEW t \in Threads, NEW n \in Int,
           thread' = [thread EXCEPT ![t].iSuspendCount = n], UNCHANGED <<list, raced>>
    PROVE  Inv'
<1>1. PICK A : Shape(A)
  BY DEF Inv
<1> DEFINE c == [thread[t] EXCEPT !.iSuspendCount = n]
<1>2. thread' = [thread EXCEPT ![t] = c]
  BY <1>1 DEF Shape
<1>3. /\ c \in Context(A) /\ c.at = thread[t].at /\ c.i = thread[t].i
      /\ c.sem = thread[t].sem
  BY <1>1 DEF Shape, Context
<1>4. /\ c.at \in {"scan", "found"} => c.i >= 1
      /\ c.at = "found" /\ t \notin raced => c.i \in Own(t)
      /\ c.at = "enter" /\ t \notin raced => Has(t, c.sem)
      /\ c.at = "fault" => t \in raced
      /\ c.at = "wait" => Has(t, c.sem)
  BY <1>1, <1>3 DEF Inv, Shape, SeesItsOwn, FaultsAreRaces, WaitersAreListed
<1> HIDE DEF c
<1> QED BY <1>1, <1>2, <1>3, <1>4, OwnStep DEF Inv

\* ResumeFrozenThread removes a semaphore of t: whoever is in FSWait has been
\* raced, and who waits on the semaphore goes on.
LEMMA ResumeFrozenStep ==
    ASSUME Inv, NEW t \in Threads, ResumeFrozenThread(t)
    PROVE  Inv'
<1>1. PICK A : Shape(A)
  BY DEF Inv
<1>2. PICK i \in Own(t) : thread' = FSSignal(t, list[i].addr) /\ list' = RemoveAt(list, i)
  BY DEF ResumeFrozenThread, FirstOf
<1>3. raced' = raced \cup {u \in Threads : InFSWait(u)}
  BY DEF ResumeFrozenThread
<1>4. i \in 1 .. Len(list) /\ list[i].owner = t
  BY <1>1, <1>2 DEF Own, Shape
<1>5. /\ list' \in Seq(Semaphore(A))
      /\ \A k \in DOMAIN list \ {i} : \E m \in DOMAIN list' : list'[m] = list[k]
  BY <1>1, <1>2, <1>4, RemoveAtKeeps DEF Shape
<1>6. /\ thread' \in [Threads -> Context(A \cup {0})]
      /\ \A u \in Threads : \/ thread'[u] = thread[u]
                            \/ thread'[u].at \in {"run", "dead"}
      /\ thread[t].at = "wait" /\ thread[t].sem = list[i].addr
           => thread'[t].at \in {"run", "dead"}
  <2>1. CASE thread[t].at = "wait" /\ thread[t].sem = list[i].addr
    <3> DEFINE c == [thread[t] EXCEPT !.at = Leave(t), !.i = 0, !.sem = 0]
    <3>1. thread' = [thread EXCEPT ![t] = c]
      BY <1>1, <1>2, <2>1 DEF Shape, FSSignal
    <3>2. c \in Context(A \cup {0}) /\ c.at \in {"run", "dead"}
      BY <1>1 DEF Shape, Context, Leave, Places
    <3>3. thread \in [Threads -> Context(A \cup {0})]
      BY <1>1 DEF Shape, Context
    <3> HIDE DEF c
    <3> QED BY <3>1, <3>2, <3>3
  <2>2. CASE ~(thread[t].at = "wait" /\ thread[t].sem = list[i].addr)
    <3>1. thread' = thread
      BY <1>2, <2>2 DEF FSSignal
    <3>2. thread \in [Threads -> Context(A \cup {0})]
      BY <1>1 DEF Shape, Context
    <3> QED BY <2>2, <3>1, <3>2
  <2> QED BY <2>1, <2>2
<1>7. Shape(A \cup {0})'
  <2>1. Semaphore(A) \subseteq Semaphore(A \cup {0})
    BY DEF Semaphore
  <2>2. list' \in Seq(Semaphore(A \cup {0}))
    BY <1>5, <2>1, SeqMonotonic
  <2> QED BY <1>1, <1>6, <2>2 DEF Shape
<1>8. SeesItsOwn'
  BY <1>3, <1>6 DEF SeesItsOwn, InFSWait
<1>9. FaultsAreRaces'
  BY <1>3, <1>6 DEF Inv, FaultsAreRaces
<1>10. WaitersAreListed'
  <2> SUFFICES ASSUME NEW u \in Threads, thread'[u].at = "wait"
               PROVE  Has(u, thread[u].sem)'
    BY DEF WaitersAreListed
  <2>1. thread'[u] = thread[u]
    BY <1>6
  <2>2. PICK k \in Own(u) : list[k].addr = thread[u].sem
    BY <2>1 DEF Inv, WaitersAreListed, Has
  <2>3. k # i
    BY <1>4, <1>6, <2>1, <2>2 DEF Own
  <2>4. PICK m \in DOMAIN list' : list'[m] = list[k]
    BY <1>5, <2>2, <2>3 DEF Own
  <2> QED BY <2>1, <2>2, <2>4 DEF Has, Own
<1> QED BY <1>7, <1>8, <1>9, <1>10 DEF Inv

\* The destructor signals everybody who waits and empties the list.
LEMMA UnloadStep == ASSUME Inv, Unload PROVE Inv'
<1>1. PICK A : Shape(A)
  BY DEF Inv
<1>2. list' = <<>> /\ raced' = raced \cup {u \in Threads : InFSWait(u)} /\ Destroy
  BY DEF Unload
<1>3. /\ thread' \in [Threads -> Context(A \cup {0})]
      /\ \A u \in Threads : \/ thread'[u] = thread[u] /\ thread[u].at # "wait"
                            \/ thread'[u].at \in {"run", "dead"}
  <2> DEFINE c(u) == [thread[u] EXCEPT !.at = Leave(u), !.i = 0, !.sem = 0]
  <2>1. thread \in [Threads -> Context(A \cup {0})]
    BY <1>1, ContextGrows DEF Shape
  <2>2. thread' = [u \in Threads |-> IF thread[u].at = "wait" THEN c(u) ELSE thread[u]]
    BY <1>2 DEF Destroy
  <2>3. ASSUME NEW u \in Threads
        PROVE  c(u) \in Context(A \cup {0}) /\ c(u).at \in {"run", "dead"}
    BY <2>1 DEF Context, Places, Leave
  <2> HIDE DEF c
  <2> QED BY <2>1, <2>2, <2>3
<1>4. Shape(A \cup {0})'
  <2>1. \A u \in Threads : thread'[u].at \in {"scan", "found"} => thread'[u].i >= 1
    BY <1>1, <1>3 DEF Shape
  <2>2. list' \in Seq(Semaphore(A \cup {0}))
    BY <1>2
  <2> QED BY <1>3, <2>1, <2>2 DEF Shape
<1>5. SeesItsOwn'
  BY <1>2, <1>3 DEF SeesItsOwn, InFSWait
<1>6. FaultsAreRaces' /\ WaitersAreListed'
  BY <1>2, <1>3 DEF Inv, FaultsAreRaces, WaitersAreListed
<1> QED BY <1>4, <1>5, <1>6 DEF Inv

\* Every step keeps the invariant.
LEMMA NextInv == Inv /\ [Next]_vars => Inv'
<1> SUFFICES ASSUME Inv, [Next]_vars PROVE Inv'
  OBVIOUS
<1>1. ASSUME NEW t \in Threads, HandleEvent(t) PROVE Inv'
  BY <1>1, HandleEventStep
<1>2. ASSUME NEW t \in Threads, ThreadStep(t) PROVE Inv'
  BY <1>2, FSWaitStep DEF ThreadStep
<1>3. ASSUME NEW t \in Threads, DoSuspendThread(t) PROVE Inv'
  <2>1. thread[t].iSuspendCount + 1 \in Int
    BY DEF Inv, Shape, Context
  <2> QED BY <1>3, <2>1, SuspendStep DEF DoSuspendThread
<1>4. ASSUME NEW t \in Threads, DoResumeThread(t) PROVE Inv'
  <2>1. CASE ResumeFrozenThread(t)
    BY <2>1, ResumeFrozenStep
  <2>2. CASE ~ResumeFrozenThread(t)
    <3> DEFINE s == thread[t].iSuspendCount
               n == IF s > 0 THEN s - 1 ELSE s
    <3>1. n \in Int
      BY DEF Inv, Shape, Context
    <3>2. thread' = [thread EXCEPT ![t].iSuspendCount = n] /\ UNCHANGED <<list, raced>>
      BY <1>4, <2>2 DEF DoResumeThread, ResumeThread
    <3> HIDE DEF n
    <3> QED BY <3>1, <3>2, SuspendStep
  <2> QED BY <2>1, <2>2
<1>5. CASE Unload
  BY <1>5, UnloadStep
<1>6. CASE UNCHANGED vars
  BY <1>6 DEF vars, Inv, Shape, SeesItsOwn, FaultsAreRaces, WaitersAreListed, Has, Own
<1> QED BY <1>1, <1>2, <1>3, <1>4, <1>5, <1>6 DEF Next

-----------------------------------------------------------------------------
\* FSWait uses a semaphore that is deleted, or not the thread's own, only after
\* ResumeThread or the destructor removed one while the thread was inside it.
THEOREM FaultsAreAlwaysRaces == Spec => []FaultsAreRaces
<1>1. Inv => FaultsAreRaces
  BY DEF Inv
<1> QED BY <1>1, InitInv, NextInv, PTL DEF Spec

\* A thread that waits on a semaphore is found by the resume that looks for it,
\* in raced executions too.
THEOREM WaitersAreAlwaysListed == Spec => []WaitersAreListed
<1>1. Inv => WaitersAreListed
  BY DEF Inv
<1> QED BY <1>1, InitInv, NextInv, PTL DEF Spec

-----------------------------------------------------------------------------
(* The stops that agents know of, and the semaphores and suspensions.       *)

Counts == \A t \in Threads : holds[t] \in Nat /\ thread[t].iSuspendCount \in Nat

\* Where a thread is that has semaphores: not in its own code; before them, while
\* it looks for one; and there is one of them only, unless an event gave it two.
Placed ==
    \A t \in Threads \ (raced \cup twice) :
      /\ thread[t].at = "run" => Own(t) = {}
      /\ thread[t].at = "scan" => \A k \in Own(t) : k >= thread[t].i
      /\ thread[t].at \in {"scan", "found", "enter", "wait"} => \A j, k \in Own(t) : j = k

Stops == /\ holds \in [Threads -> Nat]
         /\ Counts /\ StopsAreCounted /\ Placed

\* The semaphores of a thread are finitely many indices of the list.
LEMMA OwnIsFinite ==
    ASSUME NEW A, Shape(A), NEW t
    PROVE  /\ Own(t) \subseteq 1 .. Len(list) /\ Len(list) \in Nat
           /\ IsFiniteSet(Own(t)) /\ Semaphores(t) \in Nat
           /\ Semaphores(t) = 0 <=> Own(t) = {}
<1>1. Own(t) \subseteq 1 .. Len(list) /\ Len(list) \in Nat
  BY DEF Shape, Own
<1>2. IsFiniteSet(Own(t))
  BY <1>1, IndicesAreFinite
<1> QED BY <1>1, <1>2, FS_CardinalityType, FS_EmptySet DEF Semaphores

\* FreezeThread adds n indices behind the others to its thread's.
LEMMA OwnAfterFreeze ==
    ASSUME NEW A, Shape(A), NEW t \in Threads, NEW n \in Nat,
           list' = list \o NewSemaphores(t, n)
    PROVE  /\ Own(t)' = Own(t) \cup (Len(list) + 1 .. Len(list) + n)
           /\ Semaphores(t)' = Semaphores(t) + n
           /\ \A u \in Threads \ {t} : Own(u)' = Own(u)
<1> DEFINE new == NewSemaphores(t, n)
<1>1. DOMAIN new = 1 .. n /\ \A k \in 1 .. n : new[k].owner = t
  BY DEF NewSemaphores
<1>2. PICK B : new \in Seq([owner : {t}, addr : B])
  BY NewSemaphoresShape
<1>3. /\ DOMAIN list' = 1 .. Len(list) + n /\ Len(list) \in Nat
      /\ DOMAIN list = 1 .. Len(list)
      /\ \A k \in 1 .. Len(list) : list'[k] = list[k]
      /\ \A k \in Len(list) + 1 .. Len(list) + n : list'[k].owner = t
  <2> DEFINE S == Semaphore(A \cup B)
  <2>1. Semaphore(A) \subseteq S /\ [owner : {t}, addr : B] \subseteq S
    BY DEF Semaphore
  <2>2. list \in Seq(S)
    BY <2>1, SeqMonotonic DEF Shape
  <2>3. new \in Seq(S)
    BY <1>2, <2>1, SeqMonotonic
  <2> HIDE DEF new, S
  <2>4. Len(new) = n
    BY <1>1, <2>3, LenProperties
  <2>5. /\ list' \in Seq(S) /\ Len(list') = Len(list) + n
        /\ \A k \in 1 .. Len(list) + n :
             list'[k] = IF k <= Len(list) THEN list[k] ELSE new[k - Len(list)]
    BY <2>2, <2>3, <2>4, ConcatProperties DEF new
  <2>6. ASSUME NEW k \in Len(list) + 1 .. Len(list) + n
        PROVE  list'[k].owner = t
    <3>1. k \in 1 .. Len(list) + n /\ ~(k <= Len(list)) /\ k - Len(list) \in 1 .. n
      BY <2>2
    <3>2. list'[k] = new[k - Len(list)]
      BY <2>5, <3>1
    <3> QED BY <1>1, <3>1, <3>2
  <2> QED BY <2>2, <2>5, <2>6
<1>4. Own(t)' = Own(t) \cup (Len(list) + 1 .. Len(list) + n)
  BY <1>3 DEF Own
<1>5. \A u \in Threads \ {t} : Own(u)' = Own(u)
  BY <1>3 DEF Own
<1>6. Semaphores(t)' = Semaphores(t) + n
  <2> DEFINE more == Len(list) + 1 .. Len(list) + n
  <2>1. IsFiniteSet(more) /\ Cardinality(more) = n
    <3>1. Len(list) + 1 \in Int /\ Len(list) + n \in Int
      BY <1>3
    <3>2. /\ IsFiniteSet(more)
          /\ Cardinality(more) = IF Len(list) + 1 > Len(list) + n THEN 0
                                 ELSE (Len(list) + n) - (Len(list) + 1) + 1
      BY <3>1, FS_Interval, Zenon
    <3> HIDE DEF more
    <3> QED BY <1>3, <3>2
  <2>2. IsFiniteSet(Own(t)) /\ Own(t) \subseteq 1 .. Len(list) /\ Semaphores(t) \in Nat
    BY OwnIsFinite
  <2>3. Own(t) \cap more = {}
    BY <1>3, <2>2
  <2> HIDE DEF more
  <2>4. Cardinality(Own(t) \cup more) = Cardinality(Own(t)) + n
    BY <2>1, <2>2, <2>3, DisjointUnion
  <2> QED BY <1>4, <2>4 DEF Semaphores, more
<1> QED BY <1>4, <1>5, <1>6

\* ResumeFrozenThread takes one index from its thread; what is behind moves up,
\* and keeps its number and order.
LEMMA OwnAfterResume ==
    ASSUME NEW A, Shape(A), NEW i \in DOMAIN list, list' = RemoveAt(list, i), NEW u
    PROVE  /\ Semaphores(u)' = Cardinality(Own(u) \ {i})
           /\ \A m \in Own(u)' : (IF m < i THEN m ELSE m + 1) \in Own(u) \ {i}
<1>1. /\ DOMAIN list' = 1 .. Len(list) - 1 /\ DOMAIN list = 1 .. Len(list)
      /\ Len(list) \in Nat
      /\ \A m \in 1 .. Len(list) - 1 : list'[m] = list[IF m < i THEN m ELSE m + 1]
  <2>1. list \in Seq(Semaphore(A)) /\ i \in 1 .. Len(list)
    BY DEF Shape
  <2> QED BY <2>1, RemoveAtIndex
<1> DEFINE g == [m \in Own(u)' |-> IF m < i THEN m ELSE m + 1]
<1>2. \A m \in Own(u)' : m \in 1 .. Len(list) - 1 /\ g[m] \in Own(u) \ {i}
  BY <1>1 DEF Own
<1>3. g \in [Own(u)' -> Own(u) \ {i}]
  BY <1>2
<1>4. \A m, n \in Own(u)' : g[m] = g[n] => m = n
  BY <1>1, <1>2
<1>5. \A k \in Own(u) \ {i} : \E m \in Own(u)' : g[m] = k
  <2> SUFFICES ASSUME NEW k \in Own(u) \ {i} PROVE \E m \in Own(u)' : g[m] = k
    OBVIOUS
  <2>1. k \in 1 .. Len(list) /\ k # i /\ list[k].owner = u
    BY <1>1 DEF Own
  <2>2. PICK m \in 1 .. Len(list) - 1 : k = IF m < i THEN m ELSE m + 1
    <3>1. CASE k < i
      BY <1>1, <2>1, <3>1
    <3>2. CASE k > i
      <4>1. k - 1 \in 1 .. Len(list) - 1 /\ ~(k - 1 < i) /\ (k - 1) + 1 = k
        BY <1>1, <2>1, <3>2
      <4> QED BY <4>1
    <3> QED BY <1>1, <2>1, <3>1, <3>2
  <2>3. list'[m] = list[k]
    BY <1>1, <2>2
  <2> QED BY <1>1, <2>1, <2>2, <2>3 DEF Own
<1>6. g \in Bijection(Own(u)', Own(u) \ {i})
  BY <1>3, <1>4, <1>5 DEF Bijection, Injection, IsInjective, Surjection
<1>7. IsFiniteSet(Own(u)')
  <2>1. Own(u)' \subseteq 1 .. Len(list) - 1
    BY <1>2
  <2> QED BY <1>1, <2>1, IndicesAreFinite
<1>8. Cardinality(Own(u) \ {i}) = Cardinality(Own(u)')
  <2> HIDE DEF g
  <2> QED BY <1>6, <1>7, FS_Bijection DEF ExistsBijection
<1> QED BY <1>2, <1>8 DEF Semaphores

\* What the steps that leave the list alone share.
LEMMA StopsKept ==
    ASSUME NEW A, Shape(A), Stops, NEW t \in Threads, NEW c \in Context(A), NEW h \in Nat,
           thread' = [thread EXCEPT ![t] = c], holds' = [holds EXCEPT ![t] = h],
           UNCHANGED <<list, loaded, raced, twice, failed>>,
           c.iSuspendCount \in Nat,
           loaded /\ t \notin failed => h = Semaphores(t) + c.iSuspendCount,
           t \notin raced \cup twice =>
             /\ c.at = "run" => Own(t) = {}
             /\ c.at = "scan" => \A k \in Own(t) : k >= c.i
             /\ c.at \in {"scan", "found", "enter", "wait"} => \A j, k \in Own(t) : j = k
    PROVE  Stops'
<1>1. \A u \in Threads : /\ Own(u)' = Own(u) /\ Semaphores(u)' = Semaphores(u)
                         /\ thread'[u] = IF u = t THEN c ELSE thread[u]
                         /\ holds'[u] = IF u = t THEN h ELSE holds[u]
  BY DEF Shape, Stops, Own, Semaphores
<1>2. holds' \in [Threads -> Nat] /\ Counts'
  BY <1>1 DEF Stops, Counts
<1>3. StopsAreCounted'
  BY <1>1 DEF Stops, StopsAreCounted
<1>4. Placed'
  BY <1>1 DEF Stops, Placed
<1> QED BY <1>2, <1>3, <1>4 DEF Stops

\* At the start there are no stops.
LEMMA StopsInit == Init => Stops
<1> SUFFICES ASSUME Init PROVE Stops
  OBVIOUS
<1>1. \A t \in Threads : Own(t) = {} /\ Semaphores(t) = 0
  BY FS_EmptySet DEF Init, Own, Semaphores
<1> QED BY <1>1 DEF Init, Stops, Counts, StopsAreCounted, Placed

\* FSWait: the thread leaves it without a wait only behind its semaphores.
LEMMA StopsFSWait ==
    ASSUME Inv, Stops, NEW t \in Threads, FSWaitLook(t) \/ FSWaitCall(t) \/ FSWait(t)
    PROVE  Stops'
<1>1. PICK A : Shape(A)
  BY DEF Inv
<1>2. /\ thread[t] \in Context(A) /\ thread[t].i \in Nat /\ thread[t].iSuspendCount \in Nat
      /\ holds[t] \in Nat /\ holds' = [holds EXCEPT ![t] = holds[t]]
      /\ loaded /\ t \notin failed => holds[t] = Semaphores(t) + thread[t].iSuspendCount
      /\ UNCHANGED <<list, loaded, raced, twice, failed>>
  BY <1>1 DEF Shape, Context, Stops, Counts, StopsAreCounted, FSWaitLook, FSWaitCall, FSWait
<1>3. PICK c \in Context(A) :
        /\ thread' = [thread EXCEPT ![t] = c] /\ c.iSuspendCount = thread[t].iSuspendCount
        /\ \/ c.at \in {"run", "dead"} /\ thread[t].at = "scan" /\ thread[t].i > Len(list)
           \/ c.at = "found" /\ thread[t].at = "scan"
           \/ /\ c.at = "scan" /\ thread[t].at = "scan" /\ c.i = thread[t].i + 1
              /\ list[thread[t].i].owner # t
           \/ c.at = "enter" /\ thread[t].at = "found"
           \/ c.at = "wait" /\ thread[t].at = "enter"
           \/ c.at = "fault"
  <2>1. CASE FSWaitLook(t)
    <3>1. CASE ~HasElement(thread[t].i)
      <4> DEFINE c == [thread[t] EXCEPT !.at = Leave(t), !.i = 0]
      <4>1. thread' = [thread EXCEPT ![t] = c] /\ thread[t].at = "scan"
        BY <2>1, <3>1 DEF FSWaitLook
      <4>2. /\ c \in Context(A) /\ c.at \in {"run", "dead"}
            /\ c.iSuspendCount = thread[t].iSuspendCount
        BY <1>2 DEF Context, Leave, Places
      <4>3. thread[t].i > Len(list)
        BY <1>1, <1>2, <3>1 DEF HasElement, Shape
      <4> HIDE DEF c
      <4> QED BY <4>1, <4>2, <4>3
    <3>2. CASE HasElement(thread[t].i) /\ list[thread[t].i].owner = t
      <4> DEFINE c == [thread[t] EXCEPT !.at = "found"]
      <4>1. thread' = [thread EXCEPT ![t] = c] /\ thread[t].at = "scan"
        BY <2>1, <3>2 DEF FSWaitLook
      <4>2. /\ c \in Context(A) /\ c.at = "found"
            /\ c.iSuspendCount = thread[t].iSuspendCount
        BY <1>2 DEF Context, Places
      <4> HIDE DEF c
      <4> QED BY <4>1, <4>2
    <3>3. CASE HasElement(thread[t].i) /\ list[thread[t].i].owner # t
      <4> DEFINE c == [thread[t] EXCEPT !.i = thread[t].i + 1]
      <4>1. thread' = [thread EXCEPT ![t] = c] /\ thread[t].at = "scan"
        BY <2>1, <3>3 DEF FSWaitLook
      <4>2. /\ c \in Context(A) /\ c.at = thread[t].at /\ c.i = thread[t].i + 1
            /\ c.iSuspendCount = thread[t].iSuspendCount
        BY <1>2 DEF Context
      <4> HIDE DEF c
      <4> QED BY <3>3, <4>1, <4>2
    <3> QED BY <3>1, <3>2, <3>3
  <2>2. CASE FSWaitCall(t)
    <3>1. CASE HasElement(thread[t].i) /\ list[thread[t].i].owner = t
      <4> DEFINE c == [thread[t] EXCEPT !.at = "enter", !.sem = list[thread[t].i].addr]
      <4>1. thread' = [thread EXCEPT ![t] = c] /\ thread[t].at = "found"
        BY <2>2, <3>1 DEF FSWaitCall
      <4>2. thread[t].i \in 1 .. Len(list) /\ list \in Seq(Semaphore(A))
        BY <1>1, <1>2, <3>1, <4>1 DEF HasElement, Shape
      <4>3. list[thread[t].i].addr \in A
        <5>1. list[thread[t].i] \in Semaphore(A)
          BY <4>2, ElementOfSeq
        <5> QED BY <5>1 DEF Semaphore
      <4>4. /\ c \in Context(A) /\ c.at = "enter"
            /\ c.iSuspendCount = thread[t].iSuspendCount
        BY <1>2, <4>3 DEF Context, Places
      <4> HIDE DEF c
      <4> QED BY <4>1, <4>4
    <3>2. CASE ~(HasElement(thread[t].i) /\ list[thread[t].i].owner = t)
      <4> DEFINE c == [thread[t] EXCEPT !.at = "fault"]
      <4>1. thread' = [thread EXCEPT ![t] = c]
        BY <2>2, <3>2 DEF FSWaitCall
      <4>2. /\ c \in Context(A) /\ c.at = "fault"
            /\ c.iSuspendCount = thread[t].iSuspendCount
        BY <1>2 DEF Context, Places
      <4> HIDE DEF c
      <4> QED BY <4>1, <4>2
    <3> QED BY <3>1, <3>2
  <2>3. CASE FSWait(t)
    <3> DEFINE p == IF \E i \in Own(t) : list[i].addr = thread[t].sem THEN "wait" ELSE "fault"
               c == [thread[t] EXCEPT !.at = p]
    <3>1. p \in {"wait", "fault"}
      OBVIOUS
    <3>2. thread' = [thread EXCEPT ![t] = c] /\ thread[t].at = "enter"
      BY <2>3 DEF FSWait
    <3> HIDE DEF p
    <3>3. /\ c \in Context(A) /\ c.at \in {"wait", "fault"}
          /\ c.iSuspendCount = thread[t].iSuspendCount
      BY <1>2, <3>1 DEF Context, Places
    <3> HIDE DEF c
    <3> QED BY <3>2, <3>3
  <2> QED BY <2>1, <2>2, <2>3
<1>4. Own(t) \subseteq 1 .. Len(list) /\ Len(list) \in Nat
  BY <1>1, OwnIsFinite
<1>5. t \notin raced \cup twice =>
        /\ c.at = "run" => Own(t) = {}
        /\ c.at = "scan" => \A k \in Own(t) : k >= c.i
        /\ c.at \in {"scan", "found", "enter", "wait"} => \A j, k \in Own(t) : j = k
  <2> SUFFICES ASSUME t \notin raced \cup twice
               PROVE  /\ c.at = "run" => Own(t) = {}
                      /\ c.at = "scan" => \A k \in Own(t) : k >= c.i
                      /\ c.at \in {"scan", "found", "enter", "wait"}
                           => \A j, k \in Own(t) : j = k
    OBVIOUS
  <2>1. /\ thread[t].at = "scan" => \A k \in Own(t) : k >= thread[t].i
        /\ thread[t].at \in {"scan", "found", "enter", "wait"} => \A j, k \in Own(t) : j = k
    BY DEF Stops, Placed
  <2>2. c.at = "run" => Own(t) = {}
    BY <1>2, <1>3, <1>4, <2>1
  <2>3. c.at = "scan" => \A k \in Own(t) : k >= c.i
    <3>1. \A k \in Own(t) : list[k].owner = t /\ k \in Nat
      BY <1>4 DEF Own
    <3> QED BY <1>2, <1>3, <2>1, <3>1
  <2>4. c.at \in {"scan", "found", "enter", "wait"} => \A j, k \in Own(t) : j = k
    BY <1>3, <2>1
  <2> QED BY <2>2, <2>3, <2>4
<1> QED BY <1>1, <1>2, <1>3, <1>5, StopsKept

\* HandleEvent: a thread that was in its own code had no semaphore, and has one
\* for each agent that stops it, unless memory ran out.
LEMMA StopsHandleEvent ==
    ASSUME Inv, Stops, NEW t \in Threads, HandleEvent(t)
    PROVE  Stops'
<1>1. PICK A : Shape(A)
  BY DEF Inv
<1>2. PICK s \in Nat, n \in Nat, dies \in BOOLEAN :
        /\ n <= s
        /\ list' = list \o NewSemaphores(t, n)
        /\ holds' = [holds EXCEPT ![t] = @ + s]
        /\ thread' = [thread EXCEPT ![t].at = "scan", ![t].i = 1, ![t].dies = dies]
        /\ twice' = IF n > 1 THEN twice \cup {t} ELSE twice
        /\ failed' = IF n < s THEN failed \cup {t} ELSE failed
  <2> DEFINE P(s, n, dies) ==
        /\ list' = FreezeThread(t, n)
        /\ holds' = [holds EXCEPT ![t] = @ + s]
        /\ thread' = [thread EXCEPT ![t].at = "scan", ![t].i = 1, ![t].dies = dies]
        /\ twice' = IF n > 1 THEN twice \cup {t} ELSE twice
        /\ failed' = IF n < s THEN failed \cup {t} ELSE failed
  <2>1. \E s \in 0 .. NumAgents, dies \in BOOLEAN : \E n \in 0 .. s : P(s, n, dies)
    BY Zenon DEF HandleEvent
  <2> HIDE DEF P
  <2>2. PICK s \in 0 .. NumAgents, dies \in BOOLEAN : \E n \in 0 .. s : P(s, n, dies)
    BY <2>1
  <2>3. PICK n \in 0 .. s : P(s, n, dies)
    BY <2>2
  <2>4. s \in Nat /\ n \in Nat /\ n <= s
    BY FreezeAssumption
  <2> QED BY <2>3, <2>4, Zenon DEF P, FreezeThread
<1>3. UNCHANGED <<loaded, raced>> /\ loaded /\ thread[t].at = "run"
  BY DEF HandleEvent
<1> DEFINE c == [thread[t] EXCEPT !.at = "scan", !.i = 1, !.dies = dies]
<1>4. /\ thread' = [thread EXCEPT ![t] = c]
      /\ c.at = "scan" /\ c.i = 1 /\ c.iSuspendCount = thread[t].iSuspendCount
  BY <1>1, <1>2 DEF Shape, Context
<1> HIDE DEF c
<1>5. /\ \A u \in Threads : thread'[u] = IF u = t THEN c ELSE thread[u]
      /\ \A u \in Threads : holds'[u] = IF u = t THEN holds[t] + s ELSE holds[u]
      /\ holds' \in [Threads -> Nat]
  <2>1. /\ holds \in [Threads -> Nat] /\ holds[t] + s \in Nat
        /\ holds' = [holds EXCEPT ![t] = holds[t] + s]
    BY <1>2 DEF Stops
  <2>2. thread \in [Threads -> Context(A)]
    BY <1>1 DEF Shape
  <2>3. \A u \in Threads : thread'[u] = IF u = t THEN c ELSE thread[u]
    BY <1>4, <2>2
  <2> QED BY <2>1, <2>3
<1>6. /\ Own(t)' = Own(t) \cup (Len(list) + 1 .. Len(list) + n)
      /\ Semaphores(t)' = Semaphores(t) + n
      /\ \A u \in Threads \ {t} : Own(u)' = Own(u)
  BY <1>1, <1>2, OwnAfterFreeze
<1>7. /\ Own(t) \subseteq 1 .. Len(list) /\ Len(list) \in Nat /\ Semaphores(t) \in Nat
  BY <1>1, OwnIsFinite
<1>8. Counts'
  BY <1>4, <1>5 DEF Stops, Counts
<1>9. StopsAreCounted'
  <2> SUFFICES ASSUME NEW u \in Threads \ failed'
               PROVE  (holds[u] = Semaphores(u) + thread[u].iSuspendCount)'
    BY DEF StopsAreCounted
  <2>1. u \notin failed
    BY <1>2
  <2>2. holds[u] = Semaphores(u) + thread[u].iSuspendCount
    BY <1>3, <2>1 DEF Stops, StopsAreCounted
  <2>3. CASE u = t
    <3>1. n = s
      BY <1>2, <2>3
    <3>2. holds[t] \in Nat /\ thread[t].iSuspendCount \in Nat
      BY DEF Stops, Counts
    <3> QED BY <1>4, <1>5, <1>6, <1>7, <2>2, <2>3, <3>1, <3>2
  <2>4. CASE u # t
    BY <1>5, <1>6, <2>2, <2>4 DEF Semaphores
  <2> QED BY <2>3, <2>4
<1>10. Placed'
  <2> SUFFICES ASSUME NEW u \in Threads \ (raced \cup twice)'
               PROVE  /\ thread'[u].at = "run" => Own(u)' = {}
                      /\ thread'[u].at = "scan" => \A k \in Own(u)' : k >= thread'[u].i
                      /\ thread'[u].at \in {"scan", "found", "enter", "wait"}
                           => \A j, k \in Own(u)' : j = k
    BY DEF Placed
  <2>1. u \notin raced \cup twice
    BY <1>2, <1>3
  <2>2. CASE u = t
    <3>1. n \in {0, 1}
      BY <1>2, <2>2
    <3>2. Own(t) = {}
      BY <1>3, <2>1, <2>2 DEF Stops, Placed
    <3>3. \A k \in Own(t)' : k = Len(list) + 1
      BY <1>6, <1>7, <3>1, <3>2
    <3> QED BY <1>4, <1>5, <1>7, <2>2, <3>3
  <2>3. CASE u # t
    BY <1>5, <1>6, <2>1, <2>3 DEF Stops, Placed
  <2> QED BY <2>2, <2>3
<1> QED BY <1>5, <1>8, <1>9, <1>10 DEF Stops

\* Kern::ThreadSuspend is counted, and so is Kern::ThreadResume for a thread
\* that has no semaphore.
LEMMA StopsSuspend ==
    ASSUME Inv, Stops, NEW t \in Threads, NEW h \in Nat, NEW n \in Nat,
           thread' = [thread EXCEPT ![t].iSuspendCount = n],
           holds' = [holds EXCEPT ![t] = h],
           UNCHANGED <<list, loaded, raced, twice, failed>>,
           loaded /\ t \notin failed => h = Semaphores(t) + n
    PROVE  Stops'
<1>1. PICK A : Shape(A)
  BY DEF Inv
<1> DEFINE c == [thread[t] EXCEPT !.iSuspendCount = n]
<1>2. thread' = [thread EXCEPT ![t] = c]
  BY <1>1 DEF Shape
<1>3. /\ c \in Context(A) /\ c.at = thread[t].at /\ c.i = thread[t].i
      /\ c.iSuspendCount = n
  <2>1. thread[t] \in Context(A) /\ n \in Int
    BY <1>1 DEF Shape
  <2> QED BY <2>1 DEF Context
<1>4. t \notin raced \cup twice =>
        /\ c.at = "run" => Own(t) = {}
        /\ c.at = "scan" => \A k \in Own(t) : k >= c.i
        /\ c.at \in {"scan", "found", "enter", "wait"} => \A j, k \in Own(t) : j = k
  BY <1>3 DEF Stops, Placed
<1> HIDE DEF c
<1> QED BY <1>1, <1>2, <1>3, <1>4, StopsKept

\* ResumeFrozenThread takes one semaphore for the stop it undoes, and the thread
\* that waits on it leaves.
LEMMA StopsResumeFrozen ==
    ASSUME Inv, Stops, NEW t \in Threads, ResumeFrozenThread(t), holds[t] > 0,
           holds' = [holds EXCEPT ![t] = @ - 1], UNCHANGED <<loaded, twice, failed>>
    PROVE  Stops'
<1>1. PICK A : Shape(A)
  BY DEF Inv
<1>2. PICK i \in Own(t) : thread' = FSSignal(t, list[i].addr) /\ list' = RemoveAt(list, i)
  BY DEF ResumeFrozenThread, FirstOf
<1>3. /\ raced' = raced \cup {u \in Threads : InFSWait(u)}
      /\ i \in DOMAIN list /\ list[i].owner = t
  BY <1>2 DEF ResumeFrozenThread, Own
<1>4. /\ \A u \in Threads \ {t} : thread'[u] = thread[u]
      /\ thread'[t].iSuspendCount = thread[t].iSuspendCount
      /\ \/ thread'[t] = thread[t] /\ ~(thread[t].at = "wait" /\ thread[t].sem = list[i].addr)
         \/ thread[t].at = "wait" /\ thread'[t].at \in {"run", "dead"}
  <2>1. CASE thread[t].at = "wait" /\ thread[t].sem = list[i].addr
    <3> DEFINE c == [thread[t] EXCEPT !.at = Leave(t), !.i = 0, !.sem = 0]
    <3>1. thread' = [thread EXCEPT ![t] = c]
      BY <1>1, <1>2, <2>1 DEF Shape, FSSignal
    <3>2. c.at \in {"run", "dead"} /\ c.iSuspendCount = thread[t].iSuspendCount
      BY <1>1 DEF Shape, Context, Leave
    <3> HIDE DEF c
    <3> QED BY <1>1, <2>1, <3>1, <3>2 DEF Shape
  <2>2. CASE ~(thread[t].at = "wait" /\ thread[t].sem = list[i].addr)
    BY <1>2, <2>2 DEF FSSignal
  <2> QED BY <2>1, <2>2
<1>5. \A u \in Threads : /\ Semaphores(u)' = Cardinality(Own(u) \ {i})
                         /\ \A m \in Own(u)' : (IF m < i THEN m ELSE m + 1) \in Own(u) \ {i}
                         /\ Own(u)' \subseteq Nat /\ Own(u) \subseteq Nat
  <2>1. \A u \in Threads : Own(u) \subseteq Nat
    BY <1>1 DEF Own, Shape
  <2>2. \A u \in Threads : Own(u)' \subseteq Nat
    <3>1. PICK B : Shape(B)'
      BY ResumeFrozenStep DEF Inv
    <3> QED BY <3>1 DEF Own, Shape
  <2> QED BY <1>1, <1>2, <1>3, <2>1, <2>2, OwnAfterResume
<1>6. holds' \in [Threads -> Nat] /\ Counts'
  BY <1>4 DEF Stops, Counts
<1>7. StopsAreCounted'
  <2> SUFFICES ASSUME loaded, NEW u \in Threads \ failed
               PROVE  holds'[u] = Semaphores(u)' + thread'[u].iSuspendCount
    BY DEF StopsAreCounted
  <2>1. /\ holds[u] = Semaphores(u) + thread[u].iSuspendCount
        /\ thread[u].iSuspendCount \in Nat /\ holds[u] \in Nat
    BY DEF Stops, StopsAreCounted, Counts
  <2>2. IsFiniteSet(Own(u)) /\ Semaphores(u) \in Nat
    BY <1>1, OwnIsFinite
  <2>3. CASE u = t
    <3>1. Cardinality(Own(t) \ {i}) = Cardinality(Own(t)) - 1
      BY <1>2, <2>2, <2>3, FS_RemoveElement
    <3>2. holds'[t] = holds[t] - 1
      BY DEF Stops
    <3>3. Semaphores(t)' = Semaphores(t) - 1
      BY <1>5, <3>1 DEF Semaphores
    <3> QED BY <1>4, <2>1, <2>2, <2>3, <3>2, <3>3
  <2>4. CASE u # t
    <3>1. Own(u) \ {i} = Own(u)
      BY <1>3, <2>4 DEF Own
    <3>2. Semaphores(u)' = Semaphores(u)
      BY <1>5, <3>1 DEF Semaphores
    <3>3. holds'[u] = holds[u]
      BY <2>4 DEF Stops
    <3> QED BY <1>4, <2>1, <2>4, <3>2, <3>3
  <2> QED BY <2>3, <2>4
<1>8. Placed'
  <2> SUFFICES ASSUME NEW u \in Threads \ (raced \cup twice)'
               PROVE  /\ thread'[u].at = "run" => Own(u)' = {}
                      /\ thread'[u].at = "scan" => \A k \in Own(u)' : k >= thread'[u].i
                      /\ thread'[u].at \in {"scan", "found", "enter", "wait"}
                           => \A j, k \in Own(u)' : j = k
    BY DEF Placed
  <2>1. u \notin raced \cup twice /\ ~InFSWait(u)
    BY <1>3
  <2>2. /\ thread[u].at = "run" => Own(u) = {}
        /\ thread[u].at = "wait" => \A j, k \in Own(u) : j = k
    BY <2>1 DEF Stops, Placed
  <2>3. CASE u # t
    <3>1. thread'[u] = thread[u]
      BY <1>4, <2>3
    <3>2. thread[u].at = "run" => Own(u)' = {}
      BY <1>5, <2>2
    <3>3. thread[u].at = "wait" => \A j, k \in Own(u)' : j = k
      <4> SUFFICES ASSUME thread[u].at = "wait", NEW j \in Own(u)', NEW k \in Own(u)'
                   PROVE  j = k
        OBVIOUS
      <4>1. (IF j < i THEN j ELSE j + 1) = (IF k < i THEN k ELSE k + 1)
        BY <1>5, <2>2
      <4>2. j \in Nat /\ k \in Nat /\ i \in Nat
        BY <1>2, <1>5
      <4> QED BY <4>1, <4>2
    <3> QED BY <2>1, <3>1, <3>2, <3>3 DEF InFSWait
  <2>4. CASE u = t
    <3>1. thread[t].at # "run"
      BY <1>2, <2>2, <2>4
    <3>2. thread[t].at = "wait" => Own(t)' = {} /\ thread'[t].at \in {"run", "dead"}
      <4> SUFFICES ASSUME thread[t].at = "wait"
                   PROVE  Own(t)' = {} /\ thread'[t].at \in {"run", "dead"}
        OBVIOUS
      <4>1. \A k \in Own(t) : k = i
        BY <1>2, <2>2, <2>4
      <4>2. Own(t)' = {}
        BY <1>5, <4>1
      <4>3. thread[t].sem = list[i].addr
        BY <4>1 DEF Inv, WaitersAreListed, Has
      <4> QED BY <1>4, <4>2, <4>3
    <3> QED BY <1>4, <2>1, <2>4, <3>1, <3>2 DEF InFSWait
  <2> QED BY <2>3, <2>4
<1> QED BY <1>6, <1>7, <1>8 DEF Stops

\* The destructor empties the list; nothing is claimed of the counts after it.
LEMMA StopsUnload == ASSUME Inv, Stops, Unload PROVE Stops'
<1>1. PICK A : Shape(A)
  BY DEF Inv
<1>2. /\ list' = <<>> /\ loaded' = FALSE /\ UNCHANGED <<holds, twice, failed>>
      /\ thread' = [u \in Threads |->
                      IF thread[u].at = "wait"
                      THEN [thread[u] EXCEPT !.at = Leave(u), !.i = 0, !.sem = 0]
                      ELSE thread[u]]
  BY DEF Unload, Destroy
<1>3. \A u \in Threads : Own(u)' = {}
  <2>1. DOMAIN <<>> = {}
    OBVIOUS
  <2>2. DOMAIN list' = {}
    BY <1>2, <2>1, Zenon
  <2> QED BY <2>2 DEF Own
<1>4. \A u \in Threads : thread'[u].iSuspendCount = thread[u].iSuspendCount
  BY <1>1, <1>2 DEF Shape, Context
<1>5. Counts' /\ StopsAreCounted' /\ holds' \in [Threads -> Nat]
  BY <1>2, <1>4 DEF Stops, Counts, StopsAreCounted
<1>6. Placed'
  BY <1>3 DEF Placed
<1> QED BY <1>5, <1>6 DEF Stops

\* Every step keeps the count of the stops.
LEMMA StopsNext == Inv /\ Stops /\ [Next]_vars => Stops'
<1> SUFFICES ASSUME Inv, Stops, [Next]_vars PROVE Stops'
  OBVIOUS
<1>1. ASSUME NEW t \in Threads, HandleEvent(t) PROVE Stops'
  BY <1>1, StopsHandleEvent
<1>2. ASSUME NEW t \in Threads, ThreadStep(t) PROVE Stops'
  BY <1>2, StopsFSWait DEF ThreadStep
<1> USE DEF Counts
<1>3. ASSUME NEW t \in Threads, DoSuspendThread(t) PROVE Stops'
  <2> DEFINE s == thread[t].iSuspendCount + 1
             h == holds[t] + 1
  <2>1. /\ thread' = [thread EXCEPT ![t].iSuspendCount = s]
        /\ holds' = [holds EXCEPT ![t] = h]
        /\ UNCHANGED <<list, loaded, raced, twice, failed>>
    BY <1>3 DEF DoSuspendThread
  <2>2. s \in Nat /\ h \in Nat
    BY DEF Stops
  <2>3. loaded /\ t \notin failed => h = Semaphores(t) + s
    <3>1. Semaphores(t) \in Nat
      BY OwnIsFinite DEF Inv
    <3> QED BY <3>1 DEF Stops, StopsAreCounted
  <2> HIDE DEF s, h
  <2> QED BY <2>1, <2>2, <2>3, StopsSuspend
<1>4. ASSUME NEW t \in Threads, DoResumeThread(t) PROVE Stops'
  <2>1. /\ holds[t] > 0 /\ holds' = [holds EXCEPT ![t] = @ - 1]
        /\ ResumeThread(t) /\ UNCHANGED <<loaded, twice, failed>>
    BY <1>4 DEF DoResumeThread
  <2>2. CASE ResumeFrozenThread(t)
    BY <2>1, <2>2, StopsResumeFrozen
  <2>3. CASE ~ResumeFrozenThread(t)
    <3> DEFINE s == thread[t].iSuspendCount
               n == IF s > 0 THEN s - 1 ELSE s
               h == holds[t] - 1
    <3>1. /\ thread' = [thread EXCEPT ![t].iSuspendCount = n] /\ UNCHANGED <<list, raced>>
          /\ Own(t) = {} /\ holds' = [holds EXCEPT ![t] = h]
      BY <2>1, <2>3 DEF ResumeThread
    <3>2. n \in Nat /\ h \in Nat
      BY <2>1 DEF Stops
    <3>3. loaded /\ t \notin failed => h = Semaphores(t) + n
      <4>1. Semaphores(t) = 0
        BY <3>1, FS_EmptySet DEF Semaphores
      <4> QED BY <2>1, <4>1 DEF Stops, StopsAreCounted
    <3> HIDE DEF n, h
    <3> QED BY <2>1, <3>1, <3>2, <3>3, StopsSuspend
  <2> QED BY <2>2, <2>3
<1>5. CASE Unload
  BY <1>5, StopsUnload
<1>6. CASE UNCHANGED vars
  BY <1>6 DEF vars, Stops, StopsAreCounted, Placed, Semaphores, Own
<1> QED BY <1>1, <1>2, <1>3, <1>4, <1>5, <1>6 DEF Next

\* Each stop that an agent knows of is one semaphore of FreezeThread or one
\* Kern::ThreadSuspend, in every interleaving of events, waits and resumes.
THEOREM StopsAreAlwaysCounted == Spec => []StopsAreCounted
<1>1. Stops => StopsAreCounted
  BY DEF Stops
<1> QED BY <1>1, InitInv, NextInv, StopsInit, StopsNext, PTL DEF Spec

\* A thread that an agent has stopped does not run its own code, because FSWait
\* never leaves a semaphore of its own behind it.  Exceptions, in which the code
\* does let it run: it was in FSWait when a semaphore was removed, FreezeThread
\* failed for it, or two agents stopped it for one event.
THEOREM StoppedThreadsAlwaysStay == Spec => []StoppedThreadsStay
<1>1. Inv /\ Stops => StoppedThreadsStay
  <2> SUFFICES ASSUME Inv, Stops, loaded, NEW t \in Threads, Orderly(t), t \notin twice,
                      holds[t] > 0, thread[t].at = "run", thread[t].iSuspendCount = 0
               PROVE  FALSE
    BY DEF StoppedThreadsStay, Runs, Ready
  <2>1. holds[t] = Semaphores(t) + 0
    BY DEF Stops, StopsAreCounted, Orderly
  <2>2. Own(t) = {}
    BY DEF Stops, Placed, Orderly
  <2>3. Semaphores(t) = 0
    BY <2>2, FS_EmptySet DEF Semaphores
  <2> QED BY <2>1, <2>3
<1> QED BY <1>1, InitInv, NextInv, StopsInit, StopsNext, PTL DEF Spec
=============================================================================
