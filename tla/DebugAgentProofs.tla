-------------------------- MODULE DebugAgentProofs --------------------------
(***************************************************************************)
(* Proofs, for every size of the ring, every critical level and every set  *)
(* of events, of the safety properties of DebugAgent and of the refinement *)
(* of EventFifo.                                                           *)
(*                                                                         *)
(* The argument is about the ring alone: Ring(q) says that its four parts  *)
(* have their types, that the head is where the tail and the free count    *)
(* put it, and that exactly the slots in between hold an event.  Store     *)
(* preserves it when a slot is free, RemoveOldest when one is used, and    *)
(* QueueEvent whenever it is given an event.  WaitsOnlyOnEmptyQueue is     *)
(* what makes NotifyEvent's removal safe: the request it answers waited on *)
(* an empty ring, on which QueueEvent always stores.                       *)
(***************************************************************************)
EXTENDS DebugAgent, SequenceTheorems, TLAPS

RingType == [iEventQueue : [0 .. N - 1 -> Slots], iHead : 0 .. N - 1,
             iTail : 0 .. N - 1, iFreeSlots : 0 .. N, iIgnoringTrace : BOOLEAN]

HeadAgrees(q) == q.iHead = IF q.iTail + Used(q) < N THEN q.iTail + Used(q)
                                                    ELSE q.iTail + Used(q) - N

SlotsAgree(q) == \A i \in 0 .. N - 1 : IF Occupied(q, i)
                                          THEN CanWrite(q.iEventQueue[i])
                                          ELSE q.iEventQueue[i] = EmptySlot

Ring(q) == q \in RingType /\ HeadAgrees(q) /\ SlotsAgree(q)

\* The conjunction that every step preserves.
IInv == /\ TypeOK
        /\ IndicesAgree
        /\ SlotsMatchIndices
        /\ WaitsOnlyOnEmptyQueue
        /\ AnswersCarryAnEvent

\* TypeOK without the ring.
RestType == /\ iEventActions \in [TEventType -> TKernelEventAction]
            /\ iEventBalance \in Nat
            /\ iClientThread \in BOOLEAN
            /\ iAgentDying \in BOOLEAN
            /\ suspended \subseteq Threads
            /\ client \in [iStatus : {"idle", "pending", "KErrNone", "KErrCancel"},
                           iInfo : Slots]

\* IInv, with the ring's part gathered.
Parts == Ring(queue) /\ RestType /\ WaitsOnlyOnEmptyQueue /\ AnswersCarryAnEvent

-----------------------------------------------------------------------------
(* The ring *)

\* IncrementHeadPosition and IncrementTailPosition wrap exactly at the end.
LEMMA NextPositionWraps ==
    ASSUME NEW i \in 0 .. N - 1
    PROVE  /\ NextPosition(i) \in 0 .. N - 1
           /\ NextPosition(i) = IF i + 1 < N THEN i + 1 ELSE 0
<1>1. N \in Nat \ {0}
  BY SizeAssumption DEF N
<1>2. CASE i + 1 < N
  BY <1>1, <1>2 DEF NextPosition
<1>3. CASE i + 1 = N
  BY <1>1, <1>3 DEF NextPosition
<1> QED
  BY <1>1, <1>2, <1>3

\* The values that TDriverEventInfo::Reset and QueueEvent write are slots.
LEMMA SlotValues ==
    /\ EmptySlot \in Slots
    /\ TracesLost \in Slots
    /\ CanWrite(TracesLost)
    /\ ~CanWrite(EmptySlot)
BY DEF EmptySlot, TracesLost, Slots, CanWrite, TEventType, TKernelEventAction

\* Writing a slot at the head of a ring that is not full keeps it a ring, one
\* slot fuller, and leaves the flag alone.
LEMMA StoreKeepsRing ==
    ASSUME NEW q, Ring(q), q.iFreeSlots > 0,
           NEW slot \in Slots, CanWrite(slot)
    PROVE  /\ Ring(Store(q, slot))
           /\ Store(q, slot).iFreeSlots = q.iFreeSlots - 1
<1> DEFINE r == Store(q, slot)
<1>1. N \in Nat \ {0}
  BY SizeAssumption DEF N
<1>2. q \in RingType /\ HeadAgrees(q) /\ SlotsAgree(q)
  BY DEF Ring
<1>3. NextPosition(q.iHead) \in 0 .. N - 1
  BY <1>2, NextPositionWraps DEF RingType
<1>4. NextPosition(q.iHead) = IF q.iHead + 1 < N THEN q.iHead + 1 ELSE 0
  BY <1>2, NextPositionWraps DEF RingType
<1>5. /\ r.iHead = NextPosition(q.iHead)
      /\ r.iTail = q.iTail
      /\ r.iFreeSlots = q.iFreeSlots - 1
      /\ r.iEventQueue = [q.iEventQueue EXCEPT ![q.iHead] = slot]
  BY <1>2 DEF Store, RingType
<1>6. q.iHead \in 0 .. N - 1 /\ q.iTail \in 0 .. N - 1 /\ q.iFreeSlots \in 0 .. N
  BY <1>2 DEF RingType
<1>7. q.iHead = IF q.iTail + Used(q) < N THEN q.iTail + Used(q)
                                         ELSE q.iTail + Used(q) - N
  BY <1>2 DEF HeadAgrees
<1>8. r \in RingType
  <2>1. [q.iEventQueue EXCEPT ![q.iHead] = slot] \in [0 .. N - 1 -> Slots]
    BY <1>2 DEF RingType
  <2>2. q.iFreeSlots - 1 \in 0 .. N
    BY <1>1, <1>2 DEF RingType
  <2>3. ASSUME NEW arr \in [0 .. N - 1 -> Slots], NEW h \in 0 .. N - 1, NEW f \in 0 .. N
        PROVE  [q EXCEPT !.iEventQueue = arr, !.iHead = h, !.iFreeSlots = f] \in RingType
    BY <1>2 DEF RingType
  <2> QED
    BY <1>3, <2>1, <2>2, <2>3 DEF Store
<1> HIDE DEF r
<1>9. HeadAgrees(r)
  BY <1>1, <1>4, <1>5, <1>6, <1>7 DEF HeadAgrees, Used
<1>10. SlotsAgree(r)
  <2> SUFFICES ASSUME NEW i \in 0 .. N - 1
               PROVE  IF Occupied(r, i) THEN CanWrite(r.iEventQueue[i])
                                        ELSE r.iEventQueue[i] = EmptySlot
    BY DEF SlotsAgree
  <2>1. CASE i = q.iHead
    <3>1. Occupied(r, i)
      BY <1>1, <1>5, <1>6, <1>7, <2>1 DEF Occupied, Used
    <3>2. r.iEventQueue[i] = slot
      BY <1>2, <1>5, <2>1 DEF RingType
    <3> QED
      BY <3>1, <3>2
  <2>2. CASE i # q.iHead
    <3>1. Occupied(r, i) <=> Occupied(q, i)
      BY <1>1, <1>5, <1>6, <1>7, <2>2 DEF Occupied, Used
    <3>2. r.iEventQueue[i] = q.iEventQueue[i]
      BY <1>2, <1>5, <2>2 DEF RingType
    <3> QED
      BY <1>2, <3>1, <3>2 DEF SlotsAgree
  <2> QED
    BY <2>1, <2>2
<1> QED
  BY <1>5, <1>8, <1>9, <1>10 DEF Ring, r

\* Resetting the slot at the tail of a ring that is not empty keeps it a ring.
LEMMA RemoveOldestKeepsRing ==
    ASSUME NEW q, Ring(q), q.iFreeSlots < N
    PROVE  /\ Ring(RemoveOldest(q))
           /\ RemoveOldest(q).iFreeSlots = q.iFreeSlots + 1
<1> DEFINE r == RemoveOldest(q)
<1>1. N \in Nat \ {0}
  BY SizeAssumption DEF N
<1>2. q \in RingType /\ HeadAgrees(q) /\ SlotsAgree(q)
  BY DEF Ring
<1>3. NextPosition(q.iTail) \in 0 .. N - 1
  BY <1>2, NextPositionWraps DEF RingType
<1>4. NextPosition(q.iTail) = IF q.iTail + 1 < N THEN q.iTail + 1 ELSE 0
  BY <1>2, NextPositionWraps DEF RingType
<1>5. /\ r.iHead = q.iHead
      /\ r.iTail = NextPosition(q.iTail)
      /\ r.iFreeSlots = q.iFreeSlots + 1
      /\ r.iEventQueue = [q.iEventQueue EXCEPT ![q.iTail] = EmptySlot]
  BY <1>2 DEF RemoveOldest, RingType
<1>6. q.iHead \in 0 .. N - 1 /\ q.iTail \in 0 .. N - 1 /\ q.iFreeSlots \in 0 .. N
  BY <1>2 DEF RingType
<1>7. q.iHead = IF q.iTail + Used(q) < N THEN q.iTail + Used(q)
                                         ELSE q.iTail + Used(q) - N
  BY <1>2 DEF HeadAgrees
<1>8. r \in RingType
  <2>1. [q.iEventQueue EXCEPT ![q.iTail] = EmptySlot] \in [0 .. N - 1 -> Slots]
    BY <1>2, SlotValues DEF RingType
  <2>2. q.iFreeSlots + 1 \in 0 .. N
    BY <1>1, <1>2 DEF RingType
  <2>3. ASSUME NEW arr \in [0 .. N - 1 -> Slots], NEW t \in 0 .. N - 1, NEW f \in 0 .. N
        PROVE  [q EXCEPT !.iEventQueue = arr, !.iTail = t, !.iFreeSlots = f] \in RingType
    BY <1>2 DEF RingType
  <2> QED
    BY <1>3, <2>1, <2>2, <2>3 DEF RemoveOldest
<1> HIDE DEF r
<1>9. HeadAgrees(r)
  BY <1>1, <1>4, <1>5, <1>6, <1>7 DEF HeadAgrees, Used
<1>10. SlotsAgree(r)
  <2> SUFFICES ASSUME NEW i \in 0 .. N - 1
               PROVE  IF Occupied(r, i) THEN CanWrite(r.iEventQueue[i])
                                        ELSE r.iEventQueue[i] = EmptySlot
    BY DEF SlotsAgree
  <2>1. CASE i = q.iTail
    <3>1. ~Occupied(r, i)
      BY <1>1, <1>4, <1>5, <1>6, <2>1 DEF Occupied, Used
    <3>2. r.iEventQueue[i] = EmptySlot
      BY <1>2, <1>5, <2>1 DEF RingType
    <3> QED
      BY <3>1, <3>2
  <2>2. CASE i # q.iTail
    <3>1. Occupied(r, i) <=> Occupied(q, i)
      BY <1>1, <1>4, <1>5, <1>6, <2>2 DEF Occupied, Used
    <3>2. r.iEventQueue[i] = q.iEventQueue[i]
      BY <1>2, <1>5, <2>2 DEF RingType
    <3> QED
      BY <1>2, <3>1, <3>2 DEF SlotsAgree
  <2> QED
    BY <2>1, <2>2
<1> QED
  BY <1>5, <1>8, <1>9, <1>10 DEF Ring, r

\* The flag plays no part in the shape of the ring.
LEMMA FlagKeepsRing ==
    ASSUME NEW q, Ring(q), NEW b \in BOOLEAN
    PROVE  /\ Ring([q EXCEPT !.iIgnoringTrace = b])
           /\ [q EXCEPT !.iIgnoringTrace = b].iFreeSlots = q.iFreeSlots
<1> DEFINE r == [q EXCEPT !.iIgnoringTrace = b]
<1>1. q \in RingType
  BY DEF Ring
<1>2. /\ r.iHead = q.iHead
      /\ r.iTail = q.iTail
      /\ r.iFreeSlots = q.iFreeSlots
      /\ r.iEventQueue = q.iEventQueue
  BY <1>1 DEF RingType
<1>3. r \in RingType
  BY <1>1 DEF RingType
<1>4. HeadAgrees(r)
  BY <1>2 DEF Ring, HeadAgrees, Used
<1>5. \A i \in 0 .. N - 1 : Occupied(r, i) <=> Occupied(q, i)
  BY <1>2 DEF Occupied, Used
<1>6. SlotsAgree(r)
  BY <1>2, <1>5 DEF Ring, SlotsAgree
<1> QED
  BY <1>2, <1>3, <1>4, <1>6 DEF Ring

\* QueueEvent keeps the ring a ring, never frees a slot, and always stores on
\* an empty ring.
LEMMA QueueEventKeepsRing ==
    ASSUME NEW q, Ring(q), NEW slot \in Slots, CanWrite(slot)
    PROVE  /\ Ring(QueueEvent(q, slot))
           /\ BufferEmpty(q) => QueueEvent(q, slot).iFreeSlots = N - 1
<1>1. N \in Nat \ {0} /\ KCriticalBufferSize \in Nat
  BY SizeAssumption DEF N
<1>2. q.iFreeSlots \in 0 .. N
  BY DEF Ring, RingType
<1>3. CASE BufferFull(q)
  <2>1. QueueEvent(q, slot) = q
    BY <1>3 DEF QueueEvent
  <2>2. ~BufferEmpty(q)
    BY <1>1, <1>3 DEF BufferFull, BufferEmpty
  <2> QED
    BY <2>1, <2>2
<1>4. CASE ~BufferFull(q) /\ ~BufferAtCriticalLevel(q)
  <2>1. QueueEvent(q, slot) = [Store(q, slot) EXCEPT !.iIgnoringTrace = FALSE]
    BY <1>4 DEF QueueEvent
  <2>2. Ring(Store(q, slot)) /\ Store(q, slot).iFreeSlots = q.iFreeSlots - 1
    BY <1>2, <1>4, StoreKeepsRing DEF BufferFull
  <2> QED
    BY <2>1, <2>2, FlagKeepsRing DEF BufferEmpty
<1>5. CASE ~BufferFull(q) /\ BufferAtCriticalLevel(q)
  <2>1. BufferCanStoreEvent(q) /\ q.iFreeSlots > 0
    BY <1>2, <1>5 DEF BufferFull, BufferCanStoreEvent
  <2>2. QueueEvent(q, slot) = QueueAtCritical(q, slot)
    BY <1>5, <2>1 DEF QueueEvent
  <2>3. ~BufferEmpty(q)
    BY <1>1, <1>2, <1>5 DEF BufferAtCriticalLevel, BufferEmpty
  <2>4. Ring(Store(q, slot)) /\ Ring(Store(q, TracesLost))
    BY <2>1, StoreKeepsRing, SlotValues
  <2>5. Ring([Store(q, TracesLost) EXCEPT !.iIgnoringTrace = TRUE])
    BY <2>4, FlagKeepsRing
  <2>6. Ring(QueueAtCritical(q, slot))
    BY <2>4, <2>5 DEF QueueAtCritical
  <2> QED
    BY <2>2, <2>3, <2>6
<1> QED
  BY <1>3, <1>4, <1>5

\* A ring that is not empty has a real event at its tail.
LEMMA OldestIsAnEvent ==
    ASSUME NEW q, Ring(q), q.iFreeSlots < N
    PROVE  Oldest(q) \in Slots /\ CanWrite(Oldest(q))
<1>1. N \in Nat \ {0}
  BY SizeAssumption DEF N
<1>2. q \in RingType /\ SlotsAgree(q)
  BY DEF Ring
<1>3. Occupied(q, q.iTail)
  BY <1>1, <1>2 DEF Occupied, Used, RingType
<1> QED
  BY <1>2, <1>3 DEF SlotsAgree, Oldest, RingType

\* What NotifyEvent queues is a slot that can be written.
LEMMA QueuedIsAnEvent ==
    ASSUME NEW e \in Events, NEW a \in TKernelEventAction
    PROVE  Queued(e, a) \in Slots /\ CanWrite(Queued(e, a))
<1>1. e \in TDriverEventInfo
  BY EventAssumption
<1> QED
  BY <1>1 DEF TDriverEventInfo, Queued, Slots, CanWrite, ReservedTypes, TEventType

-----------------------------------------------------------------------------
(* The invariant *)

\* The invariant read as a statement about the ring and one about the rest.
LEMMA IInvParts == IInv <=> Parts
BY DEF IInv, Parts, TypeOK, RestType, IndicesAgree, SlotsMatchIndices, Ring,
       RingType, HeadAgrees, SlotsAgree

\* The constructor sets up an empty ring and no request.
LEMMA InitParts == Init => Parts
<1> SUFFICES ASSUME Init PROVE Parts
  OBVIOUS
<1>1. N \in Nat \ {0}
  BY SizeAssumption DEF N
<1>2. queue \in RingType
  BY <1>1, SlotValues DEF Init, RingType
<1>3. HeadAgrees(queue)
  BY <1>1 DEF Init, HeadAgrees, Used
<1>4. SlotsAgree(queue)
  BY <1>1 DEF Init, SlotsAgree, Occupied, Used
<1>5. RestType
  BY SlotValues DEF Init, RestType, TKernelEventAction
<1> QED
  BY <1>2, <1>3, <1>4, <1>5
     DEF Init, Parts, Ring, WaitsOnlyOnEmptyQueue, AnswersCarryAnEvent

\* GetEvent: it waits only on an empty ring, and hands out a real event.
LEMMA GetEventParts == Parts /\ GetEvent => Parts'
<1> SUFFICES ASSUME Parts, GetEvent PROVE Parts'
  OBVIOUS
<1>1. Ring(queue) /\ RestType /\ iEventBalance = 0 /\ iClientThread' = TRUE
  BY DEF Parts, WaitsOnlyOnEmptyQueue, GetEvent
<1>2. N \in Nat \ {0} /\ queue.iFreeSlots \in 0 .. N
  BY <1>1, SizeAssumption DEF N, Ring, RingType
<1>3. CASE BufferEmpty(queue)
  <2>1. /\ client' = [client EXCEPT !.iStatus = "pending"]
        /\ iEventBalance' = 1
        /\ queue' = queue
    BY <1>1, <1>3 DEF GetEvent
  <2>2. Ring(queue)' /\ BufferEmpty(queue)'
    BY <1>1, <1>3, <2>1
  <2>3. RestType' /\ client'.iStatus = "pending"
    BY <1>1, <2>1 DEF RestType, GetEvent
  <2> QED
    BY <1>1, <2>1, <2>2, <2>3 DEF Parts, WaitsOnlyOnEmptyQueue, AnswersCarryAnEvent
<1>4. CASE ~BufferEmpty(queue)
  <2>1. queue.iFreeSlots < N
    BY <1>2, <1>4 DEF BufferEmpty
  <2>2. Oldest(queue) \in Slots /\ CanWrite(Oldest(queue))
    BY <1>1, <2>1, OldestIsAnEvent
  <2>3. /\ client' = [iStatus |-> "KErrNone", iInfo |-> Oldest(queue)]
        /\ queue' = RemoveOldest(queue)
        /\ iEventBalance' = 0
    BY <1>1, <1>4, <2>2 DEF GetEvent
  <2>4. Ring(queue)'
    BY <1>1, <2>1, <2>3, RemoveOldestKeepsRing
  <2>5. RestType'
    BY <1>1, <2>2, <2>3 DEF RestType, GetEvent
  <2> QED
    BY <2>2, <2>3, <2>4, <2>5 DEF Parts, WaitsOnlyOnEmptyQueue, AnswersCarryAnEvent
<1> QED
  BY <1>3, <1>4

\* CancelGetEvent: no request waits afterwards, and the balance is zero.
LEMMA CancelGetEventParts == Parts /\ CancelGetEvent => Parts'
<1> SUFFICES ASSUME Parts, CancelGetEvent PROVE Parts'
  OBVIOUS
<1>1. Ring(queue)'
  BY DEF Parts, CancelGetEvent
<1>2. RestType'
  BY DEF Parts, RestType, CancelGetEvent
<1>3. client'.iStatus # "pending" /\ iEventBalance' = 0
  BY DEF Parts, RestType, CancelGetEvent
<1>4. AnswersCarryAnEvent'
  BY DEF Parts, RestType, AnswersCarryAnEvent, CancelGetEvent
<1> QED
  BY <1>1, <1>2, <1>3, <1>4 DEF Parts, WaitsOnlyOnEmptyQueue

\* Collect: the request leaves the answered states.
LEMMA CollectParts == Parts /\ Collect => Parts'
<1> SUFFICES ASSUME Parts, Collect PROVE Parts'
  OBVIOUS
<1>1. Ring(queue)'
  BY DEF Parts, Collect
<1>2. RestType' /\ client'.iStatus = "idle"
  BY DEF Parts, RestType, Collect
<1>3. iEventBalance' = 0
  BY DEF Parts, WaitsOnlyOnEmptyQueue, Collect
<1> QED
  BY <1>1, <1>2, <1>3 DEF Parts, WaitsOnlyOnEmptyQueue, AnswersCarryAnEvent

\* ResumeThread and SetEventAction touch neither the ring nor the request.
LEMMA OthersParts ==
    ASSUME Parts, \/ \E t \in Threads : ResumeThread(t)
                  \/ \E e \in Events, a \in TKernelEventAction :
                        SetEventAction(e.iEventType, a)
    PROVE  Parts'
<1>1. UNCHANGED <<queue, iEventBalance, iClientThread, iAgentDying, client>>
  BY DEF ResumeThread, SetEventAction
<1>2. suspended' \subseteq suspended
  BY DEF ResumeThread, SetEventAction
<1>3. iEventActions' \in [TEventType -> TKernelEventAction]
  BY DEF Parts, RestType, ResumeThread, SetEventAction
<1> QED
  BY <1>1, <1>2, <1>3
     DEF Parts, RestType, WaitsOnlyOnEmptyQueue, AnswersCarryAnEvent, BufferEmpty

\* NotifyEvent: a request that is answered waited on an empty ring, so the
\* event just queued is the one it is answered with.
LEMMA NotifyEventParts ==
    ASSUME Parts, NEW e \in Events, NotifyEvent(e)
    PROVE  Parts'
<1> DEFINE a == ActionFor(e)
           q == QueueEvent(queue, Queued(e, a))
<1>1. Ring(queue) /\ RestType /\ WaitsOnlyOnEmptyQueue /\ AnswersCarryAnEvent
  BY DEF Parts
<1>2. e.iEventType \in TEventType /\ e.iThreadId \in Threads \cup {NoThread}
  BY EventAssumption DEF TDriverEventInfo
<1>3. iAgentDying' \in BOOLEAN
  BY <1>1 DEF NotifyEvent, RestType, Problematic
<1>4. iEventActions' = iEventActions /\ iClientThread' = iClientThread
  BY DEF NotifyEvent
<1>5. CASE UNCHANGED <<queue, iEventBalance, suspended, client>>
  BY <1>1, <1>3, <1>4, <1>5
     DEF Parts, RestType, WaitsOnlyOnEmptyQueue, AnswersCarryAnEvent, BufferEmpty
<1>6. CASE a # "EActionIgnore"
  <2>1. a \in TKernelEventAction
    BY <1>1, <1>2 DEF ActionFor, RestType, TKernelEventAction
  <2>2. suspended' \subseteq Threads
    BY <1>1, <1>2, <1>6 DEF NotifyEvent, RestType, Suspends
  <2>3. Ring(q) /\ (BufferEmpty(queue) => q.iFreeSlots = N - 1)
    BY <1>1, <2>1, QueuedIsAnEvent, QueueEventKeepsRing
  <2>4. IF iClientThread /\ iEventBalance > 0
           THEN /\ client' = IF CanWrite(Oldest(q)) THEN Completed(Oldest(q))
                                                    ELSE Completed(client.iInfo)
                /\ iEventBalance' = iEventBalance - 1
                /\ queue' = RemoveOldest(q)
           ELSE /\ queue' = q
                /\ UNCHANGED <<iEventBalance, client>>
    BY <1>6 DEF NotifyEvent
  <2> HIDE DEF a, q
  <2>5. CASE iClientThread /\ iEventBalance > 0
    <3>1. client.iStatus = "pending" /\ iEventBalance = 1 /\ BufferEmpty(queue)
      BY <1>1, <2>5 DEF WaitsOnlyOnEmptyQueue
    <3>2. N \in Nat \ {0} /\ q.iFreeSlots < N
      BY <2>3, <3>1, SizeAssumption DEF N
    <3>3. Oldest(q) \in Slots /\ CanWrite(Oldest(q))
      BY <2>3, <3>2, OldestIsAnEvent
    <3>4. client' = [iStatus |-> "KErrNone", iInfo |-> Oldest(q)]
      BY <2>4, <2>5, <3>1, <3>3 DEF Completed
    <3>5. Ring(queue)'
      BY <2>3, <2>4, <2>5, <3>2, RemoveOldestKeepsRing
    <3>6. RestType'
      BY <1>1, <1>3, <1>4, <2>2, <2>4, <2>5, <3>1, <3>3, <3>4 DEF RestType
    <3>7. iEventBalance' = 0
      BY <2>4, <2>5, <3>1
    <3> QED
      BY <3>3, <3>4, <3>5, <3>6, <3>7
         DEF Parts, WaitsOnlyOnEmptyQueue, AnswersCarryAnEvent
  <2>6. CASE ~(iClientThread /\ iEventBalance > 0)
    <3>1. client.iStatus # "pending" /\ iEventBalance = 0
      BY <1>1, <2>6 DEF WaitsOnlyOnEmptyQueue
    <3>2. queue' = q /\ iEventBalance' = iEventBalance /\ client' = client
      BY <2>4, <2>6
    <3>3. Ring(queue)'
      BY <2>3, <3>2
    <3>4. RestType'
      BY <1>1, <1>3, <1>4, <2>2, <3>2 DEF RestType
    <3> QED
      BY <1>1, <3>1, <3>2, <3>3, <3>4
         DEF Parts, WaitsOnlyOnEmptyQueue, AnswersCarryAnEvent
  <2> QED
    BY <2>5, <2>6
<1> QED
  BY <1>5, <1>6 DEF NotifyEvent

\* Every step of the specification keeps the invariant.
LEMMA NextParts == Parts /\ [Next]_vars => Parts'
<1> SUFFICES ASSUME Parts, [Next]_vars PROVE Parts'
  OBVIOUS
<1>1. CASE \E e \in Events : NotifyEvent(e)
  BY <1>1, NotifyEventParts
<1>2. CASE GetEvent
  BY <1>2, GetEventParts
<1>3. CASE CancelGetEvent
  BY <1>3, CancelGetEventParts
<1>4. CASE Collect
  BY <1>4, CollectParts
<1>5. CASE \/ \E t \in Threads : ResumeThread(t)
           \/ \E e \in Events, a \in TKernelEventAction : SetEventAction(e.iEventType, a)
  BY <1>5, OthersParts
<1>6. CASE UNCHANGED vars
  BY <1>6 DEF vars, Parts, RestType, WaitsOnlyOnEmptyQueue, AnswersCarryAnEvent, BufferEmpty
<1> QED
  BY <1>1, <1>2, <1>3, <1>4, <1>5, <1>6 DEF Next

\* The inductive invariant holds in every reachable state.
LEMMA Invariance == Spec => []IInv
<1>1. Init => IInv
  BY InitParts, IInvParts
<1>2. IInv /\ [Next]_vars => IInv'
  <2>1. IInv' <=> Parts'
    BY IInvParts, PTL
  <2> QED
    BY <2>1, IInvParts, NextParts
<1> QED
  BY <1>1, <1>2, PTL DEF Spec

-----------------------------------------------------------------------------
(* The theorems *)

\* The members of DDebugAgent keep their types: no index leaves the array and
\* iFreeSlots never leaves 0 .. KNumberOfEventsToQueue.
THEOREM TypeCorrect == Spec => []TypeOK
<1>1. IInv => TypeOK
  BY DEF IInv
<1> QED
  BY <1>1, Invariance, PTL

\* The three separately updated counters of the ring always agree.
THEOREM IndicesAlwaysAgree == Spec => []IndicesAgree
<1>1. IInv => IndicesAgree
  BY DEF IInv
<1> QED
  BY <1>1, Invariance, PTL

\* QueueEvent's assertion that the slot at the head is empty cannot fail, and
\* no unread event is overwritten.
THEOREM SlotsAlwaysMatch == Spec => []SlotsMatchIndices
<1>1. IInv => SlotsMatchIndices
  BY DEF IInv
<1> QED
  BY <1>1, Invariance, PTL

\* No lost wake-up: the server never waits while an event is queued.
THEOREM NoLostWakeUp == Spec => []WaitsOnlyOnEmptyQueue
<1>1. IInv => WaitsOnlyOnEmptyQueue
  BY DEF IInv
<1> QED
  BY <1>1, Invariance, PTL

\* A request completed with KErrNone always carries a real event.
THEOREM AnswersAreEvents == Spec => []AnswersCarryAnEvent
<1>1. IInv => AnswersCarryAnEvent
  BY DEF IInv
<1> QED
  BY <1>1, Invariance, PTL

\* A dying agent never suspends another thread.
THEOREM DyingAgentIsHarmless == Spec => DyingAgentSuspendsNothing
<1>1. ASSUME Next, iAgentDying'
      PROVE  suspended' \subseteq suspended
  <2>1. ASSUME NEW e \in Events, NotifyEvent(e)
        PROVE  suspended' \subseteq suspended
    <3>1. ActionFor(e) # "EActionSuspend"
      BY <1>1 DEF ActionFor
    <3> QED
      BY <2>1, <3>1 DEF NotifyEvent, Suspends
  <2> QED
    BY <1>1, <2>1
       DEF Next, GetEvent, CancelGetEvent, Collect, ResumeThread, SetEventAction
<1>2. [Next]_vars => [iAgentDying' => suspended' \subseteq suspended]_vars
  BY <1>1
<1> QED
  BY <1>2, PTL DEF Spec, DyingAgentSuspendsNothing

-----------------------------------------------------------------------------
(***************************************************************************)
(* The ring implements the bounded queue of EventFifo.                     *)
(*                                                                         *)
(* Contents(q) reads the ring as a sequence, from the oldest event to the  *)
(* newest.  Store appends to it and RemoveOldest takes its tail, wherever  *)
(* the indices wrap; so each handler is an action of EventFifo or leaves   *)
(* the sequence and the request alone.  IInv supplies what the handlers    *)
(* rely on: a request waits on an empty ring, and what is queued can be    *)
(* written.                                                                *)
(***************************************************************************)

\* The slot of the k-th oldest event.
Place(q, k) == IF q.iTail + k - 1 < N THEN q.iTail + k - 1 ELSE q.iTail + k - 1 - N

-----------------------------------------------------------------------------
(* The ring as a sequence                                                   *)

\* An index that is at most one turn too far is brought back by one turn.
LEMMA ModWraps ==
    ASSUME NEW n \in Nat \ {0}, NEW j \in Nat, j < n + n
    PROVE  j % n = IF j < n THEN j ELSE j - n
<1>1. CASE j < n
  BY <1>1
<1>2. CASE ~(j < n)
  BY <1>2
<1> QED BY <1>1, <1>2

\* The contents of a ring: as many entries as slots are used, each in its place.
LEMMA ContentsOfRing ==
    ASSUME NEW q, Ring(q)
    PROVE  /\ Used(q) \in 0 .. N
           /\ Contents(q) \in Seq(Slots)
           /\ Len(Contents(q)) = Used(q)
           /\ \A k \in 1 .. Used(q) : /\ Place(q, k) \in 0 .. N - 1
                                      /\ Contents(q)[k] = q.iEventQueue[Place(q, k)]
           /\ Contents(q) = <<>> <=> q.iFreeSlots = N
<1>1. /\ N \in Nat \ {0} /\ q.iTail \in 0 .. N - 1 /\ q.iFreeSlots \in 0 .. N
      /\ q.iEventQueue \in [0 .. N - 1 -> Slots]
  BY SizeAssumption DEF N, Ring, RingType
<1>2. Used(q) \in 0 .. N
  BY <1>1 DEF Used
<1>3. ASSUME NEW k \in 1 .. Used(q)
      PROVE  /\ (q.iTail + k - 1) % N = Place(q, k)
             /\ Place(q, k) \in 0 .. N - 1
  <2>1. q.iTail + k - 1 \in Nat /\ q.iTail + k - 1 < N + N
    BY <1>1, <1>2
  <2>2. (q.iTail + k - 1) % N = Place(q, k)
    <3> DEFINE j == q.iTail + k - 1
    <3>1. j \in Nat /\ j < N + N
      BY <2>1
    <3>2. Place(q, k) = IF j < N THEN j ELSE j - N
      BY <1>1, <1>2 DEF Place
    <3> HIDE DEF j
    <3>3. j % N = IF j < N THEN j ELSE j - N
      BY <1>1, <3>1, ModWraps
    <3> QED BY <3>2, <3>3 DEF j
  <2> QED BY <1>1, <2>1, <2>2 DEF Place
<1>4. Contents(q) \in Seq(Slots) /\ Len(Contents(q)) = Used(q)
  <2>1. \A k \in 1 .. Used(q) : q.iEventQueue[(q.iTail + k - 1) % N] \in Slots
    BY <1>1, <1>3
  <2> QED BY <1>2, <2>1 DEF Contents
<1>5. \A k \in 1 .. Used(q) : Contents(q)[k] = q.iEventQueue[Place(q, k)]
  BY <1>3 DEF Contents
<1>6. Contents(q) = <<>> <=> Used(q) = 0
  BY <1>4, EmptySeq
<1> QED BY <1>1, <1>2, <1>3, <1>4, <1>5, <1>6 DEF Used

\* Store appends.
LEMMA StoreAppends ==
    ASSUME NEW q, Ring(q), q.iFreeSlots > 0, NEW slot \in Slots, CanWrite(slot)
    PROVE  Contents(Store(q, slot)) = Append(Contents(q), slot)
<1> DEFINE r == Store(q, slot)
<1>1. /\ N \in Nat \ {0} /\ q \in RingType /\ q.iTail \in 0 .. N - 1
      /\ q.iFreeSlots \in 0 .. N /\ q.iHead \in 0 .. N - 1 /\ HeadAgrees(q)
      /\ q.iEventQueue \in [0 .. N - 1 -> Slots]
  BY SizeAssumption DEF N, Ring, RingType
<1>2. /\ r.iTail = q.iTail /\ r.iFreeSlots = q.iFreeSlots - 1
      /\ r.iEventQueue = [q.iEventQueue EXCEPT ![q.iHead] = slot]
  BY <1>1 DEF Store, RingType
<1>3. Ring(r)
  BY StoreKeepsRing
<1> HIDE DEF r
<1>4. Used(r) = Used(q) + 1 /\ Used(q) \in Nat
  BY <1>1, <1>2 DEF Used
<1>5. /\ Contents(r) \in Seq(Slots) /\ Len(Contents(r)) = Used(q) + 1
      /\ \A k \in 1 .. Used(q) + 1 : Contents(r)[k] = r.iEventQueue[Place(r, k)]
  BY <1>3, <1>4, ContentsOfRing
<1>6. /\ Contents(q) \in Seq(Slots) /\ Len(Contents(q)) = Used(q)
      /\ \A k \in 1 .. Used(q) : /\ Place(q, k) \in 0 .. N - 1
                                 /\ Contents(q)[k] = q.iEventQueue[Place(q, k)]
  BY ContentsOfRing
<1>7. /\ Append(Contents(q), slot) \in Seq(Slots)
      /\ Len(Append(Contents(q), slot)) = Used(q) + 1
      /\ \A k \in 1 .. Used(q) : Append(Contents(q), slot)[k] = Contents(q)[k]
      /\ Append(Contents(q), slot)[Used(q) + 1] = slot
  BY <1>6, AppendProperties
<1>8. \A k \in 1 .. Used(q) + 1 : Place(r, k) = Place(q, k)
  BY <1>2 DEF Place
<1>9. Place(q, Used(q) + 1) = q.iHead
  BY <1>1, <1>4 DEF Place, HeadAgrees
<1>10. ASSUME NEW k \in 1 .. Used(q) PROVE Place(q, k) # q.iHead
  <2>1. Used(q) < N
    BY <1>1 DEF Used
  <2> QED BY <1>1, <1>4, <2>1 DEF Place, HeadAgrees
<1>11. ASSUME NEW k \in 1 .. Used(q) + 1
       PROVE  Contents(r)[k] = Append(Contents(q), slot)[k]
  <2>1. CASE k = Used(q) + 1
    <3>1. Place(r, k) = q.iHead
      BY <1>8, <1>9, <2>1
    <3>2. r.iEventQueue[q.iHead] = slot
      BY <1>1, <1>2
    <3> QED BY <1>5, <1>7, <2>1, <3>1, <3>2
  <2>2. CASE k # Used(q) + 1
    <3>1. k \in 1 .. Used(q)
      BY <1>4, <2>2
    <3>2. r.iEventQueue[Place(q, k)] = q.iEventQueue[Place(q, k)]
      BY <1>1, <1>2, <1>6, <1>10, <3>1
    <3> QED BY <1>5, <1>6, <1>7, <1>8, <3>1, <3>2
  <2> QED BY <2>1, <2>2
<1> HIDE DEF r
<1>12. Contents(r) = Append(Contents(q), slot)
  BY <1>5, <1>7, <1>11, SeqEqual
<1> QED BY <1>12 DEF r

\* RemoveOldest takes the tail of the contents, and the oldest event is the head.
LEMMA RemoveOldestTakesTail ==
    ASSUME NEW q, Ring(q), q.iFreeSlots < N
    PROVE  /\ Contents(RemoveOldest(q)) = Tail(Contents(q))
           /\ Contents(q) # <<>> /\ Head(Contents(q)) = Oldest(q)
<1> DEFINE r == RemoveOldest(q)
<1>1. /\ N \in Nat \ {0} /\ q \in RingType /\ q.iTail \in 0 .. N - 1
      /\ q.iFreeSlots \in 0 .. N /\ q.iEventQueue \in [0 .. N - 1 -> Slots]
  BY SizeAssumption DEF N, Ring, RingType
<1>2. /\ r.iTail = NextPosition(q.iTail) /\ r.iFreeSlots = q.iFreeSlots + 1
      /\ r.iEventQueue = [q.iEventQueue EXCEPT ![q.iTail] = EmptySlot]
  BY <1>1 DEF RemoveOldest, RingType
<1>3. Ring(r)
  BY RemoveOldestKeepsRing
<1> HIDE DEF r
<1>4. Used(q) = Used(r) + 1 /\ Used(r) \in Nat /\ Used(q) \in 1 .. N
  <2>1. Used(q) = N - q.iFreeSlots /\ Used(r) = N - (q.iFreeSlots + 1)
    BY <1>2 DEF Used
  <2> QED BY <1>1, <2>1
<1>5. /\ Contents(r) \in Seq(Slots) /\ Len(Contents(r)) = Used(r)
      /\ \A k \in 1 .. Used(r) : Contents(r)[k] = r.iEventQueue[Place(r, k)]
  BY <1>3, ContentsOfRing
<1>6. /\ Contents(q) \in Seq(Slots) /\ Len(Contents(q)) = Used(q)
      /\ \A k \in 1 .. Used(q) : /\ Place(q, k) \in 0 .. N - 1
                                 /\ Contents(q)[k] = q.iEventQueue[Place(q, k)]
  BY ContentsOfRing
<1>7. Contents(q) # <<>>
  BY <1>1, ContentsOfRing
<1>8. /\ Tail(Contents(q)) \in Seq(Slots) /\ Len(Tail(Contents(q))) = Used(r)
      /\ \A k \in 1 .. Used(r) : Tail(Contents(q))[k] = Contents(q)[k + 1]
  <2>1. /\ Tail(Contents(q)) \in Seq(Slots)
        /\ Len(Tail(Contents(q))) = Len(Contents(q)) - 1
        /\ \A k \in 1 .. Len(Tail(Contents(q))) : Tail(Contents(q))[k] = Contents(q)[k + 1]
    BY <1>6, <1>7, HeadTailProperties
  <2>2. Len(Tail(Contents(q))) = Used(r)
    BY <1>4, <1>6, <2>1
  <2> QED BY <2>1, <2>2
<1>9. r.iTail = IF q.iTail + 1 < N THEN q.iTail + 1 ELSE 0
  BY <1>1, <1>2, NextPositionWraps
<1>10. ASSUME NEW k \in 1 .. Used(r)
       PROVE  /\ k + 1 \in 1 .. Used(q) /\ Place(r, k) = Place(q, k + 1)
              /\ Place(q, k + 1) # q.iTail
  <2>1. k + 1 \in 1 .. Used(q) /\ k < N /\ k \in Nat /\ k >= 1
    BY <1>1, <1>4
  <2>2. CASE q.iTail + 1 < N
    <3>1. r.iTail = q.iTail + 1 /\ q.iTail \in Nat /\ N \in Nat
      BY <1>1, <1>9, <2>2
    <3> QED BY <2>1, <2>2, <3>1 DEF Place
  <2>3. CASE ~(q.iTail + 1 < N)
    <3>1. r.iTail = 0 /\ q.iTail = N - 1 /\ N \in Nat
      BY <1>1, <1>9, <2>3
    <3> QED BY <2>1, <3>1 DEF Place
  <2> QED BY <2>1, <2>2, <2>3
<1>11. ASSUME NEW k \in 1 .. Used(r)
       PROVE  Contents(r)[k] = Tail(Contents(q))[k]
  <2>1. r.iEventQueue[Place(q, k + 1)] = q.iEventQueue[Place(q, k + 1)]
    BY <1>1, <1>2, <1>6, <1>10
  <2> QED BY <1>5, <1>6, <1>8, <1>10, <2>1
<1>12. Contents(r) = Tail(Contents(q))
  BY <1>5, <1>8, <1>11, SeqEqual
<1>13. Head(Contents(q)) = Oldest(q)
  <2>1. Head(Contents(q)) = Contents(q)[1] /\ 1 \in 1 .. Used(q)
    BY <1>4, <1>6, <1>7
  <2>2. Place(q, 1) = q.iTail
    BY <1>1 DEF Place
  <2> QED BY <1>6, <2>1, <2>2 DEF Oldest
<1> QED BY <1>7, <1>12, <1>13 DEF r

\* The flag is no part of the contents.
LEMMA FlagKeepsContents ==
    ASSUME NEW q, Ring(q), NEW b \in BOOLEAN
    PROVE  Contents([q EXCEPT !.iIgnoringTrace = b]) = Contents(q)
<1> DEFINE r == [q EXCEPT !.iIgnoringTrace = b]
<1>1. r.iTail = q.iTail /\ r.iFreeSlots = q.iFreeSlots /\ r.iEventQueue = q.iEventQueue
  BY DEF Ring, RingType
<1> HIDE DEF r
<1>2. Contents(r) = Contents(q)
  BY <1>1 DEF Contents, Used
<1> QED BY <1>2 DEF r

-----------------------------------------------------------------------------
(* QueueEvent                                                               *)

\* What QueueEvent does to the contents: it appends the event, unless the ring is
\* full, or the event is a user trace above the critical level; that one is
\* dropped or becomes the marker.
LEMMA QueueEventContents ==
    ASSUME NEW q, Ring(q), NEW slot \in Slots, CanWrite(slot)
    PROVE  LET c == Contents(QueueEvent(q, slot))
               trace == slot.iEventType = "EEventsUserTrace" /\ BufferAtCriticalLevel(q)
           IN  \/ BufferFull(q) /\ c = Contents(q)
               \/ ~BufferFull(q) /\ c = Append(Contents(q), slot)
               \/ ~BufferFull(q) /\ trace /\ c = Contents(q)
               \/ ~BufferFull(q) /\ trace /\ c = Append(Contents(q), TracesLost)
<1>1. q.iFreeSlots \in 0 .. N /\ N \in Nat
  BY SizeAssumption DEF N, Ring, RingType
<1>2. CASE BufferFull(q)
  BY <1>2 DEF QueueEvent
<1>3. CASE ~BufferFull(q) /\ ~BufferAtCriticalLevel(q)
  <2>1. QueueEvent(q, slot) = [Store(q, slot) EXCEPT !.iIgnoringTrace = FALSE]
    BY <1>3 DEF QueueEvent
  <2>2. q.iFreeSlots > 0
    BY <1>1, <1>3 DEF BufferFull
  <2>3. Ring(Store(q, slot)) /\ Contents(Store(q, slot)) = Append(Contents(q), slot)
    BY <2>2, StoreKeepsRing, StoreAppends
  <2>4. Contents(QueueEvent(q, slot)) = Append(Contents(q), slot)
    BY <2>1, <2>3, FlagKeepsContents
  <2> QED BY <1>3, <2>4
<1>4. CASE ~BufferFull(q) /\ BufferAtCriticalLevel(q)
  <2>1. BufferCanStoreEvent(q) /\ q.iFreeSlots > 0
    BY <1>1, <1>4 DEF BufferFull, BufferCanStoreEvent
  <2>2. QueueEvent(q, slot) = QueueAtCritical(q, slot)
    BY <1>4, <2>1 DEF QueueEvent
  <2>3. CASE slot.iEventType # "EEventsUserTrace"
    <3>1. QueueEvent(q, slot) = Store(q, slot)
      BY <2>2, <2>3 DEF QueueAtCritical
    <3> QED BY <1>4, <2>1, <3>1, StoreAppends
  <2>4. CASE slot.iEventType = "EEventsUserTrace" /\ q.iIgnoringTrace
    <3>1. QueueEvent(q, slot) = q
      BY <2>2, <2>4 DEF QueueAtCritical
    <3> QED BY <1>4, <2>4, <3>1
  <2>5. CASE slot.iEventType = "EEventsUserTrace" /\ ~q.iIgnoringTrace
    <3>1. QueueEvent(q, slot) = [Store(q, TracesLost) EXCEPT !.iIgnoringTrace = TRUE]
      BY <2>2, <2>5 DEF QueueAtCritical
    <3>2. /\ Ring(Store(q, TracesLost))
          /\ Contents(Store(q, TracesLost)) = Append(Contents(q), TracesLost)
      BY <2>1, SlotValues, StoreKeepsRing, StoreAppends
    <3>3. Contents(QueueEvent(q, slot)) = Append(Contents(q), TracesLost)
      BY <3>1, <3>2, FlagKeepsContents
    <3> QED BY <1>4, <2>5, <3>3
  <2> QED BY <2>3, <2>4, <2>5
<1> QED BY <1>2, <1>3, <1>4

\* QueueEvent leaves the queue as EventFifo allows it to be after the offer.
LEMMA QueueEventIsOffered ==
    ASSUME Ring(queue), NEW slot \in Slots, CanWrite(slot), slot \in Offers
    PROVE  Contents(QueueEvent(queue, slot)) \in Fifo!Offered(slot)
<1> DEFINE c == Contents(QueueEvent(queue, slot))
           f == Contents(queue)
<1>1. /\ N \in Nat /\ KCriticalBufferSize \in Nat /\ queue.iFreeSlots \in 0 .. N
      /\ Len(f) = N - queue.iFreeSlots
  BY SizeAssumption, ContentsOfRing DEF N, Ring, RingType, Used
<1>2. /\ BufferFull(queue) <=> ~(Len(f) < N)
      /\ BufferAtCriticalLevel(queue) <=> Len(f) > KCriticalBufferSize
  BY <1>1 DEF BufferFull, BufferAtCriticalLevel
<1>3. \/ ~(Len(f) < N) /\ c = f
      \/ Len(f) < N /\ c = Append(f, slot)
      \/ slot.iEventType = "EEventsUserTrace" /\ Len(f) > KCriticalBufferSize /\ c = f
      \/ /\ slot.iEventType = "EEventsUserTrace" /\ Len(f) > KCriticalBufferSize
         /\ Len(f) < N /\ c = Append(f, TracesLost)
  BY <1>2, QueueEventContents
<1>4. Fifo!Offered(slot) =
        (IF Len(f) < N THEN {Append(f, slot)} ELSE {f})
        \cup (IF slot.iEventType = "EEventsUserTrace" /\ Len(f) > KCriticalBufferSize
                 THEN {f} \cup (IF Len(f) < N THEN {Append(f, TracesLost)} ELSE {})
                 ELSE {})
  BY DEF Fifo!Offered
<1> HIDE DEF c, f
<1>5. c \in Fifo!Offered(slot)
  BY <1>3, <1>4
<1> QED BY <1>5 DEF c

-----------------------------------------------------------------------------
(* The steps                                                                *)

\* An agent that has just been created is an empty queue without a reader.
LEMMA InitRefines == Init => Fifo!Init
<1> SUFFICES ASSUME Init PROVE Fifo!Init
  OBVIOUS
<1>1. Ring(queue) /\ queue.iFreeSlots = N
  BY InitParts DEF Parts, Init
<1>2. Contents(queue) = <<>>
  BY <1>1, ContentsOfRing
<1> QED BY <1>2 DEF Init, Fifo!Init

\* NotifyEvent offers the event, or ignores it.
LEMMA NotifyEventRefines ==
    ASSUME Parts, NEW e \in Events, NotifyEvent(e)
    PROVE  Fifo!Next \/ UNCHANGED Fifo!fvars
<1> DEFINE a == ActionFor(e)
           slot == Queued(e, a)
           q == QueueEvent(queue, slot)
<1>1. CASE UNCHANGED <<queue, client>>
  BY <1>1 DEF Fifo!fvars
<1>2. CASE ~UNCHANGED <<queue, client>>
  <2>1. /\ a # "EActionIgnore"
        /\ IF iClientThread /\ iEventBalance > 0
              THEN /\ client' = IF CanWrite(Oldest(q)) THEN Completed(Oldest(q))
                                                       ELSE Completed(client.iInfo)
                   /\ queue' = RemoveOldest(q)
              ELSE queue' = q /\ UNCHANGED client
    BY <1>2 DEF NotifyEvent
  <2>2. a \in {"EActionContinue", "EActionSuspend"}
    <3>1. iEventActions[e.iEventType] \in TKernelEventAction
      BY EventAssumption DEF Parts, RestType, TDriverEventInfo
    <3> QED BY <2>1, <3>1 DEF ActionFor, TKernelEventAction
  <2>3. slot \in Slots /\ CanWrite(slot) /\ slot \in Offers
    BY <2>2, QueuedIsAnEvent DEF TKernelEventAction, Offers
  <2> HIDE DEF a, slot
  <2>4. /\ Ring(queue) /\ Ring(q) /\ Contents(q) \in Fifo!Offered(slot)
        /\ BufferEmpty(queue) => q.iFreeSlots = N - 1
    BY <2>3, QueueEventKeepsRing, QueueEventIsOffered DEF Parts
  <2> HIDE DEF q
  <2>5. /\ iClientThread /\ iEventBalance > 0 <=> client.iStatus = "pending"
        /\ client.iStatus = "pending" => BufferEmpty(queue)
    BY DEF Parts, WaitsOnlyOnEmptyQueue
  <2>6. CASE client.iStatus = "pending"
    <3>1. q.iFreeSlots < N
      BY <2>4, <2>5, <2>6, SizeAssumption DEF N
    <3>2. /\ Contents(RemoveOldest(q)) = Tail(Contents(q))
          /\ Contents(q) # <<>> /\ Head(Contents(q)) = Oldest(q)
      BY <2>4, <3>1, RemoveOldestTakesTail
    <3>3. CanWrite(Oldest(q))
      BY <2>4, <3>1, OldestIsAnEvent
    <3>4. /\ client'.iStatus = "KErrNone" /\ client'.iInfo = Head(Contents(q))
          /\ Contents(queue') = Tail(Contents(q))
      BY <2>1, <2>5, <2>6, <3>2, <3>3 DEF Completed
    <3>5. Fifo!Post(slot)
      BY <2>4, <2>6, <3>2, <3>4 DEF Fifo!Post
    <3> QED BY <2>3, <3>5 DEF Fifo!Next, Fifo!Entries
  <2>7. CASE client.iStatus # "pending"
    <3>1. queue' = q /\ client' = client
      BY <2>1, <2>5, <2>7
    <3>2. Fifo!Post(slot)
      BY <2>4, <2>7, <3>1 DEF Fifo!Post
    <3> QED BY <2>3, <3>2 DEF Fifo!Next, Fifo!Entries
  <2> QED BY <2>6, <2>7
<1> QED BY <1>1, <1>2

\* GetEvent reads: what is at the tail can always be written, so it waits only on
\* an empty queue.
LEMMA GetEventRefines == ASSUME Parts, GetEvent PROVE Fifo!Read
<1>1. Ring(queue) /\ N \in Nat /\ queue.iFreeSlots \in 0 .. N /\ RestType
  BY SizeAssumption DEF N, Parts, Ring, RingType
<1>2. CASE queue.iFreeSlots = N
  <2>1. /\ Contents(queue) = <<>> /\ queue' = queue /\ client.iStatus = "idle"
        /\ client' = [client EXCEPT !.iStatus = "pending"]
    BY <1>1, <1>2, ContentsOfRing DEF GetEvent, BufferEmpty
  <2>2. client'.iStatus = "pending" /\ client'.iInfo = client.iInfo
    BY <1>1, <2>1 DEF RestType
  <2> QED BY <2>1, <2>2 DEF Fifo!Read
<1>3. CASE queue.iFreeSlots < N
  <2>1. ~BufferEmpty(queue) /\ CanWrite(Oldest(queue))
    BY <1>1, <1>3, OldestIsAnEvent DEF BufferEmpty
  <2>2. /\ queue' = RemoveOldest(queue) /\ client.iStatus = "idle"
        /\ client'.iStatus = "KErrNone" /\ client'.iInfo = Oldest(queue)
    BY <2>1 DEF GetEvent
  <2>3. /\ Contents(RemoveOldest(queue)) = Tail(Contents(queue))
        /\ Contents(queue) # <<>> /\ Head(Contents(queue)) = Oldest(queue)
    BY <1>1, <1>3, RemoveOldestTakesTail
  <2> QED BY <2>2, <2>3 DEF Fifo!Read
<1> QED BY <1>1, <1>2, <1>3

\* Every step of the agent is one of the queue, or one that the queue cannot see.
LEMMA NextRefines == Parts /\ [Next]_vars => [Fifo!Next]_(Fifo!fvars)
<1> SUFFICES ASSUME Parts, [Next]_vars PROVE Fifo!Next \/ UNCHANGED Fifo!fvars
  OBVIOUS
<1>1. CASE \E e \in Events : NotifyEvent(e)
  BY <1>1, NotifyEventRefines
<1>2. CASE GetEvent
  BY <1>2, GetEventRefines DEF Fifo!Next
<1>3. CASE CancelGetEvent
  <2>1. /\ client.iStatus # "idle" /\ queue' = queue
        /\ client'.iStatus = IF client.iStatus = "pending" THEN "KErrCancel"
                                                         ELSE client.iStatus
        /\ client'.iInfo = client.iInfo
    BY <1>3 DEF CancelGetEvent, Parts, RestType
  <2>2. Fifo!GiveUp
    BY <2>1 DEF Fifo!GiveUp
  <2> QED BY <2>2 DEF Fifo!Next
<1>4. CASE Collect
  <2>1. /\ client.iStatus \in {"KErrNone", "KErrCancel"} /\ queue' = queue
        /\ client'.iStatus = "idle" /\ client'.iInfo = client.iInfo
    BY <1>4 DEF Collect, Parts, RestType
  <2>2. Fifo!Collect
    BY <2>1 DEF Fifo!Collect
  <2> QED BY <2>2 DEF Fifo!Next
<1>5. CASE UNCHANGED <<queue, client>>
  BY <1>5 DEF Fifo!fvars
<1> QED
  BY <1>1, <1>2, <1>3, <1>4, <1>5 DEF Next, ResumeThread, SetEventAction, vars

\* Events reach the server in the order they were raised, each at most once; a
\* request waits only when nothing is queued; and QueueEvent refuses only a
\* user trace above the critical level, or anything once the ring is full.
THEOREM RingImplementsFifo == Spec => ImplementsFifo
<1> QED BY InitParts, NextParts, InitRefines, NextRefines, PTL
           DEF Spec, ImplementsFifo, Fifo!Spec

-----------------------------------------------------------------------------
(* Suspensions that nobody is told of                                       *)

\* NotifyEvent: an event that is neither refused nor replaced by a marker is in
\* the ring after the step, or in the answer to the request.
LEMMA SuspensionIsReported ==
    ASSUME Parts, NEW e \in Events, NotifyEvent(e),
           NEW t \in suspended' \ suspended, ~BufferFull(queue),
           ~(BufferAtCriticalLevel(queue) /\ e.iEventType = "EEventsUserTrace")
    PROVE  Reported(t)
<1> DEFINE a == ActionFor(e)
           slot == Queued(e, a)
           q == QueueEvent(queue, slot)
<1>1. /\ a = "EActionSuspend" /\ t = e.iThreadId
      /\ IF iClientThread /\ iEventBalance > 0
            THEN /\ client' = IF CanWrite(Oldest(q)) THEN Completed(Oldest(q))
                                                     ELSE Completed(client.iInfo)
                 /\ queue' = RemoveOldest(q)
            ELSE queue' = q /\ UNCHANGED client
  BY DEF NotifyEvent, Suspends
<1>2. /\ slot \in Slots /\ CanWrite(slot) /\ slot.iThreadId = t
      /\ slot.iEventType = e.iEventType
  <2>1. a \in TKernelEventAction
    BY <1>1 DEF TKernelEventAction
  <2>2. slot.iThreadId = t /\ slot.iEventType = e.iEventType
    BY <1>1 DEF Queued
  <2> QED BY <2>1, <2>2, QueuedIsAnEvent
<1> HIDE DEF a, slot
<1>3. /\ Ring(queue) /\ Ring(q) /\ Contents(q) = Append(Contents(queue), slot)
      /\ BufferEmpty(queue) => q.iFreeSlots = N - 1
  BY <1>2, QueueEventKeepsRing, QueueEventContents DEF Parts
<1> HIDE DEF q
<1>4. /\ Contents(queue) \in Seq(Slots)
      /\ Contents(queue) = <<>> <=> queue.iFreeSlots = N
      /\ Len(Contents(q)) = Used(q) /\ Used(q) \in Nat
  <2>1. N \in Nat
    BY SizeAssumption DEF N
  <2> QED BY <1>3, <2>1, ContentsOfRing
<1>5. CASE iClientThread /\ iEventBalance > 0
  <2>1. client.iStatus = "pending" /\ BufferEmpty(queue)
    BY <1>5 DEF Parts, WaitsOnlyOnEmptyQueue
  <2>2. N \in Nat /\ q.iFreeSlots < N
    BY <1>3, <2>1, SizeAssumption DEF N
  <2>3. Oldest(q) = slot
    <3>1. Oldest(q) = Head(Contents(q))
      BY <1>3, <2>2, RemoveOldestTakesTail
    <3>2. Contents(queue) = <<>>
      BY <1>4, <2>1 DEF BufferEmpty
    <3> QED BY <1>2, <1>3, <3>1, <3>2
  <2>4. client' = [iStatus |-> "KErrNone", iInfo |-> slot]
    BY <1>1, <1>2, <1>5, <2>1, <2>3 DEF Completed
  <2> QED BY <1>2, <2>4 DEF Reported
<1>6. CASE ~(iClientThread /\ iEventBalance > 0)
  <2>1. queue' = q
    BY <1>1, <1>6
  <2>2. /\ Len(Contents(q)) = Len(Contents(queue)) + 1 /\ Len(Contents(queue)) \in Nat
        /\ Contents(q)[Len(Contents(queue)) + 1] = slot
    BY <1>2, <1>3, <1>4, AppendProperties
  <2>3. Used(q) \in 1 .. Used(q) /\ Contents(q)[Used(q)] = slot
    BY <1>4, <2>2
  <2> QED BY <1>2, <2>1, <2>3 DEF Reported
<1> QED BY <1>5, <1>6

\* A thread is suspended without its event being queued or delivered only when
\* QueueEvent refused that event.
THEOREM SuspensionsAreReported == Spec => SilentSuspensionOnlyWhenRefused
<1> DEFINE Refused(t) == \/ BufferFull(queue)
                         \/ /\ BufferAtCriticalLevel(queue)
                            /\ \E e \in Events : /\ e.iThreadId = t
                                                 /\ e.iEventType = "EEventsUserTrace"
<1>1. ASSUME Parts, Next, NEW t \in suspended' \ suspended, ~Reported(t)
      PROVE  Refused(t)
  <2>1. PICK e \in Events : NotifyEvent(e)
    BY <1>1 DEF Next, GetEvent, CancelGetEvent, Collect, ResumeThread, SetEventAction
  <2>2. e.iThreadId = t
    BY <1>1, <2>1 DEF NotifyEvent
  <2>3. CASE BufferFull(queue)
    BY <2>3
  <2>4. CASE BufferAtCriticalLevel(queue) /\ e.iEventType = "EEventsUserTrace"
    BY <2>2, <2>4
  <2> QED BY <1>1, <2>1, <2>3, <2>4, SuspensionIsReported
<1>2. Parts /\ [Next]_vars => [\A t \in suspended' \ suspended :
                                  ~Reported(t) => Refused(t)]_vars
  BY <1>1
<1> QED BY <1>2, InitParts, NextParts, PTL DEF Spec, SilentSuspensionOnlyWhenRefused
=============================================================================
