------------------------ MODULE SecurityServerProofs ------------------------
(***************************************************************************)
(* Proofs about SecurityServer, for any sessions, names, agents, handlers  *)
(* and messages. That the server does not panic and holds every message is *)
(* proved whatever the clients do; that the maps, the handlers and the     *)
(* agents of the driver agree, and that events answer requests, is proved  *)
(* for orderly clients (Orderly).                                          *)
(***************************************************************************)
EXTENDS SecurityServer, FiniteSetTheorems, SequenceTheorems, NaturalsInduction,
        WellFoundedInduction, TLAPS

-----------------------------------------------------------------------------
(* The inductive invariant.                                                *)

AgentIds == {AgentOf[s] : s \in Sessions} \cup {NoHandler}

HandlerRecord ==
  [iProcessName : Names, iAgentId : AgentIds, active : BOOLEAN,
   iStatus : {"KErrNone", "KErrCancel", "KErrNotFound", "pending"},
   iMessage : Messages \cup {NoMessage}, used : BOOLEAN]

Types ==
  /\ open \subseteq Sessions /\ closing \subseteq open
  /\ iAsyncHandlers \in [Sessions -> Seq(Handlers)]
  /\ handler \in [Handlers -> HandlerRecord]
  /\ message \in [Messages -> {"free", "outstanding"}]

\* Handler h is at place i of the list of session s.
At(lists, s, i, h) == s \in Sessions /\ i \in DOMAIN lists[s] /\ lists[s][i] = h

\* A handler is in one place of one list, that of an open session, and is in use.
Placed(lists, hd, sessions) ==
  /\ \A s, t, i, j, h : At(lists, s, i, h) /\ At(lists, t, j, h) => s = t /\ i = j
  /\ \A s, i, h : At(lists, s, i, h) => s \in sessions /\ hd[h].used

\* The messages that are held.
Holding(lists, hd, ms) ==
  /\ \A h \in Handlers : hd[h].active =>
       /\ hd[h].iMessage \in Messages /\ ms[hd[h].iMessage] = "outstanding"
       /\ \E s, i : At(lists, s, i, h)
  /\ \A m \in Messages : ms[m] = "outstanding" => \E h \in Handlers : hd[h].active /\ hd[h].iMessage = m
  /\ \A g, h \in Handlers : hd[g].active /\ hd[h].active /\ hd[g].iMessage = hd[h].iMessage => g = h

\* The timer stands still while there are sessions, and they are counted.
Counted ==
  /\ iSessionCount = Cardinality(open)
  /\ open # {} => iShutdown = "idle" /\ server = "running"

Sound == Types /\ Placed(iAsyncHandlers, handler, open) /\ Holding(iAsyncHandlers, handler, message)
         /\ Counted

\* A server that is blocked or whose driver has faulted does nothing more.
Inv == /\ server \in {"running", "stopped", "blocked", "faulted"}
       /\ server \in {"running", "stopped"} => Sound

-----------------------------------------------------------------------------
(* Cancelling.                                                             *)

St(sv, hd, ms, tr) == [server |-> sv, handler |-> hd, message |-> ms, tracker |-> tr]

\* Two states of the handlers that differ in what requests were answered with.
Answers(hd, hd2) ==
  \A g \in Handlers :
    /\ hd2[g].iProcessName = hd[g].iProcessName /\ hd2[g].iAgentId = hd[g].iAgentId
    /\ hd2[g].active = hd[g].active /\ hd2[g].iMessage = hd[g].iMessage /\ hd2[g].used = hd[g].used

LEMMA DriverCancels ==
  ASSUME NEW sv, NEW hd \in [Handlers -> HandlerRecord], NEW ms, NEW tr, NEW h
  PROVE  \E hd2, tr2 :
           /\ hd2 \in [Handlers -> HandlerRecord]
           /\ DriverCancel(St(sv, hd, ms, tr), h) = St(sv, hd2, ms, tr2) /\ Answers(hd, hd2)
<1> DEFINE st == St(sv, hd, ms, tr)
           name == hd[h].iProcessName
           id == hd[h].iAgentId
           a == FindAgentForProcessAndId(tr, name, id)
           w == a.iRequestGetEventStatus
           hd2 == IF w = NoHandler THEN hd ELSE [hd EXCEPT ![w].iStatus = "KErrCancel"]
           tr2 == WithAgent(tr, name, id, [a EXCEPT !.iRequestGetEventStatus = NoHandler])
<1>1. st.server = sv /\ st.handler = hd /\ st.message = ms /\ st.tracker = tr
  BY DEF St
<1>2. CASE ~ HasAgent(tr, name, id)
  <2>1. DriverCancel(st, h) = st
    BY <1>1, <1>2 DEF DriverCancel
  <2> QED BY <2>1 DEF Answers
<1>3. CASE HasAgent(tr, name, id)
  <2>1. DriverCancel(st, h) = [st EXCEPT !.tracker = tr2, !.handler = hd2]
    BY <1>1, <1>3 DEF DriverCancel
  <2>2. hd2 \in [Handlers -> HandlerRecord] /\ Answers(hd, hd2)
    <3> HIDE DEF w
    <3> QED BY DEF HandlerRecord, Answers
  <2> HIDE DEF hd2, tr2
  <2>3. DriverCancel(st, h) = St(sv, hd2, ms, tr2)
    BY <2>1 DEF St
  <2> QED BY <2>2, <2>3
<1> QED BY <1>2, <1>3

\* Handler h is no longer active and its message, if it held one, is answered;
\* the other handlers keep what they hold.
Ended(hd, ms, h, hd2, ms2) ==
  /\ hd2 \in [Handlers -> HandlerRecord]
  /\ ~ hd2[h].active
  /\ \A g \in Handlers \ {h} :
       /\ hd2[g].active = hd[g].active /\ hd2[g].iMessage = hd[g].iMessage /\ hd2[g].used = hd[g].used
       /\ hd2[g].iProcessName = hd[g].iProcessName /\ hd2[g].iAgentId = hd[g].iAgentId
  /\ ms2 = IF hd[h].active THEN [ms EXCEPT ![hd[h].iMessage] = "free"] ELSE ms

\* An active handler holds a message that is not answered.
HoldsOne(hd, ms, h) ==
  hd[h].active => hd[h].iMessage \in Messages /\ ms[hd[h].iMessage] = "outstanding"

\* Cancel does not panic; it ends the request or blocks.
LEMMA CancelEnds ==
  ASSUME NEW hd \in [Handlers -> HandlerRecord], NEW ms \in [Messages -> {"free", "outstanding"}],
         NEW tr, NEW h \in Handlers, HoldsOne(hd, ms, h)
  PROVE  \E sv2, hd2, ms2, tr2 :
           /\ sv2 \in {"running", "blocked"}
           /\ Cancel(St("running", hd, ms, tr), h) = St(sv2, hd2, ms2, tr2)
           /\ sv2 = "running" => /\ Ended(hd, ms, h, hd2, ms2)
                                 /\ hd2[h].used = hd[h].used
<1> DEFINE st == St("running", hd, ms, tr)
<1>1. st.server = "running" /\ st.handler = hd /\ st.message = ms /\ st.tracker = tr
  BY DEF St
<1>2. CASE ~ hd[h].active
  <2>1. Cancel(st, h) = st
    BY <1>1, <1>2 DEF Cancel
  <2>2. Ended(hd, ms, h, hd, ms)
    BY <1>2 DEF Ended
  <2> QED BY <2>1, <2>2
<1>3. CASE hd[h].active
  <2>1. PICK hd2, tr2 :
          /\ hd2 \in [Handlers -> HandlerRecord]
          /\ DriverCancel(st, h) = St("running", hd2, ms, tr2) /\ Answers(hd, hd2)
    BY DriverCancels
  <2> DEFINE m == hd[h].iMessage
             ms2 == [ms EXCEPT ![m] = "free"]
             done == Complete(DriverCancel(st, h), m)
  <2>2. m \in Messages /\ ms[m] = "outstanding" /\ m # NoMessage
    BY <1>3, NothingAssumption DEF HoldsOne
  <2>3. done = St("running", hd2, ms2, tr2)
    <3>1. DriverCancel(st, h).message = ms
      BY <2>1 DEF St
    <3>2. done = [St("running", hd2, ms, tr2) EXCEPT !.message[m] = "free"]
      BY <2>1, <2>2, <3>1 DEF Complete
    <3> QED BY <3>2 DEF St
  <2>4. done.server = "running" /\ done.handler = hd2 /\ done.message = ms2 /\ done.tracker = tr2
    <3> HIDE DEF done, ms2
    <3> QED BY <2>3 DEF St
  <2> DEFINE rec == [hd2[h] EXCEPT !.active = FALSE, !.iMessage = NoMessage]
             hd3 == [hd2 EXCEPT ![h] = rec]
  <2>5. Cancel(st, h) = IF hd2[h].iStatus = "pending" THEN [done EXCEPT !.server = "blocked"]
                        ELSE [done EXCEPT !.handler[h] = rec]
    <3>1. st.server = "running" /\ st.handler[h].active /\ st.handler[h].iMessage = m
      BY <1>1, <1>3
    <3>2. Cancel(st, h) = IF done.server # "running" THEN done
                          ELSE IF done.handler[h].iStatus = "pending"
                               THEN [done EXCEPT !.server = "blocked"]
                               ELSE [done EXCEPT !.handler[h] =
                                       [@ EXCEPT !.active = FALSE, !.iMessage = NoMessage]]
      <4> HIDE DEF st
      <4> QED BY <3>1 DEF Cancel
    <3> HIDE DEF done, st, m
    <3> QED BY <2>3, <2>4, <3>2 DEF St
  <2>6. CASE hd2[h].iStatus = "pending"
    <3>1. Cancel(st, h) = St("blocked", hd2, ms2, tr2)
      <4> HIDE DEF done, st, m, rec, hd3, ms2
      <4> QED BY <2>3, <2>5, <2>6 DEF St
    <3> QED BY <3>1
  <2>7. CASE hd2[h].iStatus # "pending"
    <3>1. Cancel(st, h) = St("running", hd3, ms2, tr2)
      <4> HIDE DEF done, st, m, rec, ms2
      <4> QED BY <2>3, <2>5, <2>7 DEF St
    <3>2. Ended(hd, ms, h, hd3, ms2) /\ hd3[h].used = hd[h].used
      <4>1. rec \in HandlerRecord /\ ~ rec.active /\ rec.used = hd[h].used
        <5>1. hd2[h] \in HandlerRecord /\ hd2[h].used = hd[h].used
          BY <2>1 DEF Answers
        <5> QED BY <5>1 DEF HandlerRecord
      <4> HIDE DEF rec
      <4>2. hd3 \in [Handlers -> HandlerRecord] /\ hd3[h] = rec /\ \A g \in Handlers \ {h} : hd3[g] = hd2[g]
        <5>1. hd2 \in [Handlers -> HandlerRecord] /\ rec \in HandlerRecord
          BY <2>1, <4>1
        <5> QED BY <5>1
      <4> HIDE DEF hd3
      <4> QED BY <1>3, <2>1, <4>1, <4>2 DEF Ended, Answers
    <3> HIDE DEF ms2, hd3
    <3> QED BY <3>1, <3>2
  <2> QED BY <2>6, <2>7
<1> QED BY <1>2, <1>3

LEMMA FreeIsRecord == FreeHandler \in HandlerRecord /\ ~ FreeHandler.active /\ ~ FreeHandler.used
BY NameAssumption DEF FreeHandler, HandlerRecord, AgentIds

\* The state after h was destroyed or cancelled.
Outcome(st, hd, ms, h) ==
  \E sv2, hd2, ms2, tr2 :
    /\ sv2 \in {"running", "blocked"}
    /\ st = St(sv2, hd2, ms2, tr2) /\ (sv2 = "running" => Ended(hd, ms, h, hd2, ms2))

LEMMA DestroyEnds ==
  ASSUME NEW hd \in [Handlers -> HandlerRecord], NEW ms \in [Messages -> {"free", "outstanding"}],
         NEW tr, NEW h \in Handlers, HoldsOne(hd, ms, h)
  PROVE  Outcome(Destroy(St("running", hd, ms, tr), h), hd, ms, h)
<1> DEFINE st == St("running", hd, ms, tr)
<1>1. PICK sv2, hd2, ms2, tr2 :
        /\ sv2 \in {"running", "blocked"}
        /\ Cancel(st, h) = St(sv2, hd2, ms2, tr2)
        /\ sv2 = "running" => Ended(hd, ms, h, hd2, ms2)
  BY CancelEnds
<1> HIDE DEF st
<1>2. CASE sv2 = "blocked"
  <2>1. Destroy(st, h) = St(sv2, hd2, ms2, tr2)
    BY <1>1, <1>2 DEF Destroy, St
  <2> QED BY <1>2, <2>1 DEF st, Outcome
<1>3. CASE sv2 = "running"
  <2> DEFINE hd3 == [hd2 EXCEPT ![h] = FreeHandler]
  <2>1. Destroy(st, h) = St("running", hd3, ms2, tr2)
    BY <1>1, <1>3 DEF Destroy, St
  <2>2. Ended(hd, ms, h, hd3, ms2)
    <3>1. hd2 \in [Handlers -> HandlerRecord]
      BY <1>1, <1>3 DEF Ended
    <3>2. hd3 \in [Handlers -> HandlerRecord] /\ hd3[h] = FreeHandler /\ \A g \in Handlers \ {h} : hd3[g] = hd2[g]
      BY <3>1, FreeIsRecord
    <3> HIDE DEF hd3
    <3> QED BY <1>1, <1>3, <3>2, FreeIsRecord DEF Ended
  <2> HIDE DEF hd3
  <2>3. Outcome(Destroy(st, h), hd, ms, h)
    BY <2>1, <2>2 DEF Outcome
  <2> QED BY <2>3 DEF st
<1> QED BY <1>1, <1>2, <1>3

\* A place in the list is closed.
Closes(l, p, l2) ==
  /\ l2 \in Seq(Handlers) /\ Len(l2) = Len(l) - 1
  /\ \A i \in 1 .. Len(l) - 1 : l2[i] = l[IF i < p THEN i ELSE i + 1]

LEMMA TailCloses ==
  ASSUME NEW l \in Seq(Handlers), l # <<>>
  PROVE  Closes(l, 1, Tail(l)) /\ 1 \in 1 .. Len(l) /\ Head(l) = l[1]
BY DEF Closes

\* Taking an element out of a sequence moves the elements behind it down by one.
LEMMA RemoveAtIndex ==
  ASSUME NEW S, NEW s \in Seq(S), NEW i \in 1 .. Len(s)
  PROVE  /\ RemoveAt(s, i) \in Seq(S)
         /\ DOMAIN RemoveAt(s, i) = 1 .. Len(s) - 1
         /\ \A m \in 1 .. Len(s) - 1 :
              RemoveAt(s, i)[m] = s[IF m < i THEN m ELSE m + 1]
<1> DEFINE a == SubSeq(s, 1, i - 1)
           b == SubSeq(s, i + 1, Len(s))
<1>1. /\ a \in Seq(S) /\ Len(a) = i - 1
      /\ \A k \in 1 .. i - 1 : a[k] = s[k]
  BY SubSeqProperties
<1>2. /\ b \in Seq(S) /\ Len(b) = Len(s) - i
      /\ \A k \in 1 .. Len(s) - i : b[k] = s[i + k]
  BY SubSeqProperties
<1> HIDE DEF a, b
<1>3. RemoveAt(s, i) = a \o b
  BY DEF RemoveAt, a, b
<1>4. /\ a \o b \in Seq(S) /\ Len(a \o b) = Len(a) + Len(b)
      /\ \A k \in 1 .. Len(a) + Len(b) :
           (a \o b)[k] = IF k <= Len(a) THEN a[k] ELSE b[k - Len(a)]
  BY <1>1, <1>2, ConcatProperties
<1>5. Len(s) \in Nat /\ Len(a) + Len(b) = Len(s) - 1
  BY <1>1, <1>2
<1>6. DOMAIN (a \o b) = 1 .. Len(s) - 1
  BY <1>4, <1>5
<1>7. ASSUME NEW m \in 1 .. Len(s) - 1
      PROVE  (a \o b)[m] = s[IF m < i THEN m ELSE m + 1]
  <2>1. (a \o b)[m] = IF m <= i - 1 THEN a[m] ELSE b[m - (i - 1)]
    BY <1>1, <1>4, <1>5
  <2>2. CASE m < i
    BY <1>1, <2>1, <2>2
  <2>3. CASE ~(m < i)
    <3>1. m - (i - 1) \in 1 .. Len(s) - i /\ i + (m - (i - 1)) = m + 1
      BY <1>5, <2>3
    <3>2. b[m - (i - 1)] = s[i + (m - (i - 1))]
      BY <1>2, <3>1
    <3> QED BY <2>1, <2>3, <3>1, <3>2
  <2> QED BY <2>2, <2>3
<1> QED BY <1>3, <1>4, <1>6, <1>7

LEMMA RemoveCloses ==
  ASSUME NEW l \in Seq(Handlers), NEW p \in 1 .. Len(l)
  PROVE  Closes(l, p, RemoveAt(l, p))
BY RemoveAtIndex DEF Closes

\* The handler at place p of the list of s is taken out of it.
LEMMA TakenOut ==
  ASSUME NEW lists \in [Sessions -> Seq(Handlers)], NEW hd, NEW sessions, Placed(lists, hd, sessions),
         NEW s \in Sessions, NEW p \in 1 .. Len(lists[s]), NEW l2, Closes(lists[s], p, l2),
         NEW lists2, lists2 = [lists EXCEPT ![s] = l2]
  PROVE  /\ lists2 \in [Sessions -> Seq(Handlers)]
         /\ \A t, i, g : At(lists2, t, i, g) =>
              At(lists, t, IF t = s /\ ~ (i < p) THEN i + 1 ELSE i, g) /\ g # lists[s][p]
         /\ \A t, i, g : At(lists, t, i, g) /\ g # lists[s][p] => \E j : At(lists2, t, j, g)
<1> DEFINE l == lists[s]
           h == l[p]
<1>1. /\ l \in Seq(Handlers) /\ Len(l) \in Nat /\ DOMAIN l = 1 .. Len(l) /\ At(lists, s, p, h)
  BY DEF At
<1>2. /\ lists2 \in [Sessions -> Seq(Handlers)] /\ lists2[s] = l2
      /\ \A t \in Sessions \ {s} : lists2[t] = lists[t]
      /\ DOMAIN l2 = 1 .. Len(l) - 1
  BY DEF Closes
<1>3. ASSUME NEW t, NEW i, NEW g, At(lists2, t, i, g)
      PROVE  At(lists, t, IF t = s /\ ~ (i < p) THEN i + 1 ELSE i, g) /\ g # h
  <2>1. CASE t = s
    <3> DEFINE k == IF i < p THEN i ELSE i + 1
    <3>1. i \in 1 .. Len(l) - 1 /\ l2[i] = g
      BY <1>2, <1>3, <2>1 DEF At
    <3>2. k \in 1 .. Len(l) /\ k # p /\ l[k] = g
      BY <1>1, <3>1 DEF Closes
    <3> HIDE DEF k, h
    <3>3. At(lists, s, k, g)
      BY <1>1, <3>2 DEF At
    <3>4. g # h
      BY <1>1, <3>2, <3>3 DEF Placed
    <3> QED BY <2>1, <3>3, <3>4 DEF k
  <2>2. CASE t # s
    <3>1. At(lists, t, i, g)
      BY <1>2, <1>3, <2>2 DEF At
    <3> HIDE DEF h
    <3>2. g # h
      BY <1>1, <2>2, <3>1 DEF Placed
    <3> QED BY <2>2, <3>1, <3>2
  <2> QED BY <2>1, <2>2
<1>4. ASSUME NEW t, NEW i, NEW g, At(lists, t, i, g), g # h
      PROVE  \E j : At(lists2, t, j, g)
  <2>1. CASE t = s
    <3>1. i \in 1 .. Len(l) /\ l[i] = g /\ i # p
      BY <1>1, <1>4, <2>1 DEF At
    <3> DEFINE j == IF i < p THEN i ELSE i - 1
    <3>2. j \in 1 .. Len(l) - 1 /\ (IF j < p THEN j ELSE j + 1) = i
      BY <1>1, <3>1
    <3>3. l2[j] = g
      <4> HIDE DEF j
      <4> QED BY <3>1, <3>2 DEF Closes
    <3>4. At(lists2, s, j, g)
      <4> HIDE DEF j
      <4> QED BY <1>2, <3>2, <3>3 DEF At
    <3> QED BY <2>1, <3>4
  <2>2. CASE t # s
    <3>1. At(lists2, t, i, g)
      BY <1>2, <1>4, <2>2 DEF At
    <3> QED BY <3>1
  <2> QED BY <2>1, <2>2
<1> QED BY <1>2, <1>3, <1>4

-----------------------------------------------------------------------------
(* What is placed and held after a handler has changed.                    *)

\* A handler that ended leaves the lists, if they lose any, and holds nothing.
LEMMA EndedHolds ==
  ASSUME NEW hd \in [Handlers -> HandlerRecord], NEW ms \in [Messages -> {"free", "outstanding"}],
         NEW lists, Holding(lists, hd, ms), NEW h \in Handlers,
         NEW hd2, NEW ms2, Ended(hd, ms, h, hd2, ms2),
         NEW lists2, \A s, i, g : At(lists, s, i, g) /\ g # h => \E t, j : At(lists2, t, j, g)
  PROVE  Holding(lists2, hd2, ms2) /\ ms2 \in [Messages -> {"free", "outstanding"}]
<1>1. /\ hd[h].active => hd[h].iMessage \in Messages
      /\ \A g \in Handlers \ {h} : hd2[g].active = hd[g].active /\ hd2[g].iMessage = hd[g].iMessage
      /\ ~ hd2[h].active
  BY DEF Holding, Ended
<1>2. ms2 \in [Messages -> {"free", "outstanding"}]
  BY <1>1 DEF Ended
<1>3. ASSUME NEW m \in Messages
      PROVE  ms2[m] = IF hd[h].active /\ hd[h].iMessage = m THEN "free" ELSE ms[m]
  BY <1>1 DEF Ended
<1>4. ASSUME NEW g \in Handlers, hd2[g].active
      PROVE  /\ hd2[g].iMessage \in Messages /\ ms2[hd2[g].iMessage] = "outstanding"
             /\ \E s, i : At(lists2, s, i, g)
  <2>1. g # h /\ hd[g].active /\ hd2[g].iMessage = hd[g].iMessage
    BY <1>1, <1>4
  <2>2. hd[g].iMessage \in Messages /\ ms[hd[g].iMessage] = "outstanding"
    BY <2>1 DEF Holding
  <2>3. ~ (hd[h].active /\ hd[h].iMessage = hd[g].iMessage)
    BY <2>1 DEF Holding
  <2>4. \E s, i : At(lists, s, i, g)
    BY <2>1 DEF Holding
  <2>5. \E s, i : At(lists2, s, i, g)
    BY <2>1, <2>4
  <2> QED BY <1>3, <2>1, <2>2, <2>3, <2>5
<1>5. ASSUME NEW m \in Messages, ms2[m] = "outstanding"
      PROVE  \E g \in Handlers : hd2[g].active /\ hd2[g].iMessage = m
  <2>1. ms[m] = "outstanding" /\ ~ (hd[h].active /\ hd[h].iMessage = m)
    BY <1>3, <1>5
  <2>2. PICK g \in Handlers : hd[g].active /\ hd[g].iMessage = m
    BY <2>1 DEF Holding
  <2> QED BY <1>1, <2>1, <2>2
<1>6. ASSUME NEW f \in Handlers, NEW g \in Handlers,
             hd2[f].active, hd2[g].active, hd2[f].iMessage = hd2[g].iMessage
      PROVE  f = g
  <2>1. /\ f # h /\ g # h /\ hd[f].active /\ hd[g].active
        /\ hd[f].iMessage = hd[g].iMessage
    BY <1>1, <1>6
  <2> QED BY <2>1 DEF Holding
<1> QED BY <1>2, <1>4, <1>5, <1>6 DEF Holding

\* The lists, handlers and messages are as they should be.
Settled(lists, hd, ms, sessions) ==
  /\ lists \in [Sessions -> Seq(Handlers)] /\ hd \in [Handlers -> HandlerRecord]
  /\ ms \in [Messages -> {"free", "outstanding"}]
  /\ Placed(lists, hd, sessions) /\ Holding(lists, hd, ms)

LEMMA HandlerLeaves ==
  ASSUME NEW lists \in [Sessions -> Seq(Handlers)], NEW hd \in [Handlers -> HandlerRecord],
         NEW ms \in [Messages -> {"free", "outstanding"}], NEW sessions,
         Settled(lists, hd, ms, sessions),
         NEW s \in Sessions, NEW p \in 1 .. Len(lists[s]), NEW l2, Closes(lists[s], p, l2),
         NEW hd2, NEW ms2, Ended(hd, ms, lists[s][p], hd2, ms2),
         NEW lists2, lists2 = [lists EXCEPT ![s] = l2]
  PROVE  Settled(lists2, hd2, ms2, sessions)
<1> DEFINE h == lists[s][p]
           Was(t, i) == IF t = s /\ ~ (i < p) THEN i + 1 ELSE i
<1>1. h \in Handlers
  BY DOMAIN lists[s] = 1 .. Len(lists[s])
<1>2. /\ lists2 \in [Sessions -> Seq(Handlers)]
      /\ \A t, i, g : At(lists2, t, i, g) => At(lists, t, Was(t, i), g) /\ g # h
      /\ \A t, i, g : At(lists, t, i, g) /\ g # h => \E j : At(lists2, t, j, g)
  BY TakenOut DEF Settled
<1> HIDE DEF h
<1>3. Ended(hd, ms, h, hd2, ms2)
  BY DEF h
<1>4. Holding(lists2, hd2, ms2) /\ ms2 \in [Messages -> {"free", "outstanding"}]
  <2>1. \A t, i, g : At(lists, t, i, g) /\ g # h => \E u, j : At(lists2, u, j, g)
    BY <1>2
  <2> QED BY <1>1, <1>3, <2>1, EndedHolds DEF Settled
<1>5. ASSUME NEW t, NEW i, NEW g, At(lists2, t, i, g)
      PROVE  t \in sessions /\ hd2[g].used
  <2>1. At(lists, t, Was(t, i), g) /\ g # h /\ g \in Handlers
    <3>1. g \in Handlers
      BY <1>2, <1>5 DEF At
    <3> QED BY <1>2, <1>5, <3>1
  <2> HIDE DEF Was
  <2>2. t \in sessions /\ hd[g].used
    BY <2>1 DEF Placed, Settled
  <2> QED BY <1>3, <2>1, <2>2 DEF Ended
<1>6. ASSUME NEW t, NEW u, NEW i, NEW j, NEW g, At(lists2, t, i, g), At(lists2, u, j, g)
      PROVE  t = u /\ i = j
  <2>1. At(lists, t, Was(t, i), g) /\ At(lists, u, Was(u, j), g)
    BY <1>2, <1>6
  <2>2. t = u /\ Was(t, i) = Was(u, j)
    <3> HIDE DEF Was
    <3>1. \A t1, t2, i1, i2, g1 : At(lists, t1, i1, g1) /\ At(lists, t2, i2, g1) => t1 = t2 /\ i1 = i2
      BY DEF Placed, Settled
    <3> QED BY <2>1, <3>1, Zenon
  <2>3. i \in Int /\ j \in Int
    <3>1. t \in Sessions /\ u \in Sessions /\ i \in DOMAIN lists2[t] /\ j \in DOMAIN lists2[u]
      BY <1>6 DEF At
    <3>2. lists2[t] \in Seq(Handlers) /\ lists2[u] \in Seq(Handlers)
      BY <1>2, <3>1
    <3> QED BY <3>1, <3>2
  <2> QED BY <2>2, <2>3
<1>7. Placed(lists2, hd2, sessions)
  BY <1>5, <1>6, Zenon DEF Placed
<1>8. hd2 \in [Handlers -> HandlerRecord]
  BY <1>3 DEF Ended
<1> QED BY <1>2, <1>4, <1>7, <1>8 DEF Settled

\* Handlers may be answered at any time.
LEMMA AnswersKeep ==
  ASSUME NEW hd, NEW hd2, Answers(hd, hd2), NEW ms, NEW sessions,
         NEW lists \in [Sessions -> Seq(Handlers)],
         Placed(lists, hd, sessions), Holding(lists, hd, ms)
  PROVE  Placed(lists, hd2, sessions) /\ Holding(lists, hd2, ms)
<1>1. \A g \in Handlers : hd2[g].active = hd[g].active /\ hd2[g].iMessage = hd[g].iMessage
                          /\ hd2[g].used = hd[g].used
  BY DEF Answers
<1>2. Holding(lists, hd2, ms)
  BY <1>1 DEF Holding
<1>3. \A s, i, g : At(lists, s, i, g) => g \in Handlers
  BY DEF At
<1>4. Placed(lists, hd2, sessions)
  BY <1>1, <1>3 DEF Placed
<1> QED BY <1>2, <1>4

LEMMA HoldersHoldOne ==
  ASSUME NEW lists, NEW hd, NEW ms, Holding(lists, hd, ms), NEW h \in Handlers
  PROVE  HoldsOne(hd, ms, h)
BY DEF Holding, HoldsOne

\* The least element of a set of natural numbers is in it.
LEMMA MinOfNaturals ==
  ASSUME NEW S \in SUBSET Nat, S # {}
  PROVE  Min(S) \in S
<1>1. PICK x \in S : \A y \in S : ~ (<<y, x>> \in OpToRel(<, Nat))
  BY NatLessThanWellFounded, WFMin
<1>2. \A y \in S : ~ (y < x)
  BY <1>1 DEF OpToRel
<1>3. \A y \in S : x <= y
  BY <1>2
<1> QED BY <1>3 DEF Min

\* The position of a handler in the list of its session.
LEMMA HandlerForIsPlace ==
  ASSUME iAsyncHandlers \in [Sessions -> Seq(Handlers)], NEW s \in Sessions, NEW name,
         HandlerFor(s, name) # 0
  PROVE  /\ HandlerFor(s, name) \in 1 .. Len(iAsyncHandlers[s])
         /\ iAsyncHandlers[s][HandlerFor(s, name)] \in Handlers
         /\ handler[iAsyncHandlers[s][HandlerFor(s, name)]].iProcessName = name
<1> DEFINE l == iAsyncHandlers[s]
           I == {i \in 1 .. Len(l) : handler[l[i]].iProcessName = name}
<1>1. HandlerFor(s, name) = IF I # {} THEN Min(I) ELSE 0
  BY DEF HandlerFor, SelectInSeq
<1>2. l \in Seq(Handlers) /\ Len(l) \in Nat /\ DOMAIN l = 1 .. Len(l)
  OBVIOUS
<1>3. I # {} /\ I \subseteq Nat
  BY <1>1, <1>2
<1>4. Min(I) \in I
  <2> HIDE DEF I
  <2> QED BY <1>3, MinOfNaturals
<1> HIDE DEF l
<1>5. HandlerFor(s, name) \in I
  BY <1>1, <1>3, <1>4
<1> QED BY <1>2, <1>5 DEF l

-----------------------------------------------------------------------------
(* The steps.                                                              *)

LEMMA HereIsState == Here = St(server, handler, message, tracker)
BY DEF Here, St

LEMMA Becomes ==
  ASSUME NEW sv, NEW hd, NEW ms, NEW tr, Become(St(sv, hd, ms, tr))
  PROVE  server' = sv /\ handler' = hd /\ message' = ms /\ tracker' = tr
BY DEF Become, St

\* A blocked server needs nothing more.
LEMMA BlockedIsFine ==
  ASSUME server' \in {"blocked", "faulted"}
  PROVE  Inv'
BY DEF Inv

LEMMA OpenIsFinite ==
  ASSUME NEW S \in SUBSET Sessions
  PROVE  IsFiniteSet(S) /\ Cardinality(S) \in Nat /\ (Cardinality(S) = 0 <=> S = {})
<1>1. IsFiniteSet(S)
  BY SessionAssumption, FS_Subset
<1> QED BY <1>1, FS_CardinalityType, FS_EmptySet

LEMMA InitIsSound ==
  ASSUME Init
  PROVE  Inv
<1>1. Types
  <2>1. <<>> \in Seq(Handlers)
    OBVIOUS
  <2> QED BY <2>1, FreeIsRecord DEF Init, Types
<1>2. \A s, i, h : ~ At(iAsyncHandlers, s, i, h)
  BY DEF Init, At
<1>3. Placed(iAsyncHandlers, handler, open)
  BY <1>2 DEF Placed
<1>4. \A h \in Handlers : ~ handler[h].active
  BY FreeIsRecord DEF Init
<1>5. \A m \in Messages : message[m] # "outstanding"
  BY DEF Init
<1>6. Holding(iAsyncHandlers, handler, message)
  BY <1>4, <1>5 DEF Holding
<1>7. Counted
  BY FS_EmptySet DEF Init, Counted
<1>8. server = "running"
  BY DEF Init
<1> QED BY <1>1, <1>3, <1>6, <1>7, <1>8 DEF Inv, Sound

\* One lemma for each action: what it leaves behind is sound.
LEMMA OpenSessionIsSound ==
  ASSUME Inv, NEW s \in Sessions, OpenSession(s)
  PROVE  Inv'
<1>1. Sound /\ server = "running"
  BY DEF Inv, OpenSession, Ready
<1>2. /\ open' = open \cup {s} /\ s \notin open /\ iSessionCount' = iSessionCount + 1
      /\ iShutdown' = "idle" /\ server' = server
      /\ closing' = closing /\ iAsyncHandlers' = iAsyncHandlers
      /\ handler' = handler /\ message' = message
  BY DEF OpenSession
<1>3. Types'
  BY <1>1, <1>2 DEF Types, Sound
<1>4. Placed(iAsyncHandlers, handler, open)'
  BY <1>1, <1>2 DEF Placed, Sound
<1>5. Holding(iAsyncHandlers, handler, message)'
  BY <1>1, <1>2 DEF Sound
<1>6. Counted'
  <2>1. IsFiniteSet(open)
    BY <1>1, OpenIsFinite DEF Sound, Types
  <2>2. Cardinality(open \cup {s}) = Cardinality(open) + 1
    BY <1>2, <2>1, FS_AddElement
  <2> QED BY <1>1, <1>2, <2>2 DEF Counted, Sound
<1> QED BY <1>1, <1>2, <1>3, <1>4, <1>5, <1>6 DEF Inv, Sound

LEMMA SoundIsSettled ==
  ASSUME Sound
  PROVE  Settled(iAsyncHandlers, handler, message, open)
BY DEF Sound, Types, Settled

LEMMA DestroyHere ==
  ASSUME Sound, server = "running", NEW h \in Handlers
  PROVE  Outcome(Destroy(Here, h), handler, message, h)
<1>1. Here = St("running", handler, message, tracker)
  BY HereIsState
<1>2. /\ handler \in [Handlers -> HandlerRecord]
      /\ message \in [Messages -> {"free", "outstanding"}]
      /\ Holding(iAsyncHandlers, handler, message)
  BY DEF Sound, Types
<1>3. HoldsOne(handler, message, h)
  BY <1>2, HoldersHoldOne
<1>4. Outcome(Destroy(St("running", handler, message, tracker), h), handler, message, h)
  BY <1>2, <1>3, DestroyEnds
<1> QED BY <1>1, <1>4

\* What changed is settled, the sessions are not touched.
LEMMA SettledIsSound ==
  ASSUME Sound, Settled(iAsyncHandlers', handler', message', open),
         closing' \subseteq open, server' = "running", server = "running",
         UNCHANGED <<open, iSessionCount, iShutdown>>
  PROVE  Inv'
<1>1. Types'
  BY DEF Sound, Types, Settled
<1>2. Placed(iAsyncHandlers, handler, open)' /\ Holding(iAsyncHandlers, handler, message)'
  BY DEF Settled
<1>3. Counted'
  BY DEF Sound, Counted
<1> QED BY <1>1, <1>2, <1>3 DEF Inv, Sound

LEMMA DestroyHandlerIsSound ==
  ASSUME Inv, NEW s \in Sessions, DestroyHandler(s)
  PROVE  Inv'
<1> DEFINE l == iAsyncHandlers[s]
           h == Head(l)
           lists2 == [iAsyncHandlers EXCEPT ![s] = Tail(l)]
<1>1. Sound /\ server = "running"
  BY DEF Inv, DestroyHandler
<1>2. /\ l # <<>> /\ s \in open /\ Become(Destroy(Here, h)) /\ closing' = {s}
      /\ UNCHANGED <<open, iSessionCount, iShutdown>>
      /\ iAsyncHandlers' = IF Destroy(Here, h).server = "running" THEN lists2 ELSE iAsyncHandlers
  BY DEF DestroyHandler
<1>3. iAsyncHandlers \in [Sessions -> Seq(Handlers)] /\ l \in Seq(Handlers)
  BY <1>1 DEF Sound, Types
<1>4. Closes(l, 1, Tail(l)) /\ 1 \in 1 .. Len(l) /\ h = l[1]
  BY <1>2, <1>3, TailCloses
<1>5. h \in Handlers
  BY <1>3, <1>4
<1> HIDE DEF h
<1>6. PICK sv2, hd2, ms2, tr2 :
        /\ sv2 \in {"running", "blocked"}
        /\ Destroy(Here, h) = St(sv2, hd2, ms2, tr2)
        /\ sv2 = "running" => Ended(handler, message, h, hd2, ms2)
  BY <1>1, <1>5, DestroyHere DEF Outcome
<1>7. server' = sv2 /\ handler' = hd2 /\ message' = ms2
  BY <1>2, <1>6, Becomes
<1>8. CASE sv2 = "blocked"
  BY <1>7, <1>8, BlockedIsFine
<1>9. CASE sv2 = "running"
  <2>1. iAsyncHandlers' = lists2
    BY <1>2, <1>6, <1>9 DEF St
  <2>2. Ended(handler, message, l[1], hd2, ms2)
    BY <1>4, <1>6, <1>9
  <2>3. Settled(iAsyncHandlers, handler, message, open)
    BY <1>1, SoundIsSettled
  <2> HIDE DEF lists2
  <2>4. Settled(lists2, hd2, ms2, open)
    <3>1. lists2 = [iAsyncHandlers EXCEPT ![s] = Tail(iAsyncHandlers[s])]
      BY DEF lists2
    <3>2. handler \in [Handlers -> HandlerRecord] /\ message \in [Messages -> {"free", "outstanding"}]
      BY <2>3 DEF Settled
    <3> QED BY <1>3, <1>4, <2>2, <2>3, <3>1, <3>2, HandlerLeaves
  <2>5. Settled(iAsyncHandlers', handler', message', open)
    BY <1>7, <2>1, <2>4
  <2>6. closing' \subseteq open /\ server' = "running"
    BY <1>2, <1>7, <1>9
  <2> QED BY <1>1, <1>2, <2>5, <2>6, SettledIsSound
<1> QED BY <1>6, <1>8, <1>9

LEMMA CloseSessionIsSound ==
  ASSUME Inv, NEW s \in Sessions, CloseSession(s)
  PROVE  Inv'
<1>1. Sound /\ server = "running"
  BY DEF Inv, CloseSession
<1>2. /\ s \in open /\ iAsyncHandlers[s] = <<>> /\ iAsyncHandlers' = iAsyncHandlers
      /\ handler' = handler /\ message' = message
  BY DEF CloseSession
<1>3. CASE server' = "faulted"
  BY <1>3, BlockedIsFine
<1>4. CASE open' = open \ {s} /\ closing' = {} /\ SessionClosed("running")
  <2>1. /\ open \subseteq Sessions /\ iSessionCount = Cardinality(open) /\ iShutdown = "idle"
    BY <1>1, <1>2 DEF Sound, Types, Counted
  <2>2. Cardinality(open') = Cardinality(open) - 1
    BY <1>2, <1>4, <2>1, OpenIsFinite, FS_RemoveElement
  <2>3. Cardinality(open') \in Nat /\ (Cardinality(open') = 0 <=> open' = {})
    BY <1>4, <2>1, OpenIsFinite
  <2>4. /\ iSessionCount' = Cardinality(open') /\ server' = "running"
        /\ iShutdown' = IF Cardinality(open') < 1 THEN "running" ELSE "idle"
    BY <1>4, <2>1, <2>2 DEF SessionClosed
  <2>5. Counted'
    BY <2>3, <2>4 DEF Counted
  <2>6. Types'
    BY <1>1, <1>2, <1>4 DEF Sound, Types
  <2>7. Placed(iAsyncHandlers, handler, open)'
    <3>1. Placed(iAsyncHandlers, handler, open)
      BY <1>1 DEF Sound
    <3>2. \A i, h : ~ At(iAsyncHandlers, s, i, h)
      BY <1>2 DEF At
    <3>3. \A t, i, h : At(iAsyncHandlers, t, i, h) => t \in open'
      BY <1>4, <3>1, <3>2 DEF Placed
    <3> QED BY <1>2, <3>1, <3>3 DEF Placed
  <2>8. Holding(iAsyncHandlers, handler, message)'
    BY <1>1, <1>2 DEF Sound
  <2> QED BY <2>4, <2>5, <2>6, <2>7, <2>8 DEF Inv, Sound
<1> QED BY <1>3, <1>4 DEF CloseSession

\* Handler h came to the front of the list of s.
PutFirst(lists, s, h, lists2) ==
  /\ lists2 \in [Sessions -> Seq(Handlers)] /\ At(lists2, s, 1, h)
  /\ \A t, i, g : At(lists2, t, i, g) =>
       \/ t = s /\ i = 1 /\ g = h
       \/ g # h /\ At(lists, t, IF t = s THEN i - 1 ELSE i, g) /\ i \in Int
  /\ \A t, i, g : At(lists, t, i, g) => \E j : At(lists2, t, j, g)

LEMMA FirstPlace ==
  ASSUME NEW lists \in [Sessions -> Seq(Handlers)], NEW s \in Sessions, NEW h \in Handlers,
         \A u, i : ~ At(lists, u, i, h), NEW lists2, lists2 = [lists EXCEPT ![s] = <<h>> \o @]
  PROVE  PutFirst(lists, s, h, lists2)
<1> DEFINE l == lists[s]
           l2 == <<h>> \o l
<1>1. l \in Seq(Handlers) /\ Len(l) \in Nat
  OBVIOUS
<1>2. /\ l2 \in Seq(Handlers) /\ Len(l2) = Len(l) + 1 /\ l2[1] = h
      /\ \A i \in 1 .. Len(l) : l2[i + 1] = l[i]
      /\ \A i \in 2 .. Len(l) + 1 : l2[i] = l[i - 1]
  <2>1. <<h>> \in Seq(Handlers) /\ Len(<<h>>) = 1 /\ <<h>>[1] = h
    OBVIOUS
  <2> HIDE DEF l
  <2>2. /\ l2 \in Seq(Handlers) /\ Len(l2) = 1 + Len(l)
        /\ \A i \in 1 .. 1 + Len(l) : l2[i] = IF i <= 1 THEN <<h>>[i] ELSE l[i - 1]
    BY <1>1, <2>1, ConcatProperties
  <2> HIDE DEF l2
  <2> QED BY <1>1, <2>1, <2>2
<1>3. lists2 = [lists EXCEPT ![s] = l2]
  OBVIOUS
<1> HIDE DEF l2
<1>4. /\ lists2 \in [Sessions -> Seq(Handlers)] /\ lists2[s] = l2
      /\ \A t \in Sessions \ {s} : lists2[t] = lists[t]
  BY <1>2, <1>3
<1>5. ASSUME NEW t, NEW i, NEW g, At(lists2, t, i, g)
      PROVE  \/ t = s /\ i = 1 /\ g = h
             \/ g # h /\ At(lists, t, IF t = s THEN i - 1 ELSE i, g) /\ i \in Int
  <2>1. CASE t = s
    <3>1. i \in 1 .. Len(l) + 1 /\ l2[i] = g
      BY <1>2, <1>4, <1>5, <2>1 DEF At
    <3>2. CASE i = 1
      BY <1>2, <2>1, <3>1, <3>2
    <3>3. CASE i # 1
      <4>1. i - 1 \in 1 .. Len(l) /\ l[i - 1] = g
        BY <1>1, <1>2, <3>1, <3>3
      <4>2. At(lists, t, i - 1, g)
        BY <1>1, <2>1, <4>1 DEF At
      <4> QED BY <2>1, <3>1, <4>2
    <3> QED BY <3>2, <3>3
  <2>2. CASE t # s
    <3>1. At(lists, t, i, g)
      BY <1>4, <1>5, <2>2 DEF At
    <3>2. i \in Int
      BY <3>1 DEF At
    <3> QED BY <2>2, <3>1, <3>2
  <2> QED BY <2>1, <2>2
<1>6. ASSUME NEW t, NEW i, NEW g, At(lists, t, i, g)
      PROVE  \E j : At(lists2, t, j, g)
  <2>1. CASE t = s
    <3>1. i \in 1 .. Len(l) /\ l[i] = g
      BY <1>1, <1>6, <2>1 DEF At
    <3>2. At(lists2, t, i + 1, g)
      BY <1>1, <1>2, <1>4, <2>1, <3>1 DEF At
    <3> QED BY <3>2
  <2>2. CASE t # s
    BY <1>4, <1>6, <2>2 DEF At
  <2> QED BY <2>1, <2>2
<1>7. At(lists2, s, 1, h)
  BY <1>1, <1>2, <1>4 DEF At
<1> QED BY <1>4, <1>5, <1>6, <1>7 DEF PutFirst

LEMMA AttachIsSound ==
  ASSUME Inv, NEW s \in Sessions, NEW name \in Names, NEW passive \in BOOLEAN,
         NEW failure \in Failures, Attach(s, name, passive, failure)
  PROVE  Inv'
<1> DEFINE h == CHOOSE h \in Handlers : ~ handler[h].used
<1>1. Sound /\ server = "running" /\ server' = "running"
  BY DEF Inv, Attach, Ready
<1>2. /\ s \in open /\ UNCHANGED <<open, iSessionCount, iShutdown>> /\ closing' = closing
      /\ message' = message
      /\ \E g \in Handlers : ~ handler[g].used
      /\ (UNCHANGED <<handler, iAsyncHandlers>>) \/ InsertHandler(s, name, h)
  BY DEF Attach
<1>3. closing \subseteq open /\ Settled(iAsyncHandlers, handler, message, open)
  BY <1>1, SoundIsSettled DEF Sound, Types
<1>4. CASE UNCHANGED <<handler, iAsyncHandlers>>
  BY <1>1, <1>2, <1>3, <1>4, SettledIsSound
<1>5. CASE InsertHandler(s, name, h)
  <2> DEFINE rec == [FreeHandler EXCEPT !.iProcessName = name, !.iAgentId = AgentOf[s], !.used = TRUE]
             hd2 == [handler EXCEPT ![h] = rec]
             lists2 == [iAsyncHandlers EXCEPT ![s] = <<h>> \o @]
  <2>1. h \in Handlers /\ ~ handler[h].used
    BY <1>2
  <2> HIDE DEF h
  <2>2. handler' = hd2 /\ iAsyncHandlers' = lists2
    BY <1>5 DEF InsertHandler
  <2>3. rec \in HandlerRecord /\ rec.used /\ ~ rec.active
    BY FreeIsRecord DEF HandlerRecord, AgentIds
  <2> HIDE DEF rec
  <2>4. /\ hd2 \in [Handlers -> HandlerRecord] /\ hd2[h] = rec
        /\ \A g \in Handlers \ {h} : hd2[g] = handler[g]
    BY <1>3, <2>1, <2>3 DEF Settled
  <2> HIDE DEF hd2
  <2>5. iAsyncHandlers \in [Sessions -> Seq(Handlers)]
    BY <1>3 DEF Settled
  <2>6. \A u, i : ~ At(iAsyncHandlers, u, i, h)
    BY <1>3, <2>1 DEF Settled, Placed
  <2>7. PutFirst(iAsyncHandlers, s, h, lists2)
    <3>1. lists2 = [iAsyncHandlers EXCEPT ![s] = <<h>> \o @]
      OBVIOUS
    <3> HIDE DEF lists2
    <3> QED BY <2>1, <2>5, <2>6, <3>1, FirstPlace
  <2> HIDE DEF lists2
  <2>8. ASSUME NEW t, NEW i, NEW g, At(lists2, t, i, g)
        PROVE  \/ t = s /\ i = 1 /\ g = h
               \/ g # h /\ At(iAsyncHandlers, t, IF t = s THEN i - 1 ELSE i, g) /\ i \in Int
    BY <2>7, <2>8 DEF PutFirst
  <2>9. /\ lists2 \in [Sessions -> Seq(Handlers)]
        /\ \A t, i, g : At(iAsyncHandlers, t, i, g) => \E j : At(lists2, t, j, g)
    BY <2>7 DEF PutFirst
  <2>10. Placed(lists2, hd2, open)
    <3>1. \A t, u, i, j, g : At(iAsyncHandlers, t, i, g) /\ At(iAsyncHandlers, u, j, g) => t = u /\ i = j
      BY <1>3 DEF Settled, Placed
    <3>2. ASSUME NEW t, NEW i, NEW g, At(lists2, t, i, g)
          PROVE  t \in open /\ hd2[g].used
      <4>1. CASE g = h
        BY <1>2, <2>3, <2>4, <2>8, <3>2, <4>1
      <4>2. CASE g # h
        <5>1. PICK j : At(iAsyncHandlers, t, j, g)
          BY <2>8, <3>2, <4>2
        <5>2. t \in open /\ handler[g].used
          BY <1>3, <5>1 DEF Settled, Placed
        <5>3. g \in Handlers
          BY <2>9, <3>2 DEF At
        <5> QED BY <2>4, <4>2, <5>2, <5>3
      <4> QED BY <4>1, <4>2
    <3>3. ASSUME NEW t, NEW u, NEW i, NEW j, NEW g, At(lists2, t, i, g), At(lists2, u, j, g)
          PROVE  t = u /\ i = j
      <4>1. CASE g = h
        BY <2>8, <3>3, <4>1
      <4>2. CASE g # h
        <5> DEFINE k1 == IF t = s THEN i - 1 ELSE i
                   k2 == IF u = s THEN j - 1 ELSE j
        <5>1. /\ At(iAsyncHandlers, t, k1, g) /\ i \in Int
              /\ At(iAsyncHandlers, u, k2, g) /\ j \in Int
          BY <2>8, <3>3, <4>2
        <5>2. t = u /\ k1 = k2
          <6> HIDE DEF k1, k2
          <6> QED BY <3>1, <5>1, Zenon
        <5> QED BY <5>1, <5>2
      <4> QED BY <4>1, <4>2
    <3> QED BY <3>2, <3>3 DEF Placed
  <2>11. Holding(lists2, hd2, message)
    <3>1. Holding(iAsyncHandlers, handler, message)
      BY <1>3 DEF Settled
    <3>2. ~ handler[h].active
      <4>1. \A t, i : ~ At(iAsyncHandlers, t, i, h)
        BY <1>3, <2>1 DEF Settled, Placed
      <4> QED BY <2>1, <3>1, <4>1 DEF Holding
    <3>3. Ended(handler, message, h, hd2, message)
      BY <2>3, <2>4, <3>2 DEF Ended
    <3>4. \A t, i, g : At(iAsyncHandlers, t, i, g) /\ g # h => \E u, j : At(lists2, u, j, g)
      BY <2>9
    <3> QED BY <1>3, <2>1, <3>1, <3>3, <3>4, EndedHolds DEF Settled
  <2>12. Settled(lists2, hd2, message, open)
    BY <1>3, <2>4, <2>9, <2>10, <2>11 DEF Settled
  <2>13. Settled(iAsyncHandlers', handler', message', open)
    BY <1>2, <2>2, <2>12
  <2> QED BY <1>1, <1>2, <1>3, <2>13, SettledIsSound
<1> QED BY <1>2, <1>4, <1>5

LEMMA DetachIsSound ==
  ASSUME Inv, NEW s \in Sessions, NEW name \in Names, Detach(s, name)
  PROVE  Inv'
<1> DEFINE pos == HandlerFor(s, name)
           l == iAsyncHandlers[s]
           h == l[pos]
           st == IF pos = 0 THEN Here ELSE Destroy(Here, h)
           left == DetachProcess(st.tracker, name, AgentOf[s])
           lists2 == [iAsyncHandlers EXCEPT ![s] = RemoveAt(l, pos)]
<1>1. Sound /\ server = "running"
  BY DEF Inv, Detach, Ready
<1>2. /\ s \in open /\ UNCHANGED <<open, iSessionCount, iShutdown>> /\ closing' = closing
      /\ \/ /\ st.server # "running" \/ pos = 0
            /\ Become(st)
            /\ UNCHANGED iAsyncHandlers
         \/ /\ st.server = "running"
            /\ Become([st EXCEPT !.tracker = left.tracker])
            /\ iAsyncHandlers' = [iAsyncHandlers EXCEPT ![s] =
                                    IF pos = 0 THEN l ELSE RemoveAt(l, pos)]
  BY DEF Detach
<1>3. closing \subseteq open /\ Settled(iAsyncHandlers, handler, message, open)
      /\ iAsyncHandlers \in [Sessions -> Seq(Handlers)] /\ l \in Seq(Handlers)
  BY <1>1, SoundIsSettled DEF Sound, Types
<1>4. PICK tr : \/ Become(st) /\ (st.server # "running" \/ pos = 0) /\ UNCHANGED iAsyncHandlers
                \/ /\ Become([st EXCEPT !.tracker = tr]) /\ st.server = "running"
                   /\ iAsyncHandlers' = [iAsyncHandlers EXCEPT ![s] =
                                    IF pos = 0 THEN l ELSE RemoveAt(l, pos)]
  <2> HIDE DEF st
  <2> QED BY <1>2
<1> HIDE DEF pos, left
<1>5. CASE pos = 0
  <2>1. st = St("running", handler, message, tracker)
    BY <1>1, <1>5, HereIsState
  <2>2. server' = "running" /\ handler' = handler /\ message' = message
    <3> HIDE DEF st
    <3> QED BY <1>4, <2>1 DEF Become, St
  <2>3. iAsyncHandlers' = iAsyncHandlers
    BY <1>3, <1>4, <1>5
  <2> QED BY <1>1, <1>2, <1>3, <2>2, <2>3, SettledIsSound
<1>6. CASE pos # 0
  <2>1. pos \in 1 .. Len(l) /\ h \in Handlers
    BY <1>3, <1>6, HandlerForIsPlace DEF pos
  <2>2. Closes(l, pos, RemoveAt(l, pos))
    BY <1>3, <2>1, RemoveCloses
  <2> HIDE DEF h
  <2>3. PICK sv2, hd2, ms2, tr2 :
          /\ sv2 \in {"running", "blocked"}
          /\ Destroy(Here, h) = St(sv2, hd2, ms2, tr2)
          /\ sv2 = "running" => Ended(handler, message, h, hd2, ms2)
    BY <1>1, <2>1, DestroyHere DEF Outcome
  <2>4. st = St(sv2, hd2, ms2, tr2)
    BY <1>6, <2>3
  <2> HIDE DEF st
  <2>5. /\ server' = sv2 /\ handler' = hd2 /\ message' = ms2
        /\ sv2 = "running" => iAsyncHandlers' = [iAsyncHandlers EXCEPT ![s] = RemoveAt(l, pos)]
    BY <1>4, <1>6, <2>4 DEF Become, St
  <2>6. CASE sv2 = "blocked"
    BY <2>5, <2>6, BlockedIsFine
  <2>7. CASE sv2 = "running"
    <3>1. Ended(handler, message, l[pos], hd2, ms2)
      BY <2>3, <2>7 DEF h
    <3>2. lists2 = [iAsyncHandlers EXCEPT ![s] = RemoveAt(l, pos)]
      OBVIOUS
    <3> HIDE DEF lists2
    <3>3. handler \in [Handlers -> HandlerRecord] /\ message \in [Messages -> {"free", "outstanding"}]
      BY <1>3 DEF Settled
    <3>4. Settled(lists2, hd2, ms2, open)
      BY <1>3, <2>1, <2>2, <3>1, <3>2, <3>3, HandlerLeaves
    <3>5. Settled(iAsyncHandlers', handler', message', open)
      BY <2>5, <2>7, <3>2, <3>4
    <3>6. closing' \subseteq open /\ server' = "running"
      BY <1>2, <1>3, <2>5, <2>7
    <3>7. UNCHANGED <<open, iSessionCount, iShutdown>>
      BY <1>2
    <3> QED BY <1>1, <3>5, <3>6, <3>7, SettledIsSound
  <2> QED BY <2>3, <2>6, <2>7
<1> QED BY <1>5, <1>6

\* A handler ended and stays in its list.
LEMMA EndedIsSettled ==
  ASSUME NEW lists, NEW hd, NEW ms, NEW sessions, Settled(lists, hd, ms, sessions),
         NEW h \in Handlers, NEW hd2, NEW ms2, Ended(hd, ms, h, hd2, ms2), hd2[h].used = hd[h].used
  PROVE  Settled(lists, hd2, ms2, sessions)
<1>1. /\ lists \in [Sessions -> Seq(Handlers)] /\ hd \in [Handlers -> HandlerRecord]
      /\ ms \in [Messages -> {"free", "outstanding"}]
      /\ Placed(lists, hd, sessions) /\ Holding(lists, hd, ms)
  BY DEF Settled
<1>2. Holding(lists, hd2, ms2) /\ ms2 \in [Messages -> {"free", "outstanding"}]
  <2>1. \A s, i, g : At(lists, s, i, g) /\ g # h => \E t, j : At(lists, t, j, g)
    OBVIOUS
  <2> QED BY <1>1, <2>1, EndedHolds
<1>3. \A g \in Handlers : hd2[g].used = hd[g].used
  BY DEF Ended
<1>4. \A s, i, g : At(lists, s, i, g) => g \in Handlers
  BY <1>1 DEF At
<1>5. Placed(lists, hd2, sessions)
  BY <1>1, <1>3, <1>4 DEF Placed
<1>6. hd2 \in [Handlers -> HandlerRecord]
  BY DEF Ended
<1> QED BY <1>1, <1>2, <1>5, <1>6 DEF Settled

LEMMA CancelGetEventIsSound ==
  ASSUME Inv, NEW s \in Sessions, NEW name \in Names, CancelGetEvent(s, name)
  PROVE  Inv'
<1> DEFINE h == iAsyncHandlers[s][HandlerFor(s, name)]
<1>1. Sound /\ server = "running" /\ HandlerFor(s, name) # 0
  BY DEF Inv, CancelGetEvent, MayAsk, Ready
<1>2. /\ Become(Cancel(Here, h)) /\ UNCHANGED <<open, iSessionCount, iShutdown, iAsyncHandlers, closing>>
  BY DEF CancelGetEvent
<1>3. closing \subseteq open /\ Settled(iAsyncHandlers, handler, message, open)
  BY <1>1, SoundIsSettled DEF Sound, Types
<1>4. h \in Handlers
  BY <1>1, <1>3, HandlerForIsPlace DEF Settled
<1> HIDE DEF h
<1>5. Here = St("running", handler, message, tracker)
  BY <1>1, HereIsState
<1>6. /\ handler \in [Handlers -> HandlerRecord] /\ message \in [Messages -> {"free", "outstanding"}]
      /\ HoldsOne(handler, message, h)
  BY <1>3, <1>4, HoldersHoldOne DEF Settled
<1>7. PICK sv2, hd2, ms2, tr2 :
        /\ sv2 \in {"running", "blocked"}
        /\ Cancel(St("running", handler, message, tracker), h) = St(sv2, hd2, ms2, tr2)
        /\ sv2 = "running" => Ended(handler, message, h, hd2, ms2) /\ hd2[h].used = handler[h].used
  BY <1>4, <1>6, CancelEnds
<1>8. server' = sv2 /\ handler' = hd2 /\ message' = ms2
  BY <1>2, <1>5, <1>7, Becomes
<1>9. CASE sv2 = "blocked"
  BY <1>8, <1>9, BlockedIsFine
<1>10. CASE sv2 = "running"
  <2>1. Settled(iAsyncHandlers, hd2, ms2, open)
    BY <1>3, <1>4, <1>7, <1>10, EndedIsSettled
  <2>2. Settled(iAsyncHandlers', handler', message', open)
    BY <1>2, <1>8, <2>1
  <2>3. closing' \subseteq open /\ server' = "running"
    BY <1>2, <1>3, <1>8, <1>10
  <2> QED BY <1>1, <1>2, <2>2, <2>3, SettledIsSound
<1> QED BY <1>7, <1>9, <1>10

LEMMA RunLIsSound ==
  ASSUME Inv, NEW h \in Handlers, RunL(h)
  PROVE  Inv'
<1> DEFINE m == handler[h].iMessage
           st == Complete(Here, m)
           ms2 == [message EXCEPT ![m] = "free"]
           rec == [handler[h] EXCEPT !.active = FALSE, !.iMessage = NoMessage]
           hd2 == [handler EXCEPT ![h] = rec]
<1>1. Sound /\ server = "running" /\ handler[h].active
  BY DEF Inv, RunL, Ready
<1>2. /\ Become([st EXCEPT !.handler[h] = [@ EXCEPT !.active = FALSE, !.iMessage = NoMessage]])
      /\ UNCHANGED <<open, iSessionCount, iShutdown, iAsyncHandlers, closing>>
  BY DEF RunL
<1>3. closing \subseteq open /\ Settled(iAsyncHandlers, handler, message, open)
  BY <1>1, SoundIsSettled DEF Sound, Types
<1>4. /\ handler \in [Handlers -> HandlerRecord] /\ message \in [Messages -> {"free", "outstanding"}]
      /\ m \in Messages /\ message[m] = "outstanding" /\ m # NoMessage
  BY <1>1, <1>3, HoldersHoldOne, NothingAssumption DEF Settled, HoldsOne
<1>5. st = [server |-> "running", handler |-> handler, message |-> ms2, tracker |-> tracker]
  BY <1>1, <1>4 DEF Complete, Here
<1>6. server' = "running" /\ handler' = hd2 /\ message' = ms2
  <2> HIDE DEF st, ms2
  <2> QED BY <1>2, <1>5 DEF Become
<1>7. Ended(handler, message, h, hd2, ms2) /\ hd2[h].used = handler[h].used
  <2>1. rec \in HandlerRecord /\ ~ rec.active /\ rec.used = handler[h].used
    BY <1>4 DEF HandlerRecord
  <2> HIDE DEF rec
  <2>2. hd2 \in [Handlers -> HandlerRecord] /\ hd2[h] = rec /\ \A g \in Handlers \ {h} : hd2[g] = handler[g]
    BY <1>4, <2>1
  <2> HIDE DEF hd2
  <2> QED BY <1>1, <2>1, <2>2 DEF Ended
<1> HIDE DEF hd2, ms2, m, st, rec
<1>8. Settled(iAsyncHandlers, hd2, ms2, open)
  BY <1>3, <1>7, EndedIsSettled
<1>9. Settled(iAsyncHandlers', handler', message', open)
  BY <1>2, <1>6, <1>8
<1> QED BY <1>1, <1>2, <1>3, <1>6, <1>9, SettledIsSound

LEMMA GetEventIsSound ==
  ASSUME Inv, NEW s \in Sessions, NEW name \in Names, NEW m \in Messages, GetEvent(s, name, m)
  PROVE  Inv'
<1> DEFINE h == iAsyncHandlers[s][HandlerFor(s, name)]
           ms2 == [message EXCEPT ![m] = "outstanding"]
           rec(status) == [handler[h] EXCEPT !.active = TRUE, !.iStatus = status, !.iMessage = m]
<1>1. Sound /\ server = "running" /\ HandlerFor(s, name) # 0
  BY DEF Inv, GetEvent, MayAsk, Ready
<1>2. PICK status \in {"KErrNotFound", "KErrNone", "pending"} :
        handler' = [handler EXCEPT ![h] = rec(status)]
  BY DEF GetEvent
<1>3. /\ UNCHANGED <<server, open, iSessionCount, iShutdown, iAsyncHandlers, closing>>
      /\ message[m] = "free" /\ message' = ms2 /\ ~ handler[h].active
  BY DEF GetEvent
<1>4. closing \subseteq open /\ Settled(iAsyncHandlers, handler, message, open)
  BY <1>1, SoundIsSettled DEF Sound, Types
<1>5. /\ iAsyncHandlers \in [Sessions -> Seq(Handlers)]
      /\ handler \in [Handlers -> HandlerRecord] /\ message \in [Messages -> {"free", "outstanding"}]
      /\ Placed(iAsyncHandlers, handler, open) /\ Holding(iAsyncHandlers, handler, message)
  BY <1>4 DEF Settled
<1>6. h \in Handlers /\ At(iAsyncHandlers, s, HandlerFor(s, name), h)
  BY <1>1, <1>5, HandlerForIsPlace DEF At
<1> HIDE DEF h
<1>7. /\ rec(status) \in HandlerRecord /\ rec(status).active /\ rec(status).iMessage = m
      /\ rec(status).used = handler[h].used
  BY <1>5, <1>6 DEF HandlerRecord
<1> HIDE DEF rec
<1>8. /\ handler' \in [Handlers -> HandlerRecord] /\ handler'[h] = rec(status)
      /\ \A g \in Handlers \ {h} : handler'[g] = handler[g]
  BY <1>2, <1>5, <1>6, <1>7
<1>9. /\ message' \in [Messages -> {"free", "outstanding"}] /\ message'[m] = "outstanding"
      /\ \A n \in Messages \ {m} : message'[n] = message[n]
  BY <1>3, <1>5
<1> HIDE DEF ms2
<1>10. ASSUME NEW g \in Handlers, handler[g].active
       PROVE  handler[g].iMessage \in Messages \ {m} /\ g # h
  BY <1>3, <1>5, <1>10 DEF Holding
<1>11. Holding(iAsyncHandlers, handler', message')
  <2>1. ASSUME NEW g \in Handlers, handler'[g].active
        PROVE  /\ handler'[g].iMessage \in Messages /\ message'[handler'[g].iMessage] = "outstanding"
               /\ \E t, i : At(iAsyncHandlers, t, i, g)
    <3>1. CASE g = h
      BY <1>6, <1>7, <1>8, <1>9, <3>1
    <3>2. CASE g # h
      <4>1. handler'[g] = handler[g] /\ handler[g].active
        BY <1>8, <2>1, <3>2
      <4>2. handler[g].iMessage \in Messages \ {m}
        BY <1>10, <4>1
      <4>3. message[handler[g].iMessage] = "outstanding" /\ \E t, i : At(iAsyncHandlers, t, i, g)
        BY <1>5, <4>1 DEF Holding
      <4> QED BY <1>9, <4>1, <4>2, <4>3
    <3> QED BY <3>1, <3>2
  <2>2. ASSUME NEW n \in Messages, message'[n] = "outstanding"
        PROVE  \E g \in Handlers : handler'[g].active /\ handler'[g].iMessage = n
    <3>1. CASE n = m
      BY <1>6, <1>7, <1>8, <3>1
    <3>2. CASE n # m
      <4>1. message[n] = "outstanding"
        BY <1>9, <2>2, <3>2
      <4>2. PICK g \in Handlers : handler[g].active /\ handler[g].iMessage = n
        BY <1>5, <4>1 DEF Holding
      <4> QED BY <1>8, <1>10, <4>2
    <3> QED BY <3>1, <3>2
  <2>3. ASSUME NEW f \in Handlers, NEW g \in Handlers, handler'[f].active, handler'[g].active,
               handler'[f].iMessage = handler'[g].iMessage
        PROVE  f = g
    <3>1. CASE f = h \/ g = h
      BY <1>7, <1>8, <1>10, <2>3, <3>1
    <3>2. CASE f # h /\ g # h
      BY <1>5, <1>8, <2>3, <3>2 DEF Holding
    <3> QED BY <3>1, <3>2
  <2> QED BY <2>1, <2>2, <2>3 DEF Holding
<1>12. Placed(iAsyncHandlers, handler', open)
  <2>1. \A g \in Handlers : handler'[g].used = handler[g].used
    BY <1>7, <1>8
  <2>2. \A t, i, g : At(iAsyncHandlers, t, i, g) => g \in Handlers
    BY <1>5 DEF At
  <2> QED BY <1>5, <2>1, <2>2 DEF Placed
<1>13. Settled(iAsyncHandlers', handler', message', open)
  BY <1>3, <1>5, <1>8, <1>9, <1>11, <1>12 DEF Settled
<1> QED BY <1>1, <1>3, <1>4, <1>13, SettledIsSound

\* An event, which may come at any time, answers requests.
LEMMA EventIsSound ==
  ASSUME Inv, NEW e, Event(e)
  PROVE  Inv'
<1> DEFINE n == NotifyAgentsForProcessEvent(tracker, e)
           told == n.answered
<1>1. /\ handler' = [h \in Handlers |-> IF h \in told THEN [handler[h] EXCEPT !.iStatus = "KErrNone"]
                                        ELSE handler[h]]
      /\ UNCHANGED <<server, iSessionCount, iShutdown, open, closing, iAsyncHandlers, message>>
  BY DEF Event
<1> HIDE DEF told
<1>2. CASE ~ (server \in {"running", "stopped"})
  BY <1>1, <1>2 DEF Inv
<1>3. CASE server \in {"running", "stopped"}
  <2>1. Sound
    BY <1>3 DEF Inv
  <2>2. handler \in [Handlers -> HandlerRecord] /\ iAsyncHandlers \in [Sessions -> Seq(Handlers)]
        /\ Placed(iAsyncHandlers, handler, open) /\ Holding(iAsyncHandlers, handler, message)
    BY <2>1 DEF Sound, Types
  <2>3. handler' \in [Handlers -> HandlerRecord] /\ Answers(handler, handler')
    <3>1. ASSUME NEW h \in Handlers
          PROVE  /\ handler'[h] \in HandlerRecord
                 /\ handler'[h].iProcessName = handler[h].iProcessName /\ handler'[h].iAgentId = handler[h].iAgentId
                 /\ handler'[h].active = handler[h].active /\ handler'[h].iMessage = handler[h].iMessage
                 /\ handler'[h].used = handler[h].used
      <4>1. handler[h] \in HandlerRecord
        BY <2>2
      <4>2. handler'[h] = IF h \in told THEN [handler[h] EXCEPT !.iStatus = "KErrNone"] ELSE handler[h]
        BY <1>1
      <4> QED BY <4>1, <4>2 DEF HandlerRecord
    <3>2. handler' = [h \in Handlers |-> handler'[h]]
      BY <1>1
    <3> QED BY <3>1, <3>2 DEF Answers
  <2>4. Placed(iAsyncHandlers, handler', open) /\ Holding(iAsyncHandlers, handler', message)
    BY <2>2, <2>3, AnswersKeep
  <2>5. Types'
    BY <1>1, <2>1, <2>3 DEF Sound, Types
  <2>6. Counted'
    BY <1>1, <2>1 DEF Sound, Counted
  <2> QED BY <1>1, <1>3, <2>4, <2>5, <2>6 DEF Inv, Sound
<1> QED BY <1>2, <1>3

\* Steps of the timer and of the server as a whole.
LEMMA OthersAreSound ==
  ASSUME Inv, \/ TimerExpires \/ Shutdown \/ StartServer \/ UNCHANGED vars
              \/ \E s \in Sessions, name \in Names, l \in BOOLEAN : SetEventAction(s, name, l)
  PROVE  Inv'
<1>1. UNCHANGED <<open, closing, iAsyncHandlers, handler, message>>
  BY DEF TimerExpires, Shutdown, StartServer, SetEventAction, vars
<1>2. CASE ~ (server \in {"running", "stopped"})
  <2>1. server' = server
    BY <1>2 DEF TimerExpires, Shutdown, StartServer, SetEventAction, vars, Ready
  <2> QED BY <1>2, <2>1 DEF Inv
<1>3. CASE server \in {"running", "stopped"}
  <2>1. Sound
    BY <1>3 DEF Inv
  <2>2. Types' /\ Placed(iAsyncHandlers, handler, open)' /\ Holding(iAsyncHandlers, handler, message)'
    BY <1>1, <2>1 DEF Sound, Types
  <2>3. Counted /\ (open = {} => iSessionCount = 0)
    <3>1. Counted /\ open \subseteq Sessions
      BY <2>1 DEF Sound, Types
    <3> QED BY <3>1, OpenIsFinite DEF Counted
  <2>4. Counted' /\ server' \in {"running", "stopped"}
    <3>1. CASE TimerExpires \/ Shutdown
      <4>1. open = {}
        BY <2>3, <3>1 DEF TimerExpires, Shutdown, Counted
      <4>2. server' \in {"running", "stopped"} /\ iSessionCount' = iSessionCount
        BY <1>3, <3>1 DEF TimerExpires, Shutdown
      <4> QED BY <1>1, <2>3, <4>1, <4>2 DEF Counted
    <3>2. CASE StartServer
      <4>1. open = {} /\ server' = "running" /\ iSessionCount' = 0
        BY <2>3, <3>2 DEF StartServer, Counted
      <4> QED BY <1>1, <2>3, <4>1 DEF Counted
    <3>3. CASE \/ UNCHANGED vars
               \/ \E s \in Sessions, name \in Names, l \in BOOLEAN : SetEventAction(s, name, l)
      <4>1. UNCHANGED <<server, iSessionCount, iShutdown>>
        BY <3>3 DEF SetEventAction, vars
      <4> QED BY <1>1, <1>3, <2>3, <4>1 DEF Counted
    <3> QED BY <3>1, <3>2, <3>3
  <2> QED BY <2>2, <2>4 DEF Inv, Sound
<1> QED BY <1>2, <1>3

LEMMA NextIsSound ==
  ASSUME Inv, [Next]_vars
  PROVE  Inv'
<1>1. ASSUME NEW s \in Sessions, OpenSession(s) \/ DestroyHandler(s) \/ CloseSession(s)
      PROVE  Inv'
  BY <1>1, OpenSessionIsSound, DestroyHandlerIsSound, CloseSessionIsSound
<1>2. ASSUME NEW s \in Sessions, NEW n \in Names, NEW p \in BOOLEAN, NEW f \in Failures, Attach(s, n, p, f)
      PROVE  Inv'
  BY <1>2, AttachIsSound
<1>3. ASSUME NEW s \in Sessions, NEW n \in Names, Detach(s, n) \/ CancelGetEvent(s, n)
      PROVE  Inv'
  BY <1>3, DetachIsSound, CancelGetEventIsSound
<1>4. ASSUME NEW s \in Sessions, NEW n \in Names, NEW m \in Messages, GetEvent(s, n, m)
      PROVE  Inv'
  BY <1>4, GetEventIsSound
<1>5. ASSUME NEW h \in Handlers, RunL(h)
      PROVE  Inv'
  BY <1>5, RunLIsSound
<1>6. ASSUME NEW e \in Executables, Event(e)
      PROVE  Inv'
  BY <1>6, EventIsSound
<1>7. CASE \/ TimerExpires \/ Shutdown \/ StartServer \/ UNCHANGED vars
           \/ \E s \in Sessions, name \in Names, l \in BOOLEAN : SetEventAction(s, name, l)
  BY <1>7, OthersAreSound
<1> QED BY <1>1, <1>2, <1>3, <1>4, <1>5, <1>6, <1>7 DEF Next

-----------------------------------------------------------------------------
(* Theorems.                                                               *)

\* The server never panics: every GetEvent message is completed at most once
\* (RMessage2::Complete by RunL, RunError, DoCancel and the destructor) and the
\* shutdown timer is never started while it runs (SessionClosed), whatever the
\* clients, the kernel and failing allocations do.
THEOREM ServerNeverPanics == Spec => []NeverPanics
<1>1. Init => Inv
  BY InitIsSound
<1>2. Inv /\ [Next]_vars => Inv'
  BY NextIsSound
<1>3. Inv => NeverPanics
  BY DEF Inv, NeverPanics
<1> QED BY <1>1, <1>2, <1>3, PTL DEF Spec

\* While the server runs, the messages that clients wait for are those that
\* active handlers of open sessions hold, each held by one: no client is
\* forgotten when a request is answered, cancelled or its session ends.
THEOREM MessagesAlwaysHeld == Spec => []MessagesAreHeld
<1>1. Init => Inv
  BY InitIsSound
<1>2. Inv /\ [Next]_vars => Inv'
  BY NextIsSound
<1>3. Inv => MessagesAreHeld
  <2> SUFFICES ASSUME Inv, server = "running" PROVE MessagesAreHeld
    BY DEF MessagesAreHeld
  <2>1. /\ iAsyncHandlers \in [Sessions -> Seq(Handlers)] /\ open \subseteq Sessions
        /\ Placed(iAsyncHandlers, handler, open) /\ Holding(iAsyncHandlers, handler, message)
    BY DEF Inv, Sound, Types
  <2>2. ASSUME NEW s \in Sessions, NEW h
        PROVE  h \in ToSet(iAsyncHandlers[s]) <=> \E i : At(iAsyncHandlers, s, i, h)
    <3>1. iAsyncHandlers[s] \in Seq(Handlers)
      BY <2>1
    <3> QED BY <3>1 DEF ToSet, At
  <2>3. \A s, i, h : At(iAsyncHandlers, s, i, h) => h \in Handlers /\ s \in open
    BY <2>1 DEF At, Placed
  <2>4. ASSUME NEW m \in Messages, message[m] = "outstanding"
        PROVE  \E s \in open : \E h \in ToSet(iAsyncHandlers[s]) :
                 handler[h].active /\ handler[h].iMessage = m
    <3>1. PICK h \in Handlers : handler[h].active /\ handler[h].iMessage = m
      BY <2>1, <2>4 DEF Holding
    <3>2. PICK s, i : At(iAsyncHandlers, s, i, h)
      BY <2>1, <3>1 DEF Holding
    <3>3. s \in open /\ s \in Sessions /\ h \in ToSet(iAsyncHandlers[s])
      BY <2>2, <2>3, <3>2 DEF At
    <3> QED BY <3>1, <3>3
  <2>5. ASSUME NEW m \in Messages, NEW s \in open, NEW h \in ToSet(iAsyncHandlers[s]),
               handler[h].active, handler[h].iMessage = m
        PROVE  message[m] = "outstanding"
    <3>1. h \in Handlers
      BY <2>1, <2>2, <2>3
    <3> QED BY <2>1, <2>5, <3>1 DEF Holding
  <2>6. \A g, h \in Handlers : handler[g].active /\ handler[h].active
                                  /\ handler[g].iMessage = handler[h].iMessage => g = h
    BY <2>1 DEF Holding
  <2> QED BY <2>4, <2>5, <2>6 DEF MessagesAreHeld
<1> QED BY <1>1, <1>2, <1>3, PTL DEF Spec

-----------------------------------------------------------------------------
(* Lists of the driver's agents.                                           *)

Agent == [iId : {AgentOf[s] : s \in Sessions}, listening : BOOLEAN, queued : Nat,
          iRequestGetEventStatus : Handlers \cup {NoHandler}]

\* No agent is twice in a list.
GoodList(l) == l \in Seq(Agent) /\ \A i, j \in 1 .. Len(l) : l[i].iId = l[j].iId => i = j

In(l, a) == \E i \in 1 .. Len(l) : l[i] = a

\* An id is in a list once.
LEMMA OneAgent ==
  ASSUME NEW l, GoodList(l), NEW a, NEW b, In(l, a), In(l, b), a.iId = b.iId
  PROVE  a = b
BY DEF GoodList, In

LEMMA InType ==
  ASSUME NEW l, GoodList(l), NEW a, In(l, a)
  PROVE  a \in Agent
BY DEF GoodList, In

\* The only place of an agent is the one that is found, from either end.
LEMMA OnlyPlace ==
  ASSUME NEW l, GoodList(l), NEW i \in 1 .. Len(l), NEW id, l[i].iId = id
  PROVE  PositionOf(l, id) = i /\ LastPositionOf(l, id) = i /\ RemoveAgent(l, id) = RemoveAt(l, i)
<1> DEFINE I == {k \in 1 .. Len(l) : l[k].iId = id}
<1>1. I = {i}
  BY DEF GoodList
<1>2. Len(l) \in Nat /\ i <= i /\ i >= i
  BY DEF GoodList
<1>3. Min({i}) = i /\ Max({i}) = i
  BY <1>2 DEF Min, Max
<1> HIDE DEF I
<1>4. SelectInSeq(l, LAMBDA a : a.iId = id) = IF I # {} THEN Min(I) ELSE 0
  BY DEF SelectInSeq, I
<1>5. SelectLastInSeq(l, LAMBDA a : a.iId = id) = IF I # {} THEN Max(I) ELSE 0
  BY DEF SelectLastInSeq, I
<1>6. PositionOf(l, id) = i /\ LastPositionOf(l, id) = i
  BY <1>1, <1>3, <1>4, <1>5 DEF PositionOf, LastPositionOf
<1>7. \E k \in 1 .. Len(l) : l[k].iId = id
  OBVIOUS
<1>8. RemoveAgent(l, id) = RemoveAt(l, SelectInSeq(l, LAMBDA a : a.iId = id))
  BY <1>7 DEF RemoveAgent, RemoveFirstMatch
<1> QED BY <1>1, <1>3, <1>4, <1>6, <1>8

LEMMA NoPlace ==
  ASSUME NEW l, NEW id, \A i \in 1 .. Len(l) : l[i].iId # id
  PROVE  PositionOf(l, id) = 0 /\ LastPositionOf(l, id) = 0 /\ RemoveAgent(l, id) = l
<1>1. {k \in 1 .. Len(l) : l[k].iId = id} = {}
  OBVIOUS
<1>2. PositionOf(l, id) = 0
  BY <1>1 DEF PositionOf, SelectInSeq
<1>3. LastPositionOf(l, id) = 0
  BY <1>1 DEF LastPositionOf, SelectLastInSeq
<1>4. RemoveAgent(l, id) = l
  BY DEF RemoveAgent, RemoveFirstMatch
<1> QED BY <1>2, <1>3, <1>4

\* Removing an id from a list leaves all other agents.
LEMMA AgentRemoved ==
  ASSUME NEW l, GoodList(l), NEW id
  PROVE  GoodList(RemoveAgent(l, id)) /\ \A a : In(RemoveAgent(l, id), a) <=> In(l, a) /\ a.iId # id
<1>1. CASE \A i \in 1 .. Len(l) : l[i].iId # id
  BY <1>1, NoPlace DEF In
<1>2. CASE \E i \in 1 .. Len(l) : l[i].iId = id
  <2>1. PICK i \in 1 .. Len(l) : l[i].iId = id
    BY <1>2
  <2> DEFINE r == RemoveAt(l, i)
  <2>2. l \in Seq(Agent) /\ Len(l) \in Nat /\ \A j, k \in 1 .. Len(l) : l[j].iId = l[k].iId => j = k
    BY DEF GoodList
  <2>3. r \in Seq(Agent) /\ Len(r) = Len(l) - 1
        /\ \A m \in 1 .. Len(l) - 1 : r[m] = l[IF m < i THEN m ELSE m + 1]
    <3>1. /\ r \in Seq(Agent) /\ DOMAIN r = 1 .. Len(l) - 1
          /\ \A m \in 1 .. Len(l) - 1 : r[m] = l[IF m < i THEN m ELSE m + 1]
      BY <2>2, RemoveAtIndex
    <3> HIDE DEF r
    <3>2. Len(l) - 1 \in Nat /\ Len(r) \in Nat /\ DOMAIN r = 1 .. Len(r)
      BY <2>2, <3>1
    <3>3. Len(r) = Len(l) - 1
      BY <3>1, <3>2
    <3> QED BY <3>1, <3>3
  <2>4. RemoveAgent(l, id) = r
    BY <2>1, OnlyPlace
  <2> HIDE DEF r
  <2>5. \A m \in 1 .. Len(l) - 1 : (IF m < i THEN m ELSE m + 1) \in 1 .. Len(l) \ {i}
    BY <2>2
  <2>6. ASSUME NEW j \in 1 .. Len(r), NEW k \in 1 .. Len(r), r[j].iId = r[k].iId PROVE j = k
    <3> DEFINE p == IF j < i THEN j ELSE j + 1
               q == IF k < i THEN k ELSE k + 1
    <3>1. p \in 1 .. Len(l) /\ q \in 1 .. Len(l) /\ r[j] = l[p] /\ r[k] = l[q]
      BY <2>2, <2>3, <2>5, <2>6
    <3>2. p = q
      <4> HIDE DEF p, q
      <4> QED BY <2>6, <3>1 DEF GoodList
    <3> QED BY <2>2, <2>3, <3>2
  <2>7. ASSUME NEW a, In(r, a) PROVE In(l, a) /\ a.iId # id
    <3>1. PICK m \in 1 .. Len(l) - 1 : r[m] = a
      BY <2>3, <2>7 DEF In
    <3>2. PICK k \in 1 .. Len(l) \ {i} : l[k] = a
      BY <2>3, <2>5, <3>1
    <3> QED BY <2>1, <2>2, <3>2 DEF In
  <2>8. ASSUME NEW a, In(l, a), a.iId # id PROVE In(r, a)
    <3>1. PICK k \in 1 .. Len(l) : l[k] = a /\ k # i
      BY <2>1, <2>8 DEF In
    <3> DEFINE m == IF k < i THEN k ELSE k - 1
    <3>2. m \in 1 .. Len(l) - 1 /\ (IF m < i THEN m ELSE m + 1) = k
      BY <2>2, <3>1
    <3> HIDE DEF m
    <3> QED BY <2>3, <3>1, <3>2 DEF In
  <2>9. GoodList(r)
    BY <2>3, <2>6 DEF GoodList
  <2> QED BY <2>4, <2>7, <2>8, <2>9
<1> QED BY <1>1, <1>2

\* An agent of a list is replaced by one with its id.
LEMMA AgentReplaced ==
  ASSUME NEW l, GoodList(l), NEW i \in 1 .. Len(l), NEW a \in Agent, a.iId = l[i].iId
  PROVE  /\ GoodList([l EXCEPT ![i] = a])
         /\ \A x : In([l EXCEPT ![i] = a], x) <=> x = a \/ (In(l, x) /\ x.iId # a.iId)
<1> DEFINE r == [l EXCEPT ![i] = a]
<1>1. l \in Seq(Agent) /\ Len(l) \in Nat /\ \A j, k \in 1 .. Len(l) : l[j].iId = l[k].iId => j = k
  BY DEF GoodList
<1>2. r \in Seq(Agent) /\ Len(r) = Len(l) /\ r[i] = a /\ \A j \in 1 .. Len(l) \ {i} : r[j] = l[j]
  BY <1>1
<1> HIDE DEF r
<1>3. \A j \in 1 .. Len(l) : r[j].iId = l[j].iId
  BY <1>2
<1>4. GoodList(r)
  BY <1>1, <1>2, <1>3 DEF GoodList
<1>5. ASSUME NEW x, In(r, x) PROVE x = a \/ (In(l, x) /\ x.iId # a.iId)
  <2>1. PICK j \in 1 .. Len(l) : r[j] = x
    BY <1>2, <1>5 DEF In
  <2>2. CASE j = i
    BY <1>2, <2>1, <2>2
  <2>3. CASE j # i
    BY <1>1, <1>2, <2>1, <2>3 DEF In
  <2> QED BY <2>2, <2>3
<1>6. ASSUME NEW x, x = a \/ (In(l, x) /\ x.iId # a.iId) PROVE In(r, x)
  BY <1>2, <1>6 DEF In
<1> QED BY <1>4, <1>5, <1>6 DEF r

LEMMA AgentAppended ==
  ASSUME NEW l, GoodList(l), NEW a \in Agent, \A x : In(l, x) => x.iId # a.iId
  PROVE  GoodList(Append(l, a)) /\ \A x : In(Append(l, a), x) <=> In(l, x) \/ x = a
<1> DEFINE r == Append(l, a)
<1>1. l \in Seq(Agent) /\ Len(l) \in Nat /\ \A j, k \in 1 .. Len(l) : l[j].iId = l[k].iId => j = k
  BY DEF GoodList
<1>2. r \in Seq(Agent) /\ Len(r) = Len(l) + 1 /\ r[Len(l) + 1] = a /\ \A j \in 1 .. Len(l) : r[j] = l[j]
  BY <1>1
<1> HIDE DEF r
<1>3. \A j \in 1 .. Len(l) : l[j].iId # a.iId
  BY DEF In
<1>4. \A j, k \in 1 .. Len(l) + 1 : r[j].iId = r[k].iId => j = k
  BY <1>1, <1>2, <1>3
<1>5. GoodList(r)
  BY <1>2, <1>4 DEF GoodList
<1>6. \A x : In(r, x) <=> In(l, x) \/ x = a
  BY <1>1, <1>2 DEF In
<1> QED BY <1>5, <1>6 DEF r

LEMMA AgentPrepended ==
  ASSUME NEW l, GoodList(l), NEW a \in Agent, \A x : In(l, x) => x.iId # a.iId
  PROVE  GoodList(<<a>> \o l) /\ \A x : In(<<a>> \o l, x) <=> In(l, x) \/ x = a
<1> DEFINE r == <<a>> \o l
<1>1. l \in Seq(Agent) /\ Len(l) \in Nat /\ \A j, k \in 1 .. Len(l) : l[j].iId = l[k].iId => j = k
  BY DEF GoodList
<1>2. /\ r \in Seq(Agent) /\ Len(r) = Len(l) + 1 /\ r[1] = a
      /\ \A j \in 1 .. Len(l) : r[j + 1] = l[j]
      /\ \A j \in 2 .. Len(l) + 1 : r[j] = l[j - 1]
  <2>1. <<a>> \in Seq(Agent) /\ Len(<<a>>) = 1 /\ <<a>>[1] = a
    OBVIOUS
  <2>2. /\ r \in Seq(Agent) /\ Len(r) = 1 + Len(l)
        /\ \A j \in 1 .. 1 + Len(l) : r[j] = IF j <= 1 THEN <<a>>[j] ELSE l[j - 1]
    BY <1>1, <2>1, ConcatProperties
  <2> HIDE DEF r
  <2> QED BY <1>1, <2>1, <2>2
<1> HIDE DEF r
<1>3. \A j \in 1 .. Len(l) : l[j].iId # a.iId
  BY DEF In
<1>4. ASSUME NEW j \in 1 .. Len(l) + 1, NEW k \in 1 .. Len(l) + 1, r[j].iId = r[k].iId
      PROVE  j = k
  <2>1. \A n \in 1 .. Len(l) + 1 : n = 1 \/ (n \in 2 .. Len(l) + 1 /\ n - 1 \in 1 .. Len(l))
    BY <1>1
  <2>2. CASE j = 1 \/ k = 1
    BY <1>2, <1>3, <1>4, <2>1, <2>2
  <2>3. CASE j # 1 /\ k # 1
    <3>1. /\ j \in 2 .. Len(l) + 1 /\ k \in 2 .. Len(l) + 1
          /\ j - 1 \in 1 .. Len(l) /\ k - 1 \in 1 .. Len(l)
      BY <1>4, <2>1, <2>3
    <3>2. l[j - 1].iId = l[k - 1].iId
      BY <1>2, <1>4, <3>1
    <3>3. j - 1 = k - 1
      BY <3>1, <3>2 DEF GoodList
    <3> QED BY <1>1, <3>1, <3>3
  <2> QED BY <2>2, <2>3
<1>5. GoodList(r)
  BY <1>2, <1>4 DEF GoodList
<1>6. ASSUME NEW x, In(r, x) PROVE In(l, x) \/ x = a
  <2>1. PICK j \in 1 .. Len(l) + 1 : r[j] = x
    BY <1>2, <1>6 DEF In
  <2>2. j = 1 \/ (j \in 2 .. Len(l) + 1 /\ j - 1 \in 1 .. Len(l))
    BY <1>1
  <2> QED BY <1>2, <2>1, <2>2 DEF In
<1>7. ASSUME NEW x, In(l, x) \/ x = a PROVE In(r, x)
  <2>1. CASE x = a
    <3>1. 1 \in 1 .. Len(r)
      BY <1>1, <1>2
    <3> QED BY <1>2, <2>1, <3>1 DEF In
  <2>2. CASE In(l, x)
    <3>1. PICK j \in 1 .. Len(l) : l[j] = x
      BY <2>2 DEF In
    <3>2. j + 1 \in 1 .. Len(r) /\ r[j + 1] = x
      BY <1>1, <1>2, <3>1
    <3> QED BY <3>2 DEF In
  <2> QED BY <1>7, <2>1, <2>2
<1> QED BY <1>5, <1>6, <1>7 DEF r

\* What NotifyEvent does to an agent.
LEMMA NotifyType ==
  ASSUME NEW a \in Agent
  PROVE  /\ NotifyEvent(a) \in Agent /\ NotifyEvent(a).iId = a.iId
         /\ NotifyEvent(a).listening = a.listening
         /\ NotifyEvent(a).iRequestGetEventStatus =
              IF a.listening THEN NoHandler ELSE a.iRequestGetEventStatus
<1>1. CASE ~ a.listening
  BY <1>1 DEF NotifyEvent
<1>2. CASE a.listening /\ a.iRequestGetEventStatus # NoHandler
  BY <1>2 DEF NotifyEvent, Agent
<1>3. CASE a.listening /\ a.iRequestGetEventStatus = NoHandler /\ a.queued < MaxEvents
  <2>1. NotifyEvent(a) = [a EXCEPT !.queued = @ + 1]
    BY <1>3 DEF NotifyEvent
  <2>2. a.queued + 1 \in Nat
    BY DEF Agent
  <2> QED BY <1>3, <2>1, <2>2 DEF Agent
<1>4. CASE a.listening /\ a.iRequestGetEventStatus = NoHandler /\ ~ (a.queued < MaxEvents)
  BY <1>4 DEF NotifyEvent
<1> QED BY <1>1, <1>2, <1>3, <1>4 DEF Agent

\* Each agent of a list is told of an event.
LEMMA AgentsNotified ==
  ASSUME NEW l, GoodList(l)
  PROVE  /\ GoodList(NotifyAll(l))
         /\ \A x : In(NotifyAll(l), x) <=> \E y : In(l, y) /\ x = NotifyEvent(y)
<1> DEFINE r == NotifyAll(l)
<1>1. l \in Seq(Agent) /\ Len(l) \in Nat /\ DOMAIN l = 1 .. Len(l)
      /\ \A j, k \in 1 .. Len(l) : l[j].iId = l[k].iId => j = k
  BY DEF GoodList
<1>2. r = [i \in 1 .. Len(l) |-> NotifyEvent(l[i])]
  BY <1>1 DEF NotifyAll
<1>3. \A i \in 1 .. Len(l) : r[i] = NotifyEvent(l[i])
  BY <1>2
<1>4. \A i \in 1 .. Len(l) : r[i] \in Agent /\ r[i].iId = l[i].iId
  <2> SUFFICES ASSUME NEW i \in 1 .. Len(l) PROVE r[i] \in Agent /\ r[i].iId = l[i].iId
    OBVIOUS
  <2>1. l[i] \in Agent
    BY <1>1
  <2> QED BY <1>3, <2>1, NotifyType
<1>5. DOMAIN r = 1 .. Len(l)
  BY <1>2
<1> HIDE DEF r
<1>6. r \in [1 .. Len(l) -> Agent]
  BY <1>2, <1>4, <1>5
<1>7. r \in Seq(Agent) /\ Len(r) = Len(l)
  <2>1. r \in Seq(Agent)
    BY <1>1, <1>6, SeqDef
  <2> QED BY <1>1, <1>5, <2>1, LenProperties
<1>8. GoodList(r)
  BY <1>1, <1>4, <1>7 DEF GoodList
<1>9. \A x : In(r, x) <=> \E y : In(l, y) /\ x = NotifyEvent(y)
  BY <1>3, <1>7 DEF In
<1> QED BY <1>8, <1>9 DEF r

-----------------------------------------------------------------------------
(* The driver's tracker.                                                   *)

\* Different spellings are different executables, sessions different agents,
\* and one agent at most may attach to all.
SpellingsApart == \A m, n \in Names : Exe[m] = Exe[n] => m = n
AgentsApart == \A s, t \in Sessions : AgentOf[s] = AgentOf[t] => s = t
OneAttachesToAll ==
  \A s, t \in Sessions : AgentOf[s] \in AllTokenAgents /\ AgentOf[t] \in AllTokenAgents
                           => AgentOf[s] = AgentOf[t]

TrackerShape(t) ==
  /\ t = [iProcesses |-> t.iProcesses, iAgentsAttachedToAll |-> t.iAgentsAttachedToAll]
  /\ t.iProcesses \in [DOMAIN t.iProcesses -> Seq(Agent)]

GoodTracker(t) ==
  /\ TrackerShape(t)
  /\ \A n \in Names : GoodList(AgentsOf(t, n))
  /\ \A a : In(AgentsOf(t, Star), a) => a.iId \in AllTokenAgents

Has(t, n, a) == In(AgentsOf(t, n), a)
Kept(t, n, id) == \E a : Has(t, n, a) /\ a.iId = id

\* A name has an agent of an id once.
LEMMA HasOne ==
  ASSUME NEW t, GoodTracker(t), NEW n \in Names, NEW a, NEW b, Has(t, n, a), Has(t, n, b), a.iId = b.iId
  PROVE  a = b
BY OneAgent DEF GoodTracker, Has

LEMMA HasType ==
  ASSUME NEW t, GoodTracker(t), NEW n \in Names, NEW a, Has(t, n, a)
  PROVE  a \in Agent
BY InType DEF GoodTracker, Has

\* The lookup finds the agent that is there.
LEMMA Lookup ==
  ASSUME NEW t, GoodTracker(t), NEW n \in Names, NEW id
  PROVE  /\ HasAgent(t, n, id) <=> Kept(t, n, id)
         /\ HasAgent(t, n, id) =>
              /\ FindPosition(t, n, id) \in 1 .. Len(AgentsOf(t, n))
              /\ Has(t, n, FindAgentForProcessAndId(t, n, id))
              /\ FindAgentForProcessAndId(t, n, id).iId = id
<1> DEFINE l == AgentsOf(t, n)
<1>1. GoodList(l)
  BY DEF GoodTracker
<1>2. CASE \A i \in 1 .. Len(l) : l[i].iId # id
  <2>1. FindPosition(t, n, id) = 0
    BY <1>2, NoPlace DEF FindPosition
  <2>2. ~ Kept(t, n, id)
    BY <1>2 DEF Kept, Has, In
  <2> QED BY <2>1, <2>2 DEF HasAgent
<1>3. CASE \E i \in 1 .. Len(l) : l[i].iId = id
  <2>1. PICK i \in 1 .. Len(l) : l[i].iId = id
    BY <1>3
  <2>2. FindPosition(t, n, id) = i
    BY <1>1, <2>1, OnlyPlace DEF FindPosition
  <2>3. i # 0
    BY <1>1, <2>1 DEF GoodList
  <2>4. Has(t, n, l[i])
    BY <2>1 DEF Has, In
  <2> QED BY <2>1, <2>2, <2>3, <2>4 DEF HasAgent, Kept, FindAgentForProcessAndId
<1> QED BY <1>2, <1>3

\* Tracker t2 is t with list l2 for the name n.
Swapped(t, n, l2, t2) ==
  /\ TrackerShape(t2) /\ AgentsOf(t2, n) = l2
  /\ \A m \in Names \ {n} : AgentsOf(t2, m) = AgentsOf(t, m)

\* Changing the attach-all list, or the list of an executable,
\* leaves the agents of all other names alone.
LEMMA SwapAll ==
  ASSUME NEW t, TrackerShape(t), NEW l2
  PROVE  Swapped(t, Star, l2, [t EXCEPT !.iAgentsAttachedToAll = l2])
<1> DEFINE t2 == [t EXCEPT !.iAgentsAttachedToAll = l2]
<1>1. t2 = [iProcesses |-> t.iProcesses, iAgentsAttachedToAll |-> l2]
  BY DEF TrackerShape
<1> HIDE DEF t2
<1>2. t2.iProcesses = t.iProcesses /\ t2.iAgentsAttachedToAll = l2
  BY <1>1
<1>3. TrackerShape(t2)
  BY <1>1, <1>2 DEF TrackerShape
<1>4. \A m \in Names \ {Star} : AgentsOf(t2, m) = AgentsOf(t, m)
  BY <1>2 DEF AgentsOf
<1>5. AgentsOf(t2, Star) = l2
  BY <1>2 DEF AgentsOf
<1> QED BY <1>3, <1>4, <1>5 DEF Swapped, t2

AgentsIn(procs, e) == IF e \in DOMAIN procs THEN procs[e] ELSE <<>>

LEMMA SwapOne ==
  ASSUME SpellingsApart, NEW t, TrackerShape(t), NEW n \in Names, n # Star, NEW l2,
         NEW procs, procs \in [DOMAIN procs -> Seq(Agent)], AgentsIn(procs, Exe[n]) = l2,
         \A e : e # Exe[n] => AgentsIn(procs, e) = AgentsIn(t.iProcesses, e)
  PROVE  Swapped(t, n, l2, [t EXCEPT !.iProcesses = procs])
<1> DEFINE t2 == [t EXCEPT !.iProcesses = procs]
<1>1. t2 = [iProcesses |-> procs, iAgentsAttachedToAll |-> t.iAgentsAttachedToAll]
  BY DEF TrackerShape
<1> HIDE DEF t2
<1>2. t2.iProcesses = procs /\ t2.iAgentsAttachedToAll = t.iAgentsAttachedToAll
  BY <1>1
<1>3. TrackerShape(t2)
  BY <1>1, <1>2 DEF TrackerShape
<1>4. \A m \in Names \ {n} : m # Star => Exe[m] # Exe[n]
  BY DEF SpellingsApart
<1>5. \A m \in Names \ {n} : AgentsOf(t2, m) = AgentsOf(t, m)
  BY <1>2, <1>4 DEF AgentsOf, AgentsIn
<1>6. AgentsOf(t2, n) = l2
  BY <1>2 DEF AgentsOf, AgentsIn
<1> QED BY <1>3, <1>5, <1>6 DEF Swapped, t2

LEMMA SwappedIsGood ==
  ASSUME NEW t, GoodTracker(t), NEW n \in Names, NEW l2, NEW t2, Swapped(t, n, l2, t2), GoodList(l2),
         n = Star => \A a : In(l2, a) => a.iId \in AllTokenAgents
  PROVE  /\ GoodTracker(t2)
         /\ \A m \in Names : \A x : Has(t2, m, x) <=> IF m = n THEN In(l2, x) ELSE Has(t, m, x)
<1>1. AgentsOf(t2, n) = l2 /\ \A m \in Names \ {n} : AgentsOf(t2, m) = AgentsOf(t, m)
  BY DEF Swapped
<1>2. \A m \in Names : GoodList(AgentsOf(t2, m))
  BY <1>1 DEF GoodTracker
<1>3. Star \in Names
  BY NameAssumption
<1>4. \A a : In(AgentsOf(t2, Star), a) => a.iId \in AllTokenAgents
  BY <1>1, <1>3 DEF GoodTracker
<1> QED BY <1>1, <1>2, <1>4 DEF GoodTracker, Swapped, Has

\* An agent that was found is changed.
LEMMA AgentChanged ==
  ASSUME SpellingsApart, NEW t, GoodTracker(t), NEW n \in Names, NEW id, HasAgent(t, n, id),
         NEW a \in Agent, a.iId = id
  PROVE  /\ GoodTracker(WithAgent(t, n, id, a))
         /\ \A m \in Names : \A x : Has(WithAgent(t, n, id, a), m, x) <=>
              \/ m = n /\ x = a
              \/ Has(t, m, x) /\ ~ (m = n /\ x.iId = id)
<1> DEFINE l == AgentsOf(t, n)
           p == FindPosition(t, n, id)
           l2 == [l EXCEPT ![p] = a]
           t2 == WithAgent(t, n, id, a)
<1>1. GoodList(l) /\ TrackerShape(t)
  BY DEF GoodTracker
<1>2. p \in 1 .. Len(l) /\ l[p].iId = id /\ Has(t, n, l[p])
  BY Lookup DEF FindAgentForProcessAndId
<1> HIDE DEF p
<1>3. GoodList(l2) /\ \A x : In(l2, x) <=> x = a \/ (In(l, x) /\ x.iId # id)
  <2> HIDE DEF l
  <2> QED BY <1>1, <1>2, AgentReplaced
<1>4. Swapped(t, n, l2, t2)
  <2>1. CASE n = Star
    <3>1. l = t.iAgentsAttachedToAll
      BY <2>1 DEF AgentsOf
    <3>2. t2 = [t EXCEPT !.iAgentsAttachedToAll = l2]
      BY <2>1, <3>1 DEF WithAgent, p
    <3> HIDE DEF l2, t2
    <3> QED BY <1>1, <2>1, <3>2, SwapAll
  <2>2. CASE n # Star
    <3> DEFINE procs == [t.iProcesses EXCEPT ![Exe[n]] = l2]
               D == DOMAIN t.iProcesses
    <3>1. Exe[n] \in D /\ l = t.iProcesses[Exe[n]]
      <4>1. l # <<>>
        BY <1>1, <1>2 DEF GoodList
      <4> QED BY <2>2, <4>1 DEF AgentsOf
    <3>2. t2 = [t EXCEPT !.iProcesses = procs]
      BY <2>2, <3>1 DEF WithAgent, p
    <3>3. l2 \in Seq(Agent) /\ t.iProcesses \in [D -> Seq(Agent)]
      BY <1>1, <1>3 DEF GoodList, TrackerShape
    <3> HIDE DEF l2, t2, l, D
    <3>4. /\ procs \in [D -> Seq(Agent)] /\ DOMAIN procs = D /\ procs[Exe[n]] = l2
          /\ \A e \in D : e # Exe[n] => procs[e] = t.iProcesses[e]
      BY <3>1, <3>3
    <3> HIDE DEF procs
    <3>5. AgentsIn(procs, Exe[n]) = l2
      BY <3>1, <3>4 DEF AgentsIn
    <3>6. \A e : e # Exe[n] => AgentsIn(procs, e) = AgentsIn(t.iProcesses, e)
      BY <3>4 DEF AgentsIn, D
    <3> QED BY <1>1, <2>2, <3>2, <3>4, <3>5, <3>6, SwapOne
  <2> QED BY <2>1, <2>2
<1>5. n = Star => \A x : In(l2, x) => x.iId \in AllTokenAgents
  <2> SUFFICES ASSUME n = Star, NEW x, In(l2, x) PROVE x.iId \in AllTokenAgents
    OBVIOUS
  <2>1. \A y : In(l, y) => y.iId \in AllTokenAgents
    BY DEF GoodTracker
  <2>2. In(l, l[p])
    BY <1>2 DEF Has
  <2> HIDE DEF l, l2
  <2> QED BY <1>2, <1>3, <2>1, <2>2
<1> HIDE DEF l2, t2
<1>6. GoodTracker(t2) /\ \A m \in Names : \A x : Has(t2, m, x) <=> IF m = n THEN In(l2, x) ELSE Has(t, m, x)
  BY <1>3, <1>4, <1>5, SwappedIsGood
<1>7. \A x : In(l, x) <=> Has(t, n, x)
  BY DEF Has
<1> HIDE DEF l
<1> QED BY <1>3, <1>6, <1>7 DEF t2

\* Only a client with the token attaches to all, and it does so once.
LEMMA AgentAttached ==
  ASSUME SpellingsApart, NEW t, GoodTracker(t), NEW n \in Names, NEW s \in Sessions,
         ~ Kept(t, n, AgentOf[s]), n = Star => AgentOf[s] \in AllTokenAgents,
         NEW failure \in {"none", "insert"}
  PROVE  LET r == AttachProcess(t, n, AgentOf[s], failure)
         IN  /\ r.err = "KErrNone" /\ GoodTracker(r.tracker)
             /\ \A m \in Names : \A x : Has(r.tracker, m, x) <=>
                  Has(t, m, x) \/ (m = n /\ x = DDebugAgent(AgentOf[s]))
<1> DEFINE id == AgentOf[s]
           r == AttachProcess(t, n, id, failure)
           l == AgentsOf(t, n)
           a == DDebugAgent(id)
<1>1. GoodList(l) /\ TrackerShape(t) /\ ~ HasAgent(t, n, id)
  BY Lookup DEF GoodTracker
<1>2. a \in Agent /\ a.iId = id
  BY DEF DDebugAgent, Agent
<1>3. \A x : In(l, x) => x.iId # id
  BY DEF Kept, Has
<1> HIDE DEF a
<1>4. \E l2 : /\ GoodList(l2) /\ \A x : In(l2, x) <=> In(l, x) \/ x = a
              /\ r.err = "KErrNone" /\ Swapped(t, n, l2, r.tracker)
  <2>1. CASE n = Star
    <3>1. l = t.iAgentsAttachedToAll
      BY <2>1 DEF AgentsOf
    <3>2. r = [err |-> "KErrNone", tracker |-> [t EXCEPT !.iAgentsAttachedToAll = Append(l, a)]]
      BY <1>1, <2>1, <3>1 DEF AttachProcess, a
    <3> HIDE DEF l, r, id
    <3>3. GoodList(Append(l, a)) /\ \A x : In(Append(l, a), x) <=> In(l, x) \/ x = a
      BY <1>1, <1>2, <1>3, AgentAppended
    <3>4. Swapped(t, n, Append(l, a), r.tracker)
      BY <1>1, <2>1, <3>2, SwapAll
    <3> QED BY <3>2, <3>3, <3>4
  <2>2. CASE n # Star
    <3> DEFINE P == t.iProcesses
               l2 == <<a>> \o l
               D == DOMAIN P \cup {Exe[n]}
               procs == [e \in D |-> IF e = Exe[n] THEN l2 ELSE P[e]]
    <3>1. r = [err |-> "KErrNone", tracker |-> [t EXCEPT !.iProcesses = procs]]
      BY <2>2 DEF AttachProcess, a
    <3> HIDE DEF l, r, id
    <3>2. GoodList(l2) /\ \A x : In(l2, x) <=> In(l, x) \/ x = a
      BY <1>1, <1>2, <1>3, AgentPrepended
    <3> HIDE DEF l2
    <3>3. P \in [DOMAIN P -> Seq(Agent)] /\ l2 \in Seq(Agent)
      BY <1>1, <3>2 DEF TrackerShape, GoodList
    <3> HIDE DEF P
    <3>4. procs \in [D -> Seq(Agent)] /\ DOMAIN procs = D
      BY <3>3
    <3>5. AgentsIn(procs, Exe[n]) = l2
      BY <3>4 DEF AgentsIn
    <3>6. \A e : e # Exe[n] => AgentsIn(procs, e) = AgentsIn(P, e)
      BY <3>4 DEF AgentsIn
    <3> HIDE DEF procs, D
    <3>7. Swapped(t, n, l2, [t EXCEPT !.iProcesses = procs])
      BY <1>1, <2>2, <3>4, <3>5, <3>6, SwapOne DEF P
    <3> QED BY <3>1, <3>2, <3>7
  <2> QED BY <2>1, <2>2
<1>5. PICK l2 : /\ GoodList(l2) /\ \A x : In(l2, x) <=> In(l, x) \/ x = a
                /\ r.err = "KErrNone" /\ Swapped(t, n, l2, r.tracker)
  BY <1>4
<1>6. n = Star => \A x : In(l2, x) => x.iId \in AllTokenAgents
  BY <1>2, <1>5 DEF GoodTracker
<1> HIDE DEF r
<1>7. /\ GoodTracker(r.tracker)
      /\ \A m \in Names : \A x : Has(r.tracker, m, x) <=> IF m = n THEN In(l2, x) ELSE Has(t, m, x)
  BY <1>5, <1>6, SwappedIsGood
<1>8. \A x : In(l, x) <=> Has(t, n, x)
  BY DEF Has
<1> HIDE DEF l
<1>9. /\ r.err = "KErrNone" /\ GoodTracker(r.tracker)
      /\ \A m \in Names : \A x : Has(r.tracker, m, x) <=> Has(t, m, x) \/ (m = n /\ x = a)
  BY <1>5, <1>7, <1>8
<1> QED BY <1>9 DEF r, a

\* Detaching a pair removes its agent, and no other.
LEMMA AgentDetached ==
  ASSUME SpellingsApart, NEW t, GoodTracker(t), NEW n \in Names, NEW id
  PROVE  LET t2 == DetachProcess(t, n, id).tracker
         IN  /\ GoodTracker(t2)
             /\ \A m \in Names : \A x : Has(t2, m, x) <=> Has(t, m, x) /\ ~ (m = n /\ x.iId = id)
<1> DEFINE t2 == DetachProcess(t, n, id).tracker
           l == AgentsOf(t, n)
           l2 == RemoveAgent(l, id)
<1>1. GoodList(l) /\ TrackerShape(t)
  BY DEF GoodTracker
<1>2. GoodList(l2) /\ \A x : In(l2, x) <=> In(l, x) /\ x.iId # id
  <2> HIDE DEF l
  <2> QED BY <1>1, AgentRemoved
<1>3. CASE t2 = t /\ l2 = l
  <2>1. \A x : Has(t, n, x) => x.iId # id
    BY <1>2, <1>3 DEF Has
  <2> QED BY <1>3, <2>1
<1>4. CASE Swapped(t, n, l2, t2)
  <2>1. n = Star => \A x : In(l2, x) => x.iId \in AllTokenAgents
    BY <1>2 DEF GoodTracker
  <2>2. \A x : In(l, x) <=> Has(t, n, x)
    BY DEF Has
  <2> HIDE DEF l2, t2, l
  <2>3. GoodTracker(t2) /\ \A m \in Names : \A x : Has(t2, m, x) <=> IF m = n THEN In(l2, x) ELSE Has(t, m, x)
    BY <1>2, <1>4, <2>1, SwappedIsGood
  <2>4. \A m \in Names : \A x : Has(t2, m, x) <=> Has(t, m, x) /\ ~ (m = n /\ x.iId = id)
    BY <1>2, <2>2, <2>3
  <2> QED BY <2>3, <2>4 DEF t2
<1>5. (t2 = t /\ l2 = l) \/ Swapped(t, n, l2, t2)
  <2>1. CASE n = Star
    <3>1. l = t.iAgentsAttachedToAll
      BY <2>1 DEF AgentsOf
    <3>2. CASE HasAgent(t, n, id)
      <4>1. t2 = [t EXCEPT !.iAgentsAttachedToAll = l2]
        BY <2>1, <3>1, <3>2 DEF DetachProcess
      <4> HIDE DEF l2, t2
      <4> QED BY <1>1, <2>1, <4>1, SwapAll
    <3>3. CASE ~ HasAgent(t, n, id)
      <4>1. t2 = t
        BY <2>1, <3>3 DEF DetachProcess
      <4>2. \A i \in 1 .. Len(l) : l[i].iId # id
        BY <3>3, Lookup DEF Kept, Has, In
      <4>3. l2 = l
        BY <4>2, NoPlace
      <4> QED BY <4>1, <4>3
    <3> QED BY <3>2, <3>3
  <2>2. CASE n # Star /\ Exe[n] \notin DOMAIN t.iProcesses
    <3>1. t2 = t /\ l = <<>>
      BY <2>2 DEF DetachProcess, AgentsOf
    <3>2. l2 = l
      BY <3>1, NoPlace
    <3> QED BY <3>1, <3>2
  <2>3. CASE n # Star /\ Exe[n] \in DOMAIN t.iProcesses
    <3> DEFINE P == t.iProcesses
               procs == IF l2 = <<>> THEN Restrict(P, DOMAIN P \ {Exe[n]}) ELSE [P EXCEPT ![Exe[n]] = l2]
    <3>1. l = P[Exe[n]]
      BY <2>3 DEF AgentsOf
    <3>2. t2 = [t EXCEPT !.iProcesses = procs]
      BY <2>3, <3>1 DEF DetachProcess
    <3>3. P \in [DOMAIN P -> Seq(Agent)] /\ l2 \in Seq(Agent)
      BY <1>1, <1>2 DEF TrackerShape, GoodList
    <3> HIDE DEF P, l2, t2, l
    <3>4. /\ procs \in [DOMAIN procs -> Seq(Agent)] /\ AgentsIn(procs, Exe[n]) = l2
          /\ \A e : e # Exe[n] => AgentsIn(procs, e) = AgentsIn(P, e)
      <4>1. CASE l2 = <<>>
        <5>1. /\ procs = [e \in DOMAIN P \ {Exe[n]} |-> P[e]]
              /\ DOMAIN procs = DOMAIN P \ {Exe[n]}
          BY <4>1 DEF Restrict
        <5>2. procs \in [DOMAIN procs -> Seq(Agent)]
          BY <3>3, <5>1
        <5> HIDE DEF procs
        <5> QED BY <4>1, <5>1, <5>2 DEF AgentsIn
      <4>2. CASE l2 # <<>>
        <5>1. procs = [P EXCEPT ![Exe[n]] = l2]
          BY <4>2
        <5> HIDE DEF procs
        <5>2. procs \in [DOMAIN P -> Seq(Agent)] /\ DOMAIN procs = DOMAIN P
          BY <3>3, <5>1
        <5>3. procs[Exe[n]] = l2 /\ \A e \in DOMAIN P : e # Exe[n] => procs[e] = P[e]
          BY <2>3, <3>3, <5>1 DEF P
        <5> QED BY <2>3, <5>2, <5>3 DEF AgentsIn, P
      <4> QED BY <4>1, <4>2
    <3> HIDE DEF procs
    <3>5. Swapped(t, n, l2, [t EXCEPT !.iProcesses = procs])
      BY <1>1, <2>3, <3>4, SwapOne DEF P
    <3> QED BY <3>2, <3>5
  <2> QED BY <2>1, <2>2, <2>3
<1> QED BY <1>3, <1>4, <1>5

\* Of several agents of a list the first is removed.
LEMMA RemoveAgentType ==
  ASSUME NEW l \in Seq(Agent), NEW id
  PROVE  RemoveAgent(l, id) \in Seq(Agent)
<1> DEFINE I == {k \in 1 .. Len(l) : l[k].iId = id}
<1>1. CASE \E k \in 1 .. Len(l) : l[k].iId = id
  <2>1. I # {} /\ I \in SUBSET Nat
    BY <1>1
  <2> HIDE DEF I
  <2>2. Min(I) \in I
    BY <2>1, MinOfNaturals
  <2>3. SelectInSeq(l, LAMBDA a : a.iId = id) = IF I # {} THEN Min(I) ELSE 0
    BY DEF SelectInSeq, I
  <2>4. SelectInSeq(l, LAMBDA a : a.iId = id) \in 1 .. Len(l)
    BY <2>1, <2>2, <2>3 DEF I
  <2>5. RemoveAgent(l, id) = RemoveAt(l, SelectInSeq(l, LAMBDA a : a.iId = id))
    BY <1>1 DEF RemoveAgent, RemoveFirstMatch
  <2> DEFINE p == SelectInSeq(l, LAMBDA a : a.iId = id)
  <2>6. p \in 1 .. Len(l) /\ RemoveAgent(l, id) = RemoveAt(l, p)
    BY <2>4, <2>5
  <2> HIDE DEF p
  <2> QED BY <2>6, RemoveAtIndex
<1>2. CASE ~ \E k \in 1 .. Len(l) : l[k].iId = id
  BY <1>2, NoPlace
<1> QED BY <1>1, <1>2

\* One agent at most is attached to all.
LEMMA OneAtMost ==
  ASSUME OneAttachesToAll, NEW t, GoodTracker(t)
  PROVE  Len(t.iAgentsAttachedToAll) \in {0, 1} /\ GoodList(t.iAgentsAttachedToAll)
<1> DEFINE l == t.iAgentsAttachedToAll
<1>1. GoodList(l) /\ \A a : In(l, a) => a.iId \in AllTokenAgents
  BY NameAssumption DEF GoodTracker, AgentsOf
<1> HIDE DEF l
<1>2. l \in Seq(Agent) /\ Len(l) \in Nat
  BY <1>1 DEF GoodList
<1>3. ASSUME Len(l) > 1 PROVE FALSE
  <2>1. 1 \in 1 .. Len(l) /\ 2 \in 1 .. Len(l)
    BY <1>2, <1>3
  <2>2. l[1].iId \in AllTokenAgents /\ l[2].iId \in AllTokenAgents
    BY <1>1, <2>1 DEF In
  <2>3. l[1] \in Agent /\ l[2] \in Agent
    BY <1>2, <2>1
  <2>4. l[1].iId = l[2].iId
    BY <2>2, <2>3 DEF Agent, OneAttachesToAll
  <2> QED BY <1>1, <2>1, <2>4 DEF GoodList
<1>4. Len(l) \in {0, 1}
  <2> DEFINE k == Len(l)
  <2>1. k \in Nat /\ ~ (k > 1)
    BY <1>2, <1>3
  <2> HIDE DEF k
  <2>2. k \in {0, 1}
    BY <2>1
  <2> QED BY <2>2 DEF k
<1> QED BY <1>1, <1>4 DEF l

\* DetachAgent removes the agent everywhere.
LEMMA AgentGone ==
  ASSUME SpellingsApart, OneAttachesToAll, NEW t, GoodTracker(t), NEW id
  PROVE  /\ ~ DetachAgent(t, id).fault
         /\ GoodTracker(DetachAgent(t, id).tracker)
         /\ \A m \in Names : \A x : Has(DetachAgent(t, id).tracker, m, x) <=> Has(t, m, x) /\ x.iId # id
<1> DEFINE P == t.iProcesses
           all == t.iAgentsAttachedToAll
           left == [e \in DOMAIN P |-> RemoveAgent(P[e], id)]
           procs == DropUntracked(left)
           D == {e \in DOMAIN P : left[e] # <<>>}
           t2 == DetachAgent(t, id).tracker
<1>1. t2 = [iProcesses |-> procs, iAgentsAttachedToAll |-> RemoveAgent(all, id)]
      /\ DetachAgent(t, id).fault = FaultFromAll(all, id)
  BY DEF DetachAgent
<1>2. Len(all) \in {0, 1}
  BY OneAtMost
<1>3. ~ FaultFromAll(all, id)
  <2> DEFINE k == Len(all)
  <2>1. k \in {0, 1}
    BY <1>2
  <2> HIDE DEF k
  <2>2. 1 .. k - 1 = {}
    BY <2>1
  <2> QED BY <2>2 DEF FaultFromAll, k
<1>4. P \in [DOMAIN P -> Seq(Agent)]
  BY DEF GoodTracker, TrackerShape
<1> HIDE DEF P, all, t2
<1>5. left \in [DOMAIN P -> Seq(Agent)] /\ DOMAIN left = DOMAIN P
  BY <1>4, RemoveAgentType
<1>6. /\ procs = [e \in D |-> left[e]] /\ DOMAIN procs = D
      /\ procs \in [DOMAIN procs -> Seq(Agent)]
  BY <1>5 DEF DropUntracked, Restrict
<1>7. ASSUME NEW n \in Names PROVE AgentsOf(t2, n) = RemoveAgent(AgentsOf(t, n), id)
  <2>1. t2.iProcesses = procs /\ t2.iAgentsAttachedToAll = RemoveAgent(all, id)
    BY <1>1
  <2>2. CASE n = Star
    BY <2>1, <2>2 DEF AgentsOf, all
  <2>3. CASE n # Star /\ Exe[n] \in DOMAIN P
    <3>1. left[Exe[n]] = RemoveAgent(AgentsOf(t, n), id)
      BY <2>3 DEF AgentsOf, P
    <3>2. AgentsOf(t2, n) = left[Exe[n]]
      <4> HIDE DEF procs, left
      <4> QED BY <1>6, <2>1, <2>3 DEF AgentsOf
    <3> QED BY <3>1, <3>2
  <2>4. CASE n # Star /\ Exe[n] \notin DOMAIN P
    <3>1. AgentsOf(t, n) = <<>> /\ RemoveAgent(<<>>, id) = <<>>
      BY <2>4, NoPlace DEF AgentsOf, P
    <3>2. AgentsOf(t2, n) = <<>>
      <4> HIDE DEF procs, left
      <4> QED BY <1>6, <2>1, <2>4 DEF AgentsOf
    <3> QED BY <3>1, <3>2
  <2> QED BY <2>2, <2>3, <2>4
<1>8. TrackerShape(t2)
  <2> HIDE DEF procs
  <2> QED BY <1>1, <1>6 DEF TrackerShape
<1>9. ASSUME NEW n \in Names
      PROVE  /\ GoodList(AgentsOf(t2, n))
             /\ \A x : Has(t2, n, x) <=> Has(t, n, x) /\ x.iId # id
  <2>1. GoodList(AgentsOf(t, n))
    BY DEF GoodTracker
  <2>2. /\ GoodList(RemoveAgent(AgentsOf(t, n), id))
        /\ \A x : In(RemoveAgent(AgentsOf(t, n), id), x) <=> In(AgentsOf(t, n), x) /\ x.iId # id
    <3> DEFINE l == AgentsOf(t, n)
    <3>1. GoodList(l)
      BY <2>1
    <3> HIDE DEF l
    <3>2. GoodList(RemoveAgent(l, id)) /\ \A x : In(RemoveAgent(l, id), x) <=> In(l, x) /\ x.iId # id
      BY <3>1, AgentRemoved
    <3> QED BY <3>2 DEF l
  <2> QED BY <1>7, <2>2 DEF Has
<1>10. GoodTracker(t2)
  <2>1. \A a : In(AgentsOf(t2, Star), a) => a.iId \in AllTokenAgents
    BY <1>9, NameAssumption DEF GoodTracker, Has
  <2> QED BY <1>8, <1>9, <2>1 DEF GoodTracker
<1> QED BY <1>1, <1>3, <1>9, <1>10 DEF t2

\* The agents of the list for the name n were told of an event, and answered
\* are the requests of those that listen.
Told(t, n, t2, answered) ==
  /\ GoodTracker(t2)
  /\ \A m \in Names : \A x : Has(t2, m, x) <=>
       IF m = n THEN \E y : Has(t, n, y) /\ x = NotifyEvent(y) ELSE Has(t, m, x)
  /\ \A r : r \in answered <=>
       r # NoHandler /\ \E y : Has(t, n, y) /\ y.listening /\ y.iRequestGetEventStatus = r

LEMMA AnsweredAre ==
  ASSUME NEW l, GoodList(l), NEW r
  PROVE  r \in Answered(l) <=>
           r # NoHandler /\ \E y : In(l, y) /\ y.listening /\ y.iRequestGetEventStatus = r
<1>1. \A y : y \in ToSet(l) <=> In(l, y)
  BY DEF ToSet, In, GoodList
<1> QED BY <1>1 DEF Answered

LEMMA ListTold ==
  ASSUME NEW t, GoodTracker(t), NEW n \in Names, NEW t2, Swapped(t, n, NotifyAll(AgentsOf(t, n)), t2)
  PROVE  Told(t, n, t2, Answered(AgentsOf(t, n)))
<1> DEFINE l == AgentsOf(t, n)
<1>1. GoodList(l) /\ \A x : In(l, x) <=> Has(t, n, x)
  BY DEF GoodTracker, Has
<1>2. n = Star => \A x : In(l, x) => x.iId \in AllTokenAgents
  BY DEF GoodTracker
<1>3. Swapped(t, n, NotifyAll(l), t2)
  OBVIOUS
<1> HIDE DEF l
<1> DEFINE l2 == NotifyAll(l)
<1>4. GoodList(l2) /\ \A x : In(l2, x) <=> \E y : In(l, y) /\ x = NotifyEvent(y)
  BY <1>1, AgentsNotified
<1>5. n = Star => \A x : In(l2, x) => x.iId \in AllTokenAgents
  <2> SUFFICES ASSUME n = Star, NEW x, In(l2, x) PROVE x.iId \in AllTokenAgents
    OBVIOUS
  <2>1. PICK y : In(l, y) /\ x = NotifyEvent(y)
    BY <1>4
  <2>2. y \in Agent
    BY <1>1, <2>1, InType
  <2> QED BY <1>2, <2>1, <2>2, NotifyType
<1>6. Swapped(t, n, l2, t2)
  BY <1>3
<1> HIDE DEF l2
<1>7. /\ GoodTracker(t2)
      /\ \A m \in Names : \A x : Has(t2, m, x) <=> IF m = n THEN In(l2, x) ELSE Has(t, m, x)
  BY <1>4, <1>5, <1>6, SwappedIsGood
<1>8. \A r : r \in Answered(l) <=>
         r # NoHandler /\ \E y : Has(t, n, y) /\ y.listening /\ y.iRequestGetEventStatus = r
  BY <1>1, AnsweredAre
<1>9. \A m \in Names : \A x : Has(t2, m, x) <=>
       IF m = n THEN \E y : Has(t, n, y) /\ x = NotifyEvent(y) ELSE Has(t, m, x)
  BY <1>1, <1>4, <1>7
<1> QED BY <1>7, <1>8, <1>9 DEF Told, l

\* An event tells the agents of the process, or those attached to all.
LEMMA AgentsTold ==
  ASSUME SpellingsApart, OneAttachesToAll, NEW t, GoodTracker(t), NEW e \in Executables
  PROVE  \E n \in Names :
           /\ Told(t, n, NotifyAgentsForProcessEvent(t, e).tracker, NotifyAgentsForProcessEvent(t, e).answered)
           /\ e \in DOMAIN t.iProcesses => n # Star /\ Exe[n] = e
<1> DEFINE N == NotifyAgentsForProcessEvent(t, e)
           P == t.iProcesses
           all == t.iAgentsAttachedToAll
<1>1. TrackerShape(t) /\ P \in [DOMAIN P -> Seq(Agent)]
  BY DEF GoodTracker, TrackerShape
<1>2. CASE e \in DOMAIN P
  <2>1. PICK n \in Names : n # Star /\ Exe[n] = e
    BY DEF Executables
  <2> DEFINE l == AgentsOf(t, n)
             procs == [P EXCEPT ![e] = NotifyAll(l)]
  <2>2. l = P[e] /\ GoodList(l)
    BY <1>2, <2>1 DEF AgentsOf, GoodTracker
  <2>3. N.tracker = [t EXCEPT !.iProcesses = procs] /\ N.answered = Answered(l)
    BY <1>2, <2>2 DEF NotifyAgentsForProcessEvent
  <2>4. NotifyAll(l) \in Seq(Agent)
    <3> HIDE DEF l
    <3> QED BY <2>2, AgentsNotified DEF GoodList
  <2> HIDE DEF l, N, P
  <2>5. /\ procs \in [DOMAIN P -> Seq(Agent)] /\ DOMAIN procs = DOMAIN P /\ procs[e] = NotifyAll(l)
        /\ \A f \in DOMAIN P : f # e => procs[f] = P[f]
    BY <1>1, <1>2, <2>4
  <2> HIDE DEF procs
  <2>6. AgentsIn(procs, Exe[n]) = NotifyAll(l)
        /\ \A f : f # Exe[n] => AgentsIn(procs, f) = AgentsIn(t.iProcesses, f)
    BY <1>2, <2>1, <2>5 DEF AgentsIn, P
  <2> DEFINE l2 == NotifyAll(l)
  <2>7. AgentsIn(procs, Exe[n]) = l2 /\ procs \in [DOMAIN procs -> Seq(Agent)]
    BY <2>5, <2>6
  <2> HIDE DEF l2
  <2>8. Swapped(t, n, l2, [t EXCEPT !.iProcesses = procs])
    BY <1>1, <2>1, <2>6, <2>7, SwapOne
  <2>9. Told(t, n, N.tracker, Answered(AgentsOf(t, n)))
    BY <2>3, <2>8, ListTold DEF l, l2
  <2> QED BY <2>1, <2>3, <2>9 DEF N, l
<1>3. CASE e \notin DOMAIN P
  <2>1. Star \in Names /\ AgentsOf(t, Star) = all
    BY NameAssumption DEF AgentsOf
  <2>2. Len(all) \in {0, 1} /\ GoodList(all)
    BY OneAtMost
  <2>3. /\ N.tracker = [t EXCEPT !.iAgentsAttachedToAll = NotifyLast(all)]
        /\ N.answered = IF all = <<>> THEN {} ELSE Answered(<<Last(all)>>)
    BY <1>3 DEF NotifyAgentsForProcessEvent
  <2> HIDE DEF all, N
  <2>4. all \in Seq(Agent)
    BY <2>2 DEF GoodList
  <2>5. NotifyLast(all) = NotifyAll(all)
    <3>1. CASE Len(all) = 0
      <4>1. all = <<>>
        BY <2>4, <3>1, EmptySeq
      <4>2. DOMAIN NotifyAll(all) = {}
        BY <4>1 DEF NotifyAll
      <4> QED BY <4>1, <4>2 DEF NotifyLast, NotifyAll
    <3>2. CASE Len(all) = 1
      <4>1. all # <<>> /\ DOMAIN all = {1}
        <5>1. DOMAIN all = 1 .. 1 /\ all # <<>>
          BY <2>4, <3>2, EmptySeq, LenProperties
        <5> QED BY <5>1
      <4>2. NotifyLast(all) = [i \in {1} |-> NotifyEvent(all[i])]
        BY <3>2, <4>1 DEF NotifyLast
      <4> QED BY <4>1, <4>2 DEF NotifyAll
    <3> QED BY <2>2, <3>1, <3>2
  <2>6. N.answered = Answered(all)
    <3>1. CASE Len(all) = 0
      <4>1. all = <<>>
        BY <2>4, <3>1, EmptySeq
      <4>2. ToSet(all) = {}
        BY <4>1 DEF ToSet
      <4> QED BY <2>3, <4>1, <4>2 DEF Answered
    <3>2. CASE Len(all) = 1
      <4>1. all # <<>> /\ <<Last(all)>> = all
        <5>1. all # <<>> /\ Last(all) = all[1] /\ all[1] \in Agent
          BY <2>4, <3>2, EmptySeq DEF Last
        <5> DEFINE one == <<Last(all)>>
        <5>2. one \in Seq(Agent) /\ Len(one) = 1 /\ one[1] = all[1]
          BY <5>1
        <5> HIDE DEF one
        <5>3. one = all
          BY <2>4, <3>2, <5>2, SeqEqual
        <5> QED BY <5>1, <5>3 DEF one
      <4> QED BY <2>3, <4>1
    <3> QED BY <2>2, <3>1, <3>2
  <2> DEFINE l2 == NotifyAll(all)
  <2>7. N.tracker = [t EXCEPT !.iAgentsAttachedToAll = l2]
    BY <2>3, <2>5
  <2> HIDE DEF l2
  <2>8. Swapped(t, Star, l2, N.tracker)
    BY <1>1, <2>7, SwapAll
  <2>9. Told(t, Star, N.tracker, Answered(AgentsOf(t, Star)))
    BY <2>1, <2>8, ListTold DEF l2
  <2> QED BY <1>3, <2>1, <2>6, <2>9 DEF N
<1> QED BY <1>2, <1>3

-----------------------------------------------------------------------------
(* The maps of the server, the handlers of the sessions, the agents of the *)
(* driver and their requests.                                              *)

\* The agent id for the name n waits with the request r.
Asks(t, n, id, r) == \E x : Has(t, n, x) /\ x.iId = id /\ x.iRequestGetEventStatus = r

\* The request of handler r is pending, for the name n and the agent id.
Waits(hd, n, id, r) ==
  hd[r].active /\ hd[r].iStatus = "pending" /\ hd[r].iProcessName = n /\ hd[r].iAgentId = id

Requests(hd, t) ==
  \A n \in Names : \A id : \A r \in Handlers : Asks(t, n, id, r) <=> Waits(hd, n, id, r)

Mapped(active, passive, t) ==
  /\ active \subseteq Pairs /\ passive \subseteq Pairs /\ active \cap passive = {}
  /\ \A n \in Names, s \in Sessions : Pair(n, AgentOf[s]) \in active \cup passive <=> Kept(t, n, AgentOf[s])

\* A session has one handler for each name that it is attached to, until it
\* begins to end.
Members(lists, hd, t, busy) ==
  /\ \A s, i, h : At(lists, s, i, h) =>
       hd[h].iAgentId = AgentOf[s] /\ Kept(t, hd[h].iProcessName, AgentOf[s])
  /\ \A s, i, j, g, h : At(lists, s, i, g) /\ At(lists, s, j, h)
                          /\ hd[g].iProcessName = hd[h].iProcessName => g = h
  /\ \A s \in Sessions \ busy, n \in Names : Kept(t, n, AgentOf[s]) =>
       \E i, h : At(lists, s, i, h) /\ hd[h].iProcessName = n

Books == /\ GoodTracker(tracker) /\ Mapped(iActiveDebugMap, iPassiveDebugMap, tracker)
         /\ Members(iAsyncHandlers, handler, tracker, closing) /\ Requests(handler, tracker)

\* The agent of handler h is there and waits with the request of no other.
Alone(hd, t, h) ==
  /\ Kept(t, hd[h].iProcessName, hd[h].iAgentId)
  /\ \A g \in Handlers : Waits(hd, hd[h].iProcessName, hd[h].iAgentId, g) => g = h

\* No other handler waits for the pair of a handler of a list.
LEMMA MemberIsAlone ==
  ASSUME AgentsApart, NEW lists, NEW hd, NEW ms, NEW t, NEW busy,
         Members(lists, hd, t, busy), Holding(lists, hd, ms),
         NEW s, NEW i, NEW h, At(lists, s, i, h)
  PROVE  Alone(hd, t, h)
<1>1. hd[h].iAgentId = AgentOf[s] /\ Kept(t, hd[h].iProcessName, AgentOf[s]) /\ s \in Sessions
  BY DEF Members, At
<1>2. ASSUME NEW g \in Handlers, Waits(hd, hd[h].iProcessName, hd[h].iAgentId, g) PROVE g = h
  <2>1. PICK u, j : At(lists, u, j, g)
    BY <1>2 DEF Waits, Holding
  <2>2. hd[g].iAgentId = AgentOf[u] /\ u \in Sessions
    BY <2>1 DEF Members, At
  <2>3. u = s
    BY <1>1, <1>2, <2>2 DEF AgentsApart, Waits
  <2> QED BY <1>2, <2>1, <2>3 DEF Members, Waits
<1> QED BY <1>1, <1>2 DEF Alone

\* Handler h no longer waits; nobody else is touched and no agent goes away.
LetGo(hd, t, h, hd2, t2) ==
  /\ ~ hd2[h].active /\ \A g \in Handlers \ {h} : hd2[g] = hd[g]
  /\ GoodTracker(t2)
  /\ \A n \in Names : \A id : Kept(t2, n, id) <=> Kept(t, n, id)
  /\ \A n \in Names : \A id : \A r \in Handlers : Asks(t2, n, id, r) <=> Asks(t, n, id, r) /\ r # h

LEMMA RequestsAreLetGo ==
  ASSUME NEW hd, NEW t, NEW h \in Handlers, NEW hd2, NEW t2, Requests(hd, t), LetGo(hd, t, h, hd2, t2)
  PROVE  Requests(hd2, t2)
BY DEF Requests, LetGo, Waits

\* The agent's request is taken back.
LEMMA AgentLetsGo ==
  ASSUME SpellingsApart, NEW hd \in [Handlers -> HandlerRecord], NEW t, GoodTracker(t), Requests(hd, t),
         NEW h \in Handlers, Alone(hd, t, h), NEW a, Has(t, hd[h].iProcessName, a), a.iId = hd[h].iAgentId
  PROVE  LET t2 == WithAgent(t, hd[h].iProcessName, hd[h].iAgentId, [a EXCEPT !.iRequestGetEventStatus = NoHandler])
         IN  /\ GoodTracker(t2)
             /\ \A n \in Names : \A id : Kept(t2, n, id) <=> Kept(t, n, id)
             /\ \A n \in Names : \A id : \A r \in Handlers : Asks(t2, n, id, r) <=> Asks(t, n, id, r) /\ r # h
<1> DEFINE name == hd[h].iProcessName
           id0 == hd[h].iAgentId
           b == [a EXCEPT !.iRequestGetEventStatus = NoHandler]
           t2 == WithAgent(t, name, id0, b)
<1>1. name \in Names /\ HasAgent(t, name, id0)
  <2>1. name \in Names
    BY DEF HandlerRecord
  <2> QED BY <2>1, Lookup DEF Alone
<1>2. a \in Agent
  BY <1>1, HasType
<1>3. b \in Agent /\ b.iId = id0 /\ b.iRequestGetEventStatus = NoHandler
  BY <1>2 DEF Agent
<1>4. /\ \A g \in Handlers : Waits(hd, name, id0, g) => g = h
      /\ \A n \in Names : \A id : Waits(hd, n, id, h) => n = name /\ id = id0
  BY DEF Alone, Waits
<1>5. Has(t, name, a) /\ a.iId = id0
  OBVIOUS
<1> HIDE DEF name, id0, b
<1>6. /\ GoodTracker(t2)
      /\ \A n \in Names : \A x : Has(t2, n, x) <=>
           \/ n = name /\ x = b
           \/ Has(t, n, x) /\ ~ (n = name /\ x.iId = id0)
  BY <1>1, <1>3, AgentChanged
<1> HIDE DEF t2
<1>7. \A n \in Names : \A id : Kept(t2, n, id) <=> Kept(t, n, id)
  BY <1>3, <1>5, <1>6 DEF Kept
<1>8. \A n \in Names : \A id : \A r \in Handlers : Asks(t, n, id, r) <=> Waits(hd, n, id, r)
  BY DEF Requests
<1>9. ASSUME NEW n \in Names, NEW id, NEW r \in Handlers, Asks(t2, n, id, r)
      PROVE  Asks(t, n, id, r) /\ r # h
  <2>1. PICK x : Has(t2, n, x) /\ x.iId = id /\ x.iRequestGetEventStatus = r
    BY <1>9 DEF Asks
  <2>2. r # NoHandler
    BY NothingAssumption
  <2>3. Has(t, n, x) /\ ~ (n = name /\ x.iId = id0)
    BY <1>3, <1>6, <2>1, <2>2
  <2>4. Asks(t, n, id, r)
    BY <2>1, <2>3 DEF Asks
  <2> QED BY <1>4, <1>8, <2>1, <2>3, <2>4
<1>10. ASSUME NEW n \in Names, NEW id, NEW r \in Handlers, Asks(t, n, id, r), r # h
       PROVE  Asks(t2, n, id, r)
  <2>1. PICK x : Has(t, n, x) /\ x.iId = id /\ x.iRequestGetEventStatus = r
    BY <1>10 DEF Asks
  <2>2. ~ (n = name /\ id = id0)
    BY <1>4, <1>8, <1>10
  <2>3. Has(t2, n, x)
    BY <1>6, <2>1, <2>2
  <2> QED BY <2>1, <2>3 DEF Asks
<1>11. /\ GoodTracker(t2)
       /\ \A n \in Names : \A id : Kept(t2, n, id) <=> Kept(t, n, id)
       /\ \A n \in Names : \A id : \A r \in Handlers : Asks(t2, n, id, r) <=> Asks(t, n, id, r) /\ r # h
  BY <1>6, <1>7, <1>9, <1>10
<1> QED BY <1>11 DEF t2, name, id0, b

\* Cancel never blocks: the driver finds the request.
LEMMA MemberCancels ==
  ASSUME SpellingsApart, NEW hd \in [Handlers -> HandlerRecord], NEW ms \in [Messages -> {"free", "outstanding"}],
         NEW t, GoodTracker(t), Requests(hd, t), NEW h \in Handlers, Alone(hd, t, h), HoldsOne(hd, ms, h)
  PROVE  \E hd2, ms2, t2 :
           /\ Cancel(St("running", hd, ms, t), h) = St("running", hd2, ms2, t2)
           /\ LetGo(hd, t, h, hd2, t2) /\ hd2 \in [Handlers -> HandlerRecord]
           /\ hd2[h].iProcessName = hd[h].iProcessName /\ hd2[h].iAgentId = hd[h].iAgentId
<1> DEFINE st == St("running", hd, ms, t)
           name == hd[h].iProcessName
           id0 == hd[h].iAgentId
           m == hd[h].iMessage
<1>1. st.server = "running" /\ st.handler = hd /\ st.message = ms /\ st.tracker = t
  BY DEF St
<1>2. name \in Names /\ HasAgent(t, name, id0) /\ h # NoHandler
  <2>1. name \in Names
    BY DEF HandlerRecord
  <2> QED BY <2>1, Lookup, NothingAssumption DEF Alone
<1>3. \A n \in Names : \A id : \A r \in Handlers : Asks(t, n, id, r) <=> Waits(hd, n, id, r)
  BY DEF Requests
<1>4. CASE ~ hd[h].active
  <2>1. Cancel(st, h) = st
    BY <1>1, <1>4 DEF Cancel
  <2>2. LetGo(hd, t, h, hd, t)
    BY <1>3, <1>4 DEF LetGo, Waits
  <2> QED BY <2>1, <2>2
<1>5. CASE hd[h].active
  <2> DEFINE a == FindAgentForProcessAndId(t, name, id0)
             w == a.iRequestGetEventStatus
             t2 == WithAgent(t, name, id0, [a EXCEPT !.iRequestGetEventStatus = NoHandler])
             hd2 == IF w = NoHandler THEN hd ELSE [hd EXCEPT ![w].iStatus = "KErrCancel"]
             ms2 == [ms EXCEPT ![m] = "free"]
  <2>1. DriverCancel(st, h) = [st EXCEPT !.tracker = t2, !.handler = hd2]
    BY <1>1, <1>2 DEF DriverCancel
  <2>2. Has(t, name, a) /\ a.iId = id0
    BY <1>2, Lookup
  <2> HIDE DEF a
  <2>3. a \in Agent
    BY <1>2, <2>2, HasType
  <2>4. w = NoHandler \/ w = h
    <3>1. CASE w # NoHandler
      <4>1. w \in Handlers
        BY <2>3, <3>1 DEF Agent
      <4>2. Asks(t, name, id0, w)
        BY <2>2 DEF Asks
      <4>3. Waits(hd, name, id0, w)
        BY <1>2, <1>3, <4>1, <4>2
      <4> QED BY <4>1, <4>3 DEF Alone
    <3> QED BY <3>1
  <2>5. w = NoHandler => hd[h].iStatus # "pending"
    <3> SUFFICES ASSUME w = NoHandler, hd[h].iStatus = "pending" PROVE FALSE
      OBVIOUS
    <3>1. Asks(t, name, id0, h)
      BY <1>2, <1>3, <1>5 DEF Waits
    <3>2. PICK x : Has(t, name, x) /\ x.iId = id0 /\ x.iRequestGetEventStatus = h
      BY <3>1 DEF Asks
    <3>3. x = a
      BY <1>2, <2>2, <3>2, HasOne
    <3> QED BY <1>2, <3>2, <3>3
  <2> HIDE DEF w
  <2>6. /\ hd2 \in [Handlers -> HandlerRecord] /\ hd2[h].iStatus # "pending"
        /\ \A g \in Handlers \ {h} : hd2[g] = hd[g]
        /\ hd2[h].iProcessName = name /\ hd2[h].iAgentId = id0
    <3>1. CASE w = NoHandler
      BY <2>5, <3>1
    <3>2. CASE w # NoHandler
      <4>1. hd2 = [hd EXCEPT ![h] = [hd[h] EXCEPT !.iStatus = "KErrCancel"]]
        BY <2>4, <3>2
      <4> DEFINE rec == [hd[h] EXCEPT !.iStatus = "KErrCancel"]
      <4>2. /\ rec \in HandlerRecord /\ rec.iStatus = "KErrCancel"
            /\ rec.iProcessName = name /\ rec.iAgentId = id0
        <5>1. hd[h] \in HandlerRecord
          OBVIOUS
        <5> QED BY <5>1 DEF HandlerRecord
      <4> HIDE DEF rec, hd2, name, id0
      <4> QED BY <4>1, <4>2 DEF rec
    <3> QED BY <3>1, <3>2
  <2>7. /\ GoodTracker(t2)
        /\ \A n \in Names : \A id : Kept(t2, n, id) <=> Kept(t, n, id)
        /\ \A n \in Names : \A id : \A r \in Handlers : Asks(t2, n, id, r) <=> Asks(t, n, id, r) /\ r # h
    BY <2>2, AgentLetsGo
  <2> HIDE DEF t2, hd2
  <2>8. DriverCancel(st, h) = St("running", hd2, ms, t2)
    BY <2>1 DEF St
  <2>9. m \in Messages /\ ms[m] = "outstanding" /\ m # NoMessage
    BY <1>5, NothingAssumption DEF HoldsOne
  <2> DEFINE done == Complete(DriverCancel(st, h), m)
             rec == [hd2[h] EXCEPT !.active = FALSE, !.iMessage = NoMessage]
             hd3 == [hd2 EXCEPT ![h] = rec]
  <2>10. done = St("running", hd2, ms2, t2)
    <3>1. DriverCancel(st, h).message = ms
      BY <2>8 DEF St
    <3>2. done = [St("running", hd2, ms, t2) EXCEPT !.message[m] = "free"]
      BY <2>8, <2>9, <3>1 DEF Complete
    <3> QED BY <3>2 DEF St
  <2>11. Cancel(st, h) = IF done.server # "running" THEN done
                         ELSE IF done.handler[h].iStatus = "pending"
                              THEN [done EXCEPT !.server = "blocked"]
                              ELSE [done EXCEPT !.handler[h] =
                                      [@ EXCEPT !.active = FALSE, !.iMessage = NoMessage]]
    <3>1. st.server = "running" /\ st.handler[h].active /\ st.handler[h].iMessage = m
      BY <1>1, <1>5
    <3> HIDE DEF st
    <3> QED BY <3>1 DEF Cancel
  <2> HIDE DEF done, m, ms2
  <2>12. Cancel(st, h) = [St("running", hd2, ms2, t2) EXCEPT !.handler[h] = rec]
    BY <2>6, <2>10, <2>11 DEF St
  <2>13. Cancel(st, h) = St("running", hd3, ms2, t2)
    <3> HIDE DEF rec
    <3> QED BY <2>12 DEF St
  <2>14. /\ rec \in HandlerRecord /\ ~ rec.active
         /\ rec.iProcessName = name /\ rec.iAgentId = id0
    <3>1. hd2[h] \in HandlerRecord /\ hd2[h].iProcessName = name /\ hd2[h].iAgentId = id0
      BY <2>6
    <3> HIDE DEF name, id0
    <3> QED BY <3>1 DEF HandlerRecord
  <2> HIDE DEF rec
  <2>15. hd3 \in [Handlers -> HandlerRecord] /\ hd3[h] = rec /\ \A g \in Handlers \ {h} : hd3[g] = hd[g]
    BY <2>6, <2>14
  <2> HIDE DEF hd3
  <2>16. LetGo(hd, t, h, hd3, t2)
    BY <2>7, <2>14, <2>15 DEF LetGo
  <2> QED BY <2>13, <2>14, <2>15, <2>16
<1> QED BY <1>4, <1>5

\* The destructor of a handler lets its request go, and does not block.
LEMMA MemberDestroyed ==
  ASSUME SpellingsApart, NEW hd \in [Handlers -> HandlerRecord], NEW ms \in [Messages -> {"free", "outstanding"}],
         NEW t, GoodTracker(t), Requests(hd, t), NEW h \in Handlers, Alone(hd, t, h), HoldsOne(hd, ms, h)
  PROVE  \E hd2, ms2, t2 :
           /\ Destroy(St("running", hd, ms, t), h) = St("running", hd2, ms2, t2)
           /\ LetGo(hd, t, h, hd2, t2)
<1>1. PICK hd2, ms2, t2 :
        /\ Cancel(St("running", hd, ms, t), h) = St("running", hd2, ms2, t2)
        /\ LetGo(hd, t, h, hd2, t2) /\ hd2 \in [Handlers -> HandlerRecord]
  BY MemberCancels
<1> DEFINE hd3 == [hd2 EXCEPT ![h] = FreeHandler]
<1>2. Destroy(St("running", hd, ms, t), h) = St("running", hd3, ms2, t2)
  BY <1>1 DEF Destroy, St
<1>3. hd3[h] = FreeHandler /\ \A g \in Handlers \ {h} : hd3[g] = hd2[g]
  BY <1>1
<1> HIDE DEF hd3
<1>4. LetGo(hd, t, h, hd3, t2)
  BY <1>1, <1>3, FreeIsRecord DEF LetGo
<1> QED BY <1>2, <1>4

\* Orderly clients spell each executable in one way: a pair is its name and its id.
LEMMA PairsApart ==
  ASSUME SpellingsApart, NEW m \in Names, NEW n \in Names, NEW a, NEW b
  PROVE  Pair(m, a) = Pair(n, b) <=> m = n /\ a = b
<1>1. Pair(m, a).exe = Exe[m] /\ Pair(m, a).agent = a /\ Pair(n, b).exe = Exe[n] /\ Pair(n, b).agent = b
  BY DEF Pair
<1> QED BY <1>1 DEF SpellingsApart

LEMMA PairIsOne ==
  ASSUME NEW n \in Names, NEW s \in Sessions
  PROVE  Pair(n, AgentOf[s]) \in Pairs
<1>1. Exe[n] \in Executables \cup {Star}
  BY NameAssumption DEF Executables
<1> QED BY <1>1 DEF Pair, Pairs, Agents

\* The same agents are kept for the same names.
SameKept(t, t2) == \A n \in Names : \A id : Kept(t2, n, id) <=> Kept(t, n, id)

\* Steps that keep the agents of all names keep what is said of the maps and the lists.
LEMMA MappedStays ==
  ASSUME NEW active, NEW passive, NEW t, NEW t2, Mapped(active, passive, t), SameKept(t, t2)
  PROVE  Mapped(active, passive, t2)
BY DEF Mapped, SameKept

LEMMA MembersStay ==
  ASSUME NEW lists \in [Sessions -> Seq(Handlers)], NEW hd \in [Handlers -> HandlerRecord], NEW t, NEW busy,
         Members(lists, hd, t, busy), NEW hd2, NEW t2, SameKept(t, t2),
         \A g \in Handlers : hd2[g].iProcessName = hd[g].iProcessName /\ hd2[g].iAgentId = hd[g].iAgentId
  PROVE  Members(lists, hd2, t2, busy)
<1>1. \A s, i, h : At(lists, s, i, h) =>
        /\ h \in Handlers /\ hd[h].iProcessName \in Names /\ s \in Sessions
        /\ hd2[h].iProcessName = hd[h].iProcessName /\ hd2[h].iAgentId = hd[h].iAgentId
  <2> SUFFICES ASSUME NEW s, NEW i, NEW h, At(lists, s, i, h)
               PROVE  h \in Handlers /\ hd[h].iProcessName \in Names /\ s \in Sessions
    OBVIOUS
  <2>1. h \in Handlers /\ s \in Sessions
    BY DEF At
  <2>2. hd[h] \in HandlerRecord
    BY <2>1
  <2> QED BY <2>1, <2>2 DEF HandlerRecord
<1>2. \A s, i, h : At(lists, s, i, h) =>
        hd2[h].iAgentId = AgentOf[s] /\ Kept(t2, hd2[h].iProcessName, AgentOf[s])
  BY <1>1 DEF Members, SameKept
<1>3. \A s, i, j, g, h : At(lists, s, i, g) /\ At(lists, s, j, h)
                          /\ hd2[g].iProcessName = hd2[h].iProcessName => g = h
  BY <1>1 DEF Members
<1>4. ASSUME NEW s \in Sessions \ busy, NEW n \in Names, Kept(t2, n, AgentOf[s])
      PROVE  \E i, h : At(lists, s, i, h) /\ hd2[h].iProcessName = n
  <2>1. Kept(t, n, AgentOf[s])
    BY <1>4 DEF SameKept
  <2>2. PICK i, h : At(lists, s, i, h) /\ hd[h].iProcessName = n
    BY <2>1 DEF Members
  <2> QED BY <1>1, <2>2
<1> QED BY <1>2, <1>3, <1>4 DEF Members

\* Handler h has left the lists.
Left(lists, h, lists2) ==
  /\ \A u, i, g : At(lists2, u, i, g) => g # h /\ \E j : At(lists, u, j, g)
  /\ \A u, i, g : At(lists, u, i, g) /\ g # h => \E j : At(lists2, u, j, g)

\* The other handlers have their agents, and the agents that are kept are not
\* that of h.
OthersStay(lists, hd, h, t, busy, t2, busy2) ==
  /\ \A u, i, g : At(lists, u, i, g) /\ g # h => Kept(t2, hd[g].iProcessName, AgentOf[u])
  /\ \A u \in Sessions \ busy2, n \in Names : Kept(t2, n, AgentOf[u]) =>
       u \notin busy /\ Kept(t, n, AgentOf[u]) /\ ~ \E i : At(lists, u, i, h) /\ hd[h].iProcessName = n

LEMMA MembersFollow ==
  ASSUME NEW lists \in [Sessions -> Seq(Handlers)], NEW hd, NEW t, NEW busy, Members(lists, hd, t, busy),
         NEW h, NEW lists2, Left(lists, h, lists2),
         NEW hd2, \A g \in Handlers \ {h} : hd2[g] = hd[g], NEW t2, NEW busy2,
         OthersStay(lists, hd, h, t, busy, t2, busy2)
  PROVE  Members(lists2, hd2, t2, busy2)
<1>1. ASSUME NEW u, NEW i, NEW g, At(lists2, u, i, g)
      PROVE  g # h /\ hd2[g] = hd[g] /\ \E j : At(lists, u, j, g)
  <2>1. PICK j : At(lists, u, j, g)
    BY <1>1 DEF Left
  <2>2. g \in Handlers
    BY <2>1 DEF At
  <2> QED BY <1>1, <2>1, <2>2 DEF Left
<1>2. \A u, i, g : At(lists2, u, i, g) =>
        hd2[g].iAgentId = AgentOf[u] /\ Kept(t2, hd2[g].iProcessName, AgentOf[u])
  BY <1>1 DEF Members, OthersStay
<1>3. ASSUME NEW u, NEW i, NEW j, NEW f, NEW g, At(lists2, u, i, f), At(lists2, u, j, g),
             hd2[f].iProcessName = hd2[g].iProcessName
      PROVE  f = g
  <2>1. PICK k1 : At(lists, u, k1, f)
    BY <1>1, <1>3
  <2>2. PICK k2 : At(lists, u, k2, g)
    BY <1>1, <1>3
  <2>3. hd[f].iProcessName = hd[g].iProcessName
    BY <1>1, <1>3
  <2> QED BY <2>1, <2>2, <2>3 DEF Members
<1>4. ASSUME NEW u \in Sessions \ busy2, NEW n \in Names, Kept(t2, n, AgentOf[u])
      PROVE  \E i, g : At(lists2, u, i, g) /\ hd2[g].iProcessName = n
  <2>1. u \notin busy /\ Kept(t, n, AgentOf[u]) /\ ~ \E i : At(lists, u, i, h) /\ hd[h].iProcessName = n
    BY <1>4 DEF OthersStay
  <2>2. PICK i, g : At(lists, u, i, g) /\ hd[g].iProcessName = n
    BY <2>1 DEF Members
  <2>3. g # h
    BY <2>1, <2>2
  <2>4. PICK j : At(lists2, u, j, g)
    BY <2>2, <2>3 DEF Left
  <2> QED BY <1>1, <2>2, <2>4
<1> QED BY <1>2, <1>3, <1>4 DEF Members

\* What holds before a step, for orderly clients.
Orderly == SpellingsApart /\ AgentsApart /\ OneAttachesToAll /\ Failures \subseteq {"none", "insert"}

Whole == server \in {"running", "stopped"} /\ Sound /\ Books

\* The parts of the invariant.
LEMMA WholeParts ==
  ASSUME Whole
  PROVE  /\ iAsyncHandlers \in [Sessions -> Seq(Handlers)] /\ handler \in [Handlers -> HandlerRecord]
         /\ message \in [Messages -> {"free", "outstanding"}] /\ open \subseteq Sessions
         /\ Placed(iAsyncHandlers, handler, open) /\ Holding(iAsyncHandlers, handler, message)
         /\ GoodTracker(tracker) /\ Mapped(iActiveDebugMap, iPassiveDebugMap, tracker)
         /\ Members(iAsyncHandlers, handler, tracker, closing) /\ Requests(handler, tracker)
BY DEF Whole, Sound, Types, Books

\* A handler in a place can be destroyed, and Cancel does not block.
LEMMA MemberIsGone ==
  ASSUME Orderly, Whole, server = "running", NEW s \in Sessions, NEW i, NEW h, At(iAsyncHandlers, s, i, h)
  PROVE  /\ h \in Handlers /\ Alone(handler, tracker, h)
         /\ \E hd2, ms2, t2 : Destroy(Here, h) = St("running", hd2, ms2, t2)
                              /\ LetGo(handler, tracker, h, hd2, t2)
<1>1. h \in Handlers
  BY WholeParts DEF At
<1>2. Alone(handler, tracker, h)
  BY WholeParts, MemberIsAlone DEF Orderly
<1>3. HoldsOne(handler, message, h)
  BY <1>1, WholeParts, HoldersHoldOne
<1>4. Here = St("running", handler, message, tracker)
  BY HereIsState
<1>5. \E hd2, ms2, t2 : /\ Destroy(St("running", handler, message, tracker), h) = St("running", hd2, ms2, t2)
                        /\ LetGo(handler, tracker, h, hd2, t2)
  BY <1>1, <1>2, <1>3, WholeParts, MemberDestroyed DEF Orderly
<1> QED BY <1>1, <1>2, <1>4, <1>5

\* Handler h at place p leaves the list of s.
LEMMA PlaceLeft ==
  ASSUME NEW lists \in [Sessions -> Seq(Handlers)], NEW hd, NEW sessions, Placed(lists, hd, sessions),
         NEW s \in Sessions, NEW p \in 1 .. Len(lists[s]), NEW l2, Closes(lists[s], p, l2)
  PROVE  Left(lists, lists[s][p], [lists EXCEPT ![s] = l2])
<1> DEFINE lists2 == [lists EXCEPT ![s] = l2]
<1>1. lists2 = [lists EXCEPT ![s] = l2]
  OBVIOUS
<1> HIDE DEF lists2
<1>2. /\ \A t, i, g : At(lists2, t, i, g) =>
           At(lists, t, IF t = s /\ ~ (i < p) THEN i + 1 ELSE i, g) /\ g # lists[s][p]
      /\ \A t, i, g : At(lists, t, i, g) /\ g # lists[s][p] => \E j : At(lists2, t, j, g)
  BY <1>1, TakenOut
<1>3. \A u, i, g : At(lists2, u, i, g) => g # lists[s][p] /\ \E j : At(lists, u, j, g)
  BY <1>2
<1> QED BY <1>2, <1>3 DEF Left, lists2

\* One lemma for each action: the records keep agreeing.
LEMMA DestroyHandlerKeeps ==
  ASSUME Orderly, Whole, NEW s \in Sessions, DestroyHandler(s)
  PROVE  server' = "running" /\ Books'
<1> DEFINE l == iAsyncHandlers[s]
           h == Head(l)
           lists2 == [iAsyncHandlers EXCEPT ![s] = Tail(l)]
<1>1. /\ server = "running" /\ l # <<>> /\ closing \subseteq {s} /\ Become(Destroy(Here, h)) /\ closing' = {s}
      /\ UNCHANGED <<iActiveDebugMap, iPassiveDebugMap>>
      /\ iAsyncHandlers' = IF Destroy(Here, h).server = "running" THEN lists2 ELSE iAsyncHandlers
  BY DEF DestroyHandler
<1>2. iAsyncHandlers \in [Sessions -> Seq(Handlers)] /\ Placed(iAsyncHandlers, handler, open)
  BY WholeParts
<1>3. Closes(l, 1, Tail(l)) /\ 1 \in 1 .. Len(l) /\ h = l[1] /\ At(iAsyncHandlers, s, 1, h)
  BY <1>1, <1>2, TailCloses DEF At
<1>4. Left(iAsyncHandlers, h, lists2)
  BY <1>2, <1>3, PlaceLeft
<1> HIDE DEF h, lists2
<1>5. PICK hd2, ms2, t2 : Destroy(Here, h) = St("running", hd2, ms2, t2)
                          /\ LetGo(handler, tracker, h, hd2, t2) /\ h \in Handlers
  BY <1>1, <1>3, MemberIsGone
<1>6. server' = "running" /\ handler' = hd2 /\ tracker' = t2 /\ iAsyncHandlers' = lists2
  BY <1>1, <1>5, Becomes DEF St
<1>7. SameKept(tracker, t2) /\ GoodTracker(t2) /\ \A g \in Handlers \ {h} : hd2[g] = handler[g]
  BY <1>5 DEF LetGo, SameKept
<1>8. Requests(hd2, t2)
  BY <1>5, WholeParts, RequestsAreLetGo
<1>9. Mapped(iActiveDebugMap, iPassiveDebugMap, t2)
  BY <1>7, WholeParts, MappedStays
<1>10. Members(lists2, hd2, t2, {s})
  <2>1. \A u, i, g : At(iAsyncHandlers, u, i, g) /\ g # h => Kept(t2, handler[g].iProcessName, AgentOf[u])
    <3> SUFFICES ASSUME NEW u, NEW i, NEW g, At(iAsyncHandlers, u, i, g)
                 PROVE  Kept(t2, handler[g].iProcessName, AgentOf[u])
      OBVIOUS
    <3>1. Kept(tracker, handler[g].iProcessName, AgentOf[u])
      BY WholeParts DEF Members
    <3>2. handler[g].iProcessName \in Names
      BY WholeParts DEF At, HandlerRecord
    <3> QED BY <1>7, <3>1, <3>2 DEF SameKept
  <2>2. \A u \in Sessions \ {s}, n \in Names : Kept(t2, n, AgentOf[u]) =>
            u \notin closing /\ Kept(tracker, n, AgentOf[u])
            /\ ~ \E i : At(iAsyncHandlers, u, i, h) /\ handler[h].iProcessName = n
    <3> SUFFICES ASSUME NEW u \in Sessions \ {s}, NEW n \in Names, Kept(t2, n, AgentOf[u])
                 PROVE  u \notin closing /\ Kept(tracker, n, AgentOf[u]) /\ ~ \E i : At(iAsyncHandlers, u, i, h)
      OBVIOUS
    <3>1. u \notin closing /\ Kept(tracker, n, AgentOf[u])
      BY <1>1, <1>7 DEF SameKept
    <3>2. \A i : ~ At(iAsyncHandlers, u, i, h)
      BY <1>2, <1>3 DEF Placed
    <3> QED BY <3>1, <3>2
  <2>3. Members(iAsyncHandlers, handler, tracker, closing)
    BY WholeParts
  <2>4. OthersStay(iAsyncHandlers, handler, h, tracker, closing, t2, {s})
    BY <2>1, <2>2 DEF OthersStay
  <2> QED BY <1>2, <1>4, <1>7, <2>3, <2>4, MembersFollow
<1> QED BY <1>1, <1>6, <1>7, <1>8, <1>9, <1>10 DEF Books

\* The last agent of a session is gone.
LEMMA CloseSessionKeeps ==
  ASSUME Orderly, Whole, NEW s \in Sessions, CloseSession(s)
  PROVE  server' \in {"running", "panicked"} /\ Books'
<1> DEFINE id == AgentOf[s]
           d == DetachAgent(tracker, id)
           mine == [exe : Executables \cup {Star}, agent : {id}]
<1>1. GoodTracker(tracker) /\ SpellingsApart /\ OneAttachesToAll /\ AgentsApart
  BY WholeParts DEF Orderly
<1>2. /\ ~ d.fault /\ GoodTracker(d.tracker)
      /\ \A m \in Names : \A x : Has(d.tracker, m, x) <=> Has(tracker, m, x) /\ x.iId # id
  BY <1>1, AgentGone
<1>3. /\ server = "running" /\ iAsyncHandlers[s] = <<>> /\ closing \subseteq {s} /\ closing' = {}
      /\ tracker' = d.tracker /\ iActiveDebugMap' = iActiveDebugMap \ mine
      /\ iPassiveDebugMap' = iPassiveDebugMap \ mine /\ UNCHANGED <<iAsyncHandlers, handler>>
      /\ SessionClosed("running")
  BY <1>2 DEF CloseSession
<1> DEFINE t2 == d.tracker
<1>4. /\ GoodTracker(t2)
      /\ \A m \in Names : \A x : Has(t2, m, x) <=> Has(tracker, m, x) /\ x.iId # id
      /\ tracker' = t2
  BY <1>2, <1>3
<1> HIDE DEF t2, d
<1>5. \A n \in Names : \A i : Kept(t2, n, i) <=> Kept(tracker, n, i) /\ i # id
  BY <1>4 DEF Kept
<1>6. \A i, h : ~ At(iAsyncHandlers, s, i, h)
  BY <1>3 DEF At
<1>7. ASSUME NEW u, NEW i, NEW g, At(iAsyncHandlers, u, i, g)
      PROVE  AgentOf[u] # id /\ handler[g].iProcessName \in Names /\ u \in Sessions
  <2>1. u # s /\ u \in Sessions /\ g \in Handlers
    BY <1>6, <1>7, WholeParts DEF At
  <2>2. handler[g].iProcessName \in Names
    BY <2>1, WholeParts DEF HandlerRecord
  <2> QED BY <1>1, <2>1, <2>2 DEF AgentsApart
<1>8. Requests(handler, t2)
  <2>1. ASSUME NEW n \in Names, NEW i, NEW r \in Handlers
        PROVE  Asks(t2, n, i, r) <=> Asks(tracker, n, i, r)
    <3>1. Asks(t2, n, i, r) <=> Asks(tracker, n, i, r) /\ i # id
      BY <1>4 DEF Asks
    <3>2. ASSUME Asks(tracker, n, i, r) PROVE i # id
      <4>1. Waits(handler, n, i, r)
        BY <3>2, WholeParts DEF Requests
      <4>2. PICK u, j : At(iAsyncHandlers, u, j, r)
        BY <4>1, WholeParts DEF Waits, Holding
      <4>3. i = AgentOf[u]
        BY <4>1, <4>2, WholeParts DEF Waits, Members
      <4> QED BY <1>7, <4>2, <4>3
    <3> QED BY <3>1, <3>2
  <2> QED BY <2>1, WholeParts DEF Requests
<1>9. Members(iAsyncHandlers, handler, t2, {})
  <2>1. \A u, i, h : At(iAsyncHandlers, u, i, h) =>
          handler[h].iAgentId = AgentOf[u] /\ Kept(t2, handler[h].iProcessName, AgentOf[u])
    BY <1>5, <1>7, WholeParts DEF Members
  <2>2. ASSUME NEW u \in Sessions, NEW n \in Names, Kept(t2, n, AgentOf[u])
        PROVE  \E i, h : At(iAsyncHandlers, u, i, h) /\ handler[h].iProcessName = n
    <3>1. Kept(tracker, n, AgentOf[u]) /\ AgentOf[u] # id
      BY <1>5, <2>2
    <3>2. u \notin closing
      BY <1>3, <3>1
    <3> QED BY <3>1, <3>2, WholeParts DEF Members
  <2>3. Members(iAsyncHandlers, handler, tracker, closing)
    BY WholeParts
  <2> QED BY <2>1, <2>2, <2>3 DEF Members
<1>10. Mapped(iActiveDebugMap', iPassiveDebugMap', t2)
  <2>1. Mapped(iActiveDebugMap, iPassiveDebugMap, tracker)
    BY WholeParts
  <2>2. ASSUME NEW n \in Names, NEW u \in Sessions
        PROVE  Pair(n, AgentOf[u]) \in mine <=> AgentOf[u] = id
    <3>1. Exe[n] \in Executables \cup {Star}
      BY NameAssumption DEF Executables
    <3> QED BY <3>1 DEF Pair
  <2> HIDE DEF mine, id
  <2> QED BY <1>3, <1>5, <2>1, <2>2 DEF Mapped
<1>11. server' \in {"running", "panicked"}
  BY <1>3 DEF SessionClosed
<1> QED BY <1>3, <1>4, <1>8, <1>9, <1>10, <1>11 DEF Books

LEMMA AttachKeeps ==
  ASSUME Orderly, Whole, NEW s \in Sessions, NEW name \in Names, NEW passive \in BOOLEAN,
         NEW failure \in Failures, Attach(s, name, passive, failure)
  PROVE  server' = "running" /\ Books'
<1> DEFINE id == AgentOf[s]
           r == AttachProcess(tracker, name, id, failure)
           new == DDebugAgent(id)
           h == CHOOSE g \in Handlers : ~ handler[g].used
           undone == DetachProcess(r.tracker, name, id).tracker
           pair == IF failure = "insert" THEN {} ELSE {Pair(name, id)}
<1>1. failure \in {"none", "insert"} /\ SpellingsApart /\ AgentsApart
  BY DEF Orderly
<1>2. /\ server = "running" /\ server' = server /\ closing = {} /\ closing' = closing
      /\ Pair(name, id) \notin iActiveDebugMap \cup iPassiveDebugMap
      /\ name = Star => id \in AllTokenAgents
      /\ \E g \in Handlers : ~ handler[g].used
  BY DEF Attach, Ready, MayAttach
<1>3. GoodTracker(tracker) /\ Mapped(iActiveDebugMap, iPassiveDebugMap, tracker)
      /\ Requests(handler, tracker) /\ Members(iAsyncHandlers, handler, tracker, closing)
  BY WholeParts
<1>4. ~ Kept(tracker, name, id)
  BY <1>2, <1>3 DEF Mapped
<1>5. /\ r.err = "KErrNone" /\ GoodTracker(r.tracker)
      /\ \A m \in Names : \A x : Has(r.tracker, m, x) <=> Has(tracker, m, x) \/ (m = name /\ x = new)
  BY <1>1, <1>2, <1>3, <1>4, AgentAttached
<1>6. new.iId = id /\ new.iRequestGetEventStatus = NoHandler
  BY DEF DDebugAgent
<1>7. /\ iPassiveDebugMap' = iPassiveDebugMap \cup (IF passive THEN pair ELSE {})
      /\ iActiveDebugMap' = iActiveDebugMap \cup (IF passive THEN {} ELSE pair)
      /\ tracker' = IF failure = "insert" THEN undone ELSE r.tracker
      /\ failure = "insert" => UNCHANGED <<handler, iAsyncHandlers>>
      /\ failure = "none" => InsertHandler(s, name, h)
  <2> HIDE DEF undone
  <2> QED BY <1>1, <1>5 DEF Attach, undone
<1>8. CASE failure = "insert"
  <2> DEFINE t2 == undone
  <2>1. /\ GoodTracker(t2)
        /\ \A m \in Names : \A x : Has(t2, m, x) <=> Has(r.tracker, m, x) /\ ~ (m = name /\ x.iId = id)
    <3> HIDE DEF r, id
    <3> QED BY <1>1, <1>5, AgentDetached
  <2>2. tracker' = t2 /\ iPassiveDebugMap' = iPassiveDebugMap /\ iActiveDebugMap' = iActiveDebugMap
        /\ handler' = handler /\ iAsyncHandlers' = iAsyncHandlers
    BY <1>7, <1>8
  <2> HIDE DEF t2, undone, r, new, id
  <2>3. \A m \in Names : \A x : Has(t2, m, x) <=> Has(tracker, m, x)
    BY <1>4, <1>5, <1>6, <2>1 DEF Kept
  <2>4. SameKept(tracker, t2)
    BY <2>3 DEF SameKept, Kept
  <2>5. Requests(handler, t2)
    BY <1>3, <2>3 DEF Requests, Asks
  <2>6. Members(iAsyncHandlers, handler, t2, closing)
    BY <1>3, <2>4, WholeParts, MembersStay
  <2> QED BY <1>2, <1>3, <2>1, <2>2, <2>4, <2>5, <2>6, MappedStays DEF Books
<1>9. CASE failure = "none"
  <2> DEFINE rec == [FreeHandler EXCEPT !.iProcessName = name, !.iAgentId = AgentOf[s], !.used = TRUE]
             t2 == r.tracker
             lists2 == [iAsyncHandlers EXCEPT ![s] = <<h>> \o @]
             hd2 == [handler EXCEPT ![h] = rec]
  <2>1. h \in Handlers /\ ~ handler[h].used
    BY <1>2
  <2> HIDE DEF h
  <2>2. tracker' = t2 /\ handler' = hd2 /\ iAsyncHandlers' = lists2
    BY <1>7, <1>9 DEF InsertHandler
  <2>3. rec.iProcessName = name /\ rec.iAgentId = id /\ ~ rec.active
    BY DEF FreeHandler
  <2> HIDE DEF rec
  <2>4. hd2[h] = rec /\ \A g \in Handlers \ {h} : hd2[g] = handler[g]
    BY <2>1, WholeParts
  <2>5. \A u, i : ~ At(iAsyncHandlers, u, i, h)
    BY <2>1, WholeParts DEF Placed
  <2>6. PutFirst(iAsyncHandlers, s, h, lists2)
    <3>1. lists2 = [iAsyncHandlers EXCEPT ![s] = <<h>> \o @]
      OBVIOUS
    <3>2. iAsyncHandlers \in [Sessions -> Seq(Handlers)]
      BY WholeParts
    <3> HIDE DEF lists2
    <3> QED BY <2>1, <2>5, <3>1, <3>2, FirstPlace
  <2>7. \A u, i, g : At(lists2, u, i, g) => (u = s /\ g = h) \/ (g # h /\ \E j : At(iAsyncHandlers, u, j, g))
    BY <2>6 DEF PutFirst
  <2>8. \A u, i, g : At(iAsyncHandlers, u, i, g) => g # h /\ g \in Handlers /\ u \in Sessions /\ hd2[g] = handler[g]
    <3>1. \A u, i, g : At(iAsyncHandlers, u, i, g) => g # h /\ g \in Handlers /\ u \in Sessions
      BY <2>5, WholeParts DEF At
    <3> HIDE DEF hd2
    <3> QED BY <2>4, <3>1
  <2>9. ~ handler[h].active
    BY <2>1, <2>5, WholeParts DEF Holding
  <2> HIDE DEF hd2, lists2, t2, r, new, id
  <2>10. \A m \in Names : \A i : Kept(t2, m, i) <=> Kept(tracker, m, i) \/ (m = name /\ i = id)
    BY <1>5, <1>6 DEF Kept, t2
  <2>11. Requests(hd2, t2)
    <3>1. ASSUME NEW m \in Names, NEW i, NEW g \in Handlers
          PROVE  Asks(t2, m, i, g) <=> Asks(tracker, m, i, g)
      <4>1. g # NoHandler
        BY NothingAssumption
      <4> QED BY <1>5, <1>6, <4>1 DEF Asks, t2
    <3>2. ASSUME NEW m, NEW i, NEW g \in Handlers
          PROVE  Waits(hd2, m, i, g) <=> Waits(handler, m, i, g)
      BY <2>3, <2>4, <2>9 DEF Waits
    <3> QED BY <1>3, <3>1, <3>2 DEF Requests
  <2>12. Members(lists2, hd2, t2, {})
    <3>1. ASSUME NEW u, NEW i, NEW g, At(lists2, u, i, g)
          PROVE  hd2[g].iAgentId = AgentOf[u] /\ Kept(t2, hd2[g].iProcessName, AgentOf[u])
      <4>1. CASE u = s /\ g = h
        BY <2>3, <2>4, <2>10, <4>1 DEF id
      <4>2. CASE \E j : At(iAsyncHandlers, u, j, g)
        <5>1. hd2[g] = handler[g] /\ g \in Handlers
          BY <2>8, <4>2
        <5>2. handler[g].iAgentId = AgentOf[u] /\ Kept(tracker, handler[g].iProcessName, AgentOf[u])
          BY <1>3, <4>2 DEF Members
        <5>3. handler[g].iProcessName \in Names
          BY <5>1, WholeParts DEF HandlerRecord
        <5> QED BY <2>10, <5>1, <5>2, <5>3
      <4> QED BY <2>7, <3>1, <4>1, <4>2
    <3>2. ASSUME NEW u, NEW i, NEW j, NEW f, NEW g, At(lists2, u, i, f), At(lists2, u, j, g),
                 hd2[f].iProcessName = hd2[g].iProcessName
          PROVE  f = g
      <4>1. ASSUME NEW k, NEW e, At(iAsyncHandlers, s, k, e), hd2[e].iProcessName = name PROVE FALSE
        <5>1. handler[e].iProcessName = name
          BY <2>8, <4>1
        <5> QED BY <1>3, <1>4, <4>1, <5>1 DEF Members, id
      <4>2. CASE f = h \/ g = h
        BY <2>3, <2>4, <2>7, <3>2, <4>1, <4>2
      <4>3. CASE f # h /\ g # h
        <5>1. PICK k1 : At(iAsyncHandlers, u, k1, f)
          BY <2>7, <3>2, <4>3
        <5>2. PICK k2 : At(iAsyncHandlers, u, k2, g)
          BY <2>7, <3>2, <4>3
        <5>3. handler[f].iProcessName = handler[g].iProcessName
          BY <2>8, <3>2, <5>1, <5>2
        <5> QED BY <1>3, <5>1, <5>2, <5>3 DEF Members
      <4> QED BY <4>2, <4>3
    <3>3. ASSUME NEW u \in Sessions, NEW m \in Names, Kept(t2, m, AgentOf[u])
          PROVE  \E i, g : At(lists2, u, i, g) /\ hd2[g].iProcessName = m
      <4>1. CASE Kept(tracker, m, AgentOf[u])
        <5>1. PICK i, g : At(iAsyncHandlers, u, i, g) /\ handler[g].iProcessName = m
          BY <1>2, <1>3, <4>1 DEF Members
        <5> QED BY <2>6, <2>8, <5>1 DEF PutFirst
      <4>2. CASE m = name /\ AgentOf[u] = id
        <5>1. u = s
          BY <1>1, <4>2 DEF AgentsApart, id
        <5> QED BY <2>3, <2>4, <2>6, <4>2, <5>1 DEF PutFirst
      <4> QED BY <2>10, <3>3, <4>1, <4>2
    <3> QED BY <3>1, <3>2, <3>3 DEF Members
  <2>13. Mapped(iActiveDebugMap', iPassiveDebugMap', t2)
    <3>1. Pair(name, id) \in Pairs
      BY PairIsOne DEF id
    <3>2. ASSUME NEW m \in Names, NEW u \in Sessions
          PROVE  Pair(m, AgentOf[u]) \in iActiveDebugMap' \cup iPassiveDebugMap' <=> Kept(t2, m, AgentOf[u])
      <4>1. Pair(m, AgentOf[u]) = Pair(name, id) <=> m = name /\ AgentOf[u] = id
        BY <1>1, PairsApart
      <4>2. Pair(m, AgentOf[u]) \in iActiveDebugMap \cup iPassiveDebugMap <=> Kept(tracker, m, AgentOf[u])
        BY <1>3 DEF Mapped
      <4>3. iActiveDebugMap' \cup iPassiveDebugMap' = iActiveDebugMap \cup iPassiveDebugMap \cup {Pair(name, id)}
        BY <1>7, <1>9 DEF id
      <4> QED BY <2>10, <4>1, <4>2, <4>3
    <3>3. /\ iActiveDebugMap' \subseteq Pairs /\ iPassiveDebugMap' \subseteq Pairs
          /\ iActiveDebugMap' \cap iPassiveDebugMap' = {}
      BY <1>2, <1>3, <1>7, <1>9, <3>1 DEF Mapped, id
    <3> QED BY <3>2, <3>3 DEF Mapped
  <2>14. GoodTracker(t2)
    BY <1>5 DEF t2
  <2> QED BY <1>2, <2>2, <2>11, <2>12, <2>13, <2>14 DEF Books
<1> QED BY <1>1, <1>8, <1>9

\* The handler with a name is found.
LEMMA HandlerIsFound ==
  ASSUME iAsyncHandlers \in [Sessions -> Seq(Handlers)], NEW s \in Sessions, NEW i, NEW h,
         At(iAsyncHandlers, s, i, h)
  PROVE  HandlerFor(s, handler[h].iProcessName) # 0
<1> DEFINE l == iAsyncHandlers[s]
           name == handler[h].iProcessName
           I == {k \in 1 .. Len(l) : handler[l[k]].iProcessName = name}
<1>1. i \in 1 .. Len(l) /\ l[i] = h /\ Len(l) \in Nat
  BY DEF At
<1>2. HandlerFor(s, name) = IF I # {} THEN Min(I) ELSE 0
  BY DEF HandlerFor, SelectInSeq
<1>3. I # {} /\ I \in SUBSET Nat /\ 0 \notin I
  BY <1>1
<1> HIDE DEF I
<1>4. Min(I) \in I
  BY <1>3, MinOfNaturals
<1> QED BY <1>2, <1>3, <1>4

LEMMA DetachKeeps ==
  ASSUME Orderly, Whole, NEW s \in Sessions, NEW name \in Names, Detach(s, name)
  PROVE  server' = "running" /\ Books'
<1> DEFINE id == AgentOf[s]
           pos == HandlerFor(s, name)
           l == iAsyncHandlers[s]
           h == l[pos]
           st == IF pos = 0 THEN Here ELSE Destroy(Here, h)
           left == DetachProcess(st.tracker, name, id)
           lists2 == [iAsyncHandlers EXCEPT ![s] = RemoveAt(l, pos)]
<1>1. /\ SpellingsApart /\ AgentsApart /\ server = "running" /\ closing = {} /\ closing' = closing
      /\ Pair(name, id) \in iActiveDebugMap \cup iPassiveDebugMap
      /\ DetachPair(Pair(name, id))
  BY DEF Detach, Ready, Orderly
<1>2. GoodTracker(tracker) /\ Mapped(iActiveDebugMap, iPassiveDebugMap, tracker)
      /\ Requests(handler, tracker) /\ Members(iAsyncHandlers, handler, tracker, closing)
      /\ iAsyncHandlers \in [Sessions -> Seq(Handlers)] /\ Placed(iAsyncHandlers, handler, open)
  BY WholeParts
<1>3. pos # 0
  <2>1. Kept(tracker, name, id)
    BY <1>1, <1>2 DEF Mapped
  <2>2. PICK i, g : At(iAsyncHandlers, s, i, g) /\ handler[g].iProcessName = name
    BY <1>1, <1>2, <2>1 DEF Members
  <2> QED BY <1>2, <2>2, HandlerIsFound
<1>4. pos \in 1 .. Len(l) /\ handler[h].iProcessName = name
  BY <1>2, <1>3, HandlerForIsPlace
<1>5. At(iAsyncHandlers, s, pos, h)
  BY <1>2, <1>4 DEF At
<1>6. Left(iAsyncHandlers, h, lists2)
  <2>1. Closes(l, pos, RemoveAt(l, pos))
    BY <1>2, <1>4, RemoveCloses
  <2> QED BY <1>2, <1>4, <2>1, PlaceLeft
<1>7. \/ st.server # "running"
      \/ /\ st.server = "running" /\ Become([st EXCEPT !.tracker = left.tracker])
         /\ iAsyncHandlers' = lists2
  BY <1>3 DEF Detach
<1>8. st = Destroy(Here, h)
  BY <1>3
<1> HIDE DEF h, pos
<1>9. PICK hd2, ms2, t2 : Destroy(Here, h) = St("running", hd2, ms2, t2)
                          /\ LetGo(handler, tracker, h, hd2, t2) /\ h \in Handlers /\ Alone(handler, tracker, h)
  BY <1>1, <1>5, MemberIsGone
<1>10. st = St("running", hd2, ms2, t2)
  BY <1>8, <1>9
<1> DEFINE t3 == DetachProcess(t2, name, id).tracker
<1>11. server' = "running" /\ handler' = hd2 /\ tracker' = t3 /\ iAsyncHandlers' = lists2
  <2>1. st.server = "running" /\ st.tracker = t2
    BY <1>10 DEF St
  <2>2. left.tracker = t3
    BY <2>1
  <2> HIDE DEF st, left, t3
  <2> QED BY <1>7, <1>10, <2>1, <2>2 DEF Become, St
<1>12. GoodTracker(t2) /\ SameKept(tracker, t2) /\ \A g \in Handlers \ {h} : hd2[g] = handler[g]
  BY <1>9 DEF LetGo, SameKept
<1>13. /\ GoodTracker(t3)
       /\ \A m \in Names : \A x : Has(t3, m, x) <=> Has(t2, m, x) /\ ~ (m = name /\ x.iId = id)
  <2> HIDE DEF id
  <2> QED BY <1>1, <1>12, AgentDetached
<1> HIDE DEF st, left, t3, lists2
<1>14. \A m \in Names : \A i : Kept(t3, m, i) <=> Kept(tracker, m, i) /\ ~ (m = name /\ i = id)
  <2>1. \A m \in Names : \A i : Kept(t3, m, i) <=> Kept(t2, m, i) /\ ~ (m = name /\ i = id)
    BY <1>13 DEF Kept
  <2> QED BY <1>12, <2>1 DEF SameKept
<1>15. handler[h].iAgentId = id
  BY <1>2, <1>5 DEF Members
<1>16. Requests(hd2, t3)
  <2>1. Requests(hd2, t2)
    BY <1>2, <1>9, RequestsAreLetGo
  <2>2. ASSUME NEW m \in Names, NEW i, NEW r \in Handlers
        PROVE  Asks(t3, m, i, r) <=> Asks(t2, m, i, r)
    <3>1. Asks(t3, m, i, r) <=> Asks(t2, m, i, r) /\ ~ (m = name /\ i = id)
      BY <1>13 DEF Asks
    <3>2. ASSUME Asks(t2, name, id, r) PROVE FALSE
      <4>1. Asks(tracker, name, id, r) /\ r # h
        BY <1>9, <3>2 DEF LetGo
      <4>2. Waits(handler, name, id, r)
        BY <1>2, <4>1 DEF Requests
      <4> QED BY <1>4, <1>9, <1>15, <4>1, <4>2 DEF Alone, h
    <3> QED BY <3>1, <3>2
  <2> QED BY <2>1, <2>2 DEF Requests
<1>17. Members(lists2, hd2, t3, closing)
  <2>1. \A u, i : At(iAsyncHandlers, u, i, h) => u = s
    BY <1>2, <1>5 DEF Placed
  <2>2. \A u, i, g : At(iAsyncHandlers, u, i, g) /\ g # h => Kept(t3, handler[g].iProcessName, AgentOf[u])
    <3> SUFFICES ASSUME NEW u, NEW i, NEW g, At(iAsyncHandlers, u, i, g), g # h
                 PROVE  Kept(t3, handler[g].iProcessName, AgentOf[u])
      OBVIOUS
    <3>1. Kept(tracker, handler[g].iProcessName, AgentOf[u]) /\ u \in Sessions
      BY <1>2 DEF Members, At
    <3>2. handler[g].iProcessName \in Names
      BY WholeParts DEF At, HandlerRecord
    <3>3. ~ (handler[g].iProcessName = name /\ AgentOf[u] = id)
      <4> SUFFICES ASSUME handler[g].iProcessName = name, AgentOf[u] = id PROVE FALSE
        OBVIOUS
      <4>1. u = s
        BY <1>1, <3>1 DEF AgentsApart, id
      <4>2. handler[h].iProcessName = name
        BY <1>4 DEF h
      <4> QED BY <1>2, <1>5, <4>1, <4>2 DEF Members
    <3> QED BY <1>14, <3>1, <3>2, <3>3
  <2>3. \A u \in Sessions \ closing, n \in Names : Kept(t3, n, AgentOf[u]) =>
            u \notin closing /\ Kept(tracker, n, AgentOf[u])
            /\ ~ \E i : At(iAsyncHandlers, u, i, h) /\ handler[h].iProcessName = n
    <3> SUFFICES ASSUME NEW u \in Sessions \ closing, NEW n \in Names, Kept(t3, n, AgentOf[u])
                 PROVE  Kept(tracker, n, AgentOf[u])
                        /\ ~ \E i : At(iAsyncHandlers, u, i, h) /\ handler[h].iProcessName = n
      OBVIOUS
    <3>1. Kept(tracker, n, AgentOf[u]) /\ ~ (n = name /\ AgentOf[u] = id)
      BY <1>14
    <3>2. handler[h].iProcessName = name
      BY <1>4 DEF h
    <3> QED BY <2>1, <3>1, <3>2 DEF id
  <2>4. OthersStay(iAsyncHandlers, handler, h, tracker, closing, t3, closing)
    BY <2>2, <2>3 DEF OthersStay
  <2> QED BY <1>2, <1>6, <1>12, <2>4, MembersFollow
<1>18. Mapped(iActiveDebugMap', iPassiveDebugMap', t3)
  <2>1. /\ iActiveDebugMap' \subseteq Pairs /\ iPassiveDebugMap' \subseteq Pairs
        /\ iActiveDebugMap' \cap iPassiveDebugMap' = {}
        /\ iActiveDebugMap' \cup iPassiveDebugMap' = (iActiveDebugMap \cup iPassiveDebugMap) \ {Pair(name, id)}
    BY <1>1, <1>2 DEF DetachPair, Mapped
  <2>2. ASSUME NEW m \in Names, NEW u \in Sessions
        PROVE  Pair(m, AgentOf[u]) \in iActiveDebugMap' \cup iPassiveDebugMap' <=> Kept(t3, m, AgentOf[u])
    <3>1. Pair(m, AgentOf[u]) = Pair(name, id) <=> m = name /\ AgentOf[u] = id
      BY <1>1, PairsApart
    <3>2. Pair(m, AgentOf[u]) \in iActiveDebugMap \cup iPassiveDebugMap <=> Kept(tracker, m, AgentOf[u])
      BY <1>2 DEF Mapped
    <3> QED BY <1>14, <2>1, <3>1, <3>2
  <2> QED BY <2>1, <2>2 DEF Mapped
<1> QED BY <1>1, <1>11, <1>13, <1>16, <1>17, <1>18 DEF Books

\* Steps that change no list and no map.
LEMMA BooksStay ==
  ASSUME Whole, UNCHANGED <<iActiveDebugMap, iPassiveDebugMap, closing, iAsyncHandlers>>,
         GoodTracker(tracker'), SameKept(tracker, tracker'), Requests(handler', tracker'),
         \A g \in Handlers : handler'[g].iProcessName = handler[g].iProcessName
                             /\ handler'[g].iAgentId = handler[g].iAgentId
  PROVE  Books'
<1>1. Mapped(iActiveDebugMap, iPassiveDebugMap, tracker')
  BY WholeParts, MappedStays
<1>2. Members(iAsyncHandlers, handler', tracker', closing)
  BY WholeParts, MembersStay
<1> QED BY <1>1, <1>2 DEF Books

LEMMA CancelGetEventKeeps ==
  ASSUME Orderly, Whole, NEW s \in Sessions, NEW name \in Names, CancelGetEvent(s, name)
  PROVE  server' = "running" /\ Books'
<1> DEFINE h == iAsyncHandlers[s][HandlerFor(s, name)]
<1>1. /\ server = "running" /\ HandlerFor(s, name) # 0 /\ Become(Cancel(Here, h))
      /\ UNCHANGED <<iActiveDebugMap, iPassiveDebugMap, closing, iAsyncHandlers>>
  BY DEF CancelGetEvent, MayAsk, Ready
<1>2. At(iAsyncHandlers, s, HandlerFor(s, name), h)
  BY <1>1, WholeParts, HandlerForIsPlace DEF At
<1> HIDE DEF h
<1>3. h \in Handlers /\ Alone(handler, tracker, h)
  BY <1>1, <1>2, MemberIsGone
<1>4. HoldsOne(handler, message, h)
  BY <1>3, WholeParts, HoldersHoldOne
<1>5. PICK hd2, ms2, t2 :
        /\ Cancel(St("running", handler, message, tracker), h) = St("running", hd2, ms2, t2)
        /\ LetGo(handler, tracker, h, hd2, t2) /\ hd2 \in [Handlers -> HandlerRecord]
        /\ hd2[h].iProcessName = handler[h].iProcessName /\ hd2[h].iAgentId = handler[h].iAgentId
  BY <1>3, <1>4, WholeParts, MemberCancels DEF Orderly
<1>6. server' = "running" /\ handler' = hd2 /\ tracker' = t2
  BY <1>1, <1>5, HereIsState, Becomes
<1>7. GoodTracker(t2) /\ SameKept(tracker, t2) /\ \A g \in Handlers \ {h} : hd2[g] = handler[g]
  BY <1>5 DEF LetGo, SameKept
<1>8. Requests(hd2, t2)
  BY <1>3, <1>5, WholeParts, RequestsAreLetGo
<1>9. \A g \in Handlers : hd2[g].iProcessName = handler[g].iProcessName /\ hd2[g].iAgentId = handler[g].iAgentId
  BY <1>5, <1>7
<1> QED BY <1>1, <1>6, <1>7, <1>8, <1>9, BooksStay

LEMMA RunLKeeps ==
  ASSUME Whole, NEW h \in Handlers, RunL(h)
  PROVE  server' \in {"running", "panicked"} /\ Books'
<1> DEFINE st == Complete(Here, handler[h].iMessage)
           rec == [handler[h] EXCEPT !.active = FALSE, !.iMessage = NoMessage]
<1>1. /\ server = "running" /\ handler[h].active /\ handler[h].iStatus # "pending"
      /\ Become([st EXCEPT !.handler[h] = [@ EXCEPT !.active = FALSE, !.iMessage = NoMessage]])
      /\ UNCHANGED <<iActiveDebugMap, iPassiveDebugMap, closing, iAsyncHandlers>>
  BY DEF RunL, Ready
<1>2. \E sv \in {"running", "panicked"}, ms \in {message, [message EXCEPT ![handler[h].iMessage] = "free"]} :
         st = [server |-> sv, handler |-> handler, message |-> ms, tracker |-> tracker]
  BY <1>1 DEF Complete, Here
<1>3. handler' = [handler EXCEPT ![h] = rec] /\ tracker' = tracker /\ server' \in {"running", "panicked"}
  <2> HIDE DEF st
  <2> QED BY <1>1, <1>2 DEF Become
<1>4. ~ rec.active /\ rec.iProcessName = handler[h].iProcessName /\ rec.iAgentId = handler[h].iAgentId
  BY WholeParts DEF HandlerRecord
<1> HIDE DEF rec
<1>5. handler'[h] = rec /\ \A g \in Handlers \ {h} : handler'[g] = handler[g]
  BY <1>3, WholeParts
<1>6. Requests(handler', tracker)
  <2>1. \A n \in Names : \A id : \A r \in Handlers : Waits(handler', n, id, r) <=> Waits(handler, n, id, r)
    BY <1>1, <1>4, <1>5 DEF Waits
  <2> QED BY <2>1, WholeParts DEF Requests
<1>7. \A g \in Handlers : handler'[g].iProcessName = handler[g].iProcessName /\ handler'[g].iAgentId = handler[g].iAgentId
  BY <1>4, <1>5
<1>8. SameKept(tracker, tracker')
  BY <1>3 DEF SameKept
<1> QED BY <1>1, <1>3, <1>6, <1>7, <1>8, WholeParts, BooksStay

\* The agent of a session is changed, but stays.
LEMMA AgentStays ==
  ASSUME Orderly, NEW t, GoodTracker(t), NEW n \in Names, NEW id, NEW a, Has(t, n, a), a.iId = id,
         NEW b \in Agent, b.iId = id
  PROVE  /\ GoodTracker(WithAgent(t, n, id, b)) /\ SameKept(t, WithAgent(t, n, id, b))
         /\ \A m \in Names : \A i, r : Asks(WithAgent(t, n, id, b), m, i, r) <=>
              IF m = n /\ i = id THEN r = b.iRequestGetEventStatus ELSE Asks(t, m, i, r)
<1> DEFINE t2 == WithAgent(t, n, id, b)
<1>1. HasAgent(t, n, id)
  BY Lookup DEF Kept
<1>2. /\ GoodTracker(t2)
      /\ \A m \in Names : \A x : Has(t2, m, x) <=>
           \/ m = n /\ x = b
           \/ Has(t, m, x) /\ ~ (m = n /\ x.iId = id)
  BY <1>1, AgentChanged DEF Orderly
<1> HIDE DEF t2
<1>3. SameKept(t, t2)
  BY <1>2 DEF SameKept, Kept
<1>4. \A m \in Names : \A i, r : Asks(t2, m, i, r) <=>
        IF m = n /\ i = id THEN r = b.iRequestGetEventStatus ELSE Asks(t, m, i, r)
  BY <1>2 DEF Asks
<1> QED BY <1>2, <1>3, <1>4 DEF t2

LEMMA SetEventActionKeeps ==
  ASSUME Orderly, Whole, NEW s \in Sessions, NEW name \in Names, NEW listen \in BOOLEAN,
         SetEventAction(s, name, listen)
  PROVE  server' = server /\ Books'
<1> DEFINE id == AgentOf[s]
           a == FindAgentForProcessAndId(tracker, name, id)
           b == [a EXCEPT !.listening = listen]
<1>1. /\ HasAgent(tracker, name, id) /\ tracker' = WithAgent(tracker, name, id, b)
      /\ UNCHANGED <<server, iActiveDebugMap, iPassiveDebugMap, closing, iAsyncHandlers, handler>>
  BY DEF SetEventAction
<1>2. Has(tracker, name, a) /\ a.iId = id
  BY <1>1, WholeParts, Lookup
<1> HIDE DEF a
<1>3. a \in Agent
  BY <1>2, WholeParts, HasType
<1>4. b \in Agent /\ b.iId = id /\ b.iRequestGetEventStatus = a.iRequestGetEventStatus
  BY <1>2, <1>3 DEF Agent
<1> HIDE DEF b, id
<1>5. /\ GoodTracker(tracker') /\ SameKept(tracker, tracker')
      /\ \A m \in Names : \A i, r : Asks(tracker', m, i, r) <=>
           IF m = name /\ i = id THEN r = b.iRequestGetEventStatus ELSE Asks(tracker, m, i, r)
  BY <1>1, <1>2, <1>4, WholeParts, AgentStays
<1>6. \A r : Asks(tracker, name, id, r) <=> r = b.iRequestGetEventStatus
  <2>1. \A x : Has(tracker, name, x) /\ x.iId = id => x = a
    BY <1>2, WholeParts, HasOne
  <2> QED BY <1>2, <1>4, <2>1 DEF Asks
<1>7. Requests(handler', tracker')
  BY <1>1, <1>5, <1>6, WholeParts DEF Requests
<1> QED BY <1>1, <1>5, <1>7, BooksStay

LEMMA GetEventKeeps ==
  ASSUME Orderly, Whole, NEW s \in Sessions, NEW name \in Names, NEW m \in Messages, GetEvent(s, name, m)
  PROVE  server' = server /\ Books'
<1> DEFINE pos == HandlerFor(s, name)
           h == iAsyncHandlers[s][pos]
           id == handler[h].iAgentId
           a == FindAgentForProcessAndId(tracker, name, id)
           asked(status) == [handler EXCEPT ![h] =
             [@ EXCEPT !.active = TRUE, !.iStatus = status, !.iMessage = m]]
           less == [a EXCEPT !.queued = @ - 1]
           asking == [a EXCEPT !.iRequestGetEventStatus = h]
<1>1. /\ server' = server /\ server = "running" /\ pos # 0 /\ ~ handler[h].active
      /\ UNCHANGED <<iActiveDebugMap, iPassiveDebugMap, closing, iAsyncHandlers>>
      /\ \/ ~ HasAgent(tracker, name, id)
         \/ a.queued > 0 /\ handler' = asked("KErrNone") /\ tracker' = WithAgent(tracker, name, id, less)
         \/ handler' = asked("pending") /\ tracker' = WithAgent(tracker, name, id, asking)
  BY DEF GetEvent, MayAsk, Ready
<1>2. At(iAsyncHandlers, s, pos, h) /\ handler[h].iProcessName = name
  BY <1>1, WholeParts, HandlerForIsPlace DEF At
<1>3. h \in Handlers /\ Alone(handler, tracker, h)
  BY <1>1, <1>2, MemberIsGone
<1> HIDE DEF h, pos
<1>4. HasAgent(tracker, name, id) /\ Has(tracker, name, a) /\ a.iId = id
  BY <1>2, <1>3, WholeParts, Lookup DEF Alone
<1> HIDE DEF a
<1>5. a \in Agent
  BY <1>4, WholeParts, HasType
<1>6. PICK status \in {"KErrNone", "pending"}, b \in Agent :
        /\ handler' = asked(status) /\ tracker' = WithAgent(tracker, name, id, b) /\ b.iId = id
        /\ b.iRequestGetEventStatus = IF status = "pending" THEN h ELSE a.iRequestGetEventStatus
  <2>1. CASE a.queued > 0 /\ handler' = asked("KErrNone") /\ tracker' = WithAgent(tracker, name, id, less)
    <3>1. a.queued - 1 \in Nat
      BY <1>5, <2>1 DEF Agent
    <3>2. less \in Agent /\ less.iId = id /\ less.iRequestGetEventStatus = a.iRequestGetEventStatus
      BY <1>4, <1>5, <3>1 DEF Agent
    <3> HIDE DEF less, asked, id
    <3> QED BY <2>1, <3>2
  <2>2. CASE handler' = asked("pending") /\ tracker' = WithAgent(tracker, name, id, asking)
    <3>1. asking \in Agent /\ asking.iId = id /\ asking.iRequestGetEventStatus = h
      BY <1>3, <1>4, <1>5 DEF Agent
    <3> HIDE DEF asking, asked, id
    <3> QED BY <2>2, <3>1
  <2> QED BY <1>1, <1>4, <2>1, <2>2
<1> DEFINE rec == [handler[h] EXCEPT !.active = TRUE, !.iStatus = status, !.iMessage = m]
<1>7. /\ rec.active /\ rec.iStatus = status
      /\ rec.iProcessName = name /\ rec.iAgentId = id
  BY <1>2, <1>3, WholeParts DEF HandlerRecord
<1>8. handler' = [handler EXCEPT ![h] = rec]
  BY <1>6
<1> HIDE DEF rec, asked
<1>9. handler'[h] = rec /\ \A g \in Handlers \ {h} : handler'[g] = handler[g]
  BY <1>3, <1>8, WholeParts
<1>10. id = handler[h].iAgentId
  OBVIOUS
<1> HIDE DEF id
<1>11. /\ GoodTracker(tracker') /\ SameKept(tracker, tracker')
       /\ \A n \in Names : \A i, r : Asks(tracker', n, i, r) <=>
            IF n = name /\ i = id THEN r = b.iRequestGetEventStatus ELSE Asks(tracker, n, i, r)
  BY <1>4, <1>6, WholeParts, AgentStays
<1>12. name \in Names /\ \A n \in Names : \A i : \A r \in Handlers : Asks(tracker, n, i, r) <=> Waits(handler, n, i, r)
  BY WholeParts DEF Requests
<1>13. \A r \in Handlers : ~ Waits(handler, name, id, r)
  BY <1>1, <1>2, <1>3, <1>10 DEF Alone, Waits
<1>14. a.iRequestGetEventStatus = NoHandler
  <2>1. Asks(tracker, name, id, a.iRequestGetEventStatus)
    BY <1>4 DEF Asks
  <2> QED BY <1>5, <1>12, <1>13, <2>1 DEF Agent
<1>15. Requests(handler', tracker')
  <2> SUFFICES ASSUME NEW n \in Names, NEW i, NEW r \in Handlers
               PROVE  Asks(tracker', n, i, r) <=> Waits(handler', n, i, r)
    BY DEF Requests
  <2>1. r # NoHandler
    BY NothingAssumption
  <2>2. CASE n = name /\ i = id
    <3>1. Asks(tracker', n, i, r) <=> status = "pending" /\ r = h
      BY <1>6, <1>11, <1>14, <2>1, <2>2
    <3>2. Waits(handler', n, i, r) <=> status = "pending" /\ r = h
      <4>1. CASE r = h
        BY <1>7, <1>9, <2>2, <4>1 DEF Waits
      <4>2. CASE r # h
        BY <1>9, <1>13, <2>2, <4>2 DEF Waits
      <4> QED BY <4>1, <4>2
    <3> QED BY <3>1, <3>2
  <2>3. CASE ~ (n = name /\ i = id)
    <3>1. Asks(tracker', n, i, r) <=> Waits(handler, n, i, r)
      BY <1>11, <1>12, <2>3
    <3>2. Waits(handler', n, i, r) <=> Waits(handler, n, i, r)
      <4>1. CASE r = h
        BY <1>1, <1>7, <1>9, <2>3, <4>1 DEF Waits
      <4>2. CASE r # h
        BY <1>9, <4>2 DEF Waits
      <4> QED BY <4>1, <4>2
    <3> QED BY <3>1, <3>2
  <2> QED BY <2>2, <2>3
<1>16. \A g \in Handlers : handler'[g].iProcessName = handler[g].iProcessName /\ handler'[g].iAgentId = handler[g].iAgentId
  BY <1>2, <1>7, <1>9, <1>10
<1> QED BY <1>1, <1>11, <1>15, <1>16, BooksStay

\* What an event does to the handlers.
LEMMA EventTells ==
  ASSUME Orderly, Whole, NEW e \in Executables, Event(e)
  PROVE  \E n \in Names :
           /\ e \in DOMAIN tracker.iProcesses => n # Star /\ Exe[n] = e
           /\ \E told : /\ Told(tracker, n, tracker', told)
                        /\ handler' = [h \in Handlers |-> IF h \in told
                             THEN [handler[h] EXCEPT !.iStatus = "KErrNone"] ELSE handler[h]]
<1>1. PICK n \in Names :
        /\ Told(tracker, n, NotifyAgentsForProcessEvent(tracker, e).tracker, NotifyAgentsForProcessEvent(tracker, e).answered)
        /\ e \in DOMAIN tracker.iProcesses => n # Star /\ Exe[n] = e
  BY WholeParts, AgentsTold DEF Orderly
<1> DEFINE N == NotifyAgentsForProcessEvent(tracker, e)
           told == N.answered
<1>2. /\ tracker' = N.tracker
      /\ handler' = [h \in Handlers |-> IF h \in told
                       THEN [handler[h] EXCEPT !.iStatus = "KErrNone"] ELSE handler[h]]
  BY DEF Event
<1>3. Told(tracker, n, tracker', told)
  BY <1>1, <1>2
<1> HIDE DEF told
<1> QED BY <1>1, <1>2, <1>3

LEMMA EventKeeps ==
  ASSUME Orderly, Whole, NEW e \in Executables, Event(e)
  PROVE  server' = server /\ Books'
<1>1. PICK n \in Names :
         \E told : /\ Told(tracker, n, tracker', told)
                   /\ handler' = [h \in Handlers |-> IF h \in told
                        THEN [handler[h] EXCEPT !.iStatus = "KErrNone"] ELSE handler[h]]
  BY EventTells
<1>2. PICK told : /\ Told(tracker, n, tracker', told)
                  /\ handler' = [h \in Handlers |-> IF h \in told
                        THEN [handler[h] EXCEPT !.iStatus = "KErrNone"] ELSE handler[h]]
  BY <1>1
<1>3. UNCHANGED <<server, iActiveDebugMap, iPassiveDebugMap, closing, iAsyncHandlers>>
  BY DEF Event
<1>4. /\ GoodTracker(tracker')
      /\ \A m \in Names : \A x : Has(tracker', m, x) <=>
           IF m = n THEN \E y : Has(tracker, n, y) /\ x = NotifyEvent(y) ELSE Has(tracker, m, x)
      /\ \A r : r \in told <=>
           r # NoHandler /\ \E y : Has(tracker, n, y) /\ y.listening /\ y.iRequestGetEventStatus = r
  BY <1>2 DEF Told
<1>5. ASSUME NEW y, Has(tracker, n, y)
      PROVE  /\ NotifyEvent(y).iId = y.iId
             /\ NotifyEvent(y).iRequestGetEventStatus = IF y.listening THEN NoHandler ELSE y.iRequestGetEventStatus
  BY <1>5, WholeParts, HasType, NotifyType
<1>6. \A m \in Names : \A i, r : Asks(tracker, m, i, r) /\ r \in Handlers => Waits(handler, m, i, r)
  BY WholeParts DEF Requests
<1>7. ASSUME NEW r \in Handlers, r \in told
      PROVE  \E y : Has(tracker, n, y) /\ y.listening /\ y.iRequestGetEventStatus = r /\ Waits(handler, n, y.iId, r)
  <2>1. PICK y : Has(tracker, n, y) /\ y.listening /\ y.iRequestGetEventStatus = r
    BY <1>4, <1>7
  <2>2. Asks(tracker, n, y.iId, r)
    BY <2>1 DEF Asks
  <2> QED BY <1>6, <2>1, <2>2
<1>8. SameKept(tracker, tracker')
  <2> SUFFICES ASSUME NEW m \in Names, NEW i PROVE Kept(tracker', m, i) <=> Kept(tracker, m, i)
    BY DEF SameKept
  <2>1. CASE m = n
    BY <1>4, <1>5, <2>1 DEF Kept
  <2>2. CASE m # n
    BY <1>4, <2>2 DEF Kept
  <2> QED BY <2>1, <2>2
<1>9. ASSUME NEW m \in Names, NEW i, NEW r \in Handlers
      PROVE  Asks(tracker', m, i, r) <=> Asks(tracker, m, i, r) /\ r \notin told
  <2>1. r # NoHandler
    BY NothingAssumption
  <2>2. CASE m = n
    <3>1. ASSUME Asks(tracker', n, i, r) PROVE Asks(tracker, n, i, r) /\ r \notin told
      <4>1. PICK x : Has(tracker', n, x) /\ x.iId = i /\ x.iRequestGetEventStatus = r
        BY <3>1 DEF Asks
      <4>2. PICK y : Has(tracker, n, y) /\ x = NotifyEvent(y)
        BY <1>4, <4>1
      <4>3. y.iId = i /\ y.iRequestGetEventStatus = r /\ ~ y.listening
        BY <1>5, <2>1, <4>1, <4>2
      <4>4. Asks(tracker, n, i, r)
        BY <4>2, <4>3 DEF Asks
      <4>5. ASSUME r \in told PROVE FALSE
        <5>1. PICK z : Has(tracker, n, z) /\ z.listening /\ Waits(handler, n, z.iId, r)
          BY <1>7, <4>5
        <5>2. z.iId = i
          BY <1>6, <4>4, <5>1 DEF Waits
        <5>3. z = y
          BY <4>2, <4>3, <5>1, <5>2, WholeParts, HasOne
        <5> QED BY <4>3, <5>1, <5>3
      <4> QED BY <4>4, <4>5
    <3>2. ASSUME Asks(tracker, n, i, r), r \notin told PROVE Asks(tracker', n, i, r)
      <4>1. PICK y : Has(tracker, n, y) /\ y.iId = i /\ y.iRequestGetEventStatus = r
        BY <3>2 DEF Asks
      <4>2. ~ y.listening
        BY <1>4, <2>1, <3>2, <4>1
      <4>3. Has(tracker', n, NotifyEvent(y))
        BY <1>4, <4>1
      <4> QED BY <1>5, <4>1, <4>2, <4>3 DEF Asks
    <3> QED BY <2>2, <3>1, <3>2
  <2>3. CASE m # n
    <3>1. Asks(tracker', m, i, r) <=> Asks(tracker, m, i, r)
      BY <1>4, <2>3 DEF Asks
    <3>2. ASSUME Asks(tracker, m, i, r), r \in told PROVE FALSE
      <4>1. handler[r].iProcessName = m
        BY <1>6, <3>2 DEF Waits
      <4>2. handler[r].iProcessName = n
        BY <1>7, <3>2 DEF Waits
      <4> QED BY <2>3, <4>1, <4>2
    <3> QED BY <3>1, <3>2
  <2> QED BY <2>2, <2>3
<1>10. ASSUME NEW h \in Handlers
       PROVE  /\ handler'[h].iProcessName = handler[h].iProcessName /\ handler'[h].iAgentId = handler[h].iAgentId
              /\ handler'[h].active = handler[h].active
              /\ handler'[h].iStatus = IF h \in told THEN "KErrNone" ELSE handler[h].iStatus
  <2>1. handler[h] \in HandlerRecord
    BY WholeParts
  <2>2. handler'[h] = IF h \in told THEN [handler[h] EXCEPT !.iStatus = "KErrNone"] ELSE handler[h]
    BY <1>2
  <2> QED BY <2>1, <2>2 DEF HandlerRecord
<1>11. ASSUME NEW m, NEW i, NEW r \in Handlers
       PROVE  Waits(handler', m, i, r) <=> Waits(handler, m, i, r) /\ r \notin told
  BY <1>10 DEF Waits
<1>12. Requests(handler', tracker')
  BY <1>9, <1>11, WholeParts DEF Requests
<1> QED BY <1>3, <1>4, <1>8, <1>10, <1>12, BooksStay

LEMMA NothingKept ==
  \A n \in Names : \A a : ~ Has(EmptyTracker, n, a)
BY DEF Has, In, AgentsOf, EmptyTracker

LEMMA EmptyTrackerIsGood == GoodTracker(EmptyTracker)
<1>1. EmptyTracker = [iProcesses |-> <<>>, iAgentsAttachedToAll |-> <<>>]
  BY DEF EmptyTracker
<1>2. EmptyTracker.iProcesses = <<>> /\ EmptyTracker.iAgentsAttachedToAll = <<>>
  BY <1>1
<1>3. <<>> \in [DOMAIN <<>> -> Seq(Agent)]
  OBVIOUS
<1>4. TrackerShape(EmptyTracker)
  BY <1>1, <1>2, <1>3 DEF TrackerShape
<1>5. \A n \in Names : AgentsOf(EmptyTracker, n) = <<>>
  BY <1>2 DEF AgentsOf
<1>6. GoodList(<<>>) /\ \A a : ~ In(<<>>, a)
  BY DEF GoodList, In
<1> QED BY <1>4, <1>5, <1>6, NameAssumption DEF GoodTracker

\* Nothing is tracked while there are no sessions.
LEMMA NothingToKeep ==
  ASSUME NEW lists, NEW hd, NEW busy, \A s, i, h : ~ At(lists, s, i, h), \A h \in Handlers : ~ hd[h].active
  PROVE  /\ GoodTracker(EmptyTracker) /\ Mapped({}, {}, EmptyTracker)
         /\ Members(lists, hd, EmptyTracker, busy) /\ Requests(hd, EmptyTracker)
<1>1. \A n \in Names : \A id, r : ~ Kept(EmptyTracker, n, id) /\ ~ Asks(EmptyTracker, n, id, r)
  BY NothingKept DEF Kept, Asks
<1>2. Mapped({}, {}, EmptyTracker)
  BY <1>1 DEF Mapped
<1>3. Members(lists, hd, EmptyTracker, busy)
  BY <1>1 DEF Members
<1>4. Requests(hd, EmptyTracker)
  BY <1>1 DEF Requests, Waits
<1> QED BY <1>2, <1>3, <1>4, EmptyTrackerIsGood

LEMMA OthersKeep ==
  ASSUME Whole,
         \/ \E s \in Sessions : OpenSession(s)
         \/ TimerExpires \/ Shutdown \/ StartServer \/ UNCHANGED vars
  PROVE  server' \in {"running", "stopped"} /\ Books'
<1>1. CASE Shutdown
  <2>1. open = {}
    BY <1>1 DEF Whole, Sound, Counted, Shutdown
  <2>2. \A s, i, h : ~ At(iAsyncHandlers, s, i, h)
    BY <2>1, WholeParts DEF Placed
  <2>3. \A h \in Handlers : ~ handler[h].active
    BY <2>2, WholeParts DEF Holding
  <2>4. /\ server' = "stopped" /\ iActiveDebugMap' = {} /\ iPassiveDebugMap' = {} /\ tracker' = EmptyTracker
        /\ iAsyncHandlers' = iAsyncHandlers /\ handler' = handler
    BY <1>1 DEF Shutdown
  <2> QED BY <2>2, <2>3, <2>4, NothingToKeep DEF Books
<1>2. CASE (\E s \in Sessions : OpenSession(s)) \/ TimerExpires \/ StartServer \/ UNCHANGED vars
  <2>1. UNCHANGED <<iActiveDebugMap, iPassiveDebugMap, closing, iAsyncHandlers, handler, tracker>>
    BY <1>2 DEF OpenSession, TimerExpires, StartServer, vars
  <2>2. server' \in {"running", "stopped"}
    BY <1>2 DEF OpenSession, TimerExpires, StartServer, vars, Whole
  <2> QED BY <2>1, <2>2 DEF Books, Whole
<1> QED BY <1>1, <1>2

\* Every step keeps the invariant, which holds at the start.
LEMMA NextKeeps ==
  ASSUME Orderly, Whole, [Next]_vars
  PROVE  Whole'
<1>1. Inv'
  BY NextIsSound DEF Whole, Inv
<1>2. server' \in {"running", "stopped", "panicked"} /\ Books'
  <2>1. ASSUME NEW s \in Sessions, DestroyHandler(s) \/ CloseSession(s)
        PROVE  server' \in {"running", "stopped", "panicked"} /\ Books'
    BY <2>1, DestroyHandlerKeeps, CloseSessionKeeps
  <2>2. ASSUME NEW s \in Sessions, NEW n \in Names, NEW p \in BOOLEAN, NEW f \in Failures, Attach(s, n, p, f)
        PROVE  server' \in {"running", "stopped", "panicked"} /\ Books'
    BY <2>2, AttachKeeps
  <2>3. ASSUME NEW s \in Sessions, NEW n \in Names, Detach(s, n) \/ CancelGetEvent(s, n)
        PROVE  server' \in {"running", "stopped", "panicked"} /\ Books'
    BY <2>3, DetachKeeps, CancelGetEventKeeps
  <2>4. ASSUME NEW s \in Sessions, NEW n \in Names, NEW l \in BOOLEAN, SetEventAction(s, n, l)
        PROVE  server' \in {"running", "stopped", "panicked"} /\ Books'
    BY <2>4, SetEventActionKeeps DEF Whole
  <2>5. ASSUME NEW s \in Sessions, NEW n \in Names, NEW m \in Messages, GetEvent(s, n, m)
        PROVE  server' \in {"running", "stopped", "panicked"} /\ Books'
    BY <2>5, GetEventKeeps DEF Whole
  <2>6. ASSUME NEW h \in Handlers, RunL(h)
        PROVE  server' \in {"running", "stopped", "panicked"} /\ Books'
    BY <2>6, RunLKeeps
  <2>7. ASSUME NEW e \in Executables, Event(e)
        PROVE  server' \in {"running", "stopped", "panicked"} /\ Books'
    BY <2>7, EventKeeps DEF Whole
  <2>8. CASE \/ \E s \in Sessions : OpenSession(s)
             \/ TimerExpires \/ Shutdown \/ StartServer \/ UNCHANGED vars
    BY <2>8, OthersKeep
  <2> QED BY <2>1, <2>2, <2>3, <2>4, <2>5, <2>6, <2>7, <2>8 DEF Next
<1> QED BY <1>1, <1>2 DEF Whole, Inv

LEMMA InitIsWhole ==
  ASSUME Init
  PROVE  Whole
<1>1. Inv
  BY InitIsSound
<1>2. \A s, i, h : ~ At(iAsyncHandlers, s, i, h)
  BY DEF Init, At
<1>3. \A h \in Handlers : ~ handler[h].active
  BY FreeIsRecord DEF Init
<1>4. server = "running" /\ iActiveDebugMap = {} /\ iPassiveDebugMap = {} /\ tracker = EmptyTracker
  BY DEF Init
<1>5. Books
  BY <1>2, <1>3, <1>4, NothingToKeep DEF Books
<1> QED BY <1>1, <1>4, <1>5 DEF Whole, Inv

\* What the model's sets say, in terms of the places.
LEMMA TrackedAre ==
  ASSUME Whole, NEW n \in Names
  PROVE  \A x : x \in TrackedFor(Exe[n]) <=> Has(tracker, n, x)
<1> DEFINE l == AgentsOf(tracker, n)
<1>1. GoodList(l)
  BY WholeParts DEF GoodTracker
<1>2. Exe[n] = Star <=> n = Star
  BY NameAssumption
<1>3. TrackedFor(Exe[n]) = ToSet(l)
  BY <1>2 DEF TrackedFor, AgentsOf, ToSet
<1> HIDE DEF l
<1>4. \A x : x \in ToSet(l) <=> In(l, x)
  BY <1>1 DEF ToSet, In, GoodList
<1> QED BY <1>3, <1>4 DEF Has, l

\* The owned handlers are those in a place.
LEMMA OwnedAre ==
  ASSUME Whole, NEW h
  PROVE  h \in Owned <=> \E s, i : At(iAsyncHandlers, s, i, h)
<1>1. \A s \in Sessions : h \in ToSet(iAsyncHandlers[s]) <=> \E i : At(iAsyncHandlers, s, i, h)
  <2> SUFFICES ASSUME NEW s \in Sessions
               PROVE  h \in ToSet(iAsyncHandlers[s]) <=> \E i : At(iAsyncHandlers, s, i, h)
    OBVIOUS
  <2>1. iAsyncHandlers[s] \in Seq(Handlers)
    BY WholeParts
  <2> QED BY <2>1 DEF ToSet, At
<1> QED BY <1>1 DEF Owned, At

LEMMA EveryExeIsNamed ==
  ASSUME NEW e \in Executables \cup {Star}
  PROVE  \E n \in Names : Exe[n] = e
BY NameAssumption DEF Executables

\* The three sets of pairs that AttachmentsAgree compares.
LEMMA WholeAgrees ==
  ASSUME Orderly, Whole, closing = {}
  PROVE  MapPairs = DriverPairs /\ MapPairs = HandlerPairs
<1> DEFINE Kind(p) == \E n \in Names, s \in Sessions : p = Pair(n, AgentOf[s]) /\ Kept(tracker, n, AgentOf[s])
<1>1. ASSUME NEW p PROVE p \in MapPairs <=> Kind(p)
  <2>1. Mapped(iActiveDebugMap, iPassiveDebugMap, tracker)
    BY WholeParts
  <2>2. ASSUME p \in MapPairs PROVE Kind(p)
    <3>1. p \in Pairs
      BY <2>1, <2>2 DEF MapPairs, Mapped
    <3>2. PICK n \in Names : Exe[n] = p.exe
      BY <3>1, EveryExeIsNamed DEF Pairs
    <3>3. PICK s \in Sessions : p.agent = AgentOf[s]
      BY <3>1 DEF Pairs, Agents
    <3>4. p = Pair(n, AgentOf[s])
      BY <3>1, <3>2, <3>3 DEF Pairs, Pair
    <3> QED BY <2>1, <2>2, <3>4 DEF Mapped, MapPairs
  <2>3. ASSUME Kind(p) PROVE p \in MapPairs
    BY <2>1, <2>3 DEF Mapped, MapPairs
  <2> QED BY <2>2, <2>3
<1>2. ASSUME NEW p PROVE p \in DriverPairs <=> Kind(p)
  <2>1. ASSUME p \in DriverPairs PROVE Kind(p)
    <3>0. PICK e \in Executables \cup {Star} : \E a \in TrackedFor(e) : p = [exe |-> e, agent |-> a.iId]
      BY <2>1 DEF DriverPairs
    <3>1. PICK a : a \in TrackedFor(e) /\ p = [exe |-> e, agent |-> a.iId]
      BY <3>0
    <3>2. PICK n \in Names : Exe[n] = e
      BY EveryExeIsNamed
    <3>3. Has(tracker, n, a)
      BY <3>1, <3>2, TrackedAre
    <3>4. PICK s \in Sessions : a.iId = AgentOf[s]
      BY <3>3, WholeParts, HasType DEF Agent
    <3>5. p = Pair(n, AgentOf[s]) /\ Kept(tracker, n, AgentOf[s])
      BY <3>1, <3>2, <3>3, <3>4 DEF Pair, Kept
    <3> QED BY <3>5
  <2>2. ASSUME Kind(p) PROVE p \in DriverPairs
    <3>1. PICK n \in Names, s \in Sessions : p = Pair(n, AgentOf[s]) /\ Kept(tracker, n, AgentOf[s])
      BY <2>2
    <3>2. PICK a : Has(tracker, n, a) /\ a.iId = AgentOf[s]
      BY <3>1 DEF Kept
    <3>3. a \in TrackedFor(Exe[n])
      BY <3>2, TrackedAre
    <3>4. Exe[n] \in Executables \cup {Star}
      BY NameAssumption DEF Executables
    <3>5. p = [exe |-> Exe[n], agent |-> a.iId]
      BY <3>1, <3>2 DEF Pair
    <3> QED BY <3>3, <3>4, <3>5 DEF DriverPairs
  <2> QED BY <2>1, <2>2
<1>3. ASSUME NEW p PROVE p \in HandlerPairs <=> Kind(p)
  <2>1. ASSUME p \in HandlerPairs PROVE Kind(p)
    <3>1. PICK h \in Owned : p = Pair(handler[h].iProcessName, handler[h].iAgentId)
      BY <2>1 DEF HandlerPairs
    <3>2. PICK s, i : At(iAsyncHandlers, s, i, h)
      BY OwnedAre
    <3>3. handler[h].iAgentId = AgentOf[s] /\ Kept(tracker, handler[h].iProcessName, AgentOf[s])
      BY <3>2, WholeParts DEF Members
    <3>4. s \in Sessions /\ handler[h].iProcessName \in Names
      BY <3>2, WholeParts DEF At, HandlerRecord
    <3> QED BY <3>1, <3>3, <3>4
  <2>2. ASSUME Kind(p) PROVE p \in HandlerPairs
    <3>1. PICK n \in Names, s \in Sessions : p = Pair(n, AgentOf[s]) /\ Kept(tracker, n, AgentOf[s])
      BY <2>2
    <3>2. PICK i, h : At(iAsyncHandlers, s, i, h) /\ handler[h].iProcessName = n
      BY <3>1, WholeParts DEF Members
    <3>3. handler[h].iAgentId = AgentOf[s] /\ h \in Owned
      BY <3>2, OwnedAre, WholeParts DEF Members
    <3> QED BY <3>1, <3>2, <3>3 DEF HandlerPairs
  <2> QED BY <2>1, <2>2
<1> HIDE DEF Kind
<1>4. \A p : (p \in MapPairs <=> p \in DriverPairs) /\ (p \in MapPairs <=> p \in HandlerPairs)
  BY <1>1, <1>2, <1>3
<1> QED BY <1>4 DEF MapPairs, DriverPairs, HandlerPairs

\* A pending request is one that an agent waits with.
LEMMA WholeTracksRequests ==
  ASSUME Orderly, Whole
  PROVE  PendingRequestsAreTracked
<1> SUFFICES ASSUME NEW h \in Handlers
    PROVE  WaitingAt(h) <=> \E e \in Executables \cup {Star} : \E a \in TrackedFor(e) :
             /\ a.iRequestGetEventStatus = h /\ h \in Owned
             /\ Pair(handler[h].iProcessName, handler[h].iAgentId) = [exe |-> e, agent |-> a.iId]
  BY DEF PendingRequestsAreTracked
<1> DEFINE name == handler[h].iProcessName
           id == handler[h].iAgentId
<1>1. name \in Names /\ Exe[name] \in Executables \cup {Star}
  BY WholeParts, NameAssumption DEF HandlerRecord, Executables
<1>2. ASSUME NEW n \in Names, NEW i PROVE Asks(tracker, n, i, h) <=> Waits(handler, n, i, h)
  BY WholeParts DEF Requests
<1>3. ASSUME WaitingAt(h)
      PROVE  \E e \in Executables \cup {Star} : \E a \in TrackedFor(e) :
               /\ a.iRequestGetEventStatus = h /\ h \in Owned /\ Pair(name, id) = [exe |-> e, agent |-> a.iId]
  <2>1. Waits(handler, name, id, h)
    BY <1>3 DEF WaitingAt, Waits
  <2>2. PICK x : Has(tracker, name, x) /\ x.iId = id /\ x.iRequestGetEventStatus = h
    BY <1>1, <1>2, <2>1 DEF Asks
  <2>3. h \in Owned
    BY <1>3, WholeParts, OwnedAre DEF WaitingAt, Holding
  <2>4. x \in TrackedFor(Exe[name])
    BY <1>1, <2>2, TrackedAre
  <2>5. Pair(name, id) = [exe |-> Exe[name], agent |-> x.iId]
    BY <2>2 DEF Pair
  <2> QED BY <1>1, <2>2, <2>3, <2>4, <2>5
<1>4. ASSUME NEW e \in Executables \cup {Star}, NEW a \in TrackedFor(e),
             a.iRequestGetEventStatus = h
      PROVE  WaitingAt(h)
  <2>1. PICK n \in Names : Exe[n] = e
    BY EveryExeIsNamed
  <2>2. Has(tracker, n, a)
    BY <1>4, <2>1, TrackedAre
  <2>3. Waits(handler, n, a.iId, h)
    BY <1>2, <1>4, <2>2 DEF Asks
  <2> QED BY <2>3 DEF Waits, WaitingAt
<1> QED BY <1>3, <1>4

\* A waiting handler whose agent listens is told.
LEMMA EventAnswers ==
  ASSUME Orderly, Whole, NEW e \in Executables, Event(e), NEW h \in Owned, WaitingAt(h),
         Exe[handler[h].iProcessName] = e, Listens(h, e)
  PROVE  ~ WaitingAt(h)'
<1> DEFINE name == handler[h].iProcessName
           id == handler[h].iAgentId
<1>1. h \in Handlers
  BY WholeParts, OwnedAre DEF At
<1>2. name \in Names /\ name # Star /\ h # NoHandler
  BY <1>1, WholeParts, NameAssumption, NothingAssumption DEF HandlerRecord, Executables
<1>3. PICK a : a \in TrackedFor(e) /\ a.listening /\ a.iId = id
  BY DEF Listens
<1>4. Has(tracker, name, a)
  BY <1>2, <1>3, TrackedAre
<1>5. Asks(tracker, name, id, h)
  <2>1. Waits(handler, name, id, h)
    BY DEF WaitingAt, Waits
  <2> QED BY <1>1, <1>2, <2>1, WholeParts DEF Requests
<1>6. a.iRequestGetEventStatus = h
  <2>1. PICK x : Has(tracker, name, x) /\ x.iId = id /\ x.iRequestGetEventStatus = h
    BY <1>5 DEF Asks
  <2>2. x = a
    BY <1>2, <1>3, <1>4, <2>1, WholeParts, HasOne
  <2> QED BY <2>1, <2>2
<1>7. e \in DOMAIN tracker.iProcesses
  <2>1. e # Star
    BY NameAssumption DEF Executables
  <2> QED BY <1>3, <2>1 DEF TrackedFor
<1>8. PICK n \in Names :
        /\ n # Star /\ Exe[n] = e
        /\ \E told : /\ Told(tracker, n, tracker', told)
                     /\ handler' = [g \in Handlers |-> IF g \in told
                          THEN [handler[g] EXCEPT !.iStatus = "KErrNone"] ELSE handler[g]]
  BY <1>7, EventTells
<1>9. n = name
  BY <1>2, <1>8 DEF Orderly, SpellingsApart
<1>10. PICK told : /\ Told(tracker, n, tracker', told)
                   /\ handler' = [g \in Handlers |-> IF g \in told
                        THEN [handler[g] EXCEPT !.iStatus = "KErrNone"] ELSE handler[g]]
  BY <1>8
<1>11. h \in told
  BY <1>2, <1>3, <1>4, <1>6, <1>9, <1>10 DEF Told
<1>12. handler'[h].iStatus = "KErrNone"
  <2>1. handler[h] \in HandlerRecord
    BY <1>1, WholeParts
  <2>2. handler'[h] = [handler[h] EXCEPT !.iStatus = "KErrNone"]
    BY <1>1, <1>10, <1>11
  <2> QED BY <2>1, <2>2 DEF HandlerRecord
<1> QED BY <1>12 DEF WaitingAt

LEMMA AlwaysWhole ==
  ASSUME Orderly
  PROVE  Spec => []Whole
<1>1. Init => Whole
  BY InitIsWhole
<1>2. Whole /\ [Next]_vars => Whole'
  BY NextKeeps
<1> QED BY <1>1, <1>2, PTL DEF Spec

\* With orderly clients - one spelling for each executable, one session for each
\* agent, one agent that may attach to all, and no failure of an attachment but
\* that of the last step, which is undone - the server never waits for ever in
\* Cancel and the driver never uses an index outside of its attach-all list.
THEOREM ServerAlwaysHealthy ==
  ASSUME Orderly
  PROVE  Spec => []ServerStaysHealthy
<1>1. Whole => ServerStaysHealthy
  BY DEF Whole, ServerStaysHealthy
<1> QED BY <1>1, AlwaysWhole, PTL

\* With orderly clients the maps of the server, the agents of the driver and the
\* handlers of the sessions record the same attachments, whenever no session is
\* being destroyed.
THEOREM AttachmentsAlwaysAgree ==
  ASSUME Orderly
  PROVE  Spec => []AttachmentsAgree
<1>1. Whole => AttachmentsAgree
  BY WholeAgrees DEF AttachmentsAgree
<1> QED BY <1>1, AlwaysWhole, PTL

\* With orderly clients a request is pending exactly when the agent for the name
\* and the agent id of its handler waits with it.
THEOREM RequestsAlwaysTracked ==
  ASSUME Orderly
  PROVE  Spec => []PendingRequestsAreTracked
<1>1. Whole => PendingRequestsAreTracked
  BY WholeTracksRequests
<1> QED BY <1>1, AlwaysWhole, PTL

\* With orderly clients an event of an executable answers the pending request of
\* every debugger that is attached to it and listens, in the same step.
THEOREM EventsAlwaysAnswer ==
  ASSUME Orderly
  PROVE  Spec => EventAnswersWaiters
<1> DEFINE A == \A e \in Executables : Event(e) =>
          \A h \in Owned : (WaitingAt(h) /\ Exe[handler[h].iProcessName] = e /\ Listens(h, e))
                            => ~WaitingAt(h)'
<1>1. Whole => A
  BY EventAnswers
<1>2. EventAnswersWaiters <=> [][A]_vars
  BY DEF EventAnswersWaiters
<1> HIDE DEF A
<1> QED BY <1>1, <1>2, AlwaysWhole, PTL
=============================================================================
