--------------------------- MODULE TraceActivation ---------------------------
(***************************************************************************)
(* Trace activation in TraceCore: the array of activated components and    *)
(* groups (DBTraceOstCategoryBitmap), the OST category handler that looks  *)
(* traces up in it and caches the answers, the kernel category handler     *)
(* that opens and closes the filters of BTrace, the notifier, the settings *)
(* that survive a restart, and the choice of the writer.                   *)
(*                                                                         *)
(* Contexts that interleave: the activation queue, which changes the array *)
(* and primes the categories; traced threads, interrupts and CPUs, which   *)
(* read the array and write the cache of answers without a lock, statement *)
(* by statement; and the caller that changes writers.                      *)
(*                                                                         *)
(* iOstComponents and iTmpArray are two arrays of components, but          *)
(* CopyArray copies the RArray headers of iGroups and not their entries:   *)
(* both arrays address one block of group ids and differ in their counts.  *)
(* "store" holds these blocks.                                             *)
(***************************************************************************)
EXTENDS Integers, FiniteSets, Sequences, SequencesExt, FiniteSetsExt

CONSTANTS
  Kernel,              \* KKernelHooksOSTComponentUID
  EPlatsecPrintf,      \* the last printf group; the first is 0
  ECpuUsage,           \* the kernel category of context switches
  EMetaTrace,          \* the kernel category RefreshActivations leaves alone
  KMaxKernelCategory,  \* the last category of the kernel handler
  KMaxGroupId,         \* the last valid group id
  Granularity,         \* entries by which an RArray of groups grows
  CacheSize,           \* iCacheItem1 .. iCacheItem4
  Contexts,            \* threads, interrupts and CPUs that trace
  MaxTraces,           \* bound on the traces of a behaviour
  Items,               \* pairs that receivers register for, the printfs apart
  Scenarios            \* bounds: the activities that are explored together, the
                       \* <<component, group>> pairs changed and the ones traced,
                       \* the groups in a message

ASSUME TraceAssumption ==
  /\ EPlatsecPrintf \in Nat /\ KMaxKernelCategory \in Nat /\ KMaxGroupId \in Nat
  /\ EPlatsecPrintf < KMaxKernelCategory /\ KMaxKernelCategory <= KMaxGroupId
  /\ Granularity \in Nat \ {0} /\ CacheSize \in Nat \ {0, 1}
  /\ MaxTraces \in Nat
  /\ \A s \in Scenarios : s.uses \cup s.traced \subseteq Nat \X Nat /\ s.lengths \subseteq Nat

KAllGroups == 0
NoWriter   == "none"
XTI        == "EWriterTypeXTI"
USB        == "EWriterTypeUSBPhonet"
Components == {u[1] : u \in UNION {s.uses \cup s.traced : s \in Scenarios}} \cup {Kernel}
Printfs    == {Kernel} \X (0 .. EPlatsecPrintf)
Categories == EPlatsecPrintf + 1 .. KMaxKernelCategory
GroupIdIsValid(g) == g \in 0 .. KMaxGroupId

ASSUME GroupsAssumption == ECpuUsage \in Categories

ASSUME ComponentsAssumption == IsFiniteSet(Components)

VARIABLES
  store,      \* component -> the block of group ids of its RArray
  iOstComponents, iTmpArray,       \* component -> number of groups it holds
  moved,      \* components whose block was moved under the live array
  op,         \* the change the activation queue is working on
  refresh,    \* the rest of RefreshActivations
  iComponentGroupCache,            \* the OST category handler: the words of its
  iCacheItem, iTemp,               \* items, the pointers to them in their order,
  iAllTracesDeactivated,           \* and their swap
  frame,      \* context -> its trace, and the statement that comes next
  cleared,    \* items the activation queue has invalidated in this change
  mixed,      \* history: two updates of the cache have overlapped
  traces,     \* bound: traces that have begun
  registered, told,                \* the notifier, and what receivers know
  torn,       \* components a receiver registered for in the middle of a change
  iSettings, saved,                \* the settings: attached, and their data
  filter, primeDue,                \* open BTrace categories, queued iPrimeDfc
  writers, iActiveWriter, iWriter, \* registered, chosen, in the handlers
  missedPrime,                     \* a priming that came too early or not at all
  scenario                         \* bound: a member of Scenarios

array  == <<store, iOstComponents, iTmpArray, moved>>
items  == <<iComponentGroupCache, iCacheItem, iTemp>>
reader == <<items, frame, cleared, mixed, traces>>
writer == <<writers, iActiveWriter, iWriter>>
notif  == <<registered, told, torn>>
vars   == <<array, op, refresh, reader, iAllTracesDeactivated, notif,
            iSettings, saved, filter, primeDue, writer, missedPrime, scenario>>

Idle    == [pc |-> "idle"]
NoTrace == [stage |-> "none"]
NoRefresh == [queue |-> <<>>, before |-> {}, done |-> {}]

\* The groups an array shows for a component.
View(arr, c)   == IF c \in DOMAIN arr THEN SubSeq(store[c], 1, arr[c]) ELSE <<>>
Holds(arr, c, g) == g \in ToSet(View(arr, c))
Pairs(arr)     == {u \in Components \X (0 .. KMaxGroupId) : Holds(arr, u[1], u[2])}
Activated      == Pairs(iOstComponents)

-----------------------------------------------------------------------------
\* RArray::InsertInOrder and RArray::Remove on a block of which n entries are used.
Grown(block, n) == IF n < Len(block) THEN block
                   ELSE block \o [k \in 1 .. Granularity |-> 0]
\* Mutant: the group is appended.
InsertLast(block, n, g) == [block EXCEPT ![n + 1] = g]
InsertInOrder(block, n, g) ==
  LET at == 1 + Cardinality({k \in 1 .. n : block[k] < g})
  IN  [k \in 1 .. Len(block) |-> IF k < at THEN block[k]
                                 ELSE IF k = at THEN g
                                 ELSE IF k <= n + 1 THEN block[k - 1] ELSE block[k]]
\* Mutant: the entry behind the group is removed.
RemovedNext(block, n, g) ==
  LET at == 1 + CHOOSE k \in 1 .. n : block[k] = g
  IN  [k \in 1 .. Len(block) |-> IF at <= k /\ k < n THEN block[k + 1] ELSE block[k]]
Removed(block, n, g) ==
  LET at == CHOOSE k \in 1 .. n : block[k] = g
  IN  [k \in 1 .. Len(block) |-> IF at <= k /\ k < n THEN block[k + 1] ELSE block[k]]

-----------------------------------------------------------------------------
(* The changes.  A change starts with CopyArray into iTmpArray, edits it    *)
(* entry by entry, swaps the arrays and reports.                            *)

\* The sequence, alone in a set, that holds S in the order of Before.
InOrder(S, Before(_, _)) ==
  {s \in SetToSeqs(S) : \A i, j \in DOMAIN s : i < j => Before(s[i], s[j])}

Edit(do, c, g) == [do |-> do, c |-> c, g |-> g]
Edits(do, c, gs) == [k \in DOMAIN gs |-> Edit(do, c, gs[k])]

Start(c, todo, prune, all) ==
  /\ op' = [pc |-> "edit", c |-> c, todo |-> todo, prune |-> prune, all |-> all,
            changed |-> {}, before |-> Activated, fromSettings |-> FALSE, rest |-> <<>>]
  /\ iTmpArray' = iOstComponents

\* ActivateTrace, and the ACTIVATE frames of both message formats.
ActivateTodo(c, gs) == <<Edit("component", c, 0)>> \o Edits("add", c, gs)
\* DeactivateTrace and the DEACTIVATE frames: FindComponentId decides.  (A frame
\* goes on to report that nothing changed; the single call returns at once.)
DeactivateTodo(c, gs) == IF c \in DOMAIN iOstComponents THEN Edits("remove", c, gs) ELSE <<>>
\* OverwriteGroups: first the groups that left, then the new ones.
OverwriteTodo(c, gone, new) ==
  <<Edit("component", c, 0)>> \o Edits("remove", c, gone) \o Edits("add", c, new)

Rest == UNCHANGED <<store, iOstComponents, moved, reader, iAllTracesDeactivated, notif,
                    iSettings, saved, filter, primeDue, writer, missedPrime>>

Requested(c) == {u[2] : u \in {v \in scenario.uses : v[1] = c}}
Changed      == {u[1] : u \in scenario.uses}
Messages(c)  == UNION {[1 .. n -> Requested(c)] : n \in scenario.lengths}

CanStart == op = Idle /\ refresh.queue = <<>>

ActivateTrace(c, gs)   == /\ CanStart
                          /\ Start(c, ActivateTodo(c, gs), FALSE, FALSE)
                          /\ Rest /\ UNCHANGED refresh
DeactivateTrace(c, gs) == /\ CanStart
                          /\ Start(c, DeactivateTodo(c, gs), TRUE, FALSE)
                          /\ Rest /\ UNCHANGED refresh
OverwriteGroups(c, gs) == /\ CanStart
                          /\ LET old == ToSet(View(iOstComponents, c))
                             IN  \E gone \in InOrder(old \ ToSet(gs), <),
                                    new \in InOrder(ToSet(gs) \ old, <) :
                                   Start(c, OverwriteTodo(c, gone, new), TRUE, FALSE)
                          /\ Rest /\ UNCHANGED refresh
DeactivateAll(c)       == /\ CanStart
                          /\ Start(c, <<>>, FALSE, TRUE)
                          /\ Rest /\ UNCHANGED refresh

\* RefreshActivations copies the array, again without the group entries, and
\* takes every group out and in again; it reads a group id when its turn comes.
RefreshActivations ==
  /\ CanStart
  /\ LET turn == {u \in Components \X (1 .. KMaxGroupId + 1) :
                     u[1] \in DOMAIN iOstComponents /\ u[2] <= iOstComponents[u[1]]}
     IN  \E queue \in InOrder(turn, LAMBDA s, t : s[1] < t[1] \/ (s[1] = t[1] /\ s[2] < t[2])) :
           refresh' = [queue  |-> queue, before |-> Activated, done |-> {}]
  /\ refresh'.queue # <<>>
  /\ Rest /\ UNCHANGED <<iTmpArray, op>>

RefreshOut ==
  /\ op = Idle /\ refresh.queue # <<>> /\ Len(Head(refresh.queue)) = 2
  /\ LET c == Head(refresh.queue)[1]
         g == store[c][Head(refresh.queue)[2]]
     IN  IF c = Kernel /\ g = EMetaTrace
         THEN /\ refresh' = IF Len(refresh.queue) = 1 THEN NoRefresh
                            ELSE [refresh EXCEPT !.queue = Tail(@)]
              /\ UNCHANGED <<op, iTmpArray>>
         ELSE /\ Start(c, DeactivateTodo(c, <<g>>), TRUE, FALSE)
              /\ refresh' = [refresh EXCEPT !.queue = <<<<c, g, "in">>>> \o Tail(@)]
  /\ Rest

RefreshIn ==
  /\ op = Idle /\ refresh.queue # <<>> /\ Len(Head(refresh.queue)) = 3
  /\ LET c == Head(refresh.queue)[1]
         g == Head(refresh.queue)[2]
     IN  Start(c, ActivateTodo(c, <<g>>), FALSE, FALSE)
  /\ refresh' = [refresh EXCEPT !.queue = Tail(@), !.done = @ \cup {<<Head(refresh.queue)[1], Head(refresh.queue)[2]>>}]
  /\ Rest

\* RegisterSettings: ReadFromSettings adds what was saved to what is active.
RegisterSettings ==
  /\ CanStart /\ ~iSettings
  /\ iSettings' = TRUE
  /\ IF saved.some
     THEN \E cs \in InOrder(DOMAIN saved.groups, <) :
            /\ op' = [pc |-> "edit", c |-> 0, todo |-> <<>>, prune |-> FALSE, all |-> FALSE,
                      changed |-> {}, before |-> Activated, fromSettings |-> TRUE, rest |-> cs]
            /\ iTmpArray' = iOstComponents
     ELSE UNCHANGED <<op, iTmpArray>>
  /\ UNCHANGED <<store, iOstComponents, moved, refresh, reader, iAllTracesDeactivated, notif,
                 saved, filter, primeDue, writer, missedPrime>>

\* Mutant: the last group of a component is not read.
RestoreAllButOne(c) == ActivateTodo(c, Front(saved.groups[c]))
RestoreTodo(c) == ActivateTodo(c, saved.groups[c])

\* The loop of ReadFromSettings: the component read last is reported as the one
\* that has changed.
ReadFromSettings ==
  /\ op.pc = "edit" /\ op.todo = <<>> /\ op.rest # <<>>
  /\ op' = [op EXCEPT !.c = Head(op.rest), !.todo = RestoreTodo(Head(op.rest)), !.rest = Tail(@)]
  /\ Rest /\ UNCHANGED <<iTmpArray, refresh>>

UnregisterSettings ==
  /\ CanStart /\ iSettings
  /\ iSettings' = FALSE
  /\ UNCHANGED <<array, op, refresh, reader, iAllTracesDeactivated, notif, saved, filter,
                 primeDue, writer, missedPrime>>

-----------------------------------------------------------------------------
(* One edit of iTmpArray: AddComponentId, AddGroupId, RemoveGroupId.        *)

AddComponentId(c) ==
  /\ IF c \in DOMAIN iTmpArray
     THEN UNCHANGED <<store, iTmpArray>>
     ELSE /\ store' = [store EXCEPT ![c] = <<>>]
          /\ iTmpArray' = [d \in DOMAIN iTmpArray \cup {c} |-> IF d = c THEN 0 ELSE iTmpArray[d]]
  /\ UNCHANGED <<moved, filter>>

\* Growing the block may move it, and the live array keeps the old address.
AddGroupId(c, g) ==
  IF GroupIdIsValid(g) /\ ~Holds(iTmpArray, c, g)
  THEN LET n == iTmpArray[c] IN
       /\ store' = [store EXCEPT ![c] = InsertInOrder(Grown(@, n), n, g)]
       /\ iTmpArray' = [iTmpArray EXCEPT ![c] = n + 1]
       /\ moved' \in IF n = Len(store[c]) /\ c \in DOMAIN iOstComponents
                     THEN {moved, moved \cup {c}} ELSE {moved}
       /\ filter' = IF g > KMaxKernelCategory THEN filter \cup {g} ELSE filter
  ELSE UNCHANGED <<store, iTmpArray, moved, filter>>

RemoveGroupId(c, g) ==
  /\ IF Holds(iTmpArray, c, g)
     THEN LET n == iTmpArray[c] IN
          /\ store' = [store EXCEPT ![c] = Removed(@, n, g)]
          /\ iTmpArray' = [iTmpArray EXCEPT ![c] = n - 1]
          /\ filter' = filter \ {g}
     ELSE UNCHANGED <<store, iTmpArray, filter>>
  /\ UNCHANGED moved

EditOne ==
  /\ op.pc = "edit" /\ op.todo # <<>>
  /\ LET e == Head(op.todo) IN
     /\ \/ e.do = "component" /\ AddComponentId(e.c)
        \/ e.do = "add" /\ AddGroupId(e.c, e.g)
        \/ e.do = "remove" /\ RemoveGroupId(e.c, e.g)
     /\ op' = [op EXCEPT !.todo = Tail(@),
                         !.changed = IF iTmpArray' # iTmpArray /\ e.do # "component"
                                     THEN @ \cup {<<e.c, e.g>>} ELSE @]
  /\ UNCHANGED <<iOstComponents, refresh, reader, iAllTracesDeactivated, notif, iSettings,
                 saved, primeDue, writer, missedPrime>>

\* Whether a trace has begun to write the cache, and a trace that has looked up
\* its answer before the arrays are swapped.
Updating(x)   == frame[x].stage = "update" /\ frame[x].k > 0
Superseded(f) == IF f.stage = "update" THEN [f EXCEPT !.late = TRUE] ELSE f

Without(arr, c) == [d \in DOMAIN arr \ {c} |-> arr[d]]

\* RemoveComponentId, then SetNewComponentsArrayPtr.  What a block holds behind
\* its count is never read again, and is blanked here.
SetNewComponentsArrayPtr ==
  /\ op.pc = "edit" /\ op.todo = <<>> /\ op.rest = <<>>
  /\ LET c    == op.c
         gone == c \in DOMAIN iTmpArray /\ (op.all \/ (op.prune /\ iTmpArray[c] = 0))
         new  == IF gone THEN Without(iTmpArray, c) ELSE iTmpArray
     IN  /\ iOstComponents' = new
         /\ iTmpArray' = new
         /\ store' = [d \in Components |->
                        IF d \in DOMAIN new
                        THEN [k \in DOMAIN store[d] |-> IF k <= new[d] THEN store[d][k] ELSE 0]
                        ELSE <<>>]
         /\ op' = [op EXCEPT !.pc = "swapped",
                             !.changed = IF gone /\ op.all THEN @ \cup {<<c, KAllGroups>>} ELSE @]
  /\ moved' = {}
  /\ frame' = [x \in Contexts |-> Superseded(frame[x])]
  /\ cleared' = 0
  /\ mixed' = FALSE
  /\ UNCHANGED <<refresh, items, traces, iAllTracesDeactivated, notif, iSettings, saved, filter,
                 primeDue, writer, missedPrime>>

-----------------------------------------------------------------------------
(* The notifier.  A receiver that is registered for KAllGroups hears of     *)
(* every group; TraceDeactivated with KAllGroups tells each receiver of the *)
(* component that its own group is off.                                     *)

Hears(c, g) == <<c, g>> \in registered \/ <<c, KAllGroups>> \in registered

\* TraceActivated and TraceDeactivated for sets of pairs.
TraceActivated(known, on) == known \cup {u \in on : Hears(u[1], u[2])}

\* Mutant: the receivers of the single groups do not hear of KAllGroups.
TraceDeactivatedExactly(known, off) == {u \in known : ~(Hears(u[1], u[2]) /\ u \in off)}
TraceDeactivated(known, off) ==
  {u \in known : ~(Hears(u[1], u[2]) /\ (u \in off \/ <<u[1], KAllGroups>> \in off))}

\* The changed groups, each by what the new array says of it.  The groups of a
\* component come in their order: KAllGroups is the first, so what it takes off does
\* not touch the groups that are reported as activated behind it.
Notified(known, changed) ==
  TraceActivated(TraceDeactivated(known, changed \ Activated), changed \cap Activated)

\* An item of the cache is invalidated by its first word ("late" is history).
\* Mutant: it is kept.
KeptItem(item) == item
ClearedItem(item) == [item EXCEPT !.c = 0, !.late = FALSE]

\* HandleTraceActivationChanges invalidates one item after the other, through
\* the pointers that the traces swap.
ClearItem ==
  /\ op.pc = "swapped" /\ cleared < CacheSize
  /\ cleared' = cleared + 1
  /\ iComponentGroupCache' = [iComponentGroupCache EXCEPT ![iCacheItem[cleared + 1]] = ClearedItem(@)]
  /\ mixed' = (mixed \/ \E x \in Contexts : Updating(x))
  /\ UNCHANGED <<array, op, refresh, iCacheItem, iTemp, frame, traces, iAllTracesDeactivated, notif,
                 iSettings, saved, filter, primeDue, writer, missedPrime>>

OnlyPrintfs == \/ DOMAIN iOstComponents = {}
               \/ /\ DOMAIN iOstComponents = {Kernel}
                  /\ \A g \in ToSet(View(iOstComponents, Kernel)) : g <= EPlatsecPrintf

\* The rest of HandleTraceActivationChanges, NotifyInternalActivation and the two
\* ActivationChanged functions.
HandleTraceActivationChanges ==
  /\ op.pc = "swapped" /\ cleared = CacheSize
  /\ op' = Idle
  /\ refresh' = IF refresh.queue = <<>> THEN NoRefresh ELSE refresh
  /\ iAllTracesDeactivated' = OnlyPrintfs
  /\ told' = Notified(told, op.changed)
  /\ saved' = IF ~op.fromSettings /\ iSettings
              THEN [some |-> TRUE,
                    groups |-> [c \in DOMAIN iOstComponents |-> View(iOstComponents, c)]]
              ELSE saved
  /\ primeDue' = (primeDue \/ op.c = Kernel)
  /\ missedPrime' = (missedPrime \/ (op.c # Kernel /\ \E u \in op.changed : u[1] = Kernel))
  /\ UNCHANGED <<array, reader, registered, torn, iSettings, filter, writer>>

\* RegisterNotificationReceiver and NotifyImmediately, which any thread may call:
\* in the middle of a change the groups are read from the block being edited.
RegisterNotificationReceiver(c, g) ==
  /\ <<c, g>> \notin registered
  /\ registered' = registered \cup {<<c, g>>}
  /\ \E seen \in IF c \in moved THEN SUBSET ({c} \X (0 .. KMaxGroupId)) ELSE {Activated} :
       told' = told \cup {u \in seen : u[1] = c /\ (g = KAllGroups \/ u[2] = g)}
  /\ torn' = IF op.pc = "edit" /\ (op.c = c \/ op.fromSettings) THEN torn \cup {c} ELSE torn
  /\ UNCHANGED <<array, op, refresh, reader, iAllTracesDeactivated, iSettings, saved, filter,
                 primeDue, writer, missedPrime>>

UnregisterNotificationReceiver(c, g) ==
  /\ <<c, g>> \in registered
  /\ registered' = {u \in registered : u[1] # c \/ (u[2] # g /\ g # KAllGroups)}
  /\ told' = {u \in told : u \in registered' \/ <<u[1], KAllGroups>> \in registered'}
  /\ torn' = IF \E u \in registered' : u[1] = c THEN torn ELSE torn \ {c}
  /\ UNCHANGED <<array, op, refresh, reader, iAllTracesDeactivated, iSettings, saved, filter,
                 primeDue, writer, missedPrime>>

-----------------------------------------------------------------------------
(* The OST category handler: HandleFrame, statement by statement.  The      *)
(* entry takes no lock, and the item pointers, iTemp and the words of the    *)
(* items are shared by all contexts.                                         *)

IsTraceActivated(c, g) == IF c \in moved THEN BOOLEAN
                          ELSE {Holds(iOstComponents, c, g)}

Seen == UNCHANGED <<array, op, refresh, cleared, iAllTracesDeactivated, notif, iSettings,
                    saved, filter, primeDue, writer, missedPrime>>

HandleFrame(x, c, g) ==
  /\ frame[x] = NoTrace /\ traces < MaxTraces
  /\ g > KMaxKernelCategory /\ g \in filter
  /\ iWriter # NoWriter /\ ~iAllTracesDeactivated
  /\ frame' = [frame EXCEPT ![x] = [stage |-> "compare", c |-> c, g |-> g, k |-> 1]]
  /\ traces' = traces + 1
  /\ UNCHANGED <<items, mixed>> /\ Seen

\* The trace is compared with one item after the other; a match answers it.
CompareItem(x) ==
  /\ frame[x].stage = "compare" /\ frame[x].k <= CacheSize
  /\ LET item == iComponentGroupCache[iCacheItem[frame[x].k]]
     IN  frame' = IF item.c = frame[x].c /\ item.g = frame[x].g
                  THEN [frame EXCEPT ![x] = NoTrace] ELSE [frame EXCEPT ![x].k = @ + 1]
  /\ UNCHANGED <<items, mixed, traces>> /\ Seen

LookUp(x) ==
  /\ frame[x].stage = "compare" /\ frame[x].k = CacheSize + 1
  /\ \E on \in IsTraceActivated(frame[x].c, frame[x].g) :
       frame' = [frame EXCEPT ![x] = [stage |-> "update", c |-> @.c, g |-> @.g, k |-> 0,
                                      on |-> on, late |-> FALSE]]
  /\ UNCHANGED <<items, mixed, traces>> /\ Seen

\* The swap of the pointers: iTemp takes the first, the first the last, every
\* other one, from the last down, the one before it, and the second iTemp.
SwapPointers(x) ==
  /\ frame[x].stage = "update" /\ frame[x].k <= CacheSize
  /\ LET k == frame[x].k IN
     /\ iTemp' = IF k = 0 THEN iCacheItem[1] ELSE iTemp
     /\ iCacheItem' = CASE k = 0         -> iCacheItem
                        [] k = 1         -> [iCacheItem EXCEPT ![1] = iCacheItem[CacheSize]]
                        [] k = CacheSize -> [iCacheItem EXCEPT ![2] = iTemp]
                        [] OTHER         -> [iCacheItem EXCEPT ![CacheSize + 2 - k] =
                                                                 iCacheItem[CacheSize + 1 - k]]
     /\ mixed' = (mixed \/ (k = 0 /\ \E y \in Contexts : Updating(y)))
  /\ frame' = [frame EXCEPT ![x].k = @ + 1]
  /\ UNCHANGED <<iComponentGroupCache, traces>> /\ Seen

\* The three words of the first item; the trace is over with the last of them.
WriteWord(x) ==
  /\ frame[x].stage = "update" /\ frame[x].k > CacheSize
  /\ LET f    == frame[x]
         item == iComponentGroupCache[iCacheItem[1]]
     IN  /\ iComponentGroupCache' = [iComponentGroupCache EXCEPT ![iCacheItem[1]] =
               CASE f.k = CacheSize + 1 -> [item EXCEPT !.c = f.c]
                 [] f.k = CacheSize + 2 -> [item EXCEPT !.g = f.g]
                 [] OTHER               -> [item EXCEPT !.on = f.on, !.late = f.late]]
         /\ frame' = IF f.k = CacheSize + 3 THEN [frame EXCEPT ![x] = NoTrace]
                     ELSE [frame EXCEPT ![x].k = @ + 1]
  /\ UNCHANGED <<iCacheItem, iTemp, mixed, traces>> /\ Seen

-----------------------------------------------------------------------------
(* The kernel category handler and the writers.                             *)

\* Mutant: an inactive category is not closed.
PrimedOpen(gs) == filter \cup {g \in gs : iWriter # NoWriter /\ Holds(iOstComponents, Kernel, g)}

\* PrimeCategory, for the categories gs.
Primed(gs) ==
  LET open == {g \in gs : /\ iWriter # NoWriter
                          /\ Holds(iOstComponents, Kernel, g)
                          /\ g # ECpuUsage \/ iWriter # USB}
  IN  (filter \ gs) \cup open

\* The priming runs between changes: both are functions of the activation queue.
PrimeDfc ==
  /\ primeDue /\ op = Idle
  /\ primeDue' = FALSE
  /\ filter' = Primed(Categories)
  /\ missedPrime' = (iWriter = NoWriter /\ iActiveWriter # NoWriter)
  /\ UNCHANGED <<array, op, refresh, reader, iAllTracesDeactivated, notif, iSettings, saved,
                 writer>>

\* SetWriterToHandlers calls PrepareSetWriter of the kernel handler while
\* iWriter still is the old one ...
PrepareSetWriter(w) ==
  /\ iActiveWriter' = w
  /\ primeDue' = (primeDue \/ (iWriter = NoWriter /\ w # NoWriter))
  /\ LET all == iWriter # NoWriter /\ w = NoWriter
     IN  filter' = IF all THEN Primed(Categories)
                   ELSE IF w = USB THEN Primed({ECpuUsage}) ELSE filter
  /\ missedPrime' = (missedPrime \/ (iWriter = USB /\ w = XTI))
  /\ UNCHANGED <<array, op, refresh, reader, iAllTracesDeactivated, notif, iSettings, saved,
                 iWriter>>

Settled == iActiveWriter = iWriter

RegisterWriter(w) ==
  /\ Settled /\ w \notin ToSet(writers)
  /\ writers' = Append(writers, w)
  /\ IF iActiveWriter = NoWriter THEN PrepareSetWriter(w)
     ELSE UNCHANGED <<array, op, refresh, reader, iAllTracesDeactivated, notif, iSettings, saved,
                      filter, primeDue, iActiveWriter, iWriter, missedPrime>>

UnregisterWriter(w) ==
  /\ Settled /\ w \in ToSet(writers)
  /\ writers' = SelectSeq(writers, LAMBDA v : v # w)
  /\ IF iActiveWriter = w
     THEN PrepareSetWriter(IF writers' = <<>> THEN NoWriter ELSE Head(writers'))
     ELSE UNCHANGED <<array, op, refresh, reader, iAllTracesDeactivated, notif, iSettings, saved,
                      filter, primeDue, iActiveWriter, iWriter, missedPrime>>

SwitchToWriter(w) ==
  /\ Settled /\ iActiveWriter # w
  /\ w = NoWriter \/ w \in ToSet(writers)
  /\ PrepareSetWriter(w)
  /\ UNCHANGED writers

\* ... and SetWriter follows, with interrupts disabled.
SetWriter ==
  /\ ~Settled
  /\ iWriter' = iActiveWriter
  /\ UNCHANGED <<array, op, refresh, reader, iAllTracesDeactivated, notif, iSettings, saved,
                 filter, primeDue, writers, iActiveWriter, missedPrime>>

-----------------------------------------------------------------------------
\* DTraceCore::Init has registered and activated the printf groups.
BootStore == [c \in Components |-> IF c = Kernel THEN [k \in 1 .. EPlatsecPrintf + 1 |-> k - 1]
                                                ELSE <<>>]
BootArray == [c \in {Kernel} |-> EPlatsecPrintf + 1]

\* The handler is zero-filled, and its pointers address the items in their order.
NoAnswers  == [i \in 1 .. CacheSize |-> [c |-> 0, g |-> 0, on |-> FALSE, late |-> FALSE]]
FirstOrder == [i \in 1 .. CacheSize |-> i]

Init == /\ store = BootStore /\ iOstComponents = BootArray /\ iTmpArray = BootArray
        /\ moved = {} /\ op = Idle /\ refresh = NoRefresh
        /\ iComponentGroupCache = NoAnswers /\ iCacheItem = FirstOrder /\ iTemp = 1
        /\ frame = [x \in Contexts |-> NoTrace] /\ iAllTracesDeactivated = TRUE
        /\ cleared = CacheSize /\ mixed = FALSE /\ traces = 0
        /\ registered = Printfs /\ told = Printfs /\ torn = {}
        /\ iSettings = FALSE /\ filter = {} /\ primeDue = TRUE
        /\ writers = <<>> /\ iActiveWriter = NoWriter /\ iWriter = NoWriter
        /\ missedPrime = FALSE
        /\ saved = [some |-> FALSE, groups |-> <<>>]
        /\ scenario \in Scenarios

\* A restart of the phone leaves nothing but the settings.
Restart ==
  /\ store' = BootStore /\ iOstComponents' = BootArray /\ iTmpArray' = BootArray
  /\ moved' = {} /\ op' = Idle /\ refresh' = NoRefresh
  /\ iComponentGroupCache' = NoAnswers /\ iCacheItem' = FirstOrder /\ iTemp' = 1
  /\ frame' = [x \in Contexts |-> NoTrace] /\ iAllTracesDeactivated' = TRUE
  /\ cleared' = CacheSize /\ mixed' = FALSE /\ UNCHANGED traces
  /\ registered' = Printfs /\ told' = Printfs /\ torn' = {}
  /\ iSettings' = FALSE /\ filter' = {} /\ primeDue' = TRUE
  /\ writers' = <<>> /\ iActiveWriter' = NoWriter /\ iWriter' = NoWriter
  /\ missedPrime' = FALSE
  /\ UNCHANGED saved

Changes ==
  \/ \E c \in Changed : \E gs \in Messages(c) : ActivateTrace(c, gs) \/ DeactivateTrace(c, gs)
  \/ /\ "overwrites" \in scenario.does
     /\ \E c \in Changed : DeactivateAll(c) \/ \E gs \in Messages(c) : OverwriteGroups(c, gs)
  \/ EditOne \/ SetNewComponentsArrayPtr \/ ClearItem \/ HandleTraceActivationChanges
  \/ PrimeDfc

Refresh == RefreshActivations \/ RefreshOut \/ RefreshIn

Traces == \E x \in Contexts :
            \/ \E u \in scenario.traced : HandleFrame(x, u[1], u[2])
            \/ CompareItem(x) \/ LookUp(x) \/ SwapPointers(x) \/ WriteWord(x)

Receivers == \E u \in Items : \/ RegisterNotificationReceiver(u[1], u[2])
                             \/ UnregisterNotificationReceiver(u[1], u[2])

Settings == RegisterSettings \/ ReadFromSettings \/ UnregisterSettings \/ Restart

Writers == \/ \E w \in {XTI, USB} : RegisterWriter(w) \/ UnregisterWriter(w)
           \/ \E w \in {XTI, USB, NoWriter} : SwitchToWriter(w)

Next == /\ \/ Changes \/ SetWriter
           \/ "refresh"   \in scenario.does /\ Refresh
           \/ "traces"    \in scenario.does /\ (Traces \/ RegisterWriter(XTI))
           \/ "receivers" \in scenario.does /\ Receivers
           \/ "settings"  \in scenario.does /\ Settings
           \/ "writers"   \in scenario.does /\ Writers
        /\ UNCHANGED scenario

Spec == Init /\ [][Next]_vars

-----------------------------------------------------------------------------
(* Properties.                                                              *)

\* An answer in the cache that is not the array's; component id 0 marks an item
\* as empty.
Stale(item) == item.c # 0 /\ ~item.late /\ ~(item.on <=> <<item.c, item.g>> \in Activated)

\* The item a trace is about to write or is in the middle of writing.
BeingWritten == {iCacheItem[1] : y \in {x \in Contexts : Updating(x) /\ frame[x].k > 1}}

\* Between two changes no item of the cache holds an answer that is not what the
\* array says, and all traces are off only if none is activated: the answers of
\* the old array are gone, although traces swap the item pointers while the items
\* are cleared.  Exceptions: an answer that was looked up before the arrays were
\* swapped, the item that is being written, and everything after two updates
\* have overlapped, or an update and a clearing, until the next clearing that
\* no update overlaps.
FramesFollowTheBitmap ==
  op = Idle =>
    /\ ~mixed => \A i \in DOMAIN iCacheItem :
                   iCacheItem[i] \in BeingWritten \/ ~Stale(iComponentGroupCache[iCacheItem[i]])
    /\ iAllTracesDeactivated => \A u \in Activated : u[2] <= EPlatsecPrintf

\* While iTmpArray is edited, traces are looked up in a live array whose group
\* entries are the ones being edited.  Unless the block was moved away, such a
\* look-up never finds a group that is neither old nor new, and it misses an
\* untouched group only of a component that a smaller group is inserted into.
TornReadsAreBounded ==
  op.pc = "edit" =>
    \A u \in Components \X (0 .. KMaxGroupId) :
      u[1] \notin moved =>
        /\ u \in Activated => u \in op.before \cup op.changed
        /\ u \in op.before \ (Activated \cup op.changed) =>
             \E v \in op.changed \ op.before : v[1] = u[1] /\ v[2] < u[2]

\* Between two changes, a receiver has been told that a group is on exactly when
\* it is on.  Group 0, a printf of the kernel component, is KAllGroups too: when
\* it goes off, the receivers of the component are told that they are off.
ReceiversAgree ==
  op = Idle =>
    \A u \in {v \in Components \X (0 .. KMaxGroupId) : Hears(v[1], v[2]) /\ v[1] \notin torn} :
      /\ u \in told => u \in Activated
      /\ u \in Activated /\ u[1] # Kernel => u \in told

Shared(g) == \E u, v \in scenario.uses : u[2] = g /\ v[2] = g /\ u[1] # v[1]

\* When no change, priming or switch of the writer is under way, BTrace passes a
\* kernel category only if it is activated, and it passes every activated group
\* that no other component uses, a kernel category if there is a writer.
FiltersFollow ==
  op = Idle /\ refresh = NoRefresh /\ ~primeDue /\ Settled =>
    /\ \A g \in filter \cap Categories : <<Kernel, g>> \in Activated
    /\ \A u \in Activated :
         ~Shared(u[2]) =>
           /\ u[2] > KMaxKernelCategory => u[2] \in filter
           /\ /\ u[1] = Kernel /\ u[2] \in Categories \ {ECpuUsage}
              /\ iWriter # NoWriter /\ ~missedPrime
              => u[2] \in filter

\* RefreshActivations takes every group but the meta trace out and in again, each
\* one in its turn, although it reads the groups from the block that it edits.
RefreshKeepsTraces ==
  refresh # NoRefresh /\ op.pc = "swapped" =>
    LET out == {<<q[1], q[2]>> : q \in {r \in ToSet(refresh.queue) : Len(r) = 3}}
    IN  /\ Activated = refresh.before \ out
        /\ refresh.queue = <<>> => refresh.done = refresh.before \ {<<Kernel, EMetaTrace>>}

\* With the settings attached, what they hold is active, after every change and
\* after a restart of the phone.
SettingsAreRestored ==
  op = Idle /\ iSettings /\ saved.some =>
    \A c \in DOMAIN saved.groups : \A g \in ToSet(saved.groups[c]) : <<c, g>> \in Activated

\* CPU events are off while the USB writer is in use.
CpuEventsAreOff ==
  op = Idle /\ ~primeDue /\ Settled /\ iWriter = USB => ECpuUsage \notin filter
=============================================================================
