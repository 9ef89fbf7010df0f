----------------------- MODULE TraceActivationProofs -----------------------
(***************************************************************************)
(* Proofs about TraceActivation, for any components, groups, scenarios and *)
(* sizes: what a trace is told by the cache, or by the flag that all       *)
(* traces are off, is what the array of activated groups says; what was    *)
(* saved before a restart is active again once the settings are read; how  *)
(* far a look-up in the middle of a change can be wrong; that a refresh    *)
(* leaves what was activated; which categories BTrace passes; and that the *)
(* receivers of the notifier know what is activated.                       *)
(***************************************************************************)
EXTENDS TraceActivation, SequenceTheorems, FiniteSetTheorems, TLAPS

-----------------------------------------------------------------------------
(* Sequences and sets.                                                     *)

\* The elements of a sequence.
LEMMA ElementsOfSeq ==
    ASSUME NEW S, NEW s \in Seq(S)
    PROVE  /\ ToSet(s) \subseteq S
           /\ \A e : e \in ToSet(s) <=> \E i \in 1 .. Len(s) : s[i] = e
BY DEF ToSet

\* A function on 1 .. n is a sequence of length n.
LEMMA FunctionIsSeq ==
  ASSUME NEW S, NEW n \in Nat, NEW f \in [1 .. n -> S]
  PROVE  f \in Seq(S) /\ Len(f) = n
<1>1. f \in Seq(S)
  BY SeqDef
<1>2. DOMAIN f = 1 .. n
  OBVIOUS
<1> QED BY <1>1, <1>2, LenProperties

\* A sequence is one over any set that holds its elements.
LEMMA OwnElements ==
  ASSUME NEW S, NEW s \in Seq(S)
  PROVE  s \in Seq(ToSet(s))
<1>1. Len(s) \in Nat /\ DOMAIN s = 1 .. Len(s) /\ s \in [1 .. Len(s) -> S]
  OBVIOUS
<1>2. \A k \in 1 .. Len(s) : s[k] \in ToSet(s)
  BY <1>1 DEF ToSet
<1>3. s \in [1 .. Len(s) -> ToSet(s)]
  BY <1>1, <1>2
<1> QED BY <1>1, <1>3, SeqDef

\* A member of SetToSeqs is a sequence of the whole set.
LEMMA SeqOfSet ==
  ASSUME NEW S, IsFiniteSet(S), NEW s \in SetToSeqs(S)
  PROVE  s \in Seq(S) /\ ToSet(s) = S
<1> DEFINE n == Cardinality(S)
<1>1. n \in Nat
  BY FS_CardinalityType
<1>2. s \in [1 .. n -> S] /\ \A i, j \in 1 .. n : i # j => s[i] # s[j]
  BY DEF SetToSeqs
<1>3. IsFiniteSet(1 .. n) /\ Cardinality(1 .. n) = n
  BY <1>1, FS_Interval
<1> HIDE DEF n
<1>4. s \in Injection(1 .. n, S)
  BY <1>2 DEF Injection, IsInjective
<1>5. s \in Surjection(1 .. n, S)
  BY <1>3, <1>4, FS_Injection DEF n
<1>6. \A x \in S : \E i \in 1 .. n : s[i] = x
  BY <1>5 DEF Surjection
<1>7. s \in Seq(S)
  BY <1>1, <1>2, SeqDef
<1>8. DOMAIN s = 1 .. n
  BY <1>2
<1> QED BY <1>2, <1>6, <1>7, <1>8 DEF ToSet

Group == 0 .. KMaxGroupId

-----------------------------------------------------------------------------
(* Blocks of group ids.                                                    *)

\* The first n entries of a block hold group g.
In(block, n, g) == \E k \in 1 .. n : block[k] = g

\* View shows the first entries of a block.
LEMMA ViewElements ==
  ASSUME NEW S, NEW b \in Seq(S), NEW n \in 0 .. Len(b), NEW g
  PROVE  g \in ToSet(SubSeq(b, 1, n)) <=> In(b, n, g)
<1>1. /\ n \in Nat /\ Len(b) \in Nat /\ Len(SubSeq(b, 1, n)) = n
      /\ DOMAIN SubSeq(b, 1, n) = 1 .. n
      /\ \A k \in 1 .. n : SubSeq(b, 1, n)[k] = b[k]
  OBVIOUS
<1> DEFINE v == SubSeq(b, 1, n)
<1> HIDE DEF v
<1> QED BY <1>1 DEF ToSet, In, v

\* RArray::Insert puts the group among the used entries and keeps the others.
LEMMA InsertKeeps ==
  ASSUME NEW b \in Seq(Group), NEW n \in 0 .. Len(b), NEW g \in Group
  PROVE  LET r == InsertInOrder(Grown(b, n), n, g)
         IN  /\ r \in Seq(Group) /\ Len(b) <= Len(r) /\ n + 1 <= Len(r)
             /\ \A h : In(r, n + 1, h) <=> h = g \/ In(b, n, h)
<1> USE TraceAssumption
<1> DEFINE B == Grown(b, n)
           At == 1 + Cardinality({k \in 1 .. n : B[k] < g})
           r == InsertInOrder(B, n, g)
<1>1. n \in Nat /\ Len(b) \in Nat /\ n <= Len(b) /\ Granularity \in Nat /\ Granularity >= 1
  OBVIOUS
<1>2. 0 \in Group
  BY DEF Group
<1>3. /\ B \in Seq(Group) /\ Len(b) <= Len(B) /\ n + 1 <= Len(B) /\ Len(B) \in Nat
      /\ \A k \in 1 .. n : B[k] = b[k]
  <2> DEFINE z == [k \in 1 .. Granularity |-> 0]
  <2>1. z \in Seq(Group) /\ Len(z) = Granularity
    BY <1>1, <1>2
  <2>2. CASE n < Len(b)
    BY <2>2, <1>1 DEF Grown
  <2>3. CASE ~ (n < Len(b))
    <3>1. B = b \o z
      BY <2>3 DEF Grown
    <3> HIDE DEF z
    <3>2. /\ b \o z \in Seq(Group) /\ Len(b \o z) = Len(b) + Granularity
          /\ \A k \in 1 .. n : (b \o z)[k] = b[k]
      BY <2>1, <1>1
    <3> QED BY <3>1, <3>2, <1>1
  <2> QED BY <2>2, <2>3
<1> HIDE DEF B
<1>4. At \in 1 .. n + 1
  <2>1. IsFiniteSet(1 .. n) /\ Cardinality(1 .. n) = n
    BY <1>1, FS_Interval
  <2> DEFINE L == {k \in 1 .. n : B[k] < g}
  <2>2. L \in SUBSET (1 .. n)
    OBVIOUS
  <2> HIDE DEF L
  <2>3. IsFiniteSet(L) /\ Cardinality(L) <= Cardinality(1 .. n)
    BY <2>1, <2>2, FS_Subset, Zenon
  <2>4. Cardinality(L) \in Nat
    BY <2>3, FS_CardinalityType
  <2> QED BY <2>1, <2>3, <2>4, <1>1 DEF L
<1>5. r = [k \in 1 .. Len(B) |-> IF k < At THEN B[k]
                                 ELSE IF k = At THEN g
                                 ELSE IF k <= n + 1 THEN B[k - 1] ELSE B[k]]
  BY Zenon DEF InsertInOrder
<1> HIDE DEF At, r
<1>6. \A k \in 1 .. Len(B) : r[k] = IF k < At THEN B[k]
                                    ELSE IF k = At THEN g
                                    ELSE IF k <= n + 1 THEN B[k - 1] ELSE B[k]
  BY <1>5
<1>7. \A k \in 1 .. Len(B) : r[k] \in Group
  BY <1>1, <1>3, <1>4, <1>6
<1>8. r \in Seq(Group) /\ Len(r) = Len(B)
  <2>1. r \in [1 .. Len(B) -> Group]
    BY <1>5, <1>7
  <2> QED BY <2>1, <1>3, FunctionIsSeq
<1>9. ASSUME NEW h, NEW k \in 1 .. n + 1, r[k] = h
      PROVE  h = g \/ \E j \in 1 .. n : b[j] = h
  <2>1. CASE k < At
    <3>1. k \in 1 .. n /\ k \in 1 .. Len(B)
      BY <2>1, <1>1, <1>3, <1>4
    <3> QED BY <2>1, <3>1, <1>9, <1>3, <1>6
  <2>2. CASE k = At
    <3>1. k \in 1 .. Len(B) /\ ~ (k < At)
      BY <2>2, <1>1, <1>3, <1>4
    <3> QED BY <2>2, <3>1, <1>9, <1>6
  <2>3. CASE k > At
    <3>1. k - 1 \in 1 .. n /\ r[k] = B[k - 1]
      BY <2>3, <1>1, <1>3, <1>4, <1>6
    <3> QED BY <3>1, <1>9, <1>3
  <2> QED BY <2>1, <2>2, <2>3, <1>1, <1>4
<1>10. r[At] = g /\ At \in 1 .. n + 1
  BY <1>1, <1>3, <1>4, <1>6
<1>11. ASSUME NEW j \in 1 .. n
       PROVE  \E k \in 1 .. n + 1 : r[k] = b[j]
  <2>1. CASE j < At
    <3>1. j \in 1 .. n + 1 /\ r[j] = b[j]
      BY <2>1, <1>1, <1>3, <1>4, <1>6
    <3> QED BY <3>1
  <2>2. CASE ~ (j < At)
    <3>1. j + 1 \in 1 .. n + 1 /\ r[j + 1] = B[(j + 1) - 1] /\ (j + 1) - 1 = j
      BY <2>2, <1>1, <1>3, <1>4, <1>6
    <3> QED BY <3>1, <1>3
  <2> QED BY <2>1, <2>2
<1>12. \A h : In(r, n + 1, h) <=> h = g \/ In(b, n, h)
  BY <1>9, <1>10, <1>11 DEF In
<1> QED BY <1>3, <1>8, <1>12 DEF r, B

\* RArray::Remove keeps the block.
LEMMA RemoveKeeps ==
  ASSUME NEW b \in Seq(Group), NEW n \in 0 .. Len(b), NEW g
  PROVE  Removed(b, n, g) \in Seq(Group) /\ Len(Removed(b, n, g)) = Len(b)
<1> DEFINE at == CHOOSE k \in 1 .. n : b[k] = g
           r == Removed(b, n, g)
<1>1. n \in Nat /\ Len(b) \in Nat /\ n <= Len(b) /\ \A k \in 1 .. Len(b) : b[k] \in Group
  OBVIOUS
<1>2. r = [k \in 1 .. Len(b) |-> IF at <= k /\ k < n THEN b[k + 1] ELSE b[k]]
  BY Zenon DEF Removed
<1> HIDE DEF at, r
<1>3. \A k \in 1 .. Len(b) : r[k] \in Group
  <2> SUFFICES ASSUME NEW k \in 1 .. Len(b) PROVE r[k] \in Group
    OBVIOUS
  <2>1. r[k] = IF at <= k /\ k < n THEN b[k + 1] ELSE b[k]
    BY <1>2
  <2>2. k < n => k + 1 \in 1 .. Len(b)
    BY <1>1
  <2> QED BY <1>1, <2>1, <2>2
<1>4. r \in [1 .. Len(b) -> Group]
  BY <1>2, <1>3
<1> QED BY <1>1, <1>4, FunctionIsSeq DEF r

-----------------------------------------------------------------------------
(* The inductive invariant.                                                *)

\* An array counts groups of components, no more than their blocks have.
Within(arr) ==
  /\ arr \in [DOMAIN arr -> Nat] /\ DOMAIN arr \subseteq Components
  /\ \A c \in DOMAIN arr : arr[c] <= Len(store[c])

\* Between two changes there is one array; a change drops no component from
\* iTmpArray before the swap.
Blocks ==
  /\ store \in [Components -> Seq(Group)]
  /\ Within(iOstComponents) /\ Within(iTmpArray)
  /\ DOMAIN iOstComponents \subseteq DOMAIN iTmpArray
  /\ op.pc # "edit" => iTmpArray = iOstComponents /\ moved = {}

\* The edits still to be made are edits of one component, which is added first.
Todo(todo, c) ==
  /\ todo \in Seq(ToSet(todo))
  /\ \A k \in DOMAIN todo : /\ todo[k].do \in {"component", "add", "remove"}
                            /\ todo[k].c = c
                            /\ k > 1 => todo[k].do # "component"

Added(todo, c) ==
  \A k \in DOMAIN todo :
    todo[k].do = "add" => c \in DOMAIN iTmpArray \/ todo[1].do = "component"

Change ==
  /\ op = [pc |-> op.pc, c |-> op.c, todo |-> op.todo, prune |-> op.prune, all |-> op.all,
           changed |-> op.changed, before |-> op.before,
           fromSettings |-> op.fromSettings, rest |-> op.rest]
  /\ op.pc \in {"edit", "swapped"}
  /\ op.fromSettings \in BOOLEAN
  /\ op.rest \in Seq(DOMAIN saved.groups)
  /\ op.todo # <<>> => op.c \in Components
  /\ Todo(op.todo, op.c) /\ Added(op.todo, op.c)

Operation == op = Idle \/ Change

\* The turns of RefreshActivations.
Turns ==
  /\ refresh.queue \in Seq(ToSet(refresh.queue))
  /\ \A i \in DOMAIN refresh.queue : refresh.queue[i][1] \in Components
  /\ refresh = [queue |-> refresh.queue, before |-> refresh.before, done |-> refresh.done]

\* The settings hold groups that were activated once.
Saved ==
  /\ DOMAIN saved.groups \subseteq Components
  /\ \A c \in DOMAIN saved.groups : saved.groups[c] \in Seq(Group)

Shape == Blocks /\ Operation /\ Turns /\ Saved /\ scenario \in Scenarios

\* A trace that is compared with the cache, and one that has its answer.
Asking == [stage : {"compare"}, c : Components, g : Nat, k : Nat]
Answer == [stage : {"update"}, c : Components, g : Nat, k : Nat, on : BOOLEAN, late : BOOLEAN]

Right(a) == a.late \/ (a.on <=> <<a.c, a.g>> \in Activated)

\* The traces of all contexts, the ones that have an answer with the right one.
Framed(f, right) ==
  /\ f \in [Contexts -> {NoTrace} \cup Asking \cup Answer]
  /\ right => \A x \in Contexts : f[x].stage = "update" => Right(f[x])

\* Outside of the edits a look-up is right, and between two changes so is the flag.
Frames ==
  /\ Framed(frame, op.pc # "edit")
  /\ op = Idle /\ iAllTracesDeactivated => \A u \in Activated : u[2] <= EPlatsecPrintf

\* The saved groups are active, or are about to be while they are read.
Restored ==
  /\ op # Idle /\ op.fromSettings =>
       /\ iSettings /\ saved.some /\ ~ op.prune /\ ~ op.all
       /\ \A k \in DOMAIN op.todo : op.todo[k].do # "remove"
       /\ op.pc = "edit" =>
            \A c \in DOMAIN saved.groups : \A g \in ToSet(saved.groups[c]) :
              \/ c \in ToSet(op.rest)
              \/ \E k \in DOMAIN op.todo : op.todo[k] = Edit("add", c, g)
              \/ Holds(iTmpArray, c, g)
  /\ op = Idle \/ (op.pc = "swapped" /\ op.fromSettings) =>
       (iSettings /\ saved.some =>
          \A c \in DOMAIN saved.groups : \A g \in ToSet(saved.groups[c]) : <<c, g>> \in Activated)

Inv == Shape /\ Frames /\ Restored

-----------------------------------------------------------------------------
(* Lists of edits.                                                         *)

\* Elements of two concatenated sequences.
LEMMA ConcatElements ==
  ASSUME NEW S, NEW s \in Seq(S), NEW t \in Seq(S)
  PROVE  /\ s \o t \in Seq(ToSet(s \o t))
         /\ Len(s \o t) = Len(s) + Len(t) /\ DOMAIN (s \o t) = 1 .. Len(s) + Len(t)
         /\ \A k \in 1 .. Len(s) : (s \o t)[k] = s[k]
         /\ \A k \in 1 .. Len(t) : (s \o t)[k + Len(s)] = t[k]
<1>1. Len(s) \in Nat /\ Len(t) \in Nat
  OBVIOUS
<1>2. /\ s \o t \in Seq(S) /\ Len(s \o t) = Len(s) + Len(t)
      /\ \A i \in 1 .. Len(s) + Len(t) :
           (s \o t)[i] = IF i <= Len(s) THEN s[i] ELSE t[i - Len(s)]
  BY <1>1, ConcatProperties
<1>3. \A k \in 1 .. Len(s) : (s \o t)[k] = s[k]
  BY <1>1, <1>2
<1>4. ASSUME NEW k \in 1 .. Len(t)
      PROVE  (s \o t)[k + Len(s)] = t[k]
  <2>1. k + Len(s) \in 1 .. Len(s) + Len(t) /\ ~ (k + Len(s) <= Len(s)) /\ (k + Len(s)) - Len(s) = k
    BY <1>1
  <2> QED BY <2>1, <1>2
<1>5. s \o t \in Seq(ToSet(s \o t))
  BY <1>2, OwnElements
<1> QED BY <1>1, <1>2, <1>3, <1>4, <1>5

\* One element and then a sequence.
LEMMA PrependElements ==
  ASSUME NEW S, NEW s \in Seq(S), NEW e
  PROVE  /\ <<e>> \o s \in Seq(ToSet(<<e>> \o s)) /\ Len(<<e>> \o s) = Len(s) + 1
         /\ DOMAIN (<<e>> \o s) = 1 .. Len(s) + 1 /\ (<<e>> \o s)[1] = e
         /\ \A k \in 1 .. Len(s) : (<<e>> \o s)[k + 1] = s[k]
<1> DEFINE f == <<e>>
           A == S \cup {e}
           r == f \o s
<1>1. /\ f \in Seq(A) /\ Len(f) = 1 /\ f[1] = e
      /\ s \in Seq(A) /\ Len(s) \in Nat
  OBVIOUS
<1>0. r = f \o s
  OBVIOUS
<1> HIDE DEF f, A, r
<1>2. /\ r \in Seq(ToSet(r))
      /\ Len(r) = Len(f) + Len(s) /\ DOMAIN r = 1 .. Len(f) + Len(s)
      /\ \A k \in 1 .. Len(f) : r[k] = f[k]
      /\ \A k \in 1 .. Len(s) : r[k + Len(f)] = s[k]
  <2>1. r = f \o s /\ f \in Seq(A) /\ s \in Seq(A)
    BY <1>0, <1>1
  <2> QED BY <2>1, ConcatElements
<1>3. 1 + Len(s) = Len(s) + 1 /\ 1 \in 1 .. 1
  BY <1>1
<1> QED BY <1>1, <1>2, <1>3 DEF f, r

LEMMA EditsShape ==
  ASSUME NEW S, NEW gs \in Seq(S), NEW do, NEW c
  PROVE  /\ Edits(do, c, gs) \in Seq(ToSet(Edits(do, c, gs)))
         /\ Len(Edits(do, c, gs)) = Len(gs)
         /\ \A k \in 1 .. Len(gs) : Edits(do, c, gs)[k] = Edit(do, c, gs[k])
<1> DEFINE b == Edits(do, c, gs)
<1>1. Len(gs) \in Nat /\ DOMAIN gs = 1 .. Len(gs)
  OBVIOUS
<1>2. b = [k \in 1 .. Len(gs) |-> Edit(do, c, gs[k])]
  BY <1>1 DEF Edits
<1> HIDE DEF b
<1>3. DOMAIN b = 1 .. Len(gs) /\ \A k \in 1 .. Len(gs) : b[k] = Edit(do, c, gs[k])
  BY <1>2
<1>4. b \in [1 .. Len(gs) -> ToSet(b)]
  BY <1>2, <1>3 DEF ToSet
<1>5. b \in Seq(ToSet(b)) /\ Len(b) = Len(gs)
  BY <1>1, <1>4, FunctionIsSeq
<1> QED BY <1>3, <1>5 DEF b

\* The edits of ActivateTrace: the component, then its groups.
LEMMA ActivateShape ==
  ASSUME NEW S, NEW gs \in Seq(S), NEW c
  PROVE  /\ Todo(ActivateTodo(c, gs), c)
         /\ DOMAIN ActivateTodo(c, gs) = 1 .. Len(gs) + 1
         /\ ActivateTodo(c, gs)[1] = Edit("component", c, 0)
         /\ \A k \in 1 .. Len(gs) : ActivateTodo(c, gs)[k + 1] = Edit("add", c, gs[k])
<1> DEFINE f == Edit("component", c, 0)
           b == Edits("add", c, gs)
           r == ActivateTodo(c, gs)
<1>0. Len(gs) \in Nat
  OBVIOUS
<1>1. /\ b \in Seq(ToSet(b)) /\ Len(b) = Len(gs)
      /\ \A k \in 1 .. Len(gs) : b[k] = Edit("add", c, gs[k])
  BY EditsShape
<1>3. r = <<f>> \o b
  BY DEF ActivateTodo
<1> HIDE DEF f, b, r
<1>4. /\ r \in Seq(ToSet(r)) /\ DOMAIN r = 1 .. Len(gs) + 1 /\ r[1] = f
      /\ \A k \in 1 .. Len(gs) : r[k + 1] = b[k]
  BY <1>1, <1>3, PrependElements
<1>6. \A k \in 1 .. Len(gs) : r[k + 1] = Edit("add", c, gs[k])
  BY <1>1, <1>4
<1>7. ASSUME NEW k \in 1 .. Len(gs) + 1
      PROVE  /\ r[k].do \in {"component", "add", "remove"} /\ r[k].c = c
             /\ k > 1 => r[k].do # "component"
  <2>1. CASE k = 1
    BY <1>4, <2>1 DEF Edit, f
  <2>2. CASE k > 1
    <3>1. k - 1 \in 1 .. Len(gs) /\ (k - 1) + 1 = k
      BY <2>2, <1>0
    <3>2. r[k] = Edit("add", c, gs[k - 1])
      BY <3>1, <1>6
    <3> QED BY <3>2 DEF Edit
  <2> QED BY <2>1, <2>2, <1>0
<1>8. Todo(r, c)
  BY <1>4, <1>7 DEF Todo
<1> QED BY <1>4, <1>6, <1>8 DEF r, f

\* Edits that only remove groups.
LEMMA RemoveShape ==
  ASSUME NEW S, NEW gs \in Seq(S), NEW c
  PROVE  /\ Todo(Edits("remove", c, gs), c)
         /\ \A k \in DOMAIN Edits("remove", c, gs) : Edits("remove", c, gs)[k].do # "add"
<1> DEFINE r == Edits("remove", c, gs)
<1>1. /\ r \in Seq(ToSet(r)) /\ Len(r) = Len(gs)
      /\ \A k \in 1 .. Len(gs) : r[k] = Edit("remove", c, gs[k])
  BY EditsShape
<1> HIDE DEF r
<1>2. \A k \in DOMAIN r : \E g : r[k] = Edit("remove", c, g)
  BY <1>1
<1>3. \A k \in DOMAIN r : r[k].do = "remove" /\ r[k].c = c
  BY <1>2 DEF Edit
<1> QED BY <1>1, <1>3 DEF Todo, r

\* The edits of OverwriteGroups.
LEMMA OverwriteShape ==
  ASSUME NEW S, NEW gone \in Seq(S), NEW T, NEW new \in Seq(T), NEW c
  PROVE  /\ Todo(OverwriteTodo(c, gone, new), c)
         /\ OverwriteTodo(c, gone, new)[1].do = "component"
<1> DEFINE f == Edit("component", c, 0)
           b == Edits("remove", c, gone)
           d == Edits("add", c, new)
           e == <<f>> \o b
           r == OverwriteTodo(c, gone, new)
           Good(x) == x.do \in {"add", "remove"} /\ x.c = c
<1>1. /\ b \in Seq(ToSet(b)) /\ Len(b) = Len(gone) /\ Len(gone) \in Nat
      /\ \A k \in 1 .. Len(gone) : b[k] = Edit("remove", c, gone[k])
  BY EditsShape
<1>2. /\ d \in Seq(ToSet(d)) /\ Len(d) = Len(new) /\ Len(new) \in Nat
      /\ \A k \in 1 .. Len(new) : d[k] = Edit("add", c, new[k])
  BY EditsShape
<1>3. r = e \o d
  BY DEF OverwriteTodo
<1> HIDE DEF f, b, d, e, r
<1>4. /\ \A k \in 1 .. Len(b) : Good(b[k])
      /\ \A k \in 1 .. Len(d) : Good(d[k])
      /\ f.do = "component" /\ f.c = c
  <2>1. \A g : Good(Edit("remove", c, g)) /\ Good(Edit("add", c, g))
    BY DEF Edit
  <2>2. f.do = "component" /\ f.c = c
    BY DEF Edit, f
  <2> HIDE DEF Good
  <2> QED BY <1>1, <1>2, <2>1, <2>2
<1> HIDE DEF Good
<1>5. /\ e \in Seq(ToSet(e)) /\ Len(e) = Len(b) + 1 /\ DOMAIN e = 1 .. Len(b) + 1
      /\ e[1] = f /\ \A k \in 1 .. Len(b) : e[k + 1] = b[k]
  BY <1>1, PrependElements DEF e
<1>6. /\ r \in Seq(ToSet(r)) /\ DOMAIN r = 1 .. Len(e) + Len(d)
      /\ \A k \in 1 .. Len(e) : r[k] = e[k]
      /\ \A k \in 1 .. Len(d) : r[k + Len(e)] = d[k]
  <2> DEFINE A == ToSet(e) \cup ToSet(d)
  <2>1. e \in Seq(A) /\ d \in Seq(A)
    BY <1>2, <1>5
  <2> HIDE DEF A
  <2> QED BY <2>1, <1>3, ConcatElements
<1>7. Len(b) \in Nat /\ Len(d) \in Nat /\ Len(e) \in Nat
  BY <1>1, <1>2, <1>5
<1>8. ASSUME NEW k \in 1 .. Len(e) + Len(d), k > 1
      PROVE  Good(r[k])
  <2>1. CASE k <= Len(e)
    <3>1. k - 1 \in 1 .. Len(b) /\ (k - 1) + 1 = k /\ k \in 1 .. Len(e)
      BY <2>1, <1>5, <1>7, <1>8
    <3>2. r[k] = b[k - 1]
      BY <3>1, <1>5, <1>6
    <3> QED BY <3>1, <3>2, <1>4
  <2>2. CASE k > Len(e)
    <3>1. k - Len(e) \in 1 .. Len(d) /\ (k - Len(e)) + Len(e) = k
      BY <2>2, <1>7
    <3>2. r[k] = d[k - Len(e)]
      BY <3>1, <1>6
    <3> QED BY <3>1, <3>2, <1>4
  <2> QED BY <2>1, <2>2, <1>7
<1>9. r[1] = f
  BY <1>5, <1>6, <1>7
<1>10. ASSUME NEW k \in DOMAIN r
       PROVE  /\ r[k].do \in {"component", "add", "remove"} /\ r[k].c = c
              /\ k > 1 => r[k].do # "component"
  <2>1. k = 1 \/ k > 1
    BY <1>6, <1>7
  <2>2. CASE k = 1
    BY <2>2, <1>4, <1>9
  <2>3. CASE k > 1
    BY <2>3, <1>6, <1>8 DEF Good
  <2> QED BY <2>1, <2>2, <2>3
<1>11. Todo(r, c)
  BY <1>6, <1>10 DEF Todo
<1> QED BY <1>4, <1>9, <1>11 DEF r

\* The edits that are left after the first.
LEMMA TailShape ==
  ASSUME NEW todo, NEW c, Todo(todo, c), todo # <<>>
  PROVE  /\ Todo(Tail(todo), c) /\ Head(todo) = todo[1] /\ 1 \in DOMAIN todo
         /\ \A k \in DOMAIN Tail(todo) :
              /\ k + 1 \in DOMAIN todo /\ Tail(todo)[k] = todo[k + 1]
              /\ Tail(todo)[k].do # "component"
         /\ \A k \in DOMAIN todo : k = 1 \/ (k - 1 \in DOMAIN Tail(todo) /\ Tail(todo)[k - 1] = todo[k])
<1> DEFINE r == Tail(todo)
           A == ToSet(todo)
<1>1. todo \in Seq(A)
  BY DEF Todo
<1> HIDE DEF A
<1>2. /\ r \in Seq(A) /\ Len(r) = Len(todo) - 1 /\ Len(todo) \in Nat /\ Len(todo) >= 1
      /\ DOMAIN todo = 1 .. Len(todo) /\ DOMAIN r = 1 .. Len(todo) - 1
      /\ \A k \in 1 .. Len(todo) - 1 : r[k] = todo[k + 1]
      /\ Head(todo) = todo[1]
  BY <1>1
<1>3. r \in Seq(ToSet(r))
  BY <1>2, OwnElements
<1> HIDE DEF r
<1>4. \A k \in DOMAIN r : k + 1 \in DOMAIN todo /\ k + 1 > 1 /\ r[k] = todo[k + 1]
  BY <1>2
<1>5. \A k \in DOMAIN r : /\ r[k].do \in {"component", "add", "remove"} /\ r[k].c = c
                          /\ r[k].do # "component"
  BY <1>4 DEF Todo
<1>6. Todo(r, c)
  BY <1>3, <1>5 DEF Todo
<1>7. ASSUME NEW k \in DOMAIN todo, k # 1
      PROVE  k - 1 \in DOMAIN r /\ r[k - 1] = todo[k]
  <2>1. k - 1 \in 1 .. Len(todo) - 1 /\ (k - 1) + 1 = k
    BY <1>2, <1>7
  <2> QED BY <2>1, <1>2
<1> QED BY <1>2, <1>4, <1>5, <1>6, <1>7 DEF r

-----------------------------------------------------------------------------
(* What an array shows.                                                    *)

\* The pairs of an array arr over the blocks st.
Shown(st, arr) ==
  {u \in Components \X Group : u[1] \in DOMAIN arr /\ In(st[u[1]], arr[u[1]], u[2])}

LEMMA Holding ==
  ASSUME NEW st \in [Components -> Seq(Group)], NEW arr,
         DOMAIN arr \subseteq Components,
         \A c \in DOMAIN arr : arr[c] \in Nat /\ arr[c] <= Len(st[c]),
         NEW c, NEW g
  PROVE  g \in ToSet(IF c \in DOMAIN arr THEN SubSeq(st[c], 1, arr[c]) ELSE <<>>)
           <=> c \in DOMAIN arr /\ In(st[c], arr[c], g)
<1>1. CASE c \notin DOMAIN arr
  <2>1. ToSet(<<>>) = {}
    BY DEF ToSet
  <2> QED BY <1>1, <2>1
<1>2. CASE c \in DOMAIN arr
  <2>1. st[c] \in Seq(Group) /\ arr[c] \in 0 .. Len(st[c])
    BY <1>2
  <2>2. g \in ToSet(SubSeq(st[c], 1, arr[c])) <=> In(st[c], arr[c], g)
    BY <2>1, ViewElements
  <2> QED BY <1>2, <2>2
<1> QED BY <1>1, <1>2

\* The live array shows Activated, and iTmpArray what Holds says of it.
LEMMA LiveShown ==
  ASSUME Blocks
  PROVE  /\ Activated = Shown(store, iOstComponents)
         /\ \A c, g : Holds(iOstComponents, c, g) <=> <<c, g>> \in Activated
         /\ \A c, g : Holds(iTmpArray, c, g)
                         <=> c \in DOMAIN iTmpArray /\ In(store[c], iTmpArray[c], g)
<1>1. \A c, g : Holds(iOstComponents, c, g)
                  <=> c \in DOMAIN iOstComponents /\ In(store[c], iOstComponents[c], g)
  BY Holding DEF Blocks, Within, Holds, View
<1>2. \A c, g : Holds(iTmpArray, c, g)
                  <=> c \in DOMAIN iTmpArray /\ In(store[c], iTmpArray[c], g)
  BY Holding DEF Blocks, Within, Holds, View
<1>3. Activated = Shown(store, iOstComponents)
  BY <1>1, Zenon DEF Activated, Pairs, Shown, Group
<1>4. ASSUME NEW c, NEW g, Holds(iOstComponents, c, g)
      PROVE  <<c, g>> \in Activated
  <2>1. c \in DOMAIN iOstComponents /\ In(store[c], iOstComponents[c], g)
    BY <1>1, <1>4
  <2>2. /\ c \in Components /\ store[c] \in Seq(Group)
        /\ iOstComponents[c] \in Nat /\ iOstComponents[c] <= Len(store[c])
    BY <2>1 DEF Blocks, Within
  <2>3. PICK k \in 1 .. iOstComponents[c] : store[c][k] = g
    BY <2>1 DEF In
  <2>4. k \in 1 .. Len(store[c])
    BY <2>2, <2>3
  <2>5. g \in Group
    BY <2>2, <2>3, <2>4
  <2> QED BY <1>4, <2>2, <2>5 DEF Activated, Pairs, Group
<1>5. ASSUME NEW c, NEW g, <<c, g>> \in Activated
      PROVE  Holds(iOstComponents, c, g)
  BY <1>5 DEF Activated, Pairs
<1> QED BY <1>2, <1>3, <1>4, <1>5

LEMMA LiveShownNext ==
  ASSUME Blocks'
  PROVE  /\ Activated' = Shown(store', iOstComponents')
         /\ \A c, g : Holds(iTmpArray, c, g)'
                         <=> c \in DOMAIN iTmpArray' /\ In(store'[c], iTmpArray'[c], g)
<1>1. \A c, g : Holds(iOstComponents, c, g)'
                  <=> c \in DOMAIN iOstComponents' /\ In(store'[c], iOstComponents'[c], g)
  BY Holding DEF Blocks, Within, Holds, View
<1>2. \A c, g : Holds(iTmpArray, c, g)'
                  <=> c \in DOMAIN iTmpArray' /\ In(store'[c], iTmpArray'[c], g)
  BY Holding DEF Blocks, Within, Holds, View
<1>3. Activated' = Shown(store', iOstComponents')
  BY <1>1, Zenon DEF Activated, Pairs, Shown, Group
<1> QED BY <1>2, <1>3

-----------------------------------------------------------------------------
(* Steps outside of a change.                                              *)

\* A step that leaves the array, the change, the settings and the flag alone.
LEMMA QuietStep ==
  ASSUME Inv, UNCHANGED <<array, op, saved, iSettings, iAllTracesDeactivated, scenario>>,
         Turns', Framed(frame', op.pc # "edit")
  PROVE  Inv'
<1>1. Activated' = Activated
  BY DEF Activated, Pairs, Holds, View, array
<1>2. \A c, g : Holds(iTmpArray, c, g)' = Holds(iTmpArray, c, g)
  BY DEF Holds, View, array
<1>3. Framed(frame, op.pc # "edit")'
  BY <1>1 DEF Framed, Right
<1>4. Shape'
  BY DEF Inv, Shape, Blocks, Within, Operation, Change, Todo, Added, Saved, array
<1>5. Frames'
  BY <1>1, <1>3 DEF Inv, Frames
<1>6. Restored'
  BY <1>1, <1>2 DEF Inv, Restored
<1> QED BY <1>4, <1>5, <1>6 DEF Inv

\* Such a step of which the traces see nothing.
LEMMA SilentStep ==
  ASSUME Inv,
         UNCHANGED <<array, op, saved, iSettings, iAllTracesDeactivated, scenario, frame>>,
         Turns'
  PROVE  Inv'
<1>1. Framed(frame', op.pc # "edit")
  BY DEF Inv, Frames
<1> QED BY <1>1, QuietStep

-----------------------------------------------------------------------------
(* The start of a change.                                                  *)

LEMMA StartStep ==
  ASSUME Inv, op = Idle, NEW c \in Components, NEW todo, NEW prune, NEW all,
         Todo(todo, c),
         \A k \in DOMAIN todo :
           todo[k].do = "add" => c \in DOMAIN iOstComponents \/ todo[1].do = "component",
         Start(c, todo, prune, all), Rest, Turns', UNCHANGED scenario
  PROVE  Inv'
<1>1. /\ op' = [pc |-> "edit", c |-> c, todo |-> todo, prune |-> prune, all |-> all,
                changed |-> {}, before |-> Activated, fromSettings |-> FALSE, rest |-> <<>>]
      /\ iTmpArray' = iOstComponents
  BY DEF Start
<1>2. /\ op'.pc = "edit" /\ op'.c = c /\ op'.todo = todo /\ op'.fromSettings = FALSE
      /\ op'.rest = <<>> /\ op' # Idle
      /\ op' = [pc |-> op'.pc, c |-> op'.c, todo |-> op'.todo, prune |-> op'.prune,
                all |-> op'.all, changed |-> op'.changed, before |-> op'.before,
                fromSettings |-> op'.fromSettings, rest |-> op'.rest]
  BY <1>1 DEF Idle
<1>3. Blocks'
  BY <1>1, <1>2 DEF Inv, Shape, Blocks, Within, Rest
<1>4. Operation'
  <2>1. Todo(op.todo, op.c)' /\ Added(op.todo, op.c)'
    BY <1>1, <1>2 DEF Todo, Added
  <2>2. /\ op'.pc \in {"edit", "swapped"} /\ op'.fromSettings \in BOOLEAN
        /\ op'.rest \in Seq(DOMAIN saved'.groups) /\ op'.c \in Components
    <3>1. <<>> \in Seq(DOMAIN saved'.groups)
      OBVIOUS
    <3> QED BY <1>2, <3>1, Zenon
  <2>3. Change'
    BY <1>2, <2>1, <2>2, Zenon DEF Change
  <2> QED BY <2>3 DEF Operation
<1>5. Shape'
  BY <1>3, <1>4 DEF Inv, Shape, Saved, Rest
<1>6. Frames'
  BY <1>2 DEF Inv, Frames, Framed, Rest, reader, Idle
<1>7. Restored'
  BY <1>2 DEF Restored
<1> QED BY <1>5, <1>6, <1>7 DEF Inv

\* The groups of a message are a sequence.
LEMMA MessageIsSeq ==
  ASSUME Inv, NEW c, NEW gs \in Messages(c)
  PROVE  gs \in Seq(Requested(c))
<1>1. scenario.lengths \subseteq Nat
  BY TraceAssumption DEF Inv, Shape
<1>2. PICK n \in scenario.lengths : gs \in [1 .. n -> Requested(c)]
  BY DEF Messages
<1>3. n \in Nat
  BY <1>1, <1>2
<1> QED BY <1>2, <1>3, FunctionIsSeq

\* No edits at all.
LEMMA NothingTodo ==
  ASSUME NEW c
  PROVE  Todo(<<>>, c) /\ DOMAIN <<>> = {}
BY DEF Todo, ToSet

\* The edits of DeactivateTrace.
LEMMA DeactivateShape ==
  ASSUME NEW S, NEW gs \in Seq(S), NEW c
  PROVE  /\ Todo(DeactivateTodo(c, gs), c)
         /\ \A k \in DOMAIN DeactivateTodo(c, gs) : DeactivateTodo(c, gs)[k].do # "add"
<1>1. CASE c \in DOMAIN iOstComponents
  <2>1. DeactivateTodo(c, gs) = Edits("remove", c, gs)
    BY <1>1 DEF DeactivateTodo
  <2> QED BY <2>1, RemoveShape
<1>2. CASE c \notin DOMAIN iOstComponents
  <2> DEFINE r == DeactivateTodo(c, gs)
  <2>1. r = <<>>
    BY <1>2 DEF DeactivateTodo
  <2> HIDE DEF r
  <2>2. Todo(r, c) /\ DOMAIN r = {}
    BY <2>1, NothingTodo
  <2> QED BY <2>2 DEF r
<1> QED BY <1>1, <1>2

LEMMA ActivateStep ==
  ASSUME Inv, NEW c \in Components, NEW gs \in Messages(c), ActivateTrace(c, gs),
         UNCHANGED scenario
  PROVE  Inv'
<1>1. gs \in Seq(Requested(c))
  BY MessageIsSeq
<1> DEFINE todo == ActivateTodo(c, gs)
<1>2. Todo(todo, c) /\ todo[1].do = "component"
  <2>1. Todo(todo, c) /\ todo[1] = Edit("component", c, 0)
    BY <1>1, ActivateShape
  <2> QED BY <2>1 DEF Edit
<1>3. Turns'
  BY DEF ActivateTrace, Inv, Shape, Turns
<1>4. op = Idle /\ Start(c, todo, FALSE, FALSE) /\ Rest
  BY DEF ActivateTrace, CanStart
<1> HIDE DEF todo
<1> QED BY <1>2, <1>3, <1>4, StartStep

LEMMA DeactivateStep ==
  ASSUME Inv, NEW c \in Components, NEW gs \in Messages(c), DeactivateTrace(c, gs),
         UNCHANGED scenario
  PROVE  Inv'
<1>1. gs \in Seq(Requested(c))
  BY MessageIsSeq
<1> DEFINE todo == DeactivateTodo(c, gs)
<1>2. Todo(todo, c) /\ \A k \in DOMAIN todo : todo[k].do # "add"
  BY <1>1, DeactivateShape
<1>3. Turns'
  BY DEF DeactivateTrace, Inv, Shape, Turns
<1>4. op = Idle /\ Start(c, todo, TRUE, FALSE) /\ Rest
  BY DEF DeactivateTrace, CanStart
<1> HIDE DEF todo
<1> QED BY <1>2, <1>3, <1>4, StartStep

LEMMA DeactivateAllStep ==
  ASSUME Inv, NEW c \in Components, DeactivateAll(c), UNCHANGED scenario
  PROVE  Inv'
<1> DEFINE todo == <<>>
<1>2. Todo(todo, c) /\ DOMAIN todo = {}
  BY NothingTodo
<1>3. Turns'
  BY DEF DeactivateAll, Inv, Shape, Turns
<1>4. op = Idle /\ Start(c, todo, FALSE, TRUE) /\ Rest
  BY DEF DeactivateAll, CanStart
<1> HIDE DEF todo
<1> QED BY <1>2, <1>3, <1>4, StartStep

\* The elements of a sequence are finitely many.
LEMMA FiniteElements ==
  ASSUME NEW S, NEW s \in Seq(S)
  PROVE  IsFiniteSet(ToSet(s))
<1>1. Len(s) \in Nat /\ DOMAIN s = 1 .. Len(s) /\ IsFiniteSet(1 .. Len(s))
  BY FS_Interval
<1>2. s \in Surjection(1 .. Len(s), ToSet(s))
  BY <1>1 DEF ToSet, Surjection
<1> QED BY <1>1, <1>2, FS_Surjection

\* InOrder lists the whole of a finite set.
LEMMA Ordered ==
  ASSUME NEW S, IsFiniteSet(S), NEW T, T \in SUBSET S
  PROVE  \A s \in SetToSeqs(T) : s \in Seq(T) /\ ToSet(s) = T
<1>1. IsFiniteSet(T)
  BY FS_Subset
<1> QED BY <1>1, SeqOfSet

LEMMA OverwriteStep ==
  ASSUME Inv, NEW c \in Components, NEW gs \in Messages(c), OverwriteGroups(c, gs),
         UNCHANGED scenario
  PROVE  Inv'
<1>1. gs \in Seq(Requested(c))
  BY MessageIsSeq
<1> DEFINE old == ToSet(View(iOstComponents, c))
           out == old \ ToSet(gs)
           inn == ToSet(gs) \ old
<1>2. IsFiniteSet(old) /\ IsFiniteSet(ToSet(gs))
  <2>1. View(iOstComponents, c) \in Seq(Group)
    <3>1. CASE c \in DOMAIN iOstComponents
      <4>1. store[c] \in Seq(Group) /\ iOstComponents[c] \in 0 .. Len(store[c])
        BY <3>1 DEF Inv, Shape, Blocks, Within
      <4> QED BY <3>1, <4>1 DEF View
    <3>2. CASE c \notin DOMAIN iOstComponents
      BY <3>2 DEF View
    <3> QED BY <3>1, <3>2
  <2> QED BY <2>1, <1>1, FiniteElements
<1>3. \E gone \in SetToSeqs(out), new \in SetToSeqs(inn) :
        Start(c, OverwriteTodo(c, gone, new), TRUE, FALSE)
  BY DEF OverwriteGroups, InOrder
<1>4. PICK gone \in SetToSeqs(out), new \in SetToSeqs(inn) :
        Start(c, OverwriteTodo(c, gone, new), TRUE, FALSE)
  BY <1>3
<1>5. gone \in Seq(out) /\ new \in Seq(inn)
  <2>1. out \in SUBSET old /\ inn \in SUBSET ToSet(gs)
    OBVIOUS
  <2> HIDE DEF old, out, inn
  <2> QED BY <1>2, <2>1, Ordered, Zenon
<1> DEFINE todo == OverwriteTodo(c, gone, new)
<1>6. Todo(todo, c) /\ todo[1].do = "component"
  <2> HIDE DEF out, inn
  <2> QED BY <1>5, OverwriteShape
<1>7. Turns'
  BY DEF OverwriteGroups, Inv, Shape, Turns
<1>8. op = Idle /\ Start(c, todo, TRUE, FALSE) /\ Rest
  BY <1>4 DEF OverwriteGroups, CanStart
<1> HIDE DEF todo, old, out, inn
<1> QED BY <1>6, <1>7, <1>8, StartStep

-----------------------------------------------------------------------------
(* RefreshActivations.                                                     *)

LEMMA QueueTail ==
  ASSUME Turns, refresh.queue # <<>>
  PROVE  LET q == Tail(refresh.queue)
         IN  /\ Head(refresh.queue)[1] \in Components
             /\ q \in Seq(ToSet(q)) /\ \A i \in DOMAIN q : q[i][1] \in Components
<1> DEFINE s == refresh.queue
           A == ToSet(s)
           q == Tail(s)
<1>1. s \in Seq(A) /\ \A i \in DOMAIN s : s[i][1] \in Components
  BY DEF Turns
<1> HIDE DEF s, A
<1>2. s # <<>>
  BY DEF s
<1>3. /\ q \in Seq(A) /\ Len(s) \in Nat /\ Len(s) >= 1 /\ DOMAIN s = 1 .. Len(s)
      /\ DOMAIN q = 1 .. Len(s) - 1 /\ \A k \in 1 .. Len(s) - 1 : q[k] = s[k + 1]
      /\ Head(s) = s[1]
  BY <1>1, <1>2
<1>4. q \in Seq(ToSet(q))
  BY <1>3, OwnElements
<1> HIDE DEF q
<1>5. \A i \in DOMAIN q : i + 1 \in DOMAIN s /\ q[i] = s[i + 1]
  BY <1>3
<1>6. \A i \in DOMAIN q : q[i][1] \in Components
  BY <1>1, <1>5
<1>7. Head(s)[1] \in Components
  BY <1>1, <1>3
<1> QED BY <1>4, <1>6, <1>7 DEF q, s

LEMMA RefreshStartStep ==
  ASSUME Inv, RefreshActivations, UNCHANGED scenario
  PROVE  Inv'
<1> DEFINE turn == {u \in Components \X (1 .. KMaxGroupId + 1) :
                      u[1] \in DOMAIN iOstComponents /\ u[2] <= iOstComponents[u[1]]}
           All == Components \X (1 .. KMaxGroupId + 1)
<1>1. PICK queue \in SetToSeqs(turn) :
        refresh' = [queue |-> queue, before |-> Activated, done |-> {}]
  BY DEF RefreshActivations, InOrder
<1>2. IsFiniteSet(All)
  <2>0. KMaxGroupId \in Nat
    BY TraceAssumption
  <2>1. IsFiniteSet(1 .. KMaxGroupId + 1)
    BY <2>0, FS_Interval
  <2> QED BY <2>1, ComponentsAssumption, FS_Product
<1>3. turn \in SUBSET All /\ \A u \in turn : u[1] \in Components
  OBVIOUS
<1> HIDE DEF turn, All
<1>4. queue \in Seq(turn)
  BY <1>2, <1>3, Ordered
<1>5. queue \in Seq(ToSet(queue)) /\ \A i \in DOMAIN queue : queue[i] \in turn
  BY <1>4, OwnElements
<1>6. Turns'
  BY <1>1, <1>3, <1>5 DEF Turns
<1>7. UNCHANGED <<array, op, saved, iSettings, iAllTracesDeactivated, frame>>
  BY DEF RefreshActivations, Rest, array, reader
<1> QED BY <1>6, <1>7, SilentStep

LEMMA RefreshOutStep ==
  ASSUME Inv, RefreshOut, UNCHANGED scenario
  PROVE  Inv'
<1> DEFINE s == refresh.queue
           c == Head(s)[1]
           g == store[c][Head(s)[2]]
           q == Tail(s)
<1>1. Turns /\ s # <<>> /\ op = Idle /\ Rest
  BY DEF RefreshOut, Inv, Shape
<1>2. c \in Components /\ q \in Seq(ToSet(q)) /\ \A i \in DOMAIN q : q[i][1] \in Components
  BY <1>1, QueueTail
<1>3. CASE c = Kernel /\ g = EMetaTrace
  <2>1. /\ refresh' = IF Len(s) = 1 THEN NoRefresh ELSE [refresh EXCEPT !.queue = q]
        /\ UNCHANGED <<op, iTmpArray>>
    BY <1>3 DEF RefreshOut
  <2>2. Turns'
    <3> HIDE DEF q
    <3>1. CASE Len(s) = 1
      <4>1. refresh' = NoRefresh
        BY <2>1, <3>1
      <4>2. <<>> \in Seq(ToSet(<<>>)) /\ DOMAIN <<>> = {}
        BY DEF ToSet
      <4> QED BY <4>1, <4>2 DEF Turns, NoRefresh
    <3>2. CASE Len(s) # 1
      <4>1. refresh' = [queue |-> q, before |-> refresh.before, done |-> refresh.done]
        BY <1>1, <2>1, <3>2 DEF Turns
      <4>2. refresh'.queue = q
        BY <4>1
      <4> QED BY <1>2, <4>1, <4>2 DEF Turns
    <3> QED BY <3>1, <3>2
  <2>3. UNCHANGED <<array, op, saved, iSettings, iAllTracesDeactivated, frame>>
    BY <1>1, <2>1 DEF Rest, array, reader
  <2> QED BY <2>2, <2>3, SilentStep
<1>4. CASE ~ (c = Kernel /\ g = EMetaTrace)
  <2> DEFINE f == <<c, g, "in">>
             todo == DeactivateTodo(c, <<g>>)
             r == <<f>> \o q
  <2>1. Start(c, todo, TRUE, FALSE) /\ refresh' = [refresh EXCEPT !.queue = r]
    BY <1>4 DEF RefreshOut
  <2>2. Todo(todo, c) /\ \A k \in DOMAIN todo : todo[k].do # "add"
    <3>1. <<g>> \in Seq({g})
      OBVIOUS
    <3> HIDE DEF g, c
    <3> QED BY <3>1, DeactivateShape
  <2>3. f[1] = c
    OBVIOUS
  <2> HIDE DEF todo, q, c, g, f
  <2>4. /\ r \in Seq(ToSet(r)) /\ DOMAIN r = 1 .. Len(q) + 1 /\ r[1] = f
        /\ \A k \in 1 .. Len(q) : r[k + 1] = q[k]
    BY <1>2, PrependElements
  <2> HIDE DEF r
  <2>5. ASSUME NEW i \in DOMAIN r PROVE r[i][1] \in Components
    <3>1. CASE i = 1
      BY <1>2, <2>3, <2>4, <3>1
    <3>2. CASE i # 1
      <4>1. i - 1 \in 1 .. Len(q) /\ (i - 1) + 1 = i /\ DOMAIN q = 1 .. Len(q)
        BY <1>2, <2>4, <3>2
      <4>2. r[i] = q[i - 1]
        BY <2>4, <4>1
      <4> QED BY <1>2, <4>1, <4>2
    <3> QED BY <3>1, <3>2
  <2>6. Turns'
    <3>1. refresh' = [queue |-> r, before |-> refresh.before, done |-> refresh.done]
      BY <1>1, <2>1 DEF Turns
    <3>2. refresh'.queue = r
      BY <3>1
    <3> QED BY <2>4, <2>5, <3>1, <3>2 DEF Turns
  <2> QED BY <1>1, <1>2, <2>1, <2>2, <2>6, StartStep
<1> QED BY <1>3, <1>4

LEMMA RefreshInStep ==
  ASSUME Inv, RefreshIn, UNCHANGED scenario
  PROVE  Inv'
<1> DEFINE s == refresh.queue
           c == Head(s)[1]
           g == Head(s)[2]
           q == Tail(s)
           d == refresh.done \cup {<<c, g>>}
           todo == ActivateTodo(c, <<g>>)
<1>1. /\ Turns /\ s # <<>> /\ op = Idle /\ Rest /\ Start(c, todo, FALSE, FALSE)
      /\ refresh' = [refresh EXCEPT !.queue = q, !.done = d]
  BY DEF RefreshIn, Inv, Shape
<1>2. c \in Components /\ q \in Seq(ToSet(q)) /\ \A i \in DOMAIN q : q[i][1] \in Components
  BY <1>1, QueueTail
<1>3. Todo(todo, c) /\ todo[1].do = "component"
  <2>1. <<g>> \in Seq({g})
    OBVIOUS
  <2> HIDE DEF g, c
  <2>2. Todo(todo, c) /\ todo[1] = Edit("component", c, 0)
    BY <2>1, ActivateShape
  <2> QED BY <2>2 DEF Edit
<1> HIDE DEF q, d, c, g, todo
<1>4. Turns'
  <2>1. refresh' = [queue |-> q, before |-> refresh.before, done |-> d]
    BY <1>1 DEF Turns
  <2>2. refresh'.queue = q
    BY <2>1
  <2> QED BY <1>2, <2>1, <2>2 DEF Turns
<1> QED BY <1>1, <1>2, <1>3, <1>4, StartStep

-----------------------------------------------------------------------------
(* The settings.                                                           *)

LEMMA RegisterSettingsStep ==
  ASSUME Inv, RegisterSettings, UNCHANGED scenario
  PROVE  Inv'
<1>1. /\ op = Idle /\ ~ iSettings /\ iSettings' = TRUE
      /\ UNCHANGED <<store, iOstComponents, moved, refresh, frame,
                     iAllTracesDeactivated, saved>>
  BY DEF RegisterSettings, CanStart, reader
<1>2. Turns' /\ Saved'
  BY <1>1 DEF Inv, Shape, Turns, Saved
<1>3. CASE ~ saved.some
  <2>1. UNCHANGED <<op, iTmpArray>>
    BY <1>3 DEF RegisterSettings
  <2>2. Activated' = Activated
    BY <1>1 DEF Activated, Pairs, Holds, View
  <2>3. Shape'
    BY <1>1, <1>2, <2>1 DEF Inv, Shape, Blocks, Within, Operation
  <2>4. Frames'
    BY <1>1, <2>1, <2>2 DEF Inv, Frames, Framed, Right
  <2>5. Restored'
    BY <1>1, <1>3, <2>1 DEF Restored
  <2> QED BY <2>3, <2>4, <2>5 DEF Inv
<1>4. CASE saved.some
  <2> DEFINE D == DOMAIN saved.groups
  <2>1. PICK cs \in SetToSeqs(D) :
          /\ op' = [pc |-> "edit", c |-> 0, todo |-> <<>>, prune |-> FALSE, all |-> FALSE,
                    changed |-> {}, before |-> Activated, fromSettings |-> TRUE, rest |-> cs]
          /\ iTmpArray' = iOstComponents
    BY <1>4 DEF RegisterSettings, InOrder
  <2>2. cs \in Seq(D) /\ ToSet(cs) = D
    <3>1. D \in SUBSET Components
      BY DEF Inv, Shape, Saved
    <3> HIDE DEF D
    <3> QED BY <3>1, ComponentsAssumption, Ordered
  <2>3. /\ op'.pc = "edit" /\ op'.todo = <<>> /\ op'.fromSettings = TRUE
        /\ op'.rest = cs /\ op' # Idle /\ op'.prune = FALSE /\ op'.all = FALSE
        /\ op' = [pc |-> op'.pc, c |-> op'.c, todo |-> op'.todo, prune |-> op'.prune,
                  all |-> op'.all, changed |-> op'.changed, before |-> op'.before,
                  fromSettings |-> op'.fromSettings, rest |-> op'.rest]
    BY <2>1 DEF Idle
  <2>4. Blocks'
    BY <1>1, <2>1, <2>3 DEF Inv, Shape, Blocks, Within
  <2>5. Operation'
    <3> DEFINE b == op'.c
    <3>1. Todo(<<>>, b) /\ DOMAIN <<>> = {}
      BY NothingTodo
    <3> HIDE DEF b
    <3>2. Todo(op.todo, op.c)' /\ Added(op.todo, op.c)'
      BY <2>3, <3>1 DEF Todo, Added, b
    <3>3. /\ op'.pc \in {"edit", "swapped"} /\ op'.fromSettings \in BOOLEAN
          /\ op'.rest \in Seq(DOMAIN saved'.groups)
      BY <1>1, <2>2, <2>3, Zenon
    <3>4. Change'
      BY <2>3, <3>2, <3>3, Zenon DEF Change
    <3> QED BY <3>4 DEF Operation
  <2>6. Shape'
    BY <1>2, <2>4, <2>5 DEF Inv, Shape
  <2>7. Frames'
    BY <1>1, <2>3 DEF Inv, Frames, Framed
  <2>8. Restored'
    <3>1. DOMAIN <<>> = {}
      OBVIOUS
    <3>2. \A c \in DOMAIN saved'.groups : c \in ToSet(op'.rest)
      BY <1>1, <2>2, <2>3
    <3>3. iSettings' /\ saved'.some
      BY <1>1, <1>4
    <3> QED BY <2>3, <3>1, <3>2, <3>3 DEF Restored
  <2> QED BY <2>6, <2>7, <2>8 DEF Inv
<1> QED BY <1>3, <1>4

LEMMA ReadFromSettingsStep ==
  ASSUME Inv, ReadFromSettings, UNCHANGED scenario
  PROVE  Inv'
<1> DEFINE c == Head(op.rest)
           s == saved.groups[c]
           q == Tail(op.rest)
           todo == ActivateTodo(c, s)
<1>1. /\ op.pc = "edit" /\ op.todo = <<>> /\ op.rest # <<>> /\ op # Idle /\ Change
      /\ UNCHANGED <<array, refresh, frame, iSettings, saved>>
      /\ op' = [op EXCEPT !.c = c, !.todo = todo, !.rest = q]
  BY DEF ReadFromSettings, RestoreTodo, Rest, reader, array, Inv, Shape, Operation, Idle
<1>2. /\ c \in DOMAIN saved.groups /\ q \in Seq(DOMAIN saved.groups)
      /\ \A d \in ToSet(op.rest) : d = c \/ d \in ToSet(q)
  <2> DEFINE r == op.rest
  <2>1. r \in Seq(DOMAIN saved.groups) /\ r # <<>>
    BY <1>1 DEF Change
  <2> HIDE DEF r
  <2>2. /\ Len(r) \in Nat /\ Len(r) >= 1 /\ DOMAIN r = 1 .. Len(r) /\ Head(r) = r[1]
        /\ Tail(r) \in Seq(DOMAIN saved.groups) /\ DOMAIN Tail(r) = 1 .. Len(r) - 1
        /\ \A k \in 1 .. Len(r) - 1 : Tail(r)[k] = r[k + 1]
    BY <2>1
  <2>3. Head(r) \in DOMAIN saved.groups
    BY <2>1
  <2>4. ASSUME NEW k \in 1 .. Len(r)
        PROVE  r[k] = Head(r) \/ r[k] \in ToSet(Tail(r))
    <3>1. CASE k = 1
      BY <2>2, <3>1
    <3>2. CASE k # 1
      <4>1. k - 1 \in 1 .. Len(r) - 1 /\ (k - 1) + 1 = k
        BY <2>2, <3>2
      <4> QED BY <2>2, <4>1 DEF ToSet
    <3> QED BY <3>1, <3>2
  <2>5. \A d \in ToSet(r) : d = Head(r) \/ d \in ToSet(Tail(r))
    BY <2>2, <2>4 DEF ToSet
  <2> QED BY <2>2, <2>3, <2>5 DEF r
<1>3. c \in Components /\ s \in Seq(Group)
  BY <1>2 DEF Inv, Shape, Saved
<1>4. /\ Todo(todo, c) /\ DOMAIN todo = 1 .. Len(s) + 1 /\ todo[1] = Edit("component", c, 0)
      /\ \A k \in 1 .. Len(s) : todo[k + 1] = Edit("add", c, s[k])
  BY <1>3, ActivateShape
<1> HIDE DEF c, s, q, todo
<1>5. /\ op' = [pc |-> op'.pc, c |-> op'.c, todo |-> op'.todo, prune |-> op'.prune,
                all |-> op'.all, changed |-> op'.changed, before |-> op'.before,
                fromSettings |-> op'.fromSettings, rest |-> op'.rest]
      /\ op'.pc = "edit" /\ op'.c = c /\ op'.todo = todo /\ op'.rest = q
      /\ op'.fromSettings = op.fromSettings /\ op'.prune = op.prune /\ op'.all = op.all
  <2> DEFINE n == [pc |-> op.pc, c |-> c, todo |-> todo, prune |-> op.prune, all |-> op.all,
                   changed |-> op.changed, before |-> op.before,
                   fromSettings |-> op.fromSettings, rest |-> q]
  <2>1. op' = n
    BY <1>1 DEF Change
  <2> QED BY <1>1, <2>1
<1>6. Shape'
  <2>1. Blocks'
    BY <1>1, <1>5 DEF Inv, Shape, Blocks, Within, array
  <2>2. Todo(op.todo, op.c)' /\ Added(op.todo, op.c)'
    BY <1>4, <1>5 DEF Todo, Added, Edit
  <2>3. /\ op'.pc \in {"edit", "swapped"} /\ op'.fromSettings \in BOOLEAN
        /\ op'.rest \in Seq(DOMAIN saved'.groups) /\ op'.c \in Components
    BY <1>1, <1>2, <1>3, <1>5, Zenon DEF Change
  <2>4. Change'
    BY <1>5, <2>2, <2>3, Zenon DEF Change
  <2> QED BY <1>1, <2>1, <2>4 DEF Inv, Shape, Operation, Turns, Saved
<1>7. Frames'
  <2>1. op' # Idle
    BY <1>5 DEF Idle
  <2> QED BY <1>1, <1>5, <2>1 DEF Inv, Frames, Framed
<1>8. Restored'
  <2>1. op' # Idle
    BY <1>5 DEF Idle
  <2> SUFFICES ASSUME op.fromSettings
               PROVE  /\ iSettings /\ saved.some /\ ~ op.prune /\ ~ op.all
                      /\ \A k \in DOMAIN todo : todo[k].do # "remove"
                      /\ \A d \in DOMAIN saved.groups : \A g \in ToSet(saved.groups[d]) :
                           \/ d \in ToSet(q)
                           \/ \E k \in DOMAIN todo : todo[k] = Edit("add", d, g)
                           \/ Holds(iTmpArray, d, g)
    <3>1. \A d, g : Holds(iTmpArray, d, g)' = Holds(iTmpArray, d, g)
      BY <1>1 DEF Holds, View, array
    <3> QED BY <1>1, <1>5, <2>1, <3>1 DEF Restored
  <2>2. Restored
    BY DEF Inv
  <2>3. iSettings /\ saved.some /\ ~ op.prune /\ ~ op.all
    BY <1>1, <2>2 DEF Restored
  <2>4. ASSUME NEW k \in DOMAIN todo PROVE todo[k].do # "remove"
    <3>1. Len(s) \in Nat
      BY <1>3
    <3>2. CASE k = 1
      BY <1>4, <3>2 DEF Edit
    <3>3. CASE k # 1
      <4>1. k - 1 \in 1 .. Len(s) /\ (k - 1) + 1 = k
        BY <1>4, <3>1, <3>3
      <4>2. todo[k] = Edit("add", c, s[k - 1])
        BY <1>4, <4>1
      <4> QED BY <4>2 DEF Edit
    <3> QED BY <3>2, <3>3
  <2>5. ASSUME NEW d \in DOMAIN saved.groups, NEW g \in ToSet(saved.groups[d])
        PROVE  \/ d \in ToSet(q)
               \/ \E k \in DOMAIN todo : todo[k] = Edit("add", d, g)
               \/ Holds(iTmpArray, d, g)
    <3>1. d \in ToSet(op.rest) \/ Holds(iTmpArray, d, g)
      BY <1>1, <2>2 DEF Restored
    <3>2. CASE d = c
      <4>1. PICK j \in 1 .. Len(s) : s[j] = g
        BY <1>3, <3>2 DEF s, ToSet
      <4>2. j + 1 \in 1 .. Len(s) + 1 /\ Len(s) \in Nat
        BY <1>3, <4>1
      <4>3. todo[j + 1] = Edit("add", d, g)
        BY <1>4, <3>2, <4>1
      <4> QED BY <1>4, <4>2, <4>3
    <3>3. CASE d # c
      BY <1>2, <3>1, <3>3
    <3> QED BY <3>2, <3>3
  <2> QED BY <2>3, <2>4, <2>5
<1> QED BY <1>6, <1>7, <1>8 DEF Inv

LEMMA UnregisterSettingsStep ==
  ASSUME Inv, UnregisterSettings, UNCHANGED scenario
  PROVE  Inv'
<1>1. /\ op = Idle /\ iSettings' = FALSE
      /\ UNCHANGED <<array, op, refresh, frame, iAllTracesDeactivated, saved>>
  BY DEF UnregisterSettings, CanStart, reader
<1>2. Activated' = Activated
  BY <1>1 DEF Activated, Pairs, Holds, View, array
<1>3. Shape'
  BY <1>1 DEF Inv, Shape, Blocks, Within, Operation, Turns, Saved, array
<1>4. Frames'
  BY <1>1, <1>2 DEF Inv, Frames, Framed, Right
<1>5. Restored'
  BY <1>1 DEF Restored
<1> QED BY <1>3, <1>4, <1>5 DEF Inv

-----------------------------------------------------------------------------
(* One edit.                                                               *)

\* What an edit leaves: blocks and counts that fit, in both arrays.
Fit ==
  /\ store' \in [Components -> Seq(Group)] /\ iOstComponents' = iOstComponents
  /\ \A c \in DOMAIN iOstComponents : iOstComponents[c] <= Len(store'[c])
  /\ DOMAIN iTmpArray' \subseteq Components /\ DOMAIN iTmpArray \subseteq DOMAIN iTmpArray'
  /\ iTmpArray' \in [DOMAIN iTmpArray' -> Nat]
  /\ \A c \in DOMAIN iTmpArray' : iTmpArray'[c] <= Len(store'[c])

\* Every group that iTmpArray holds is held after the edit.
Kept == \A d \in DOMAIN iTmpArray : \A h :
          In(store[d], iTmpArray[d], h) => In(store'[d], iTmpArray'[d], h)

LEMMA AddComponentKeeps ==
  ASSUME Blocks, NEW c \in Components, AddComponentId(c), UNCHANGED iOstComponents
  PROVE  Fit /\ Kept /\ c \in DOMAIN iTmpArray'
<1>1. CASE c \in DOMAIN iTmpArray
  <2>1. UNCHANGED <<store, iTmpArray>>
    BY <1>1 DEF AddComponentId
  <2> QED BY <1>1, <2>1 DEF Fit, Kept, Blocks, Within
<1>2. CASE c \notin DOMAIN iTmpArray
  <2>1. /\ store' = [store EXCEPT ![c] = <<>>]
        /\ iTmpArray' = [d \in DOMAIN iTmpArray \cup {c} |-> IF d = c THEN 0 ELSE iTmpArray[d]]
    BY <1>2 DEF AddComponentId
  <2>2. /\ store' \in [Components -> Seq(Group)] /\ Len(store'[c]) = 0
        /\ \A d \in Components \ {c} : store'[d] = store[d]
    <3>1. <<>> \in Seq(Group) /\ Len(<<>>) = 0
      OBVIOUS
    <3> QED BY <2>1, <3>1 DEF Blocks
  <2>3. /\ DOMAIN iTmpArray' = DOMAIN iTmpArray \cup {c} /\ iTmpArray'[c] = 0
        /\ \A d \in DOMAIN iTmpArray : iTmpArray'[d] = iTmpArray[d]
        /\ iTmpArray' \in [DOMAIN iTmpArray' -> Nat]
    BY <1>2, <2>1 DEF Blocks, Within
  <2>4. c \notin DOMAIN iOstComponents
    BY <1>2 DEF Blocks
  <2>5. Fit
    <3>1. \A d \in DOMAIN iOstComponents : iOstComponents[d] <= Len(store'[d])
      BY <2>2, <2>4 DEF Blocks, Within
    <3>2. ASSUME NEW d \in DOMAIN iTmpArray' PROVE iTmpArray'[d] <= Len(store'[d])
      <4>1. CASE d = c
        BY <2>2, <2>3, <4>1
      <4>2. CASE d # c
        <5>1. d \in DOMAIN iTmpArray /\ d \in Components
          BY <2>3, <4>2 DEF Blocks, Within
        <5> QED BY <2>2, <2>3, <4>2, <5>1 DEF Blocks, Within
      <4> QED BY <4>1, <4>2
    <3>3. DOMAIN iTmpArray' \subseteq Components /\ DOMAIN iTmpArray \subseteq DOMAIN iTmpArray'
      BY <2>3 DEF Blocks, Within
    <3> QED BY <2>2, <2>3, <3>1, <3>2, <3>3 DEF Fit
  <2>6. Kept
    BY <1>2, <2>2, <2>3 DEF Kept, Blocks, Within
  <2> QED BY <2>3, <2>5, <2>6
<1> QED BY <1>1, <1>2

LEMMA AddGroupKeeps ==
  ASSUME Blocks, NEW c \in DOMAIN iTmpArray, NEW g, AddGroupId(c, g), UNCHANGED iOstComponents
  PROVE  Fit /\ Kept /\ (g \in Group => In(store'[c], iTmpArray'[c], g))
<1>1. CASE ~ (GroupIdIsValid(g) /\ ~ Holds(iTmpArray, c, g))
  <2>1. UNCHANGED <<store, iTmpArray>>
    BY <1>1 DEF AddGroupId
  <2>2. g \in Group => In(store[c], iTmpArray[c], g)
    BY <1>1, LiveShown DEF GroupIdIsValid, Group
  <2> QED BY <2>1, <2>2 DEF Fit, Kept, Blocks, Within
<1>2. CASE GroupIdIsValid(g) /\ ~ Holds(iTmpArray, c, g)
  <2> DEFINE n == iTmpArray[c]
             b == store[c]
             r == InsertInOrder(Grown(b, n), n, g)
  <2>1. store' = [store EXCEPT ![c] = r] /\ iTmpArray' = [iTmpArray EXCEPT ![c] = n + 1]
    BY <1>2 DEF AddGroupId
  <2>2. /\ c \in Components /\ b \in Seq(Group) /\ n \in 0 .. Len(b) /\ n \in Nat
        /\ g \in Group /\ Len(b) \in Nat
    BY <1>2 DEF Blocks, Within, GroupIdIsValid, Group
  <2>3. /\ r \in Seq(Group) /\ Len(b) <= Len(r) /\ n + 1 <= Len(r) /\ Len(r) \in Nat
        /\ \A h : In(r, n + 1, h) <=> h = g \/ In(b, n, h)
    <3> HIDE DEF n, b
    <3>1. /\ r \in Seq(Group) /\ Len(b) <= Len(r) /\ n + 1 <= Len(r)
          /\ \A h : In(r, n + 1, h) <=> h = g \/ In(b, n, h)
      BY <2>2, InsertKeeps
    <3> QED BY <3>1
  <2> HIDE DEF r
  <2>4. /\ store' \in [Components -> Seq(Group)] /\ store'[c] = r
        /\ \A d \in Components \ {c} : store'[d] = store[d]
    BY <2>1, <2>2, <2>3 DEF Blocks
  <2>5. /\ DOMAIN iTmpArray' = DOMAIN iTmpArray /\ iTmpArray'[c] = n + 1
        /\ \A d \in DOMAIN iTmpArray \ {c} : iTmpArray'[d] = iTmpArray[d]
        /\ iTmpArray' \in [DOMAIN iTmpArray' -> Nat]
    <3>1. iTmpArray \in [DOMAIN iTmpArray -> Nat] /\ n + 1 \in Nat
      BY <2>2 DEF Blocks, Within
    <3> HIDE DEF n
    <3> QED BY <2>1, <3>1
  <2>6. \A d \in DOMAIN iOstComponents : iOstComponents[d] <= Len(store'[d])
    <3> SUFFICES ASSUME NEW d \in DOMAIN iOstComponents
                 PROVE  iOstComponents[d] <= Len(store'[d])
      OBVIOUS
    <3>1. /\ d \in Components /\ iOstComponents[d] \in Nat
          /\ iOstComponents[d] <= Len(store[d]) /\ Len(store[d]) \in Nat
      BY DEF Blocks, Within
    <3>2. CASE d = c
      BY <3>1, <3>2, <2>2, <2>3, <2>4
    <3>3. CASE d # c
      BY <3>1, <3>3, <2>4
    <3> QED BY <3>2, <3>3
  <2>7. \A d \in DOMAIN iTmpArray' : iTmpArray'[d] <= Len(store'[d])
    <3> SUFFICES ASSUME NEW d \in DOMAIN iTmpArray PROVE iTmpArray'[d] <= Len(store'[d])
      BY <2>5
    <3>1. CASE d = c
      BY <3>1, <2>3, <2>4, <2>5
    <3>2. CASE d # c
      BY <3>2, <2>4, <2>5 DEF Blocks, Within
    <3> QED BY <3>1, <3>2
  <2>8. Fit
    BY <2>4, <2>5, <2>6, <2>7 DEF Fit, Blocks, Within
  <2>9. ASSUME NEW d \in DOMAIN iTmpArray, NEW h, In(store[d], iTmpArray[d], h)
        PROVE  In(store'[d], iTmpArray'[d], h)
    <3>1. CASE d = c
      BY <3>1, <2>3, <2>4, <2>5, <2>9
    <3>2. CASE d # c
      <4>1. d \in Components
        BY DEF Blocks, Within
      <4>2. store'[d] = store[d] /\ iTmpArray'[d] = iTmpArray[d]
        BY <3>2, <4>1, <2>4, <2>5
      <4> QED BY <4>2, <2>9
    <3> QED BY <3>1, <3>2
  <2>10. In(store'[c], iTmpArray'[c], g)
    BY <2>3, <2>4, <2>5
  <2> QED BY <2>8, <2>9, <2>10 DEF Kept
<1> QED BY <1>1, <1>2

LEMMA RemoveGroupKeeps ==
  ASSUME Blocks, NEW c, NEW g, RemoveGroupId(c, g), UNCHANGED iOstComponents
  PROVE  Fit
<1>1. CASE ~ Holds(iTmpArray, c, g)
  <2>1. UNCHANGED <<store, iTmpArray>>
    BY <1>1 DEF RemoveGroupId
  <2> QED BY <2>1 DEF Fit, Blocks, Within
<1>2. CASE Holds(iTmpArray, c, g)
  <2> DEFINE n == iTmpArray[c]
             b == store[c]
             r == Removed(b, n, g)
  <2>1. store' = [store EXCEPT ![c] = r] /\ iTmpArray' = [iTmpArray EXCEPT ![c] = n - 1]
    BY <1>2 DEF RemoveGroupId
  <2>2. c \in DOMAIN iTmpArray /\ In(b, n, g)
    BY <1>2, LiveShown
  <2>3. c \in Components /\ b \in Seq(Group) /\ n \in Nat /\ n \in 0 .. Len(b) /\ Len(b) \in Nat
    BY <2>2 DEF Blocks, Within
  <2>4. n - 1 \in Nat
    BY <2>2, <2>3 DEF In
  <2>5. r \in Seq(Group) /\ Len(r) = Len(b)
    <3> HIDE DEF n, b
    <3> QED BY <2>3, RemoveKeeps
  <2> HIDE DEF r
  <2>6. /\ store' \in [Components -> Seq(Group)]
        /\ \A d \in Components : Len(store'[d]) = Len(store[d])
    BY <2>1, <2>3, <2>5 DEF Blocks
  <2>7. /\ DOMAIN iTmpArray' = DOMAIN iTmpArray /\ iTmpArray'[c] = n - 1
        /\ \A d \in DOMAIN iTmpArray \ {c} : iTmpArray'[d] = iTmpArray[d]
        /\ iTmpArray' \in [DOMAIN iTmpArray' -> Nat]
    <3>1. iTmpArray \in [DOMAIN iTmpArray -> Nat]
      BY DEF Blocks, Within
    <3> HIDE DEF n
    <3> QED BY <2>1, <2>2, <2>4, <3>1
  <2>8. \A d \in DOMAIN iTmpArray' : iTmpArray'[d] <= Len(store'[d])
    <3> SUFFICES ASSUME NEW d \in DOMAIN iTmpArray PROVE iTmpArray'[d] <= Len(store'[d])
      BY <2>7
    <3>1. d \in Components /\ iTmpArray[d] <= Len(store[d])
      BY DEF Blocks, Within
    <3>2. CASE d = c
      BY <3>1, <3>2, <2>3, <2>6, <2>7
    <3>3. CASE d # c
      BY <3>1, <3>3, <2>6, <2>7
    <3> QED BY <3>2, <3>3
  <2>9. \A d \in DOMAIN iOstComponents : iOstComponents[d] <= Len(store'[d])
    BY <2>6 DEF Blocks, Within
  <2> QED BY <2>6, <2>7, <2>8, <2>9 DEF Fit, Blocks, Within
<1> QED BY <1>1, <1>2

LEMMA EditStep ==
  ASSUME Inv, EditOne, UNCHANGED scenario
  PROVE  Inv'
<1> DEFINE c == op.c
           e == Head(op.todo)
           todo == Tail(op.todo)
           n == op'.changed
<1>1. /\ op.pc = "edit" /\ op.todo # <<>> /\ op # Idle /\ Change /\ Blocks
      /\ UNCHANGED <<iOstComponents, refresh, frame, iSettings, saved>>
  BY DEF EditOne, reader, Inv, Shape, Operation, Idle
<1>2. /\ op' = [pc |-> "edit", c |-> c, todo |-> todo, prune |-> op.prune, all |-> op.all,
                changed |-> n, before |-> op.before,
                fromSettings |-> op.fromSettings, rest |-> op.rest]
      /\ op'.pc = "edit" /\ op'.c = c /\ op'.todo = todo /\ op'.rest = op.rest
      /\ op'.fromSettings = op.fromSettings /\ op'.prune = op.prune /\ op'.all = op.all
  <2> DEFINE m == IF iTmpArray' # iTmpArray /\ e.do # "component"
                  THEN op.changed \cup {<<e.c, e.g>>} ELSE op.changed
  <2>1. op' = [op EXCEPT !.todo = todo, !.changed = m]
    BY DEF EditOne
  <2> HIDE DEF m, todo
  <2>2. op' = [pc |-> op.pc, c |-> c, todo |-> todo, prune |-> op.prune, all |-> op.all,
               changed |-> m, before |-> op.before,
               fromSettings |-> op.fromSettings, rest |-> op.rest]
    BY <1>1, <2>1 DEF Change
  <2>3. n = m
    BY <2>2
  <2> QED BY <1>1, <2>2, <2>3
<1>3. /\ Todo(todo, c) /\ e = op.todo[1] /\ 1 \in DOMAIN op.todo
      /\ \A k \in DOMAIN todo :
           /\ k + 1 \in DOMAIN op.todo /\ todo[k] = op.todo[k + 1] /\ todo[k].do # "component"
      /\ \A k \in DOMAIN op.todo : k = 1 \/ (k - 1 \in DOMAIN todo /\ todo[k - 1] = op.todo[k])
  BY <1>1, TailShape DEF Change
<1>4. /\ c \in Components /\ e.c = c /\ e.do \in {"component", "add", "remove"}
      /\ e.do = "add" => c \in DOMAIN iTmpArray
      /\ \A k \in DOMAIN op.todo :
           op.todo[k].do = "add" => c \in DOMAIN iTmpArray \/ e.do = "component"
  BY <1>1, <1>3 DEF Change, Todo, Added
<1>5. \/ e.do = "component" /\ AddComponentId(c)
      \/ e.do = "add" /\ AddGroupId(c, e.g)
      \/ e.do = "remove" /\ RemoveGroupId(c, e.g)
  BY <1>4, Zenon DEF EditOne
<1> HIDE DEF c, e, todo, n
<1>6. /\ Fit
      /\ e.do # "remove" => Kept
      /\ e.do = "component" => c \in DOMAIN iTmpArray'
      /\ e.do = "add" /\ e.g \in Group => In(store'[c], iTmpArray'[c], e.g)
  <2>1. CASE e.do = "component" /\ AddComponentId(c)
    BY <1>1, <1>4, <2>1, AddComponentKeeps
  <2>2. CASE e.do = "add" /\ AddGroupId(c, e.g)
    <3>1. Fit /\ Kept /\ (e.g \in Group => In(store'[c], iTmpArray'[c], e.g))
      BY <1>1, <1>4, <2>2, AddGroupKeeps
    <3> QED BY <2>2, <3>1
  <2>3. CASE e.do = "remove" /\ RemoveGroupId(c, e.g)
    <3>1. Fit
      BY <1>1, <2>3, RemoveGroupKeeps
    <3> QED BY <2>3, <3>1
  <2> QED BY <1>5, <2>1, <2>2, <2>3
<1>7. Blocks'
  BY <1>1, <1>2, <1>6 DEF Fit, Blocks, Within
<1>8. Change'
  <2>1. Todo(op.todo, op.c)'
    BY <1>2, <1>3 DEF Todo
  <2>2. Added(op.todo, op.c)'
    <3>1. \A k \in DOMAIN todo : todo[k].do = "add" => c \in DOMAIN iTmpArray'
      BY <1>3, <1>4, <1>6 DEF Fit
    <3> QED BY <1>2, <3>1 DEF Added
  <2>3. /\ op'.pc \in {"edit", "swapped"} /\ op'.fromSettings \in BOOLEAN
        /\ op'.rest \in Seq(DOMAIN saved'.groups) /\ op'.c \in Components
    BY <1>1, <1>2, <1>4, Zenon DEF Change
  <2>4. op' = [pc |-> op'.pc, c |-> op'.c, todo |-> op'.todo, prune |-> op'.prune,
               all |-> op'.all, changed |-> op'.changed, before |-> op'.before,
               fromSettings |-> op'.fromSettings, rest |-> op'.rest]
    BY <1>2
  <2> QED BY <2>1, <2>2, <2>3, <2>4, Zenon DEF Change
<1>9. Shape'
  BY <1>1, <1>7, <1>8 DEF Inv, Shape, Operation, Turns, Saved
<1>10. op' # Idle
  BY <1>2 DEF Idle
<1>11. Frames'
  BY <1>1, <1>2, <1>10 DEF Inv, Frames, Framed
<1>12. Restored'
  <2>1. \A d, g : /\ Holds(iTmpArray, d, g)
                     <=> d \in DOMAIN iTmpArray /\ In(store[d], iTmpArray[d], g)
                  /\ Holds(iTmpArray, d, g)'
                     <=> d \in DOMAIN iTmpArray' /\ In(store'[d], iTmpArray'[d], g)
    BY <1>1, <1>7, LiveShown, LiveShownNext
  <2>2. Restored
    BY DEF Inv
  <2> SUFFICES ASSUME op.fromSettings
               PROVE  /\ iSettings /\ saved.some /\ ~ op.prune /\ ~ op.all
                      /\ \A k \in DOMAIN todo : todo[k].do # "remove"
                      /\ \A d \in DOMAIN saved.groups : \A g \in ToSet(saved.groups[d]) :
                           \/ d \in ToSet(op.rest)
                           \/ \E k \in DOMAIN todo : todo[k] = Edit("add", d, g)
                           \/ Holds(iTmpArray, d, g)'
    BY <1>1, <1>2, <1>10 DEF Restored
  <2>3. /\ iSettings /\ saved.some /\ ~ op.prune /\ ~ op.all
        /\ \A k \in DOMAIN op.todo : op.todo[k].do # "remove"
    BY <1>1, <2>2 DEF Restored
  <2>4. \A k \in DOMAIN todo : todo[k].do # "remove"
    BY <1>3, <2>3
  <2>5. Kept
    BY <1>3, <1>6, <2>3
  <2>6. ASSUME NEW d \in DOMAIN saved.groups, NEW g \in ToSet(saved.groups[d])
        PROVE  \/ d \in ToSet(op.rest)
               \/ \E k \in DOMAIN todo : todo[k] = Edit("add", d, g)
               \/ Holds(iTmpArray, d, g)'
    <3>1. \/ d \in ToSet(op.rest)
          \/ \E k \in DOMAIN op.todo : op.todo[k] = Edit("add", d, g)
          \/ Holds(iTmpArray, d, g)
      BY <1>1, <2>2 DEF Restored
    <3>2. CASE Holds(iTmpArray, d, g)
      BY <2>1, <2>5, <3>2, <1>6 DEF Kept, Fit
    <3>3. ASSUME NEW k \in DOMAIN op.todo, op.todo[k] = Edit("add", d, g)
          PROVE  (\E j \in DOMAIN todo : todo[j] = Edit("add", d, g)) \/ Holds(iTmpArray, d, g)'
      <4>1. CASE k # 1
        BY <1>3, <3>3, <4>1
      <4>2. CASE k = 1
        <5>1. e = Edit("add", d, g)
          BY <1>3, <3>3, <4>2
        <5>2. e.do = "add" /\ e.c = d /\ e.g = g
          BY <5>1 DEF Edit
        <5>3. g \in Group
          BY DEF Inv, Shape, Saved, ToSet
        <5>4. d = c
          BY <5>2, <1>4
        <5>5. In(store'[d], iTmpArray'[d], g)
          BY <5>2, <5>3, <5>4, <1>6
        <5>6. d \in DOMAIN iTmpArray'
          BY <5>2, <5>4, <1>4, <1>6 DEF Fit
        <5> QED BY <5>5, <5>6, <2>1
      <4> QED BY <4>1, <4>2
    <3> QED BY <3>1, <3>2, <3>3
  <2> QED BY <2>3, <2>4, <2>6
<1> QED BY <1>9, <1>11, <1>12 DEF Inv

-----------------------------------------------------------------------------
(* The swap of the arrays and the report.                                  *)

LEMMA SwapStep ==
  ASSUME Inv, SetNewComponentsArrayPtr, UNCHANGED scenario
  PROVE  Inv'
<1> DEFINE c == op.c
           gone == c \in DOMAIN iTmpArray /\ (op.all \/ (op.prune /\ iTmpArray[c] = 0))
           new == IF gone THEN Without(iTmpArray, c) ELSE iTmpArray
           blank(d) == [k \in DOMAIN store[d] |-> IF k <= new[d] THEN store[d][k] ELSE 0]
           n == op'.changed
<1>1. /\ op.pc = "edit" /\ op.todo = <<>> /\ op.rest = <<>> /\ op # Idle /\ Change /\ Blocks
      /\ iOstComponents' = new /\ iTmpArray' = new /\ moved' = {}
      /\ store' = [d \in Components |-> IF d \in DOMAIN new THEN blank(d) ELSE <<>>]
      /\ UNCHANGED <<refresh, iSettings, saved>>
      /\ frame' = [x \in Contexts |-> Superseded(frame[x])]
  BY DEF SetNewComponentsArrayPtr, Inv, Shape, Operation, Idle
<1>2. /\ op' = [pc |-> "swapped", c |-> c, todo |-> <<>>, prune |-> op.prune, all |-> op.all,
                changed |-> n, before |-> op.before,
                fromSettings |-> op.fromSettings, rest |-> <<>>]
      /\ op'.pc = "swapped" /\ op'.c = c /\ op'.todo = <<>> /\ op'.rest = <<>>
      /\ op'.fromSettings = op.fromSettings /\ op'.prune = op.prune /\ op'.all = op.all
  <2> DEFINE m == IF gone /\ op.all THEN op.changed \cup {<<c, KAllGroups>>} ELSE op.changed
  <2>1. op' = [op EXCEPT !.pc = "swapped", !.changed = m]
    BY DEF SetNewComponentsArrayPtr
  <2> HIDE DEF m
  <2>2. op' = [pc |-> "swapped", c |-> c, todo |-> op.todo, prune |-> op.prune, all |-> op.all,
               changed |-> m, before |-> op.before,
               fromSettings |-> op.fromSettings, rest |-> op.rest]
    BY <1>1, <2>1 DEF Change
  <2>3. n = m
    BY <2>2
  <2> QED BY <1>1, <2>2, <2>3
<1>3. /\ DOMAIN new \subseteq DOMAIN iTmpArray /\ \A d \in DOMAIN new : new[d] = iTmpArray[d]
      /\ new \in [DOMAIN new -> Nat]
      /\ ~ op.prune /\ ~ op.all => new = iTmpArray
  <2>1. iTmpArray \in [DOMAIN iTmpArray -> Nat]
    BY <1>1 DEF Blocks, Within
  <2>2. CASE gone
    BY <2>1, <2>2 DEF Without
  <2>3. CASE ~ gone
    BY <2>1, <2>3
  <2> QED BY <2>2, <2>3
<1> HIDE DEF new, gone, n
<1>4. ASSUME NEW d \in DOMAIN new
      PROVE  /\ d \in Components /\ new[d] \in Nat /\ new[d] <= Len(store[d])
             /\ store[d] \in Seq(Group) /\ Len(store[d]) \in Nat
             /\ blank(d) \in Seq(Group) /\ Len(blank(d)) = Len(store[d])
             /\ \A k \in 1 .. new[d] : blank(d)[k] = store[d][k]
  <2>1. /\ d \in Components /\ new[d] \in Nat /\ new[d] <= Len(store[d])
        /\ store[d] \in Seq(Group) /\ Len(store[d]) \in Nat
        /\ DOMAIN store[d] = 1 .. Len(store[d])
    BY <1>1, <1>3 DEF Blocks, Within
  <2>2. 0 \in Group
    BY TraceAssumption DEF Group
  <2>3. blank(d) \in [1 .. Len(store[d]) -> Group]
    BY <2>1, <2>2
  <2>4. \A k \in 1 .. new[d] : blank(d)[k] = store[d][k]
    BY <2>1
  <2> HIDE DEF blank
  <2>5. blank(d) \in Seq(Group) /\ Len(blank(d)) = Len(store[d])
    BY <2>1, <2>3, FunctionIsSeq
  <2> QED BY <2>1, <2>4, <2>5
<1> HIDE DEF blank
<1>5. /\ store' \in [Components -> Seq(Group)]
      /\ \A d \in DOMAIN new : store'[d] = blank(d)
  <2>1. <<>> \in Seq(Group)
    OBVIOUS
  <2> QED BY <1>1, <1>4, <2>1
<1>6. Blocks'
  <2>1. Within(iOstComponents)' /\ Within(iTmpArray)'
    BY <1>1, <1>3, <1>4, <1>5 DEF Within
  <2> QED BY <1>1, <1>5, <2>1 DEF Blocks
<1>7. Change'
  <2> DEFINE b == op'.c
  <2>1. Todo(<<>>, b) /\ DOMAIN <<>> = {}
    BY NothingTodo
  <2> HIDE DEF b
  <2>2. Todo(op.todo, op.c)' /\ Added(op.todo, op.c)'
    BY <1>2, <2>1 DEF Todo, Added, b
  <2>3. /\ op'.pc \in {"edit", "swapped"} /\ op'.fromSettings \in BOOLEAN
        /\ op'.rest \in Seq(DOMAIN saved'.groups)
    <3>1. <<>> \in Seq(DOMAIN saved'.groups)
      OBVIOUS
    <3> QED BY <1>1, <1>2, <3>1, Zenon DEF Change
  <2>4. op' = [pc |-> op'.pc, c |-> op'.c, todo |-> op'.todo, prune |-> op'.prune,
               all |-> op'.all, changed |-> op'.changed, before |-> op'.before,
               fromSettings |-> op'.fromSettings, rest |-> op'.rest]
    BY <1>2
  <2> QED BY <1>2, <2>2, <2>3, <2>4, Zenon DEF Change
<1>8. Shape'
  BY <1>1, <1>6, <1>7 DEF Inv, Shape, Operation, Turns, Saved
<1>9. op' # Idle
  BY <1>2 DEF Idle
<1>10. Frames'
  <2>1. ASSUME NEW x \in Contexts
        PROVE  /\ frame'[x] \in {NoTrace} \cup Asking \cup Answer
               /\ frame'[x].stage = "update" => frame'[x].late
    <3> DEFINE f == frame[x]
    <3>1. frame'[x] = Superseded(f) /\ f \in {NoTrace} \cup Asking \cup Answer
      BY <1>1 DEF Inv, Frames, Framed
    <3> HIDE DEF f
    <3>2. CASE f \in Answer
      <4>1. Superseded(f) = [f EXCEPT !.late = TRUE]
        BY <3>2 DEF Superseded, Answer
      <4>2. Superseded(f) \in Answer /\ Superseded(f).late
        BY <3>2, <4>1 DEF Answer
      <4> QED BY <3>1, <4>2
    <3>3. CASE f \in {NoTrace} \cup Asking
      <4>1. f.stage # "update"
        BY <3>3 DEF NoTrace, Asking
      <4> QED BY <3>1, <4>1 DEF Superseded
    <3> QED BY <3>1, <3>2, <3>3
  <2>2. Framed(frame, TRUE)'
    BY <1>1, <2>1 DEF Framed, Right
  <2> QED BY <1>9, <2>2 DEF Frames, Framed
<1>11. Restored'
  <2>1. Restored
    BY DEF Inv
  <2>2. DOMAIN <<>> = {} /\ ToSet(<<>>) = {}
    BY DEF ToSet
  <2> SUFFICES ASSUME op.fromSettings
               PROVE  /\ iSettings /\ saved.some /\ ~ op.prune /\ ~ op.all
                      /\ \A d \in DOMAIN saved.groups : \A g \in ToSet(saved.groups[d]) :
                           <<d, g>> \in Activated'
    BY <1>1, <1>2, <1>9, <2>2 DEF Restored
  <2>3. iSettings /\ saved.some /\ ~ op.prune /\ ~ op.all
    BY <1>1, <2>1 DEF Restored
  <2>4. new = iTmpArray
    BY <1>3, <2>3
  <2>5. ASSUME NEW d \in DOMAIN saved.groups, NEW g \in ToSet(saved.groups[d])
        PROVE  <<d, g>> \in Activated'
    <3>1. Holds(iTmpArray, d, g)
      BY <1>1, <2>1, <2>2 DEF Restored
    <3>2. d \in DOMAIN new /\ In(store[d], new[d], g)
      BY <1>1, <2>4, <3>1, LiveShown
    <3>3. In(store'[d], new[d], g)
      BY <1>4, <1>5, <3>2 DEF In
    <3>4. d \in Components /\ g \in Group
      BY DEF Inv, Shape, Saved, ToSet
    <3>5. <<d, g>> \in Shown(store', iOstComponents')
      BY <1>1, <3>2, <3>3, <3>4 DEF Shown
    <3> QED BY <1>6, <3>5, LiveShownNext
  <2> QED BY <2>3, <2>5
<1> QED BY <1>8, <1>10, <1>11 DEF Inv

\* What SaveSettings writes are the groups of the live array.
LEMMA SavedGroups ==
  ASSUME Blocks, NEW c \in DOMAIN iOstComponents
  PROVE  /\ c \in Components /\ View(iOstComponents, c) \in Seq(Group)
         /\ \A g \in ToSet(View(iOstComponents, c)) : <<c, g>> \in Activated
<1>1. /\ c \in Components /\ store[c] \in Seq(Group)
      /\ iOstComponents[c] \in Nat /\ iOstComponents[c] <= Len(store[c])
  BY DEF Blocks, Within
<1>2. View(iOstComponents, c) \in Seq(Group)
  BY <1>1 DEF View
<1>3. \A g \in ToSet(View(iOstComponents, c)) : <<c, g>> \in Activated
  BY LiveShown DEF Holds
<1> QED BY <1>1, <1>2, <1>3

LEMMA ReportStep ==
  ASSUME Inv, HandleTraceActivationChanges, UNCHANGED scenario
  PROVE  Inv'
<1> DEFINE G == [c \in DOMAIN iOstComponents |-> View(iOstComponents, c)]
<1>1. /\ op.pc = "swapped" /\ op # Idle /\ op' = Idle /\ Blocks
      /\ refresh' = (IF refresh.queue = <<>> THEN NoRefresh ELSE refresh)
      /\ iAllTracesDeactivated' = OnlyPrintfs
      /\ saved' = (IF ~ op.fromSettings /\ iSettings
                   THEN [some |-> TRUE, groups |-> G] ELSE saved)
      /\ UNCHANGED <<store, iOstComponents, iTmpArray, moved, frame, iSettings>>
  BY DEF HandleTraceActivationChanges, array, reader, Inv, Shape, Idle
<1>2. Activated' = Activated
  BY <1>1 DEF Activated, Pairs, Holds, View
<1>3. Blocks'
  BY <1>1 DEF Blocks, Within
<1>4. Turns'
  <2>1. <<>> \in Seq(ToSet(<<>>)) /\ DOMAIN <<>> = {}
    BY DEF ToSet
  <2> QED BY <1>1, <2>1 DEF Inv, Shape, Turns, NoRefresh
<1>5. /\ DOMAIN G = DOMAIN iOstComponents
      /\ \A c \in DOMAIN G : /\ c \in Components /\ G[c] \in Seq(Group)
                              /\ \A g \in ToSet(G[c]) : <<c, g>> \in Activated
  BY <1>1, SavedGroups
<1> HIDE DEF G
<1>6. Saved'
  BY <1>1, <1>5 DEF Saved, Inv, Shape
<1>7. Shape'
  BY <1>1, <1>3, <1>4, <1>6 DEF Inv, Shape, Operation
<1>8. OnlyPrintfs => \A u \in Activated : u[2] <= EPlatsecPrintf
  <2> SUFFICES ASSUME OnlyPrintfs, NEW u \in Activated PROVE u[2] <= EPlatsecPrintf
    OBVIOUS
  <2>1. Holds(iOstComponents, u[1], u[2])
    BY DEF Activated, Pairs
  <2>2. u[1] \in DOMAIN iOstComponents
    BY <1>1 DEF Activated, Pairs, Holds, View, ToSet
  <2>3. u[1] = Kernel /\ \A g \in ToSet(View(iOstComponents, Kernel)) : g <= EPlatsecPrintf
    BY <2>2 DEF OnlyPrintfs
  <2> QED BY <2>1, <2>3 DEF Holds
<1>9. Frames'
  <2>1. Framed(frame, TRUE)'
    BY <1>1, <1>2 DEF Inv, Frames, Framed, Right
  <2> QED BY <1>1, <1>2, <1>8, <2>1 DEF Frames, Framed
<1>10. Restored'
  <2> SUFFICES ASSUME iSettings, saved'.some
               PROVE  \A c \in DOMAIN saved'.groups : \A g \in ToSet(saved'.groups[c]) :
                        <<c, g>> \in Activated
    BY <1>1, <1>2 DEF Restored
  <2>1. CASE op.fromSettings
    BY <1>1, <2>1 DEF Inv, Restored
  <2>2. CASE ~ op.fromSettings
    <3>1. saved'.groups = G
      BY <1>1, <2>2
    <3> QED BY <1>5, <3>1
  <2> QED BY <2>1, <2>2
<1> QED BY <1>7, <1>9, <1>10 DEF Inv

-----------------------------------------------------------------------------
(* The steps of the traces.                                                *)

\* One context goes on.
LEMMA ContextStep ==
  ASSUME Inv, UNCHANGED scenario, NEW x \in Contexts, NEW f, Seen,
         frame' = [frame EXCEPT ![x] = f],
         f \in {NoTrace} \cup Asking \cup Answer,
         op.pc # "edit" /\ f.stage = "update" => Right(f)
  PROVE  Inv'
<1>1. Framed(frame', op.pc # "edit")
  BY DEF Inv, Frames, Framed
<1>2. Turns'
  BY DEF Seen, Inv, Shape, Turns
<1> QED BY <1>1, <1>2, QuietStep DEF Seen

LEMMA HandleFrameStep ==
  ASSUME Inv, NEW x \in Contexts, NEW u \in scenario.traced, HandleFrame(x, u[1], u[2]),
         UNCHANGED scenario
  PROVE  Inv'
<1> DEFINE f == [stage |-> "compare", c |-> u[1], g |-> u[2], k |-> 1]
<1>1. u[1] \in Components /\ u[2] \in Nat
  BY TraceAssumption DEF Inv, Shape, Components
<1>2. f \in Asking /\ f.stage # "update"
  BY <1>1 DEF Asking
<1>3. Seen /\ frame' = [frame EXCEPT ![x] = f]
  BY DEF HandleFrame
<1> HIDE DEF f
<1> QED BY <1>2, <1>3, ContextStep

LEMMA CompareItemStep ==
  ASSUME Inv, NEW x \in Contexts, CompareItem(x), UNCHANGED scenario
  PROVE  Inv'
<1> DEFINE f == frame[x]
           h == [f EXCEPT !.k = @ + 1]
<1>1. f \in Asking
  BY DEF CompareItem, Inv, Frames, Framed, NoTrace, Answer
<1>2. h \in Asking /\ h.stage # "update"
  BY <1>1 DEF Asking
<1>3. Seen /\ (frame' = [frame EXCEPT ![x] = NoTrace] \/ frame' = [frame EXCEPT ![x] = h])
  BY DEF CompareItem
<1> HIDE DEF f, h
<1>4. NoTrace.stage # "update"
  BY DEF NoTrace
<1> QED BY <1>2, <1>3, <1>4, ContextStep

LEMMA LookUpStep ==
  ASSUME Inv, NEW x \in Contexts, LookUp(x), UNCHANGED scenario
  PROVE  Inv'
<1> DEFINE c == frame[x].c
           g == frame[x].g
           f(on) == [stage |-> "update", c |-> c, g |-> g, k |-> 0, on |-> on, late |-> FALSE]
<1>1. c \in Components /\ g \in Nat
  BY DEF LookUp, Inv, Frames, Framed, NoTrace, Asking, Answer
<1>2. PICK on \in IsTraceActivated(c, g) : frame' = [frame EXCEPT ![x] = f(on)]
  BY DEF LookUp
<1> HIDE DEF c, g
<1>3. on \in BOOLEAN /\ (c \notin moved => on = Holds(iOstComponents, c, g))
  <2>1. Holds(iOstComponents, c, g) \in BOOLEAN
    BY DEF Holds
  <2> QED BY <2>1, Zenon DEF IsTraceActivated
<1>4. f(on) \in Answer /\ f(on).c = c /\ f(on).g = g /\ f(on).on = on
  BY <1>1, <1>3 DEF Answer
<1>5. op.pc # "edit" => Right(f(on))
  <2> SUFFICES ASSUME op.pc # "edit" PROVE Right(f(on))
    OBVIOUS
  <2>1. moved = {} /\ Blocks
    BY DEF Inv, Shape, Blocks
  <2>2. on <=> <<c, g>> \in Activated
    BY <1>3, <2>1, LiveShown
  <2> QED BY <1>4, <2>2 DEF Right
<1>6. Seen
  BY DEF LookUp
<1> HIDE DEF f
<1> QED BY <1>2, <1>4, <1>5, <1>6, ContextStep

LEMMA UpdateSteps ==
  ASSUME Inv, NEW x \in Contexts, SwapPointers(x) \/ WriteWord(x), UNCHANGED scenario
  PROVE  Inv'
<1> DEFINE f == frame[x]
           h == [f EXCEPT !.k = @ + 1]
<1>1. f \in Answer /\ (op.pc # "edit" => Right(f))
  BY DEF SwapPointers, WriteWord, Inv, Frames, Framed, NoTrace, Asking
<1>2. h \in Answer /\ h.c = f.c /\ h.g = f.g /\ h.on = f.on /\ h.late = f.late
  BY <1>1 DEF Answer
<1>3. Seen /\ (frame' = [frame EXCEPT ![x] = NoTrace] \/ frame' = [frame EXCEPT ![x] = h])
  BY DEF SwapPointers, WriteWord
<1> HIDE DEF f, h
<1>4. NoTrace.stage # "update"
  BY DEF NoTrace
<1>5. op.pc # "edit" => Right(h)
  BY <1>1, <1>2 DEF Right
<1> QED BY <1>2, <1>3, <1>4, <1>5, ContextStep

-----------------------------------------------------------------------------
(* The start of the system and its restart.                                *)

LEMMA Boot ==
  /\ BootStore \in [Components -> Seq(Group)]
  /\ BootArray \in [{Kernel} -> Nat] /\ Kernel \in Components
  /\ BootArray[Kernel] <= Len(BootStore[Kernel])
  /\ \A u \in Shown(BootStore, BootArray) : u[1] = Kernel /\ u[2] <= EPlatsecPrintf
  /\ \A g \in 0 .. EPlatsecPrintf : <<Kernel, g>> \in Shown(BootStore, BootArray)
<1> DEFINE n == EPlatsecPrintf + 1
           b == [k \in 1 .. n |-> k - 1]
<1>1. n \in Nat /\ b \in [1 .. n -> Group]
  BY TraceAssumption DEF Group
<1>2. b \in Seq(Group) /\ Len(b) = n
  <2> HIDE DEF b, n
  <2> QED BY <1>1, FunctionIsSeq
<1>3. \A k \in 1 .. n : b[k] <= EPlatsecPrintf
  BY TraceAssumption
<1>4. Kernel \in Components
  BY DEF Components
<1>5. BootStore = [c \in Components |-> IF c = Kernel THEN b ELSE <<>>]
  BY DEF BootStore
<1>6. BootArray \in [{Kernel} -> Nat] /\ BootArray[Kernel] = n
  BY <1>1 DEF BootArray
<1> HIDE DEF b, n
<1>7. BootStore \in [Components -> Seq(Group)] /\ BootStore[Kernel] = b
  <2>1. <<>> \in Seq(Group)
    OBVIOUS
  <2> QED BY <1>2, <1>4, <1>5, <2>1
<1>8. ASSUME NEW u \in Shown(BootStore, BootArray) PROVE u[1] = Kernel /\ u[2] <= EPlatsecPrintf
  <2>1. u[1] = Kernel /\ In(BootStore[Kernel], BootArray[Kernel], u[2])
    BY <1>6 DEF Shown
  <2> QED BY <1>3, <1>6, <1>7, <2>1 DEF In
<1>9. BootArray[Kernel] <= Len(BootStore[Kernel])
  BY <1>1, <1>2, <1>6, <1>7
<1>10. ASSUME NEW g \in 0 .. EPlatsecPrintf PROVE <<Kernel, g>> \in Shown(BootStore, BootArray)
  <2>1. g + 1 \in 1 .. n /\ b[g + 1] = g /\ g \in Group
    BY TraceAssumption DEF b, n, Group
  <2>2. In(BootStore[Kernel], BootArray[Kernel], g)
    BY <1>6, <1>7, <2>1 DEF In
  <2> QED BY <1>4, <1>6, <2>1, <2>2 DEF Shown
<1> QED BY <1>4, <1>6, <1>7, <1>8, <1>9, <1>10

LEMMA NoTurns ==
  /\ NoRefresh.queue \in Seq(ToSet(NoRefresh.queue)) /\ DOMAIN NoRefresh.queue = {}
  /\ NoRefresh = [queue |-> NoRefresh.queue, before |-> NoRefresh.before,
                  done |-> NoRefresh.done]
<1>1. <<>> \in Seq(ToSet(<<>>)) /\ DOMAIN <<>> = {}
  BY DEF ToSet
<1> QED BY <1>1 DEF NoRefresh

LEMMA InitInv ==
  ASSUME Init
  PROVE  Inv
<1>1. Blocks
  BY Boot DEF Init, Blocks, Within, Idle
<1>2. Turns
  BY NoTurns DEF Init, Turns
<1>3. Saved
  <2>1. saved.groups = <<>> /\ DOMAIN <<>> = {}
    BY DEF Init
  <2> QED BY <2>1 DEF Saved
<1>4. Frames
  <2>1. Framed(frame, TRUE)
    BY DEF Init, Framed, NoTrace
  <2>2. \A u \in Activated : u[2] <= EPlatsecPrintf
    BY <1>1, Boot, LiveShown DEF Init
  <2> QED BY <2>1, <2>2 DEF Init, Frames, Framed
<1>5. Restored
  BY DEF Init, Restored
<1> QED BY <1>1, <1>2, <1>3, <1>4, <1>5 DEF Init, Inv, Shape, Operation

LEMMA RestartStep ==
  ASSUME Inv, Restart, UNCHANGED scenario
  PROVE  Inv'
<1>1. Blocks'
  BY Boot DEF Restart, Blocks, Within, Idle
<1>2. Turns'
  BY NoTurns DEF Restart, Turns
<1>3. Saved'
  BY DEF Restart, Saved, Inv, Shape
<1>4. Frames'
  <2>1. Framed(frame, TRUE)'
    BY DEF Restart, Framed, NoTrace
  <2>2. \A u \in Activated' : u[2] <= EPlatsecPrintf
    BY <1>1, Boot, LiveShownNext DEF Restart
  <2> QED BY <2>1, <2>2 DEF Restart, Frames, Framed
<1>5. Restored'
  BY DEF Restart, Restored
<1> QED BY <1>1, <1>2, <1>3, <1>4, <1>5 DEF Restart, Inv, Shape, Operation

-----------------------------------------------------------------------------
(* Every step, and the theorems.                                           *)

\* The steps of the receivers and writers and the priming.
LEMMA OtherSteps ==
  ASSUME Inv, UNCHANGED scenario,
         \/ PrimeDfc \/ ClearItem \/ SetWriter \/ Receivers \/ Writers \/ RegisterWriter(XTI)
  PROVE  Inv'
<1> DEFINE Same == UNCHANGED <<array, op, refresh, saved, iSettings, iAllTracesDeactivated, frame>>
<1>1. ASSUME PrimeDfc \/ ClearItem PROVE Same
  BY <1>1 DEF PrimeDfc, ClearItem, array, reader
<1>2. ASSUME SetWriter PROVE Same
  BY <1>2 DEF SetWriter, array, reader
<1>3. ASSUME Receivers PROVE Same
  BY <1>3 DEF Receivers, RegisterNotificationReceiver, UnregisterNotificationReceiver, array, reader
<1>4. ASSUME NEW w, RegisterWriter(w) PROVE Same
  BY <1>4 DEF RegisterWriter, PrepareSetWriter, array, reader
<1>5. ASSUME NEW w, UnregisterWriter(w) PROVE Same
  BY <1>5 DEF UnregisterWriter, PrepareSetWriter, array, reader
<1>6. ASSUME NEW w, SwitchToWriter(w) PROVE Same
  BY <1>6 DEF SwitchToWriter, PrepareSetWriter, array, reader
<1>7. Same
  BY <1>1, <1>2, <1>3, <1>4, <1>5, <1>6 DEF Writers
<1>8. Turns'
  BY <1>7 DEF Inv, Shape, Turns
<1> QED BY <1>7, <1>8, SilentStep

LEMMA InvStep ==
  ASSUME Inv, [Next]_vars
  PROVE  Inv'
<1>1. CASE UNCHANGED vars
  <2>1. /\ UNCHANGED <<array, op, saved, iSettings, iAllTracesDeactivated, scenario, frame>>
        /\ UNCHANGED refresh
    BY <1>1 DEF vars, reader
  <2>2. Turns'
    BY <2>1 DEF Inv, Shape, Turns
  <2> QED BY <2>1, <2>2, SilentStep
<1>2. CASE Next
  <2>1. UNCHANGED scenario
    BY <1>2 DEF Next
  <2>0. Changed \subseteq Components
    BY TraceAssumption DEF Changed, Components, Inv, Shape
  <2>2. ASSUME Changes PROVE Inv'
    BY <2>0, <2>1, <2>2, ActivateStep, DeactivateStep, OverwriteStep, DeactivateAllStep, EditStep,
       SwapStep, ReportStep, OtherSteps DEF Changes
  <2>3. ASSUME Refresh PROVE Inv'
    BY <2>1, <2>3, RefreshStartStep, RefreshOutStep, RefreshInStep DEF Refresh
  <2>4. ASSUME Traces PROVE Inv'
    BY <2>1, <2>4, HandleFrameStep, CompareItemStep, LookUpStep, UpdateSteps DEF Traces
  <2>5. ASSUME Settings PROVE Inv'
    BY <2>1, <2>5, RegisterSettingsStep, ReadFromSettingsStep, UnregisterSettingsStep,
       RestartStep DEF Settings
  <2>6. ASSUME SetWriter \/ RegisterWriter(XTI) \/ Receivers \/ Writers PROVE Inv'
    BY <2>1, <2>6, OtherSteps
  <2> QED BY <1>2, <2>2, <2>3, <2>4, <2>5, <2>6 DEF Next
<1> QED BY <1>1, <1>2

LEMMA Inductive == Spec => []Inv
<1>1. Init => Inv
  BY InitInv
<1>2. Inv /\ [Next]_vars => Inv'
  BY InvStep
<1> QED BY <1>1, <1>2, PTL DEF Spec

\* With the settings attached, every component and group that SaveSettings has
\* written is active between two changes: ReadFromSettings restores all of them,
\* however many there are, and no later change leaves the settings behind.
THEOREM SettingsAlwaysRestored == Spec => []SettingsAreRestored
<1>1. Inv => SettingsAreRestored
  BY DEF Inv, Restored, SettingsAreRestored
<1> QED BY <1>1, Inductive, PTL

-----------------------------------------------------------------------------
(* Blocks in order.                                                        *)

\* The first n entries of a block increase.
Sorted(block, n) == \A i, j \in 1 .. n : i < j => block[i] < block[j]

\* A set of indices that has every index below one of its own is an interval.
LEMMA InitialInterval ==
  ASSUME NEW n \in Nat, NEW L, L \subseteq 1 .. n,
         \A x \in L : \A y \in 1 .. x : y \in L
  PROVE  Cardinality(L) \in 0 .. n /\ L = 1 .. Cardinality(L)
<1> DEFINE q == Cardinality(L)
<1>1. IsFiniteSet(1 .. n) /\ Cardinality(1 .. n) = n
  BY FS_Interval
<1>2. L \in SUBSET (1 .. n)
  OBVIOUS
<1>3. IsFiniteSet(L) /\ q <= n
  <2>1. IsFiniteSet(L) /\ Cardinality(L) <= Cardinality(1 .. n)
    BY <1>1, <1>2, FS_Subset, Zenon
  <2> QED BY <1>1, <2>1
<1>4. q \in Nat
  BY <1>3, FS_CardinalityType
<1>5. ASSUME NEW x \in L PROVE x <= q
  <2>1. x \in 1 .. n /\ x \in Nat /\ x >= 1
    BY <1>2
  <2>2. Cardinality(1 .. x) = x
    BY <2>1, FS_Interval
  <2>3. 1 .. x \in SUBSET L
    OBVIOUS
  <2>4. Cardinality(1 .. x) <= q
    BY <1>3, <2>3, FS_Subset, Zenon
  <2> QED BY <2>2, <2>4
<1>6. IsFiniteSet(1 .. q) /\ Cardinality(1 .. q) = q
  BY <1>4, FS_Interval
<1> HIDE DEF q
<1>7. L \in SUBSET (1 .. q)
  BY <1>2, <1>4, <1>5
<1>8. Cardinality(1 .. q) = Cardinality(L)
  BY <1>6 DEF q
<1>9. L = 1 .. q
  BY <1>6, <1>7, <1>8, FS_Subset, Zenon
<1> QED BY <1>3, <1>4, <1>9 DEF q

\* RArray::InsertInOrder: where the group goes, and what moves behind it.
LEMMA InsertShifts ==
  ASSUME NEW b \in Seq(Group), NEW n \in 0 .. Len(b), NEW g \in Group,
         Sorted(b, n), ~ In(b, n, g)
  PROVE  LET r == InsertInOrder(Grown(b, n), n, g)
         IN  /\ Sorted(r, n + 1)
             /\ \A k \in 1 .. Len(b) : k > n + 1 => r[k] = b[k]
<1> USE TraceAssumption
<1> DEFINE B == Grown(b, n)
           L == {k \in 1 .. n : B[k] < g}
           At == 1 + Cardinality(L)
           r == InsertInOrder(B, n, g)
<1>1. n \in Nat /\ Len(b) \in Nat /\ n <= Len(b) /\ Granularity \in Nat /\ Granularity >= 1
  OBVIOUS
<1>2. \A k \in 1 .. n : b[k] \in Group /\ b[k] \in Nat /\ b[k] # g
  BY <1>1 DEF In, Group
<1>3. /\ Len(b) <= Len(B) /\ n + 1 <= Len(B) /\ Len(B) \in Nat
      /\ \A k \in 1 .. Len(b) : B[k] = b[k]
  <2> DEFINE z == [k \in 1 .. Granularity |-> 0]
  <2>0. 0 \in Group
    BY DEF Group
  <2>1. z \in Seq(Group) /\ Len(z) = Granularity
    BY <1>1, <2>0
  <2>2. CASE n < Len(b)
    BY <2>2, <1>1 DEF Grown
  <2>3. CASE ~ (n < Len(b))
    <3>1. B = b \o z
      BY <2>3 DEF Grown
    <3> HIDE DEF z
    <3>2. /\ b \o z \in Seq(Group) /\ Len(b \o z) = Len(b) + Granularity
          /\ \A k \in 1 .. Len(b) : (b \o z)[k] = b[k]
      BY <2>1, <1>1
    <3> QED BY <3>1, <3>2, <1>1
  <2> QED BY <2>2, <2>3
<1>4. r = [k \in 1 .. Len(B) |-> IF k < At THEN B[k]
                                 ELSE IF k = At THEN g
                                 ELSE IF k <= n + 1 THEN B[k - 1] ELSE B[k]]
  BY Zenon DEF InsertInOrder
<1> HIDE DEF B, r
<1>5. Cardinality(L) \in 0 .. n /\ L = 1 .. Cardinality(L)
  <2>1. L \subseteq 1 .. n
    OBVIOUS
  <2>2. ASSUME NEW x \in L, NEW y \in 1 .. x PROVE y \in L
    <3>1. x \in 1 .. n /\ B[x] < g /\ y \in 1 .. n /\ y <= x
      BY <1>1
    <3>2. B[x] = b[x] /\ B[y] = b[y] /\ b[x] \in Nat /\ b[y] \in Nat /\ g \in Nat
      BY <1>1, <1>2, <1>3, <3>1 DEF Group
    <3>3. y = x \/ b[y] < b[x]
      BY <3>1 DEF Sorted
    <3>4. B[y] < g
      BY <3>1, <3>2, <3>3
    <3> QED BY <3>1, <3>4
  <2> HIDE DEF L
  <2> QED BY <1>1, <2>1, <2>2, InitialInterval
<1>6. At \in 1 .. n + 1 /\ \A k \in 1 .. n : (k < At <=> b[k] < g)
  <2>1. \A k \in 1 .. n : k \in L <=> b[k] < g
    BY <1>1, <1>3
  <2> HIDE DEF L
  <2> DEFINE q == Cardinality(L)
  <2>2. q \in 0 .. n /\ L = 1 .. q
    BY <1>5
  <2> HIDE DEF q
  <2>3. \A k \in 1 .. n : k \in L <=> k < 1 + q
    BY <1>1, <2>2
  <2> QED BY <1>1, <2>1, <2>2, <2>3 DEF q
<1> HIDE DEF L, At
<1>7. \A k \in 1 .. n + 1 : r[k] = IF k < At THEN b[k] ELSE IF k = At THEN g ELSE b[k - 1]
  BY <1>1, <1>3, <1>4, <1>6
<1>8. \A k \in 1 .. Len(b) : k > n + 1 => r[k] = b[k]
  BY <1>1, <1>3, <1>4, <1>6
<1>9. \A k \in 1 .. n : ~ (k < At) => g < b[k]
  BY <1>2, <1>6 DEF Group
<1>10. ASSUME NEW i \in 1 .. n + 1, NEW j \in 1 .. n + 1, i < j
       PROVE  r[i] < r[j]
  <2>0. i \in Nat /\ j \in Nat /\ At \in Nat
    BY <1>1, <1>6
  <2>1. CASE j < At
    <3>1. i \in 1 .. n /\ j \in 1 .. n /\ i < At
      BY <1>1, <1>6, <1>10, <2>0, <2>1
    <3>2. r[i] = b[i] /\ r[j] = b[j]
      BY <1>7, <2>1, <3>1
    <3> QED BY <1>10, <3>1, <3>2 DEF Sorted
  <2>2. CASE j = At
    <3>1. i \in 1 .. n /\ i < At
      BY <1>1, <1>6, <1>10, <2>0, <2>2
    <3>2. r[i] = b[i] /\ r[j] = g
      BY <1>7, <2>2, <3>1, <2>0
    <3> QED BY <1>6, <3>1, <3>2
  <2>3. CASE j > At
    <3>1. j - 1 \in 1 .. n /\ ~ (j - 1 < At)
      BY <1>1, <1>6, <2>0, <2>3
    <3>2. r[j] = b[j - 1]
      BY <1>7, <2>0, <2>3
    <3>3. g < b[j - 1]
      BY <1>9, <3>1
    <3>4. CASE i < At
      <4>1. i \in 1 .. n /\ r[i] = b[i]
        BY <1>1, <1>6, <1>7, <2>0, <3>4
      <4>2. b[i] < g
        BY <1>6, <3>4, <4>1
      <4>3. b[i] \in Nat /\ b[j - 1] \in Nat /\ g \in Nat
        BY <1>2, <3>1, <4>1 DEF Group
      <4> QED BY <4>1, <4>2, <4>3, <3>2, <3>3
    <3>5. CASE i = At
      BY <1>7, <2>0, <3>2, <3>3, <3>5
    <3>6. CASE i > At
      <4>1. i - 1 \in 1 .. n /\ i - 1 < j - 1 /\ r[i] = b[i - 1]
        BY <1>1, <1>6, <1>7, <1>10, <2>0, <3>6
      <4> QED BY <3>1, <3>2, <4>1 DEF Sorted
    <3> QED BY <2>0, <3>4, <3>5, <3>6
  <2> QED BY <2>0, <2>1, <2>2, <2>3
<1> QED BY <1>8, <1>10 DEF Sorted, r, B

\* RArray::Remove takes out the group and nothing else; the entry behind the
\* last keeps its value.
LEMMA RemoveShifts ==
  ASSUME NEW b \in Seq(Group), NEW n \in 0 .. Len(b), NEW g, Sorted(b, n), In(b, n, g)
  PROVE  LET r == Removed(b, n, g)
         IN  /\ n - 1 \in Nat /\ Sorted(r, n - 1)
             /\ \A h : In(r, n - 1, h) <=> In(b, n, h) /\ h # g
             /\ \A k \in 1 .. Len(b) : k >= n => r[k] = b[k]
             /\ \A k \in 1 .. n : \E j \in 1 .. n : r[k] = b[j]
<1> DEFINE at == CHOOSE k \in 1 .. n : b[k] = g
           r == Removed(b, n, g)
<1>1. n \in Nat /\ Len(b) \in Nat /\ n <= Len(b) /\ \A k \in 1 .. Len(b) : b[k] \in Nat
  BY TraceAssumption DEF Group
<1>2. r = [k \in 1 .. Len(b) |-> IF at <= k /\ k < n THEN b[k + 1] ELSE b[k]]
  BY Zenon DEF Removed
<1>3. at \in 1 .. n /\ b[at] = g
  BY Zenon DEF In
<1> HIDE DEF at, r
<1>4. at \in Nat /\ n >= 1 /\ n - 1 \in Nat
  BY <1>1, <1>3
<1>5. \A k \in 1 .. n - 1 : r[k] = IF k < at THEN b[k] ELSE b[k + 1]
  BY <1>1, <1>2, <1>4
<1>6. \A k \in 1 .. Len(b) : k >= n => r[k] = b[k]
  BY <1>1, <1>2
<1>7. \A i, j \in 1 .. n : i < j => b[i] < b[j]
  BY DEF Sorted
<1>8. ASSUME NEW i \in 1 .. n - 1, NEW j \in 1 .. n - 1, i < j
      PROVE  r[i] < r[j]
  <2> DEFINE x == IF i < at THEN i ELSE i + 1
             y == IF j < at THEN j ELSE j + 1
  <2>1. x \in 1 .. n /\ y \in 1 .. n /\ x < y
    BY <1>1, <1>4, <1>8
  <2>2. r[i] = b[x] /\ r[j] = b[y]
    BY <1>5
  <2> HIDE DEF x, y
  <2> QED BY <1>7, <2>1, <2>2
<1>9. ASSUME NEW h, NEW k \in 1 .. n - 1, r[k] = h
      PROVE  In(b, n, h) /\ h # g
  <2> DEFINE x == IF k < at THEN k ELSE k + 1
  <2>1. x \in 1 .. n /\ (x < at \/ at < x)
    BY <1>1, <1>4
  <2>2. b[x] = h
    BY <1>5, <1>9
  <2> HIDE DEF x
  <2>3. b[x] # b[at]
    <3>1. b[x] \in Nat /\ b[at] \in Nat
      BY <1>1, <1>3, <2>1
    <3> QED BY <1>3, <1>7, <2>1, <3>1
  <2> QED BY <1>3, <2>1, <2>2, <2>3 DEF In
<1>10. ASSUME NEW h, In(b, n, h), h # g
       PROVE  In(r, n - 1, h)
  <2>1. PICK x \in 1 .. n : b[x] = h
    BY <1>10 DEF In
  <2>2. x # at /\ x \in Nat
    BY <1>1, <1>3, <1>10, <2>1
  <2>3. CASE x < at
    <3>1. x \in 1 .. n - 1
      BY <1>1, <1>3, <2>1, <2>3, <1>4
    <3>2. r[x] = h
      BY <1>5, <2>1, <2>3, <3>1
    <3> QED BY <3>1, <3>2 DEF In
  <2>4. CASE x > at
    <3>1. x - 1 \in 1 .. n - 1 /\ ~ (x - 1 < at) /\ (x - 1) + 1 = x
      BY <1>1, <1>3, <1>4, <2>1, <2>2, <2>4
    <3>2. r[x - 1] = h
      BY <1>5, <2>1, <3>1
    <3> QED BY <3>1, <3>2 DEF In
  <2> QED BY <1>4, <2>2, <2>3, <2>4
<1>11. \A h : In(r, n - 1, h) <=> In(b, n, h) /\ h # g
  BY <1>9, <1>10 DEF In
<1>12. ASSUME NEW k \in 1 .. n PROVE \E j \in 1 .. n : r[k] = b[j]
  <2>1. CASE at <= k /\ k < n
    <3>1. k + 1 \in 1 .. n /\ r[k] = b[k + 1]
      BY <1>1, <1>2, <2>1
    <3> QED BY <3>1
  <2>2. CASE ~ (at <= k /\ k < n)
    <3>1. r[k] = b[k]
      BY <1>1, <1>2, <2>2
    <3> QED BY <3>1
  <2> QED BY <2>1, <2>2
<1> QED BY <1>4, <1>6, <1>8, <1>11, <1>12 DEF Sorted, r

-----------------------------------------------------------------------------
(* The effect of one edit on what the arrays show.                         *)

\* The pairs that iTmpArray shows.
Held == Shown(store, iTmpArray)

\* Every block is in order, as far as iTmpArray counts.
Lined == \A c \in DOMAIN iTmpArray : Sorted(store[c], iTmpArray[c])

\* What is shown is what is in the blocks.
LEMMA ShownPairs ==
  ASSUME Blocks
  PROVE  /\ \A c, g : <<c, g>> \in Held <=> c \in DOMAIN iTmpArray /\ In(store[c], iTmpArray[c], g)
         /\ \A c, g : <<c, g>> \in Activated
                        <=> c \in DOMAIN iOstComponents /\ In(store[c], iOstComponents[c], g)
         /\ \A c, g : Holds(iTmpArray, c, g) <=> <<c, g>> \in Held
         /\ Held \subseteq Components \X Group /\ Activated \subseteq Components \X Group
<1>1. ASSUME NEW c \in DOMAIN iTmpArray, NEW g, In(store[c], iTmpArray[c], g)
      PROVE  c \in Components /\ g \in Group
  <2>1. /\ c \in Components /\ store[c] \in Seq(Group)
        /\ iTmpArray[c] \in Nat /\ iTmpArray[c] <= Len(store[c])
    BY DEF Blocks, Within
  <2>2. PICK k \in 1 .. iTmpArray[c] : store[c][k] = g
    BY <1>1 DEF In
  <2>3. k \in 1 .. Len(store[c])
    BY <2>1, <2>2
  <2> QED BY <2>1, <2>2, <2>3
<1>2. \A c, g : <<c, g>> \in Held <=> c \in DOMAIN iTmpArray /\ In(store[c], iTmpArray[c], g)
  BY <1>1 DEF Held, Shown
<1>3. /\ Activated = Shown(store, iOstComponents)
      /\ \A c, g : Holds(iOstComponents, c, g) <=> <<c, g>> \in Activated
      /\ \A c, g : Holds(iTmpArray, c, g)
                      <=> c \in DOMAIN iTmpArray /\ In(store[c], iTmpArray[c], g)
  BY LiveShown
<1>4. \A c, g : Holds(iOstComponents, c, g)
                  <=> c \in DOMAIN iOstComponents /\ In(store[c], iOstComponents[c], g)
  BY Holding DEF Blocks, Within, Holds, View
<1>5. Held \subseteq Components \X Group /\ Activated \subseteq Components \X Group
  BY <1>3 DEF Held, Shown
<1> QED BY <1>2, <1>3, <1>4, <1>5

LEMMA ShownPairsNext ==
  ASSUME Blocks'
  PROVE  /\ \A c, g : <<c, g>> \in Held' <=> c \in DOMAIN iTmpArray' /\ In(store'[c], iTmpArray'[c], g)
         /\ \A c, g : <<c, g>> \in Activated'
                        <=> c \in DOMAIN iOstComponents' /\ In(store'[c], iOstComponents'[c], g)
         /\ Held' \subseteq Components \X Group /\ Activated' \subseteq Components \X Group
<1>1. ASSUME NEW c, NEW arr, NEW g, c \in DOMAIN arr, In(store'[c], arr[c], g),
             DOMAIN arr \subseteq Components, arr \in [DOMAIN arr -> Nat],
             arr[c] <= Len(store'[c])
      PROVE  c \in Components /\ g \in Group
  <2>1. /\ c \in Components /\ store'[c] \in Seq(Group) /\ arr[c] \in Nat
    BY <1>1 DEF Blocks
  <2>2. PICK k \in 1 .. arr[c] : store'[c][k] = g
    BY <1>1 DEF In
  <2>3. k \in 1 .. Len(store'[c])
    BY <1>1, <2>1, <2>2
  <2> QED BY <2>1, <2>2, <2>3
<1>2. \A c, g : c \in DOMAIN iTmpArray' /\ In(store'[c], iTmpArray'[c], g)
                  => c \in Components /\ g \in Group
  BY <1>1 DEF Blocks, Within
<1>3. \A c, g : c \in DOMAIN iOstComponents' /\ In(store'[c], iOstComponents'[c], g)
                  => c \in Components /\ g \in Group
  BY <1>1 DEF Blocks, Within
<1>4. Held' = Shown(store', iTmpArray') /\ Activated' = Shown(store', iOstComponents')
  BY LiveShownNext DEF Held, Shown
<1>5. Held' \subseteq Components \X Group /\ Activated' \subseteq Components \X Group
  BY <1>4 DEF Shown
<1> QED BY <1>2, <1>3, <1>4, <1>5 DEF Shown

\* A set of pairs is what its pairs are.
LEMMA SamePairs ==
  ASSUME NEW S, NEW T, NEW A, NEW B, S \subseteq A \X B, T \subseteq A \X B,
         \A c, g : <<c, g>> \in S <=> <<c, g>> \in T
  PROVE  S = T
<1>1. \A u \in A \X B : u = <<u[1], u[2]>>
  OBVIOUS
<1> QED BY <1>1

LEMMA SubPairs ==
  ASSUME NEW S, NEW T, NEW A, NEW B, S \subseteq A \X B,
         \A c, g : <<c, g>> \in S => <<c, g>> \in T
  PROVE  S \subseteq T
<1>1. \A u \in A \X B : u = <<u[1], u[2]>>
  OBVIOUS
<1> QED BY <1>1

\* An edit that finds nothing to do.
Unedited == UNCHANGED <<store, iTmpArray, iOstComponents>>

LEMMA UneditedKeeps ==
  ASSUME Lined, Unedited
  PROVE  Lined' /\ Held' = Held /\ Activated' = Activated
BY DEF Lined, Unedited, Held, Activated, Pairs, Holds, View

\* AddComponentId shows no group.
LEMMA AddComponentEffect ==
  ASSUME Blocks, Blocks', Lined, NEW c \in Components, AddComponentId(c), UNCHANGED iOstComponents
  PROVE  /\ Lined' /\ Held' = Held /\ Activated' = Activated /\ filter' = filter
         /\ \A d \in DOMAIN iTmpArray : iTmpArray'[d] = iTmpArray[d]
<1>0. filter' = filter
  BY DEF AddComponentId
<1>1. CASE c \in DOMAIN iTmpArray
  <2>1. Unedited
    BY <1>1 DEF AddComponentId, Unedited
  <2> QED BY <1>0, <2>1, UneditedKeeps DEF Unedited
<1>2. CASE c \notin DOMAIN iTmpArray
  <2>1. /\ store' = [store EXCEPT ![c] = <<>>]
        /\ iTmpArray' = [d \in DOMAIN iTmpArray \cup {c} |-> IF d = c THEN 0 ELSE iTmpArray[d]]
    BY <1>2 DEF AddComponentId
  <2>2. \A d \in Components \ {c} : store'[d] = store[d]
    BY <2>1 DEF Blocks
  <2>3. /\ DOMAIN iTmpArray' = DOMAIN iTmpArray \cup {c} /\ iTmpArray'[c] = 0
        /\ \A d \in DOMAIN iTmpArray : iTmpArray'[d] = iTmpArray[d]
    BY <1>2, <2>1
  <2>4. /\ c \notin DOMAIN iOstComponents /\ DOMAIN iOstComponents \subseteq Components \ {c}
        /\ DOMAIN iTmpArray \subseteq Components \ {c} /\ iOstComponents' = iOstComponents
    BY <1>2 DEF Blocks, Within
  <2>5. /\ \A d \in DOMAIN iTmpArray : store'[d] = store[d] /\ iTmpArray'[d] = iTmpArray[d]
        /\ \A d \in DOMAIN iOstComponents : store'[d] = store[d]
    BY <2>2, <2>3, <2>4
  <2>6. /\ \A b, h : ~ In(b, 0, h) /\ Sorted(b, 0)
    BY DEF In, Sorted
  <2>7. Lined'
    BY <2>3, <2>5, <2>6 DEF Lined
  <2>8. \A d, h : <<d, h>> \in Held' <=> <<d, h>> \in Held
    BY <2>3, <2>5, <2>6, ShownPairs, ShownPairsNext
  <2>9. \A d, h : <<d, h>> \in Activated' <=> <<d, h>> \in Activated
    BY <2>4, <2>5, ShownPairs, ShownPairsNext
  <2>10. Held' = Held
    BY <2>8, ShownPairs, ShownPairsNext, SamePairs
  <2>11. Activated' = Activated
    BY <2>9, ShownPairs, ShownPairsNext, SamePairs
  <2> QED BY <1>0, <2>3, <2>7, <2>10, <2>11
<1> QED BY <1>1, <1>2

\* AddGroupId shows the group that it was asked for.  The live array, which
\* counts in the same block, may lose the last of its groups for it.
LEMMA AddGroupEffect ==
  ASSUME Blocks, Blocks', Lined, NEW c \in DOMAIN iTmpArray, NEW g,
         AddGroupId(c, g), UNCHANGED iOstComponents
  PROVE  \/ Unedited /\ filter' = filter /\ (g \in Group => <<c, g>> \in Held)
         \/ /\ Lined' /\ iTmpArray' # iTmpArray /\ g \in Group /\ <<c, g>> \notin Held
            /\ Held' = Held \cup {<<c, g>>}
            /\ Activated' \subseteq Activated \cup Held \cup {<<c, g>>}
            /\ filter' = IF g > KMaxKernelCategory THEN filter \cup {g} ELSE filter
            /\ \A d \in DOMAIN iTmpArray : iTmpArray'[d] = IF d = c THEN iTmpArray[d] + 1
                                                                  ELSE iTmpArray[d]
<1>1. CASE ~ (GroupIdIsValid(g) /\ ~ Holds(iTmpArray, c, g))
  <2>1. Unedited /\ filter' = filter
    BY <1>1 DEF AddGroupId, Unedited
  <2>2. g \in Group => <<c, g>> \in Held
    BY <1>1, ShownPairs DEF GroupIdIsValid, Group
  <2> QED BY <2>1, <2>2
<1>2. CASE GroupIdIsValid(g) /\ ~ Holds(iTmpArray, c, g)
  <2> DEFINE n == iTmpArray[c]
             b == store[c]
             r == InsertInOrder(Grown(b, n), n, g)
  <2>1. /\ store' = [store EXCEPT ![c] = r] /\ iTmpArray' = [iTmpArray EXCEPT ![c] = n + 1]
        /\ filter' = IF g > KMaxKernelCategory THEN filter \cup {g} ELSE filter
    BY <1>2 DEF AddGroupId
  <2>2. /\ c \in Components /\ b \in Seq(Group) /\ n \in 0 .. Len(b) /\ n \in Nat
        /\ g \in Group /\ Len(b) \in Nat
    BY <1>2 DEF Blocks, Within, GroupIdIsValid, Group
  <2>3. ~ In(b, n, g) /\ Sorted(b, n) /\ <<c, g>> \notin Held
    BY <1>2, ShownPairs DEF Lined
  <2>4. /\ \A h : In(r, n + 1, h) <=> h = g \/ In(b, n, h)
        /\ Sorted(r, n + 1) /\ \A k \in 1 .. Len(b) : k > n + 1 => r[k] = b[k]
    <3> HIDE DEF n, b
    <3>1. \A h : In(r, n + 1, h) <=> h = g \/ In(b, n, h)
      BY <2>2, InsertKeeps
    <3>2. Sorted(r, n + 1) /\ \A k \in 1 .. Len(b) : k > n + 1 => r[k] = b[k]
      BY <2>2, <2>3, InsertShifts
    <3> QED BY <3>1, <3>2
  <2> HIDE DEF r
  <2>5. /\ store'[c] = r /\ \A d \in Components \ {c} : store'[d] = store[d]
    BY <2>1, <2>2 DEF Blocks
  <2>6. /\ DOMAIN iTmpArray' = DOMAIN iTmpArray /\ iTmpArray'[c] = n + 1
        /\ \A d \in DOMAIN iTmpArray \ {c} : iTmpArray'[d] = iTmpArray[d]
    <3>1. iTmpArray \in [DOMAIN iTmpArray -> Nat] /\ n + 1 \in Nat
      BY <2>2 DEF Blocks, Within
    <3> HIDE DEF n
    <3> QED BY <2>1, <3>1
  <2>7. DOMAIN iTmpArray \subseteq Components /\ DOMAIN iOstComponents \subseteq Components
    BY DEF Blocks, Within
  <2>8. Lined'
    <3> SUFFICES ASSUME NEW d \in DOMAIN iTmpArray PROVE Sorted(store'[d], iTmpArray'[d])
      BY <2>6 DEF Lined
    <3>1. CASE d = c
      BY <3>1, <2>4, <2>5, <2>6
    <3>2. CASE d # c
      BY <3>2, <2>5, <2>6, <2>7 DEF Lined
    <3> QED BY <3>1, <3>2
  <2>9. ASSUME NEW d, NEW h
        PROVE  <<d, h>> \in Held' <=> <<d, h>> \in Held \/ (d = c /\ h = g)
    <3>1. CASE d = c
      BY <3>1, <2>4, <2>5, <2>6, ShownPairs, ShownPairsNext
    <3>2. CASE d # c
      BY <3>2, <2>5, <2>6, <2>7, ShownPairs, ShownPairsNext
    <3> QED BY <3>1, <3>2
  <2>10. ASSUME NEW d, NEW h, <<d, h>> \in Activated'
         PROVE  <<d, h>> \in Activated \cup Held \cup {<<c, g>>}
    <3>1. d \in DOMAIN iOstComponents /\ In(store'[d], iOstComponents[d], h)
      BY <2>10, ShownPairsNext
    <3>2. CASE d # c
      BY <3>1, <3>2, <2>5, <2>7, ShownPairs
    <3>3. CASE d = c
      <4>1. PICK k \in 1 .. iOstComponents[c] : r[k] = h
        BY <3>1, <3>3, <2>5 DEF In
      <4>2. k \in 1 .. Len(b) /\ k \in Nat
        <5>1. iOstComponents[c] \in Nat /\ iOstComponents[c] <= Len(store[c])
          BY <3>1, <3>3 DEF Blocks, Within
        <5> QED BY <2>2, <4>1, <5>1
      <4>3. CASE k <= n + 1
        <5>1. k \in 1 .. n + 1
          BY <2>2, <4>2, <4>3
        <5>2. In(r, n + 1, h)
          BY <4>1, <5>1 DEF In
        <5>3. h = g \/ In(b, n, h)
          BY <2>4, <5>2
        <5> QED BY <3>3, <5>3, ShownPairs
      <4>4. CASE k > n + 1
        <5>1. b[k] = h
          BY <2>4, <4>1, <4>2, <4>4
        <5>2. In(store[c], iOstComponents[c], h)
          BY <4>1, <5>1 DEF In
        <5> QED BY <3>1, <3>3, <5>2, ShownPairs
      <4> QED BY <2>2, <4>2, <4>3, <4>4
    <3> QED BY <3>2, <3>3
  <2>11. Held' = Held \cup {<<c, g>>}
    <3> DEFINE T == Held \cup {<<c, g>>}
    <3>1. T \subseteq Components \X Group /\ Held' \subseteq Components \X Group
      BY <2>2, ShownPairs, ShownPairsNext
    <3>2. \A d, h : <<d, h>> \in Held' <=> <<d, h>> \in T
      BY <2>9
    <3> HIDE DEF T
    <3>3. Held' = T
      BY <3>1, <3>2, SamePairs
    <3> QED BY <3>3 DEF T
  <2>12. Activated' \subseteq Activated \cup Held \cup {<<c, g>>}
    <3> DEFINE T == Activated \cup Held \cup {<<c, g>>}
    <3>1. Activated' \subseteq Components \X Group
      BY ShownPairsNext
    <3>2. \A d, h : <<d, h>> \in Activated' => <<d, h>> \in T
      BY <2>10
    <3> HIDE DEF T
    <3>3. Activated' \subseteq T
      BY <3>1, <3>2, SubPairs
    <3> QED BY <3>3 DEF T
  <2>13. iTmpArray' # iTmpArray
    BY <2>2, <2>6
  <2>14. \A d \in DOMAIN iTmpArray : iTmpArray'[d] = IF d = c THEN iTmpArray[d] + 1 ELSE iTmpArray[d]
    BY <2>6
  <2> QED BY <2>1, <2>2, <2>3, <2>8, <2>11, <2>12, <2>13, <2>14
<1> QED BY <1>1, <1>2

\* RemoveGroupId takes the group away, and no other.
LEMMA RemoveGroupEffect ==
  ASSUME Blocks, Blocks', Lined, NEW c, NEW g, RemoveGroupId(c, g), UNCHANGED iOstComponents
  PROVE  \/ Unedited /\ filter' = filter /\ <<c, g>> \notin Held
         \/ /\ Lined' /\ iTmpArray' # iTmpArray /\ <<c, g>> \in Held
            /\ Held' = Held \ {<<c, g>>}
            /\ Activated' \subseteq Activated \cup Held
            /\ filter' = filter \ {g}
            /\ \A d \in DOMAIN iTmpArray : d # c => iTmpArray'[d] = iTmpArray[d]
<1>1. CASE ~ Holds(iTmpArray, c, g)
  <2>1. Unedited /\ filter' = filter
    BY <1>1 DEF RemoveGroupId, Unedited
  <2>2. <<c, g>> \notin Held
    BY <1>1, ShownPairs
  <2> QED BY <2>1, <2>2
<1>2. CASE Holds(iTmpArray, c, g)
  <2> DEFINE n == iTmpArray[c]
             b == store[c]
             r == Removed(b, n, g)
  <2>1. /\ store' = [store EXCEPT ![c] = r] /\ iTmpArray' = [iTmpArray EXCEPT ![c] = n - 1]
        /\ filter' = filter \ {g}
    BY <1>2 DEF RemoveGroupId
  <2>2. <<c, g>> \in Held /\ c \in DOMAIN iTmpArray /\ In(b, n, g) /\ Sorted(b, n)
    BY <1>2, ShownPairs DEF Lined
  <2>3. c \in Components /\ b \in Seq(Group) /\ n \in Nat /\ n \in 0 .. Len(b) /\ Len(b) \in Nat
    BY <2>2 DEF Blocks, Within
  <2>4. /\ n - 1 \in Nat /\ Sorted(r, n - 1)
        /\ \A h : In(r, n - 1, h) <=> In(b, n, h) /\ h # g
        /\ \A k \in 1 .. Len(b) : k >= n => r[k] = b[k]
        /\ \A k \in 1 .. n : \E j \in 1 .. n : r[k] = b[j]
    <3> HIDE DEF n, b
    <3> QED BY <2>2, <2>3, RemoveShifts
  <2> HIDE DEF r
  <2>5. store'[c] = r /\ \A d \in Components \ {c} : store'[d] = store[d]
    BY <2>1, <2>3 DEF Blocks
  <2>6. /\ DOMAIN iTmpArray' = DOMAIN iTmpArray /\ iTmpArray'[c] = n - 1
        /\ \A d \in DOMAIN iTmpArray \ {c} : iTmpArray'[d] = iTmpArray[d]
    <3>1. iTmpArray \in [DOMAIN iTmpArray -> Nat]
      BY DEF Blocks, Within
    <3> HIDE DEF n
    <3> QED BY <2>1, <2>2, <2>4, <3>1
  <2>7. DOMAIN iTmpArray \subseteq Components /\ DOMAIN iOstComponents \subseteq Components
    BY DEF Blocks, Within
  <2>8. Lined'
    <3> SUFFICES ASSUME NEW d \in DOMAIN iTmpArray PROVE Sorted(store'[d], iTmpArray'[d])
      BY <2>6 DEF Lined
    <3>1. CASE d = c
      BY <3>1, <2>4, <2>5, <2>6
    <3>2. CASE d # c
      BY <3>2, <2>5, <2>6, <2>7 DEF Lined
    <3> QED BY <3>1, <3>2
  <2>9. ASSUME NEW d, NEW h
        PROVE  <<d, h>> \in Held' <=> <<d, h>> \in Held /\ ~ (d = c /\ h = g)
    <3>1. CASE d = c
      BY <3>1, <2>2, <2>4, <2>5, <2>6, ShownPairs, ShownPairsNext
    <3>2. CASE d # c
      BY <3>2, <2>5, <2>6, <2>7, ShownPairs, ShownPairsNext
    <3> QED BY <3>1, <3>2
  <2>10. ASSUME NEW d, NEW h, <<d, h>> \in Activated'
         PROVE  <<d, h>> \in Activated \cup Held
    <3>1. d \in DOMAIN iOstComponents /\ In(store'[d], iOstComponents[d], h)
      BY <2>10, ShownPairsNext
    <3>2. CASE d # c
      BY <3>1, <3>2, <2>5, <2>7, ShownPairs
    <3>3. CASE d = c
      <4>1. PICK k \in 1 .. iOstComponents[c] : r[k] = h
        BY <3>1, <3>3, <2>5 DEF In
      <4>2. k \in 1 .. Len(b) /\ k \in Nat
        <5>1. iOstComponents[c] \in Nat /\ iOstComponents[c] <= Len(store[c])
          BY <3>1, <3>3 DEF Blocks, Within
        <5> QED BY <2>3, <4>1, <5>1
      <4>3. CASE k < n
        <5>1. k \in 1 .. n
          BY <2>3, <4>2, <4>3
        <5>2. In(b, n, h)
          BY <2>4, <4>1, <5>1 DEF In
        <5> QED BY <2>2, <3>3, <5>2, ShownPairs
      <4>4. CASE k >= n
        <5>1. b[k] = h
          BY <2>4, <4>1, <4>2, <4>4
        <5>2. In(store[c], iOstComponents[c], h)
          BY <4>1, <5>1 DEF In
        <5> QED BY <3>1, <3>3, <5>2, ShownPairs
      <4> QED BY <2>3, <4>2, <4>3, <4>4
    <3> QED BY <3>2, <3>3
  <2>11. Held' = Held \ {<<c, g>>}
    <3> DEFINE T == Held \ {<<c, g>>}
    <3>1. T \subseteq Components \X Group /\ Held' \subseteq Components \X Group
      BY ShownPairs, ShownPairsNext
    <3>2. \A d, h : <<d, h>> \in Held' <=> <<d, h>> \in T
      BY <2>9
    <3> HIDE DEF T
    <3>3. Held' = T
      BY <3>1, <3>2, SamePairs
    <3> QED BY <3>3 DEF T
  <2>12. Activated' \subseteq Activated \cup Held
    <3> DEFINE T == Activated \cup Held
    <3>1. Activated' \subseteq Components \X Group
      BY ShownPairsNext
    <3>2. \A d, h : <<d, h>> \in Activated' => <<d, h>> \in T
      BY <2>10
    <3> HIDE DEF T
    <3>3. Activated' \subseteq T
      BY <3>1, <3>2, SubPairs
    <3> QED BY <3>3 DEF T
  <2>13. iTmpArray' # iTmpArray
    BY <2>2, <2>3, <2>6
  <2>14. \A d \in DOMAIN iTmpArray : d # c => iTmpArray'[d] = iTmpArray[d]
    BY <2>6
  <2> QED BY <2>1, <2>2, <2>8, <2>11, <2>12, <2>13, <2>14
<1> QED BY <1>1, <1>2

\* An edit adds a pair that iTmpArray did not show, or takes one away, or does
\* nothing; the change is recorded.
LEMMA EditEffect ==
  ASSUME Inv, Inv', Lined, EditOne
  PROVE  LET e == Head(op.todo)
             u == <<e.c, e.g>>
         IN  /\ op.pc = "edit" /\ op'.pc = "edit" /\ op # Idle /\ op' # Idle
             /\ op.todo # <<>> /\ op'.todo = Tail(op.todo)
             /\ op'.c = op.c /\ op'.before = op.before /\ op'.fromSettings = op.fromSettings
             /\ op'.rest = op.rest /\ op'.all = op.all /\ e.c = op.c
             /\ iOstComponents' = iOstComponents /\ Lined'
             /\ \/ /\ Held' = Held /\ Activated' = Activated /\ filter' = filter
                   /\ op'.changed = op.changed
                   /\ e.do = "add" /\ e.g \in Group => u \in Held
                   /\ e.do = "remove" => u \notin Held
                   /\ \A d \in DOMAIN iTmpArray : iTmpArray'[d] = iTmpArray[d]
                \/ /\ e.do = "add" /\ e.g \in Group /\ u \notin Held
                   /\ Held' = Held \cup {u} /\ Activated' \subseteq Activated \cup Held \cup {u}
                   /\ op'.changed = op.changed \cup {u}
                   /\ filter' = IF e.g > KMaxKernelCategory THEN filter \cup {e.g} ELSE filter
                   /\ \A d \in DOMAIN iTmpArray : iTmpArray'[d] = IF d = op.c THEN iTmpArray[d] + 1
                                                                         ELSE iTmpArray[d]
                \/ /\ e.do = "remove" /\ u \in Held
                   /\ Held' = Held \ {u} /\ Activated' \subseteq Activated \cup Held
                   /\ op'.changed = op.changed \cup {u} /\ filter' = filter \ {e.g}
                   /\ \A d \in DOMAIN iTmpArray : d # op.c => iTmpArray'[d] = iTmpArray[d]
<1> DEFINE c == op.c
           e == Head(op.todo)
           g == e.g
           u == <<c, g>>
           todo == Tail(op.todo)
           m == IF iTmpArray' # iTmpArray /\ e.do # "component"
                THEN op.changed \cup {<<e.c, e.g>>} ELSE op.changed
<1>1. /\ op.pc = "edit" /\ op.todo # <<>> /\ op # Idle /\ Change /\ Blocks /\ Blocks'
      /\ iOstComponents' = iOstComponents
  BY DEF EditOne, Inv, Shape, Operation, Idle
<1>2. op' = [op EXCEPT !.todo = todo, !.changed = m]
  BY DEF EditOne
<1>3. /\ op'.pc = "edit" /\ op'.c = c /\ op'.todo = todo /\ op'.rest = op.rest
      /\ op'.fromSettings = op.fromSettings /\ op'.before = op.before /\ op'.all = op.all
      /\ op'.changed = m
  <2> HIDE DEF m, todo
  <2>1. op' = [pc |-> op.pc, c |-> c, todo |-> todo, prune |-> op.prune, all |-> op.all,
               changed |-> m, before |-> op.before,
               fromSettings |-> op.fromSettings, rest |-> op.rest]
    BY <1>1, <1>2 DEF Change
  <2> QED BY <1>1, <2>1
<1>4. op' # Idle
  BY <1>3 DEF Idle
<1>5. e = op.todo[1] /\ 1 \in DOMAIN op.todo
  BY <1>1, TailShape DEF Change
<1>6. /\ c \in Components /\ e.c = c /\ e.do \in {"component", "add", "remove"}
      /\ e.do = "add" => c \in DOMAIN iTmpArray
  BY <1>1, <1>5 DEF Change, Todo, Added
<1>7. \/ e.do = "component" /\ AddComponentId(c)
      \/ e.do = "add" /\ AddGroupId(c, g)
      \/ e.do = "remove" /\ RemoveGroupId(c, g)
  BY <1>6, Zenon DEF EditOne
<1>8. /\ m = IF iTmpArray' # iTmpArray /\ e.do # "component"
             THEN op.changed \cup {u} ELSE op.changed
      /\ <<e.c, e.g>> = u
  BY <1>6
<1> DEFINE Same == /\ Held' = Held /\ Activated' = Activated /\ filter' = filter
                   /\ op'.changed = op.changed
                   /\ e.do = "add" /\ g \in Group => u \in Held
                   /\ e.do = "remove" => u \notin Held
                   /\ \A d \in DOMAIN iTmpArray : iTmpArray'[d] = iTmpArray[d]
           More == /\ e.do = "add" /\ g \in Group /\ u \notin Held
                   /\ Held' = Held \cup {u} /\ Activated' \subseteq Activated \cup Held \cup {u}
                   /\ op'.changed = op.changed \cup {u}
                   /\ filter' = IF g > KMaxKernelCategory THEN filter \cup {g} ELSE filter
                   /\ \A d \in DOMAIN iTmpArray : iTmpArray'[d] = IF d = c THEN iTmpArray[d] + 1
                                                                         ELSE iTmpArray[d]
           Less == /\ e.do = "remove" /\ u \in Held
                   /\ Held' = Held \ {u} /\ Activated' \subseteq Activated \cup Held
                   /\ op'.changed = op.changed \cup {u} /\ filter' = filter \ {g}
                   /\ \A d \in DOMAIN iTmpArray : d # c => iTmpArray'[d] = iTmpArray[d]
<1>9. Lined' /\ (Same \/ More \/ Less)
  <2> HIDE DEF c, e, g, m, u
  <2>1. ASSUME e.do = "component", AddComponentId(c) PROVE Lined' /\ Same
    <3>1. /\ Lined' /\ Held' = Held /\ Activated' = Activated /\ filter' = filter
          /\ \A d \in DOMAIN iTmpArray : iTmpArray'[d] = iTmpArray[d]
      BY <1>1, <1>6, <2>1, AddComponentEffect
    <3>2. op'.changed = op.changed
      BY <1>3, <1>8, <2>1
    <3> QED BY <2>1, <3>1, <3>2
  <2>2. ASSUME e.do = "add", AddGroupId(c, g) PROVE Lined' /\ (Same \/ More)
    <3>1. \/ Unedited /\ filter' = filter /\ (g \in Group => u \in Held)
          \/ /\ Lined' /\ iTmpArray' # iTmpArray /\ g \in Group /\ u \notin Held
             /\ Held' = Held \cup {u}
             /\ Activated' \subseteq Activated \cup Held \cup {u}
             /\ filter' = IF g > KMaxKernelCategory THEN filter \cup {g} ELSE filter
             /\ \A d \in DOMAIN iTmpArray : iTmpArray'[d] = IF d = c THEN iTmpArray[d] + 1
                                                                   ELSE iTmpArray[d]
      BY <1>1, <1>6, <2>2, AddGroupEffect DEF u
    <3>2. ASSUME Unedited, filter' = filter, g \in Group => u \in Held PROVE Lined' /\ Same
      <4>1. Lined' /\ Held' = Held /\ Activated' = Activated
        BY <3>2, UneditedKeeps
      <4>2. op'.changed = op.changed /\ \A d \in DOMAIN iTmpArray : iTmpArray'[d] = iTmpArray[d]
        BY <1>3, <1>8, <3>2 DEF Unedited
      <4> QED BY <2>2, <3>2, <4>1, <4>2
    <3>3. iTmpArray' # iTmpArray => op'.changed = op.changed \cup {u}
      BY <1>3, <1>8, <2>2
    <3> QED BY <2>2, <3>1, <3>2, <3>3
  <2>3. ASSUME e.do = "remove", RemoveGroupId(c, g) PROVE Lined' /\ (Same \/ Less)
    <3>1. \/ Unedited /\ filter' = filter /\ u \notin Held
          \/ /\ Lined' /\ iTmpArray' # iTmpArray /\ u \in Held
             /\ Held' = Held \ {u}
             /\ Activated' \subseteq Activated \cup Held
             /\ filter' = filter \ {g}
             /\ \A d \in DOMAIN iTmpArray : d # c => iTmpArray'[d] = iTmpArray[d]
      BY <1>1, <1>6, <2>3, RemoveGroupEffect DEF u
    <3>2. ASSUME Unedited, filter' = filter, u \notin Held PROVE Lined' /\ Same
      <4>1. Lined' /\ Held' = Held /\ Activated' = Activated
        BY <3>2, UneditedKeeps
      <4>2. op'.changed = op.changed /\ \A d \in DOMAIN iTmpArray : iTmpArray'[d] = iTmpArray[d]
        BY <1>3, <1>8, <3>2 DEF Unedited
      <4> QED BY <2>3, <3>2, <4>1, <4>2
    <3>3. iTmpArray' # iTmpArray => op'.changed = op.changed \cup {u}
      BY <1>3, <1>8, <2>3
    <3> QED BY <2>3, <3>1, <3>2, <3>3
  <2> QED BY <1>7, <2>1, <2>2, <2>3
<1>10. /\ op'.c = op.c /\ op'.todo = Tail(op.todo) /\ e.c = op.c
       /\ Same \/ More \/ Less
  BY <1>3, <1>6, <1>9
<1> HIDE DEF Same, More, Less
<1> QED BY <1>1, <1>3, <1>4, <1>6, <1>8, <1>9, <1>10 DEF Same, More, Less

\* The swap makes the edited array the live one.  Only DeactivateAll takes away
\* groups here: a component that is pruned has none.
LEMMA SwapEffect ==
  ASSUME Inv, Inv', Lined, SetNewComponentsArrayPtr
  PROVE  /\ op.pc = "edit" /\ op'.pc = "swapped" /\ op # Idle /\ op' # Idle
         /\ op.todo = <<>> /\ op.rest = <<>>
         /\ op'.c = op.c /\ op'.fromSettings = op.fromSettings
         /\ op.changed \subseteq op'.changed
         /\ Lined' /\ Activated' = Held' /\ Held' \subseteq Held
         /\ ~ op.all => Held' = Held
         /\ \A u \in Held : u[1] # op.c => u \in Held'
         /\ op.fromSettings => Held' = Held
<1> DEFINE c == op.c
           gone == c \in DOMAIN iTmpArray /\ (op.all \/ (op.prune /\ iTmpArray[c] = 0))
           new == IF gone THEN Without(iTmpArray, c) ELSE iTmpArray
           m == IF gone /\ op.all THEN op.changed \cup {<<c, KAllGroups>>} ELSE op.changed
<1>1. /\ op.pc = "edit" /\ op.todo = <<>> /\ op.rest = <<>> /\ op # Idle /\ Change
      /\ Blocks /\ Blocks' /\ iOstComponents' = new /\ iTmpArray' = new
      /\ store' = [d \in Components |->
                     IF d \in DOMAIN new
                     THEN [k \in DOMAIN store[d] |-> IF k <= new[d] THEN store[d][k] ELSE 0]
                     ELSE <<>>]
      /\ op' = [op EXCEPT !.pc = "swapped", !.changed = m]
  BY DEF SetNewComponentsArrayPtr, Inv, Shape, Operation, Idle
<1>2. /\ op'.pc = "swapped" /\ op'.c = c /\ op'.fromSettings = op.fromSettings
      /\ op'.changed = m
  <2> HIDE DEF m
  <2>1. op' = [pc |-> "swapped", c |-> c, todo |-> op.todo, prune |-> op.prune, all |-> op.all,
               changed |-> m, before |-> op.before,
               fromSettings |-> op.fromSettings, rest |-> op.rest]
    BY <1>1 DEF Change
  <2> QED BY <2>1
<1>3. op' # Idle /\ op.changed \subseteq m
  BY <1>2 DEF Idle
<1>4. /\ DOMAIN new \subseteq DOMAIN iTmpArray /\ \A d \in DOMAIN new : new[d] = iTmpArray[d]
      /\ \A d \in DOMAIN iTmpArray : d \in DOMAIN new \/ (d = c /\ (op.all \/ (op.prune /\ iTmpArray[d] = 0)))
  <2>1. CASE gone
    BY <2>1 DEF Without
  <2>2. CASE ~ gone
    BY <2>2
  <2> QED BY <2>1, <2>2
<1> HIDE DEF new, gone, m
<1>5. ASSUME NEW d \in DOMAIN new
      PROVE  /\ d \in Components /\ new[d] = iTmpArray[d] /\ new[d] \in Nat
             /\ \A k \in 1 .. new[d] : store'[d][k] = store[d][k]
  <2>1. /\ d \in Components /\ new[d] = iTmpArray[d] /\ new[d] \in Nat
        /\ new[d] <= Len(store[d]) /\ store[d] \in Seq(Group)
    BY <1>1, <1>4 DEF Blocks, Within
  <2>2. store'[d] = [k \in DOMAIN store[d] |-> IF k <= new[d] THEN store[d][k] ELSE 0]
    BY <1>1, <2>1
  <2>3. DOMAIN store[d] = 1 .. Len(store[d]) /\ Len(store[d]) \in Nat
    BY <2>1
  <2> QED BY <2>1, <2>2, <2>3
<1>6. Lined'
  <2> SUFFICES ASSUME NEW d \in DOMAIN new PROVE Sorted(store'[d], new[d])
    BY <1>1 DEF Lined
  <2>1. Sorted(store[d], new[d]) /\ new[d] \in Nat
    BY <1>4, <1>5 DEF Lined
  <2>2. \A k \in 1 .. new[d] : store'[d][k] = store[d][k]
    BY <1>5
  <2> QED BY <2>1, <2>2 DEF Sorted
<1>7. Activated' = Held'
  <2>1. \A d, h : <<d, h>> \in Activated' <=> <<d, h>> \in Held'
    BY <1>1, ShownPairsNext
  <2>2. Activated' \subseteq Components \X Group /\ Held' \subseteq Components \X Group
    BY <1>1, ShownPairsNext
  <2> QED BY <2>1, <2>2, SamePairs
<1>8. \A d, h : <<d, h>> \in Held' <=> d \in DOMAIN new /\ <<d, h>> \in Held
  <2>1. \A d, h : d \in DOMAIN new => (In(store'[d], new[d], h) <=> In(store[d], new[d], h))
    BY <1>5 DEF In
  <2> QED BY <1>1, <1>4, <2>1, ShownPairs, ShownPairsNext
<1>9. \A h : ~ In(store[c], 0, h)
  BY DEF In
<1>10. \A d, h : <<d, h>> \in Held => <<d, h>> \in Held' \/ (d = c /\ op.all)
  BY <1>1, <1>4, <1>8, <1>9, ShownPairs
<1>11. Held \subseteq Components \X Group /\ Held' \subseteq Components \X Group
  BY <1>1, ShownPairs, ShownPairsNext
<1>12. Held' \subseteq Held
  BY <1>8, <1>11, SubPairs
<1>13. ASSUME ~ op.all PROVE Held' = Held
  BY <1>8, <1>10, <1>11, <1>13, SamePairs
<1>14. \A u \in Held : u[1] # c => u \in Held'
  <2>1. \A u \in Components \X Group : u = <<u[1], u[2]>>
    OBVIOUS
  <2> QED BY <1>10, <1>11, <2>1
<1>15. op.fromSettings => ~ op.all
  BY <1>1 DEF Inv, Restored
<1> QED BY <1>1, <1>2, <1>3, <1>6, <1>7, <1>12, <1>13, <1>14, <1>15

-----------------------------------------------------------------------------
(* Reads in the middle of a change.                                        *)

\* The groups of a component in a set of pairs.
GroupsOf(S, c) == {g \in Group : <<c, g>> \in S}

\* In the middle of a change: the live array counts as many groups as were
\* active, and what either array shows was active or is recorded as changed.
Tracked ==
  op.pc = "edit" =>
    /\ op.before \subseteq Components \X Group
    /\ \A c, g : <<c, g>> \in op.before => c \in DOMAIN iOstComponents
    /\ \A c \in DOMAIN iOstComponents : Cardinality(GroupsOf(op.before, c)) <= iOstComponents[c]
    /\ Activated \cup Held \subseteq op.before \cup op.changed
    /\ op.before \ op.changed \subseteq Held

\* The start of a change.
Opens ==
  /\ op = Idle /\ UNCHANGED <<store, iOstComponents>> /\ iTmpArray' = iOstComponents
  /\ op'.pc = "edit" /\ op'.before = Activated /\ op'.changed = {}

\* A step that leaves the arrays alone and starts nothing.
Steady ==
  /\ Unedited
  /\ \/ op' = op \/ op'.pc # "edit"
     \/ op.pc = "edit" /\ op'.before = op.before /\ op'.changed = op.changed

Boots == store' = BootStore /\ iOstComponents' = BootArray /\ iTmpArray' = BootArray /\ op' = Idle

LEMMA StartOpens ==
  ASSUME op = Idle, NEW c, NEW todo, NEW prune, NEW all, Start(c, todo, prune, all), Rest
  PROVE  Opens
BY DEF Start, Rest, Opens

LEMMA SettingsKinds ==
  ASSUME Inv, RegisterSettings \/ ReadFromSettings \/ UnregisterSettings \/ Restart
  PROVE  Opens \/ Steady \/ Boots
<1>1. CASE RegisterSettings
  <2>1. op = Idle /\ UNCHANGED <<store, iOstComponents>>
    BY <1>1 DEF RegisterSettings, CanStart
  <2>2. CASE saved.some
    <3>1. /\ iTmpArray' = iOstComponents
          /\ \E cs : op' = [pc |-> "edit", c |-> 0, todo |-> <<>>, prune |-> FALSE, all |-> FALSE,
                            changed |-> {}, before |-> Activated, fromSettings |-> TRUE,
                            rest |-> cs]
      BY <1>1, <2>2 DEF RegisterSettings
    <3>2. op'.pc = "edit" /\ op'.before = Activated /\ op'.changed = {}
      BY <3>1
    <3> QED BY <2>1, <3>1, <3>2 DEF Opens
  <2>3. CASE ~ saved.some
    BY <1>1, <2>1, <2>3 DEF RegisterSettings, Steady, Unedited
  <2> QED BY <2>2, <2>3
<1>2. CASE ReadFromSettings
  <2> DEFINE c == Head(op.rest)
             q == Tail(op.rest)
             todo == RestoreTodo(Head(op.rest))
  <2>1. /\ op.pc = "edit" /\ Change /\ UNCHANGED <<store, iOstComponents, iTmpArray>>
        /\ op' = [op EXCEPT !.c = c, !.todo = todo, !.rest = q]
    BY <1>2 DEF ReadFromSettings, Rest, Inv, Shape, Operation, Idle
  <2> HIDE DEF c, q, todo
  <2>2. op' = [pc |-> op.pc, c |-> c, todo |-> todo, prune |-> op.prune, all |-> op.all,
               changed |-> op.changed, before |-> op.before,
               fromSettings |-> op.fromSettings, rest |-> q]
    BY <2>1 DEF Change
  <2>3. op'.before = op.before /\ op'.changed = op.changed
    BY <2>2
  <2> QED BY <2>1, <2>3 DEF Steady, Unedited
<1>3. CASE UnregisterSettings
  BY <1>3 DEF UnregisterSettings, Steady, Unedited, array
<1>4. CASE Restart
  BY <1>4 DEF Restart, Boots
<1> QED BY <1>1, <1>2, <1>3, <1>4

LEMMA ChangeKinds ==
  ASSUME Inv, Changes
  PROVE  Opens \/ Steady \/ EditOne \/ SetNewComponentsArrayPtr
<1>1. ASSUME NEW c, NEW gs, ActivateTrace(c, gs) PROVE Opens
  BY <1>1, StartOpens DEF ActivateTrace, CanStart
<1>2. ASSUME NEW c, NEW gs, DeactivateTrace(c, gs) PROVE Opens
  BY <1>2, StartOpens DEF DeactivateTrace, CanStart
<1>3. ASSUME NEW c, NEW gs, OverwriteGroups(c, gs) PROVE Opens
  BY <1>3, StartOpens DEF OverwriteGroups, CanStart
<1>4. ASSUME NEW c, DeactivateAll(c) PROVE Opens
  BY <1>4, StartOpens DEF DeactivateAll, CanStart
<1>5. ASSUME HandleTraceActivationChanges PROVE Steady
  BY <1>5 DEF HandleTraceActivationChanges, Steady, Unedited, Idle, array
<1>6. ASSUME PrimeDfc \/ ClearItem PROVE Steady
  BY <1>6 DEF PrimeDfc, ClearItem, Steady, Unedited, array
<1> QED BY <1>1, <1>2, <1>3, <1>4, <1>5, <1>6 DEF Changes

LEMMA RefreshKinds ==
  ASSUME Inv, Refresh
  PROVE  Opens \/ Steady
<1>1. ASSUME RefreshActivations PROVE Steady
  BY <1>1 DEF RefreshActivations, Rest, Steady, Unedited
<1>2. ASSUME RefreshOut PROVE Opens \/ Steady
  <2> DEFINE c == Head(refresh.queue)[1]
             g == store[c][Head(refresh.queue)[2]]
  <2>1. CASE c = Kernel /\ g = EMetaTrace
    BY <1>2, <2>1 DEF RefreshOut, Rest, Steady, Unedited
  <2>2. CASE ~ (c = Kernel /\ g = EMetaTrace)
    BY <1>2, <2>2, StartOpens DEF RefreshOut
  <2> QED BY <2>1, <2>2
<1>3. ASSUME RefreshIn PROVE Opens
  BY <1>3, StartOpens DEF RefreshIn
<1> QED BY <1>1, <1>2, <1>3 DEF Refresh

LEMMA QuietKinds ==
  ASSUME \/ UNCHANGED vars \/ SetWriter \/ Traces \/ Receivers \/ Writers \/ RegisterWriter(XTI)
  PROVE  Steady /\ op' = op
<1> DEFINE Same == UNCHANGED <<array, op>>
<1>1. ASSUME UNCHANGED vars PROVE Same
  BY <1>1 DEF vars
<1>2. ASSUME SetWriter PROVE Same
  BY <1>2 DEF SetWriter
<1>3. ASSUME Receivers PROVE Same
  BY <1>3 DEF Receivers, RegisterNotificationReceiver, UnregisterNotificationReceiver
<1>4. ASSUME NEW w, RegisterWriter(w) PROVE Same
  BY <1>4 DEF RegisterWriter, PrepareSetWriter
<1>5. ASSUME NEW w, UnregisterWriter(w) PROVE Same
  BY <1>5 DEF UnregisterWriter, PrepareSetWriter
<1>6. ASSUME NEW w, SwitchToWriter(w) PROVE Same
  BY <1>6 DEF SwitchToWriter, PrepareSetWriter
<1>7. ASSUME Traces PROVE Same
  BY <1>7 DEF Traces, HandleFrame, CompareItem, LookUp, SwapPointers, WriteWord, Seen
<1>8. Same
  BY <1>1, <1>2, <1>3, <1>4, <1>5, <1>6, <1>7 DEF Writers
<1> QED BY <1>8 DEF Steady, Unedited, array

LEMMA StepKinds ==
  ASSUME Inv, [Next]_vars
  PROVE  Opens \/ Steady \/ EditOne \/ SetNewComponentsArrayPtr \/ Boots
<1>1. CASE UNCHANGED vars
  BY <1>1, QuietKinds
<1>2. CASE Next
  <2>1. \/ Changes \/ SetWriter \/ Refresh \/ Traces \/ RegisterWriter(XTI) \/ Receivers
        \/ Settings \/ Writers
    BY <1>2 DEF Next
  <2>2. CASE Changes
    BY <2>2, ChangeKinds
  <2>3. CASE Refresh
    BY <2>3, RefreshKinds
  <2>4. CASE Settings
    BY <2>4, SettingsKinds DEF Settings
  <2>5. CASE SetWriter \/ Traces \/ Receivers \/ Writers \/ RegisterWriter(XTI)
    BY <2>5, QuietKinds
  <2> QED BY <2>1, <2>2, <2>3, <2>4, <2>5
<1> QED BY <1>1, <1>2

\* As many groups as the live array counts.
LEMMA CountShown ==
  ASSUME Blocks, NEW c \in DOMAIN iOstComponents
  PROVE  Cardinality(GroupsOf(Activated, c)) <= iOstComponents[c]
<1> DEFINE n == iOstComponents[c]
           f == [k \in 1 .. n |-> store[c][k]]
           T == GroupsOf(Activated, c)
<1>1. n \in Nat /\ IsFiniteSet(1 .. n) /\ Cardinality(1 .. n) = n
  <2>1. n \in Nat
    BY DEF Blocks, Within
  <2> HIDE DEF n
  <2> QED BY <2>1, FS_Interval
<1>2. \A g : g \in T <=> g \in Group /\ In(store[c], n, g)
  BY ShownPairs DEF GroupsOf
<1>3. \A k \in 1 .. n : store[c][k] \in Group
  <2>1. n <= Len(store[c]) /\ store[c] \in Seq(Group)
    BY DEF Blocks, Within
  <2> QED BY <1>1, <2>1
<1>4. f \in Surjection(1 .. n, T)
  <2> HIDE DEF T, n
  <2>1. f \in [1 .. n -> T]
    BY <1>2, <1>3 DEF In
  <2>2. \A g \in T : \E k \in 1 .. n : f[k] = g
    BY <1>2 DEF In
  <2> HIDE DEF f
  <2> QED BY <2>1, <2>2 DEF Surjection
<1> HIDE DEF T, f, n
<1>5. Cardinality(T) <= Cardinality(1 .. n)
  BY <1>1, <1>4, FS_Surjection
<1> QED BY <1>1, <1>5 DEF T, n

LEMMA BootLined ==
  \A c \in DOMAIN BootArray : Sorted(BootStore[c], BootArray[c])
<1> DEFINE n == EPlatsecPrintf + 1
           b == [k \in 1 .. n |-> k - 1]
<1>1. BootStore[Kernel] = b /\ BootArray[Kernel] = n /\ DOMAIN BootArray = {Kernel}
  BY Boot DEF BootStore, BootArray
<1>2. \A i, j \in 1 .. n : i < j => b[i] < b[j]
  BY TraceAssumption
<1> HIDE DEF n, b
<1> QED BY <1>1, <1>2 DEF Sorted

LEMMA TrackedInit ==
  ASSUME Init
  PROVE  Lined /\ Tracked
BY BootLined DEF Init, Lined, Tracked, Idle

LEMMA TrackedStep ==
  ASSUME Inv, Inv', Lined, Tracked, [Next]_vars
  PROVE  Lined' /\ Tracked'
<1>0. Blocks /\ Blocks'
  BY DEF Inv, Shape
<1>1. CASE Opens
  <2>1. iTmpArray = iOstComponents /\ iTmpArray' = iTmpArray
    BY <1>0, <1>1 DEF Opens, Blocks, Idle
  <2>2. Unedited
    BY <1>1, <2>1 DEF Opens, Unedited
  <2>3. Lined' /\ Held' = Held /\ Activated' = Activated
    BY <2>2, UneditedKeeps
  <2>4. Held = Activated
    BY <1>0, <2>1, LiveShown DEF Held
  <2>5. /\ Activated \subseteq Components \X Group
        /\ \A c, g : <<c, g>> \in Activated => c \in DOMAIN iOstComponents
        /\ \A c \in DOMAIN iOstComponents :
             Cardinality(GroupsOf(Activated, c)) <= iOstComponents[c]
    BY <1>0, ShownPairs, CountShown
  <2>6. op'.before = Activated /\ op'.changed = {} /\ iOstComponents' = iOstComponents
    BY <1>1 DEF Opens
  <2>7. \A c : GroupsOf(op.before, c)' = GroupsOf(op'.before, c)
    BY DEF GroupsOf
  <2> QED BY <2>3, <2>4, <2>5, <2>6, <2>7 DEF Tracked
<1>2. CASE Steady
  <2>1. Lined' /\ Held' = Held /\ Activated' = Activated /\ iOstComponents' = iOstComponents
    BY <1>2, UneditedKeeps DEF Steady, Unedited
  <2>2. \A c : GroupsOf(op.before, c)' = GroupsOf(op'.before, c)
    BY DEF GroupsOf
  <2>3. op'.pc = "edit" => op.pc = "edit" /\ op'.before = op.before /\ op'.changed = op.changed
    BY <1>2 DEF Steady
  <2> QED BY <2>1, <2>2, <2>3 DEF Tracked
<1>3. CASE EditOne
  <2> DEFINE e == Head(op.todo)
             u == <<e.c, e.g>>
  <2>1. /\ op.pc = "edit" /\ op'.before = op.before /\ iOstComponents' = iOstComponents /\ Lined'
        /\ \/ Held' = Held /\ Activated' = Activated /\ op'.changed = op.changed
           \/ /\ Held' = Held \cup {u} /\ Activated' \subseteq Activated \cup Held \cup {u}
              /\ op'.changed = op.changed \cup {u}
           \/ /\ Held' = Held \ {u} /\ Activated' \subseteq Activated \cup Held
              /\ op'.changed = op.changed \cup {u}
    BY <1>3, EditEffect
  <2> HIDE DEF u
  <2>2. /\ Activated' \cup Held' \subseteq op.before \cup op'.changed
        /\ op.before \ op'.changed \subseteq Held'
    BY <2>1 DEF Tracked
  <2>3. \A c : GroupsOf(op.before, c)' = GroupsOf(op.before, c)
    BY <2>1 DEF GroupsOf
  <2> QED BY <2>1, <2>2, <2>3 DEF Tracked
<1>4. CASE SetNewComponentsArrayPtr
  <2>1. op'.pc = "swapped" /\ Lined'
    BY <1>4, SwapEffect
  <2> QED BY <2>1 DEF Tracked
<1>5. CASE Boots
  BY <1>5, BootLined DEF Boots, Lined, Tracked, Idle
<1> QED BY <1>1, <1>2, <1>3, <1>4, <1>5, StepKinds

\* A group behind the count of the live array was pushed there by a group that
\* is new: the block starts with as many groups as there were.
LEMMA PushedBehind ==
  ASSUME Inv, Lined, Tracked, op.pc = "edit", NEW c, NEW g,
         <<c, g>> \in op.before, <<c, g>> \in Held, <<c, g>> \notin Activated
  PROVE  \E h : <<c, h>> \in op.changed \ op.before /\ h < g
<1> DEFINE n == iOstComponents[c]
           b == store[c]
           T == GroupsOf(op.before, c)
<1>1. /\ Blocks /\ op.before \subseteq Components \X Group
      /\ c \in DOMAIN iOstComponents /\ Cardinality(T) <= n
      /\ Held \subseteq op.before \cup op.changed
  BY DEF Inv, Shape, Tracked
<1>2. /\ c \in DOMAIN iTmpArray /\ In(b, iTmpArray[c], g) /\ ~ In(b, n, g)
      /\ \A h : In(b, iTmpArray[c], h) => <<c, h>> \in Held
  BY <1>1, ShownPairs
<1>3. PICK p \in 1 .. iTmpArray[c] : b[p] = g
  BY <1>2 DEF In
<1>4. n \in Nat /\ iTmpArray[c] \in Nat /\ p \in Nat /\ b \in Seq(Group) /\ iTmpArray[c] <= Len(b)
  BY <1>1, <1>2, <1>3 DEF Blocks, Within
<1>5. p > n
  <2>1. p \notin 1 .. n
    BY <1>2, <1>3 DEF In
  <2> HIDE DEF n, b
  <2> QED BY <1>3, <1>4, <2>1
<1>6. /\ \A k \in 1 .. n : b[k] < g /\ <<c, b[k]>> \in Held /\ b[k] \in Group
      /\ \A k, l \in 1 .. n : k < l => b[k] < b[l]
  <2>1. Sorted(b, iTmpArray[c])
    BY <1>2 DEF Lined
  <2> DEFINE t == iTmpArray[c]
  <2>2. t \in Nat /\ p \in 1 .. t /\ t <= Len(b) /\ Sorted(b, t)
    BY <1>3, <1>4, <2>1
  <2>3. \A h : In(b, t, h) => <<c, h>> \in Held
    BY <1>2
  <2> HIDE DEF n, b, t
  <2>4. \A k \in 1 .. n : k \in 1 .. t /\ k < p /\ k \in 1 .. Len(b)
    BY <1>4, <1>5, <2>2
  <2>5. \A k \in 1 .. n : b[k] < g
    BY <1>3, <2>2, <2>4 DEF Sorted
  <2>6. \A k \in 1 .. n : <<c, b[k]>> \in Held
    BY <2>3, <2>4 DEF In
  <2>7. \A k, l \in 1 .. n : k < l => b[k] < b[l]
    BY <2>2, <2>4 DEF Sorted
  <2>8. \A k \in 1 .. n : b[k] \in Group
    BY <1>4, <2>4
  <2> QED BY <2>5, <2>6, <2>7, <2>8
<1>7. g \in Group /\ g \in T
  BY <1>1 DEF GroupsOf
<1> SUFFICES ASSUME \A k \in 1 .. n : <<c, b[k]>> \in op.before
             PROVE  FALSE
  BY <1>1, <1>6
<1>8. IsFiniteSet(T) /\ Cardinality(T) \in Nat
  <2>0. KMaxGroupId \in Nat
    BY TraceAssumption
  <2>1. IsFiniteSet(Group)
    BY <2>0, FS_Interval DEF Group
  <2>2. T \in SUBSET Group
    BY DEF GroupsOf
  <2> HIDE DEF T
  <2>3. IsFiniteSet(T)
    BY <2>1, <2>2, FS_Subset, Zenon
  <2> QED BY <2>3, FS_CardinalityType
<1> DEFINE U == T \ {g}
           f == [k \in 1 .. n |-> b[k]]
<1>9. IsFiniteSet(U) /\ Cardinality(U) = Cardinality(T) - 1
  <2> HIDE DEF T
  <2> QED BY <1>7, <1>8, FS_RemoveElement
<1>10. f \in Injection(1 .. n, U)
  <2>1. \A k \in 1 .. n : b[k] \in T /\ b[k] \in Nat /\ b[k] # g
    <3>1. \A k \in 1 .. n : b[k] \in T
      BY <1>6 DEF GroupsOf
    <3>2. \A k \in 1 .. n : b[k] \in Nat /\ g \in Nat /\ b[k] < g
      <4>1. \A x \in Group : x \in Nat
        BY TraceAssumption DEF Group
      <4> HIDE DEF b, n
      <4> QED BY <1>6, <1>7, <4>1
    <3> HIDE DEF T, b, n
    <3> QED BY <3>1, <3>2
  <2>2. \A k, l \in 1 .. n : k < l => b[k] < b[l]
    BY <1>6
  <2> HIDE DEF n, b, T
  <2>3. f \in [1 .. n -> U]
    BY <2>1
  <2>4. ASSUME NEW k \in 1 .. n, NEW l \in 1 .. n, f[k] = f[l] PROVE k = l
    <3>1. b[k] = b[l] /\ b[k] \in Nat /\ b[l] \in Nat /\ k \in Int /\ l \in Int
      BY <2>1, <2>4
    <3>2. ~ (k < l) /\ ~ (l < k)
      BY <2>2, <3>1
    <3> QED BY <3>1, <3>2
  <2> HIDE DEF f, U
  <2> QED BY <2>3, <2>4 DEF Injection, IsInjective
<1> HIDE DEF f, U, T, n, b
<1>11. Cardinality(1 .. n) <= Cardinality(U)
  BY <1>9, <1>10, FS_Injection
<1>12. n \in Nat
  BY <1>4
<1>13. Cardinality(1 .. n) = n
  BY <1>12, FS_Interval
<1> QED BY <1>1, <1>8, <1>9, <1>11, <1>12, <1>13

LEMMA TrackedReads ==
  ASSUME Inv, Lined, Tracked
  PROVE  TornReadsAreBounded
<1> SUFFICES ASSUME op.pc = "edit", NEW u \in Components \X (0 .. KMaxGroupId)
             PROVE  /\ u \in Activated => u \in op.before \cup op.changed
                    /\ u \in op.before \ (Activated \cup op.changed) =>
                         \E v \in op.changed \ op.before : v[1] = u[1] /\ v[2] < u[2]
  BY DEF TornReadsAreBounded
<1>1. u \in Activated => u \in op.before \cup op.changed
  BY DEF Tracked
<1>2. ASSUME u \in op.before \ (Activated \cup op.changed)
      PROVE  \E v \in op.changed \ op.before : v[1] = u[1] /\ v[2] < u[2]
  <2>1. u = <<u[1], u[2]>> /\ u \in Held
    BY <1>2 DEF Tracked
  <2>2. PICK h : <<u[1], h>> \in op.changed \ op.before /\ h < u[2]
    <3> DEFINE c == u[1]
               g == u[2]
    <3>1. <<c, g>> \in op.before /\ <<c, g>> \in Held /\ <<c, g>> \notin Activated
      BY <1>2, <2>1
    <3> HIDE DEF c, g
    <3>2. \E h : <<c, h>> \in op.changed \ op.before /\ h < g
      BY <3>1, PushedBehind
    <3> QED BY <3>2 DEF c, g
  <2> DEFINE v == <<u[1], h>>
  <2>3. v \in op.changed \ op.before /\ v[1] = u[1] /\ v[2] < u[2]
    BY <2>2
  <2> QED BY <2>3
<1> QED BY <1>1, <1>2

LEMMA TrackedAlways == Spec => [](Inv /\ Lined /\ Tracked)
<1>1. Init => Lined /\ Tracked
  BY TrackedInit
<1>2. Inv /\ Inv' /\ Lined /\ Tracked /\ [Next]_vars => Lined' /\ Tracked'
  BY TrackedStep
<1> QED BY <1>1, <1>2, Inductive, PTL DEF Spec

\* While DBTraceOstCategoryBitmap edits the entries that the live array reads
\* too, a look-up finds no group that is neither old nor new, and misses an
\* untouched group only behind a smaller one that is inserted.
THEOREM TornReadsAlwaysBounded == Spec => []TornReadsAreBounded
<1>1. Inv /\ Lined /\ Tracked => TornReadsAreBounded
  BY TrackedReads
<1> QED BY <1>1, TrackedAlways, PTL

-----------------------------------------------------------------------------
(* The turns of RefreshActivations.                                        *)

\* The category that RefreshActivations leaves alone.
Meta == <<Kernel, EMetaTrace>>

\* The place of a group among those of its component.
Rank(S, c, g) == Cardinality({h \in GroupsOf(S, c) : h <= g})

\* A rank names one group.
Ranked(S) ==
  \A c, g, h : <<c, g>> \in S /\ <<c, h>> \in S /\ Rank(S, c, g) = Rank(S, c, h) => g = h

\* The pair that is out, waiting for its turn to be put in again.
OutOf(queue, before) == {u \in before : queue # <<>> /\ queue[1] = <<u[1], u[2], "in">>}

\* A turn names a group by its rank among the groups at the start, but the
\* first may be the one to put in again.  A group has had its turn, or is out,
\* or has a turn to come.
Queued(queue, before, done) ==
  /\ before \subseteq Components \X Group
  /\ \A i \in DOMAIN queue :
       \/ \E c, g : <<c, g>> \in before /\ queue[i] = <<c, Rank(before, c, g)>>
       \/ i = 1 /\ \E c, g : <<c, g>> \in before \ {Meta} /\ queue[i] = <<c, g, "in">>
  /\ done \subseteq before \ {Meta}
  /\ \A c, g : <<c, g>> \in before \ {Meta} =>
       \/ <<c, g>> \in done \cup OutOf(queue, before)
       \/ \E i \in DOMAIN queue : queue[i] = <<c, Rank(before, c, g)>>

\* The edits that are left, and what iTmpArray shows until they are made.
EditsLeft(todo, held, before, out) ==
  \/ todo = <<>> /\ held = before \ out
  \/ \E c, g : /\ <<c, g>> \in before
               /\ \/ todo = <<Edit("remove", c, g)>> /\ out = {<<c, g>>} /\ held = before
                  \/ /\ \/ todo = <<Edit("component", c, 0), Edit("add", c, g)>>
                        \/ todo = <<Edit("add", c, g)>>
                     /\ out = {} /\ held = before \ {<<c, g>>}

\* A refresh under way, with what iTmpArray shows.
RefreshState(r, o, held) ==
  r # NoRefresh =>
    /\ Queued(r.queue, r.before, r.done)
    /\ o = Idle => r.queue # <<>>
    /\ o.pc # "edit" => held = r.before \ OutOf(r.queue, r.before)
    /\ o.pc = "edit" => /\ ~ o.all /\ ~ o.fromSettings /\ o.rest = <<>>
                        /\ EditsLeft(o.todo, held, r.before, OutOf(r.queue, r.before))

Refreshing == RefreshState(refresh, op, Held)

\* The group at an index of a block in order has this index as its rank.
LEMMA RankIsIndex ==
  ASSUME Blocks, Lined, NEW c \in DOMAIN iTmpArray, NEW k \in 1 .. iTmpArray[c]
  PROVE  /\ Rank(Held, c, store[c][k]) = k /\ k \in 1 .. KMaxGroupId + 1
         /\ <<c, store[c][k]>> \in Held
<1> DEFINE n == iTmpArray[c]
           b == store[c]
           T == GroupsOf(Held, c)
           S == {h \in T : h <= b[k]}
           f == [j \in 1 .. k |-> b[j]]
<1>1. n \in Nat /\ b \in Seq(Group) /\ n <= Len(b) /\ k \in 1 .. n /\ k \in Nat
  BY DEF Blocks, Within
<1>2. \A i, j \in 1 .. n : i < j => b[i] < b[j]
  BY DEF Lined, Sorted
<1>3. \A h : h \in T <=> h \in Group /\ In(b, n, h)
  BY ShownPairs DEF GroupsOf
<1>4. \A h \in Group : h \in Nat
  BY TraceAssumption DEF Group
<1> HIDE DEF n, b, T
<1>5. \A j \in 1 .. n : b[j] \in Group /\ b[j] \in Nat /\ b[j] \in T
  <2>1. \A j \in 1 .. n : b[j] \in Group
    BY <1>1
  <2> QED BY <2>1, <1>3, <1>4 DEF In
<1>6. f \in [1 .. k -> S]
  <2>1. ASSUME NEW j \in 1 .. k PROVE b[j] \in S
    <3>1. j \in 1 .. n /\ (j = k \/ j < k)
      BY <1>1
    <3>2. b[j] = b[k] \/ b[j] < b[k]
      BY <1>1, <1>2, <3>1
    <3> QED BY <1>1, <1>5, <3>1, <3>2
  <2> HIDE DEF S
  <2> QED BY <2>1
<1>7. ASSUME NEW i \in 1 .. k, NEW j \in 1 .. k, f[i] = f[j] PROVE i = j
  <2>1. b[i] = b[j] /\ i \in 1 .. n /\ j \in 1 .. n /\ i \in Nat /\ j \in Nat
    BY <1>1, <1>7
  <2>2. ~ (i < j) /\ ~ (j < i)
    BY <1>2, <1>5, <2>1
  <2> QED BY <2>1, <2>2
<1>8. ASSUME NEW h \in S PROVE \E j \in 1 .. k : f[j] = h
  <2>1. h \in T /\ h <= b[k]
    OBVIOUS
  <2>2. PICK j \in 1 .. n : b[j] = h
    BY <1>3, <2>1 DEF In
  <2>3. ~ (k < j)
    BY <1>1, <1>2, <1>5, <2>1, <2>2
  <2>4. j \in 1 .. k
    BY <1>1, <2>2, <2>3
  <2> QED BY <2>2, <2>4
<1>9. f \in Bijection(1 .. k, S)
  <2> HIDE DEF f, S
  <2> QED BY <1>6, <1>7, <1>8 DEF Bijection, Injection, IsInjective, Surjection
<1>10. Cardinality(S) = k
  <2> HIDE DEF f, S
  <2>1. ExistsBijection(1 .. k, S)
    BY <1>9 DEF ExistsBijection
  <2> QED BY <1>1, <2>1, FS_CountingElements
<1>11. k <= KMaxGroupId + 1
  <2>1. IsFiniteSet(Group) /\ Cardinality(Group) = KMaxGroupId + 1 /\ S \in SUBSET Group
    BY TraceAssumption, FS_Interval, <1>3 DEF Group
  <2> HIDE DEF S
  <2>2. Cardinality(S) <= Cardinality(Group)
    BY <2>1, FS_Subset, Zenon
  <2> QED BY <1>10, <2>1, <2>2
<1>12. <<c, b[k]>> \in Held
  BY <1>1, ShownPairs DEF In, b, n
<1>13. k \in 1 .. KMaxGroupId + 1
  BY <1>1, <1>11, TraceAssumption
<1> QED BY <1>10, <1>12, <1>13 DEF Rank, b, T

\* The group a turn names is the one at its index.
LEMMA RankNames ==
  ASSUME Blocks, Lined
  PROVE  /\ Ranked(Held)
         /\ \A c, g : <<c, g>> \in Held =>
              /\ c \in DOMAIN iTmpArray /\ Rank(Held, c, g) \in 1 .. iTmpArray[c]
              /\ Rank(Held, c, g) \in 1 .. KMaxGroupId + 1
              /\ store[c][Rank(Held, c, g)] = g
<1>1. ASSUME NEW c, NEW g, <<c, g>> \in Held
      PROVE  /\ c \in DOMAIN iTmpArray /\ Rank(Held, c, g) \in 1 .. iTmpArray[c]
             /\ Rank(Held, c, g) \in 1 .. KMaxGroupId + 1
             /\ store[c][Rank(Held, c, g)] = g
  <2>1. c \in DOMAIN iTmpArray /\ In(store[c], iTmpArray[c], g)
    BY <1>1, ShownPairs
  <2>2. PICK k \in 1 .. iTmpArray[c] : store[c][k] = g
    BY <2>1 DEF In
  <2>3. Rank(Held, c, store[c][k]) = k /\ k \in 1 .. KMaxGroupId + 1
    BY <2>1, RankIsIndex
  <2> QED BY <2>1, <2>2, <2>3
<1>2. Ranked(Held)
  <2> SUFFICES ASSUME NEW c, NEW g, NEW h, <<c, g>> \in Held, <<c, h>> \in Held,
                      Rank(Held, c, g) = Rank(Held, c, h)
               PROVE  g = h
    BY DEF Ranked
  <2>1. store[c][Rank(Held, c, g)] = g /\ store[c][Rank(Held, c, h)] = h
    BY <1>1
  <2> QED BY <2>1
<1> QED BY <1>1, <1>2

\* What follows the first turn in the queue s.
Follow(q, s, before) ==
  /\ OutOf(q, before) = {}
  /\ \A i \in DOMAIN q : \E c, g : <<c, g>> \in before /\ q[i] = <<c, Rank(before, c, g)>>
  /\ \A i \in DOMAIN s : i = 1 \/ (\E j \in DOMAIN q : q[j] = s[i])

LEMMA LaterTurns ==
  ASSUME NEW S, NEW s \in Seq(S), s # <<>>, NEW before, NEW done, Queued(s, before, done)
  PROVE  Head(s) = s[1] /\ 1 \in DOMAIN s /\ Follow(Tail(s), s, before)
<1> DEFINE q == Tail(s)
<1>1. /\ Len(s) \in Nat /\ Len(s) >= 1 /\ DOMAIN s = 1 .. Len(s) /\ Head(s) = s[1]
      /\ q \in Seq(S) /\ DOMAIN q = 1 .. Len(s) - 1
      /\ \A k \in 1 .. Len(s) - 1 : q[k] = s[k + 1]
      /\ Len(s) - 1 >= 1 \/ q = <<>>
  OBVIOUS
<1> HIDE DEF q
<1>2. \A i \in DOMAIN q : i + 1 \in DOMAIN s /\ i + 1 # 1 /\ q[i] = s[i + 1]
  BY <1>1
<1>3. ASSUME NEW i \in DOMAIN q
      PROVE  \E c, g : <<c, g>> \in before /\ q[i] = <<c, Rank(before, c, g)>>
  <2>1. \E c, g : <<c, g>> \in before /\ s[i + 1] = <<c, Rank(before, c, g)>>
    BY <1>2 DEF Queued
  <2> QED BY <1>2, <2>1
<1>4. \A i \in DOMAIN s : i = 1 \/ (i - 1 \in DOMAIN q /\ q[i - 1] = s[i])
  <2> SUFFICES ASSUME NEW i \in DOMAIN s, i # 1 PROVE i - 1 \in DOMAIN q /\ q[i - 1] = s[i]
    OBVIOUS
  <2>1. i - 1 \in 1 .. Len(s) - 1 /\ (i - 1) + 1 = i
    BY <1>1
  <2> QED BY <1>1, <2>1
<1>5. OutOf(q, before) = {}
  <2> SUFFICES ASSUME NEW u \in before, q # <<>>, q[1] = <<u[1], u[2], "in">> PROVE FALSE
    BY DEF OutOf
  <2>1. 1 \in DOMAIN q
    BY <1>1
  <2>2. PICK c, g : q[1] = <<c, Rank(before, c, g)>>
    BY <1>3, <2>1
  <2>3. Len(<<c, Rank(before, c, g)>>) = 2 /\ Len(<<u[1], u[2], "in">>) = 3
    OBVIOUS
  <2> QED BY <2>2, <2>3
<1>6. \A i \in DOMAIN s : i = 1 \/ (\E j \in DOMAIN q : q[j] = s[i])
  BY <1>4
<1>7. Follow(q, s, before)
  BY <1>3, <1>5, <1>6 DEF Follow
<1> QED BY <1>1, <1>7 DEF q

\* The meta trace keeps its place.
\* What comes first is a group in its turn or one that was taken out.
LEMMA TurnKinds ==
  ASSUME NEW s, NEW before, NEW done, Queued(s, before, done), 1 \in DOMAIN s
  PROVE  \/ \E a, b : s[1] = <<a, Rank(before, a, b)>>
         \/ \E a, b : <<a, b>> \in before /\ s[1] = <<a, b, "in">>
<1>1. \A i \in DOMAIN s :
        \/ \E c, g : <<c, g>> \in before /\ s[i] = <<c, Rank(before, c, g)>>
        \/ i = 1 /\ \E c, g : <<c, g>> \in before \ {Meta} /\ s[i] = <<c, g, "in">>
  BY Zenon DEF Queued
<1>2. \/ \E c, g : <<c, g>> \in before /\ s[1] = <<c, Rank(before, c, g)>>
      \/ \E c, g : <<c, g>> \in before \ {Meta} /\ s[1] = <<c, g, "in">>
  BY <1>1, Zenon
<1> QED BY <1>2, Zenon

LEMMA SkipTurn ==
  ASSUME NEW S, NEW s \in Seq(S), s # <<>>, NEW before, NEW done, Queued(s, before, done),
         Ranked(before), Meta \in before, s[1] = <<Kernel, Rank(before, Kernel, EMetaTrace)>>
  PROVE  Queued(Tail(s), before, done) /\ OutOf(s, before) = {} /\ OutOf(Tail(s), before) = {}
<1> DEFINE q == Tail(s)
<1>1. /\ OutOf(q, before) = {}
      /\ \A i \in DOMAIN q : \E c, g : <<c, g>> \in before /\ q[i] = <<c, Rank(before, c, g)>>
      /\ \A i \in DOMAIN s : i = 1 \/ (\E j \in DOMAIN q : q[j] = s[i])
  <2>1. 1 \in DOMAIN s /\ Follow(q, s, before)
    BY LaterTurns
  <2> HIDE DEF q
  <2> QED BY <2>1 DEF Follow
<1> HIDE DEF q
<1>2. OutOf(s, before) = {}
  <2>1. \A u : <<Kernel, Rank(before, Kernel, EMetaTrace)>> # <<u[1], u[2], "in">>
    <3>1. \A a, b, c, d : Len(<<a, b>>) = 2 /\ Len(<<c, d, "in">>) = 3
      OBVIOUS
    <3> QED BY <3>1
  <2> QED BY <2>1 DEF OutOf
<1>3. ASSUME NEW c, NEW g, <<c, g>> \in before \ {Meta}
      PROVE  <<c, g>> \in done \/ \E i \in DOMAIN q : q[i] = <<c, Rank(before, c, g)>>
  <2>1. <<c, g>> \in done \/ \E i \in DOMAIN s : s[i] = <<c, Rank(before, c, g)>>
    BY <1>2, <1>3 DEF Queued
  <2>2. s[1] # <<c, Rank(before, c, g)>>
    <3> SUFFICES ASSUME s[1] = <<c, Rank(before, c, g)>> PROVE FALSE
      OBVIOUS
    <3>1. c = Kernel /\ Rank(before, c, g) = Rank(before, Kernel, EMetaTrace)
      OBVIOUS
    <3>2. g = EMetaTrace
      BY <1>3, <3>1 DEF Ranked, Meta
    <3> QED BY <1>3, <3>1, <3>2 DEF Meta
  <2> QED BY <1>1, <2>1, <2>2
<1>4. Queued(q, before, done)
  BY <1>1, <1>3 DEF Queued
<1> QED BY <1>1, <1>2, <1>4 DEF q

\* The group of the first turn is taken out.
LEMMA OutTurn ==
  ASSUME NEW S, NEW s \in Seq(S), s # <<>>, NEW before, NEW done, Queued(s, before, done),
         Ranked(before), NEW c, NEW g, <<c, g>> \in before \ {Meta},
         s[1] = <<c, Rank(before, c, g)>>
  PROVE  LET r == <<<<c, g, "in">>>> \o Tail(s)
         IN  Queued(r, before, done) /\ OutOf(s, before) = {} /\ OutOf(r, before) = {<<c, g>>}
<1> DEFINE q == Tail(s)
           f == <<c, g, "in">>
           r == <<f>> \o q
<1>1. /\ \A i \in DOMAIN q : \E d, h : <<d, h>> \in before /\ q[i] = <<d, Rank(before, d, h)>>
      /\ \A i \in DOMAIN s : i = 1 \/ (\E j \in DOMAIN q : q[j] = s[i])
  <2>1. 1 \in DOMAIN s /\ Follow(q, s, before)
    BY LaterTurns
  <2> HIDE DEF q
  <2> QED BY <2>1 DEF Follow
<1>0. q \in Seq(S)
  OBVIOUS
<1>f. f[1] = c /\ f[2] = g /\ f = <<c, g, "in">>
  OBVIOUS
<1> HIDE DEF q, f
<1>2. /\ Len(q) \in Nat /\ DOMAIN q = 1 .. Len(q) /\ DOMAIN r = 1 .. Len(q) + 1 /\ r[1] = f
      /\ \A k \in 1 .. Len(q) : r[k + 1] = q[k]
  BY <1>0, PrependElements
<1> HIDE DEF r
<1>3. r # <<>>
  <2>1. 1 \in DOMAIN r /\ 1 \notin DOMAIN <<>>
    BY <1>2
  <2> QED BY <2>1
<1>4. OutOf(s, before) = {}
  <2>1. \A u : <<c, Rank(before, c, g)>> # <<u[1], u[2], "in">>
    <3>1. \A a, b, d, e : Len(<<a, b>>) = 2 /\ Len(<<d, e, "in">>) = 3
      OBVIOUS
    <3> QED BY <3>1
  <2> QED BY <2>1 DEF OutOf
<1>5. OutOf(r, before) = {<<c, g>>}
  <2>1. \A u \in before : u = <<u[1], u[2]>>
    BY DEF Queued
  <2>2. \A u \in before : f = <<u[1], u[2], "in">> <=> u[1] = c /\ u[2] = g
    BY <1>f
  <2>3. <<c, g>>[1] = c /\ <<c, g>>[2] = g /\ <<c, g>> \in before
    OBVIOUS
  <2>4. \A u \in before : u = <<c, g>> <=> u[1] = c /\ u[2] = g
    BY <2>1, <2>3
  <2> QED BY <1>2, <1>3, <2>2, <2>3, <2>4 DEF OutOf
<1>6. ASSUME NEW i \in DOMAIN r
      PROVE  \/ \E d, h : <<d, h>> \in before /\ r[i] = <<d, Rank(before, d, h)>>
             \/ i = 1 /\ \E d, h : <<d, h>> \in before \ {Meta} /\ r[i] = <<d, h, "in">>
  <2>1. CASE i = 1
    BY <1>2, <1>f, <2>1
  <2>2. CASE i # 1
    <3>1. i - 1 \in 1 .. Len(q) /\ (i - 1) + 1 = i
      BY <1>2, <2>2
    <3>2. r[i] = q[i - 1] /\ i - 1 \in DOMAIN q
      BY <1>2, <3>1
    <3> QED BY <1>1, <3>2
  <2> QED BY <2>1, <2>2
<1>7. ASSUME NEW d, NEW h, <<d, h>> \in before \ {Meta}
      PROVE  \/ <<d, h>> \in done \cup OutOf(r, before)
             \/ \E i \in DOMAIN r : r[i] = <<d, Rank(before, d, h)>>
  <2>1. <<d, h>> \in done \/ \E i \in DOMAIN s : s[i] = <<d, Rank(before, d, h)>>
    BY <1>4, <1>7 DEF Queued
  <2>2. CASE <<d, h>> \in done
    BY <2>2
  <2>3. ASSUME NEW i \in DOMAIN s, s[i] = <<d, Rank(before, d, h)>>
        PROVE  \/ <<d, h>> = <<c, g>>
               \/ \E j \in DOMAIN r : r[j] = <<d, Rank(before, d, h)>>
    <3>1. CASE i = 1
      <4>1. d = c /\ Rank(before, c, h) = Rank(before, c, g)
        BY <2>3, <3>1
      <4>2. h = g
        BY <1>7, <4>1 DEF Ranked
      <4> QED BY <4>1, <4>2
    <3>2. CASE i # 1
      <4>1. PICK j \in DOMAIN q : q[j] = s[i]
        BY <1>1, <3>2
      <4>2. j + 1 \in DOMAIN r /\ r[j + 1] = s[i]
        BY <1>2, <4>1
      <4> QED BY <2>3, <4>2
    <3> QED BY <3>1, <3>2
  <2> QED BY <1>5, <2>1, <2>2, <2>3
<1>8. Queued(r, before, done)
  BY <1>6, <1>7 DEF Queued
<1> QED BY <1>4, <1>5, <1>8 DEF r, f, q

\* The turn at the head of the queue s puts in the group that is out.
PutsIn(s, before, done, c, g) ==
  /\ <<c, g>> \in before \ {Meta} /\ OutOf(s, before) = {<<c, g>>}
  /\ Queued(Tail(s), before, done \cup {<<c, g>>}) /\ OutOf(Tail(s), before) = {}

LEMMA InTurn ==
  ASSUME NEW S, NEW s \in Seq(S), s # <<>>, NEW before, NEW done, Queued(s, before, done),
         NEW c, NEW g, s[1] = <<c, g, "in">>
  PROVE  PutsIn(s, before, done, c, g)
<1> DEFINE q == Tail(s)
           D == done \cup {<<c, g>>}
<1>1. /\ 1 \in DOMAIN s /\ OutOf(q, before) = {}
      /\ \A i \in DOMAIN q : \E d, h : <<d, h>> \in before /\ q[i] = <<d, Rank(before, d, h)>>
      /\ \A i \in DOMAIN s : i = 1 \/ (\E j \in DOMAIN q : q[j] = s[i])
  <2>1. 1 \in DOMAIN s /\ Follow(q, s, before)
    BY LaterTurns
  <2> HIDE DEF q
  <2> QED BY <2>1 DEF Follow
<1> HIDE DEF q
<1>2. \A a, b, d, e : Len(<<a, b>>) = 2 /\ Len(<<d, e, "in">>) = 3
  OBVIOUS
<1>3. \A d, h : s[1] # <<d, Rank(before, d, h)>>
  BY <1>2
<1>4. PICK d, h : <<d, h>> \in before \ {Meta} /\ s[1] = <<d, h, "in">>
  <2>1. \/ \E a, b : <<a, b>> \in before /\ s[1] = <<a, Rank(before, a, b)>>
        \/ \E a, b : <<a, b>> \in before \ {Meta} /\ s[1] = <<a, b, "in">>
    BY <1>1 DEF Queued
  <2> QED BY <1>3, <2>1
<1>5. d = c /\ h = g
  BY <1>4
<1>6. <<c, g>> \in before \ {Meta}
  BY <1>4, <1>5
<1>7. OutOf(s, before) = {<<c, g>>}
  <2>1. \A u \in before : u = <<u[1], u[2]>>
    BY DEF Queued
  <2>2. \A u \in before : s[1] = <<u[1], u[2], "in">> <=> u[1] = c /\ u[2] = g
    OBVIOUS
  <2>3. <<c, g>>[1] = c /\ <<c, g>>[2] = g /\ <<c, g>> \in before
    BY <1>6
  <2>4. \A u \in before : u = <<c, g>> <=> u[1] = c /\ u[2] = g
    BY <2>1, <2>3
  <2> QED BY <2>2, <2>3, <2>4 DEF OutOf
<1>8. ASSUME NEW a, NEW b, <<a, b>> \in before \ {Meta}
      PROVE  <<a, b>> \in D \/ \E i \in DOMAIN q : q[i] = <<a, Rank(before, a, b)>>
  <2>1. \/ <<a, b>> \in done \cup OutOf(s, before)
        \/ \E i \in DOMAIN s : s[i] = <<a, Rank(before, a, b)>>
    BY <1>8 DEF Queued
  <2> QED BY <1>1, <1>3, <1>7, <2>1
<1>9. D \subseteq before \ {Meta}
  BY <1>6 DEF Queued
<1> HIDE DEF D
<1>10. Queued(q, before, D)
  BY <1>1, <1>8, <1>9 DEF Queued
<1> QED BY <1>1, <1>6, <1>7, <1>10 DEF PutsIn, q, D

\* Between two changes one array is shown.
LEMMA OneArray ==
  ASSUME Inv, op.pc # "edit"
  PROVE  Held = Activated /\ iTmpArray = iOstComponents /\ Blocks
<1>1. Blocks /\ iTmpArray = iOstComponents
  BY DEF Inv, Shape, Blocks
<1> QED BY <1>1, LiveShown DEF Held

\* A change that does not belong to a refresh starts when there is none.
LEMMA NoRefreshUnderWay ==
  ASSUME Refreshing, op = Idle, refresh.queue = <<>>
  PROVE  refresh = NoRefresh
BY DEF Refreshing, RefreshState

LEMMA StillRefreshing ==
  ASSUME Refreshing, Lined, Unedited, op' = op, refresh' = refresh
  PROVE  Refreshing'
BY UneditedKeeps DEF Refreshing

LEMMA RefreshOver ==
  ASSUME refresh' = NoRefresh
  PROVE  Refreshing'
BY DEF Refreshing, RefreshState

\* The queue of RefreshActivations has every group at its index.
LEMMA RefreshBegins ==
  ASSUME Inv, Lined, RefreshActivations
  PROVE  Refreshing'
<1> DEFINE turn == {u \in Components \X (1 .. KMaxGroupId + 1) :
                      u[1] \in DOMAIN iOstComponents /\ u[2] <= iOstComponents[u[1]]}
           All == Components \X (1 .. KMaxGroupId + 1)
           B == Activated
<1>1. PICK queue \in SetToSeqs(turn) :
        refresh' = [queue |-> queue, before |-> Activated, done |-> {}]
  BY DEF RefreshActivations, InOrder
<1>2. /\ refresh'.queue = queue /\ refresh'.before = B /\ refresh'.done = {} /\ queue # <<>>
      /\ op' = Idle /\ Unedited /\ op = Idle
  BY <1>1 DEF RefreshActivations, CanStart, Rest, Unedited
<1>3. /\ Blocks /\ iTmpArray = iOstComponents /\ Held = B /\ Held' = B
      /\ B \subseteq Components \X Group
  BY <1>2, OneArray, UneditedKeeps, ShownPairs DEF Idle
<1>4. queue \in Seq(turn) /\ ToSet(queue) = turn
  <2>1. IsFiniteSet(All) /\ turn \in SUBSET All
    <3>1. IsFiniteSet(1 .. KMaxGroupId + 1)
      BY TraceAssumption, FS_Interval
    <3> QED BY <3>1, ComponentsAssumption, FS_Product
  <2> HIDE DEF turn, All
  <2> QED BY <2>1, Ordered
<1>5. \A c, k : /\ c \in DOMAIN iTmpArray /\ k \in 1 .. iTmpArray[c]
                => Rank(B, c, store[c][k]) = k /\ <<c, store[c][k]>> \in B
  BY <1>3, RankIsIndex
<1>6. \A c, g : <<c, g>> \in B =>
         /\ c \in DOMAIN iTmpArray /\ Rank(B, c, g) \in 1 .. iTmpArray[c]
         /\ Rank(B, c, g) \in 1 .. KMaxGroupId + 1
  BY <1>3, RankNames
<1>7. \A c \in DOMAIN iTmpArray : c \in Components /\ iTmpArray[c] \in Nat
  BY <1>3 DEF Blocks, Within
<1>8. ASSUME NEW v \in turn
      PROVE  \E c, g : <<c, g>> \in B /\ v = <<c, Rank(B, c, g)>>
  <2> DEFINE c == v[1]
             k == v[2]
  <2>1. v = <<c, k>> /\ c \in DOMAIN iTmpArray /\ k \in 1 .. iTmpArray[c]
    BY <1>3, <1>7
  <2> HIDE DEF c, k
  <2> QED BY <1>5, <2>1
<1>9. ASSUME NEW c, NEW g, <<c, g>> \in B
      PROVE  <<c, Rank(B, c, g)>> \in turn
  <2> DEFINE k == Rank(B, c, g)
  <2>1. /\ c \in Components /\ k \in 1 .. KMaxGroupId + 1 /\ c \in DOMAIN iOstComponents
        /\ k \in 1 .. iOstComponents[c] /\ iOstComponents[c] \in Nat
    BY <1>3, <1>6, <1>7, <1>9
  <2> HIDE DEF k
  <2>2. k <= iOstComponents[c]
    BY <2>1
  <2>3. <<c, k>> \in turn
    BY <2>1, <2>2
  <2> QED BY <2>3 DEF k
<1> HIDE DEF turn
<1>10. /\ \A i \in DOMAIN queue : queue[i] \in turn
       /\ \A v \in turn : \E i \in DOMAIN queue : queue[i] = v
  BY <1>4 DEF ToSet
<1> HIDE DEF B
<1>11. Queued(queue, B, {})
  BY <1>3, <1>8, <1>9, <1>10 DEF Queued
<1>12. OutOf(queue, B) = {}
  <2> SUFFICES ASSUME NEW u \in B, queue[1] = <<u[1], u[2], "in">> PROVE FALSE
    BY DEF OutOf
  <2>1. 1 \in DOMAIN queue
    BY <1>2, <1>4
  <2>2. PICK c, g : queue[1] = <<c, Rank(B, c, g)>>
    BY <1>8, <1>10, <2>1
  <2>3. Len(<<c, Rank(B, c, g)>>) = 2 /\ Len(<<u[1], u[2], "in">>) = 3
    OBVIOUS
  <2> QED BY <2>2, <2>3
<1>13. op'.pc # "edit"
  BY <1>2 DEF Idle
<1>14. RefreshState(refresh', op', Held')
  BY <1>2, <1>3, <1>11, <1>12, <1>13 DEF RefreshState
<1> QED BY <1>14 DEF Refreshing

\* The first turn of a queue, when no group is out.
LEMMA FirstTurn ==
  ASSUME Inv, Lined, Refreshing, op = Idle, refresh.queue # <<>>, Len(Head(refresh.queue)) = 2
  PROVE  /\ refresh.queue \in Seq(ToSet(refresh.queue))
         /\ Queued(refresh.queue, refresh.before, refresh.done)
         /\ Held = refresh.before /\ Ranked(refresh.before)
         /\ \E c, g : /\ <<c, g>> \in refresh.before /\ c \in DOMAIN iOstComponents
                      /\ refresh.queue[1] = <<c, Rank(refresh.before, c, g)>>
                      /\ Head(refresh.queue) = refresh.queue[1]
                      /\ store[c][Rank(refresh.before, c, g)] = g
<1> DEFINE s == refresh.queue
           B == refresh.before
           D == refresh.done
<1>1. refresh # NoRefresh
  BY DEF NoRefresh
<1>2. s \in Seq(ToSet(s)) /\ s # <<>> /\ Len(Head(s)) = 2 /\ Blocks
  BY DEF Inv, Shape, Turns
<1>3. Queued(s, B, D) /\ Held = B \ OutOf(s, B)
  BY <1>1 DEF Refreshing, RefreshState, Idle
<1> HIDE DEF s, B, D
<1>4. Head(s) = s[1] /\ 1 \in DOMAIN s
  BY <1>2, <1>3, LaterTurns
<1>5. \A a, b : s[1] # <<a, b, "in">>
  <2> SUFFICES ASSUME NEW a, NEW b, s[1] = <<a, b, "in">> PROVE FALSE
    OBVIOUS
  <2>1. Len(<<a, b, "in">>) = 3
    OBVIOUS
  <2>2. Len(s[1]) = 2
    BY <1>2, <1>4
  <2> QED BY <2>1, <2>2
<1>6. OutOf(s, B) = {}
  BY <1>5 DEF OutOf
<1>7. Held = B
  BY <1>3, <1>6
<1>8. PICK c, g : <<c, g>> \in B /\ s[1] = <<c, Rank(B, c, g)>>
  <2>1. \/ \E a, b : <<a, b>> \in B /\ s[1] = <<a, Rank(B, a, b)>>
        \/ \E a, b : s[1] = <<a, b, "in">>
    BY <1>3, <1>4 DEF Queued
  <2> QED BY <1>5, <2>1
<1>9. Ranked(B) /\ c \in DOMAIN iTmpArray /\ store[c][Rank(B, c, g)] = g
  BY <1>2, <1>7, <1>8, RankNames
<1>10. iTmpArray = iOstComponents
  BY OneArray DEF Idle
<1> QED BY <1>2, <1>3, <1>4, <1>7, <1>8, <1>9, <1>10 DEF s, B, D

\* DeactivateTrace of one group of a component in the array.
LEMMA OneRemove ==
  ASSUME NEW c \in DOMAIN iOstComponents, NEW g
  PROVE  DeactivateTodo(c, <<g>>) = <<Edit("remove", c, g)>>
<1>1. DeactivateTodo(c, <<g>>) = Edits("remove", c, <<g>>)
  BY DEF DeactivateTodo
<1>2. DOMAIN <<g>> = 1 .. 1 /\ <<g>>[1] = g
  OBVIOUS
<1>3. Edits("remove", c, <<g>>) = [k \in 1 .. 1 |-> Edit("remove", c, <<g>>[k])]
  BY <1>2 DEF Edits
<1> DEFINE e == Edit("remove", c, g)
<1>4. [k \in 1 .. 1 |-> Edit("remove", c, <<g>>[k])] = [k \in 1 .. 1 |-> e]
  BY <1>2
<1> HIDE DEF e
<1>5. [k \in 1 .. 1 |-> e] = <<e>>
  OBVIOUS
<1> QED BY <1>1, <1>3, <1>4, <1>5 DEF e

LEMMA TwoElements ==
  ASSUME NEW a, NEW b
  PROVE  <<a>> \o <<b>> = <<a, b>>
<1> DEFINE S == {a, b}
           p == <<a>>
           q == <<b>>
           s == p \o q
           t == <<a, b>>
<1>1. p \in Seq(S) /\ q \in Seq(S) /\ Len(p) = 1 /\ Len(q) = 1 /\ p[1] = a /\ q[1] = b
  OBVIOUS
<1>2. t \in Seq(S) /\ Len(t) = 2 /\ t[1] = a /\ t[2] = b
  OBVIOUS
<1> HIDE DEF S, p, q, t
<1>3. /\ s \in Seq(S) /\ Len(s) = 2
      /\ \A i \in 1 .. 2 : s[i] = IF i <= 1 THEN p[i] ELSE q[i - 1]
  BY <1>1, ConcatProperties
<1> HIDE DEF s
<1>4. s[1] = a /\ s[2] = b
  <2>1. s[2] = q[2 - 1]
    BY <1>3
  <2> QED BY <1>1, <1>3, <2>1
<1>5. \A i \in 1 .. 2 : s[i] = t[i]
  <2>1. \A i \in 1 .. 2 : i = 1 \/ i = 2
    OBVIOUS
  <2> QED BY <1>2, <1>4, <2>1
<1>6. s = t
  BY <1>2, <1>3, <1>5, SeqEqual
<1> QED BY <1>6 DEF s, p, q, t

\* ActivateTrace of one group.
LEMMA OneAdd ==
  ASSUME NEW c, NEW g
  PROVE  ActivateTodo(c, <<g>>) = <<Edit("component", c, 0), Edit("add", c, g)>>
<1> DEFINE a == Edit("component", c, 0)
           e == Edit("add", c, g)
<1>2. DOMAIN <<g>> = 1 .. 1 /\ <<g>>[1] = g
  OBVIOUS
<1>3. Edits("add", c, <<g>>) = [k \in 1 .. 1 |-> Edit("add", c, <<g>>[k])]
  BY <1>2 DEF Edits
<1>4. [k \in 1 .. 1 |-> Edit("add", c, <<g>>[k])] = [k \in 1 .. 1 |-> e]
  BY <1>2
<1>5. ActivateTodo(c, <<g>>) = <<a>> \o Edits("add", c, <<g>>)
  BY DEF ActivateTodo
<1> HIDE DEF a, e
<1>6. [k \in 1 .. 1 |-> e] = <<e>>
  OBVIOUS
<1>7. <<a>> \o <<e>> = <<a, e>>
  BY TwoElements
<1> QED BY <1>3, <1>4, <1>5, <1>6, <1>7 DEF a, e

LEMMA RefreshTakesOut ==
  ASSUME Inv, Lined, Refreshing, RefreshOut
  PROVE  Refreshing'
<1> DEFINE s == refresh.queue
           B == refresh.before
           D == refresh.done
<1>1. op = Idle /\ s # <<>> /\ Len(Head(s)) = 2 /\ Rest
  BY DEF RefreshOut
<1>2. /\ s \in Seq(ToSet(s)) /\ Queued(s, B, D) /\ Held = B /\ Ranked(B)
      /\ \E c, g : /\ <<c, g>> \in B /\ c \in DOMAIN iOstComponents
                   /\ s[1] = <<c, Rank(B, c, g)>> /\ Head(s) = s[1]
                   /\ store[c][Rank(B, c, g)] = g
  BY <1>1, FirstTurn
<1>3. PICK c, g : /\ <<c, g>> \in B /\ c \in DOMAIN iOstComponents
                  /\ s[1] = <<c, Rank(B, c, g)>> /\ Head(s) = s[1]
                  /\ store[c][Rank(B, c, g)] = g
  BY <1>2
<1>4. Head(s)[1] = c /\ store[Head(s)[1]][Head(s)[2]] = g
  <2>1. <<c, Rank(B, c, g)>>[1] = c /\ <<c, Rank(B, c, g)>>[2] = Rank(B, c, g)
    OBVIOUS
  <2> QED BY <1>3, <2>1
<1>5. refresh = [queue |-> s, before |-> B, done |-> D]
  BY DEF Inv, Shape, Turns
<1>6. CASE c = Kernel /\ g = EMetaTrace
  <2> DEFINE q == Tail(s)
  <2>1. /\ refresh' = IF Len(s) = 1 THEN NoRefresh ELSE [refresh EXCEPT !.queue = q]
        /\ op' = op /\ Unedited
    BY <1>1, <1>4, <1>6 DEF RefreshOut, Rest, Unedited
  <2>2. CASE Len(s) = 1
    BY <2>1, <2>2, RefreshOver
  <2>3. CASE Len(s) # 1
    <3>1. q # <<>>
      <4> HIDE DEF s
      <4>1. Len(s) \in Nat /\ Len(s) # 0 /\ Len(q) = Len(s) - 1
        BY <1>1, <1>2
      <4> QED BY <2>3, <4>1
    <3>2. Queued(q, B, D) /\ OutOf(q, B) = {}
      BY <1>1, <1>2, <1>3, <1>6, SkipTurn DEF Meta
    <3> HIDE DEF q, s, B, D
    <3>3. refresh' = [queue |-> q, before |-> B, done |-> D]
      BY <1>5, <2>1, <2>3
    <3>4. refresh'.queue = q /\ refresh'.before = B /\ refresh'.done = D
      BY <3>3
    <3>5. Held' = B /\ op'.pc # "edit"
      BY <1>1, <1>2, <2>1, UneditedKeeps DEF Idle
    <3>6. RefreshState(refresh', op', Held')
      BY <3>1, <3>2, <3>4, <3>5 DEF RefreshState
    <3> QED BY <3>6 DEF Refreshing
  <2> QED BY <2>2, <2>3
<1>7. CASE ~ (c = Kernel /\ g = EMetaTrace)
  <2> DEFINE r == <<<<c, g, "in">>>> \o Tail(s)
             todo == DeactivateTodo(c, <<g>>)
  <2>1. Start(c, todo, TRUE, FALSE) /\ refresh' = [refresh EXCEPT !.queue = r]
    BY <1>4, <1>7 DEF RefreshOut
  <2>2. <<c, g>> \in B \ {Meta}
    BY <1>3, <1>7 DEF Meta
  <2>3. Queued(r, B, D) /\ OutOf(r, B) = {<<c, g>>}
    <3> HIDE DEF s, B, D
    <3> QED BY <1>1, <1>2, <1>3, <2>2, OutTurn
  <2>4. todo = <<Edit("remove", c, g)>>
    BY <1>3, OneRemove
  <2> HIDE DEF r, todo, s, B, D
  <2>5. refresh' = [queue |-> r, before |-> B, done |-> D]
    BY <1>5, <2>1
  <2>6. refresh'.queue = r /\ refresh'.before = B /\ refresh'.done = D
    BY <2>5
  <2>7. /\ op'.pc = "edit" /\ op'.todo = todo /\ op'.all = FALSE /\ op'.fromSettings = FALSE
        /\ op'.rest = <<>> /\ op' # Idle
    BY <2>1 DEF Start, Idle
  <2>8. Held' = B
    <3>1. Unedited
      BY <1>1, <2>1, OneArray DEF Unedited, Start, Rest, Idle
    <3> QED BY <1>2, <3>1, UneditedKeeps
  <2>9. EditsLeft(todo, B, B, {<<c, g>>})
    BY <2>2, <2>4 DEF EditsLeft
  <2>10. RefreshState(refresh', op', Held')
    BY <2>3, <2>6, <2>7, <2>8, <2>9 DEF RefreshState
  <2> QED BY <2>10 DEF Refreshing
<1> QED BY <1>6, <1>7

LEMMA RefreshPutsIn ==
  ASSUME Inv, Lined, Refreshing, RefreshIn
  PROVE  Refreshing'
<1> DEFINE s == refresh.queue
           B == refresh.before
           D == refresh.done
           q == Tail(s)
           c == Head(s)[1]
           g == Head(s)[2]
           todo == ActivateTodo(c, <<g>>)
           E == D \cup {<<c, g>>}
<1>1. /\ op = Idle /\ s # <<>> /\ Len(Head(s)) = 3 /\ Rest /\ Start(c, todo, FALSE, FALSE)
      /\ refresh' = [refresh EXCEPT !.queue = q, !.done = E]
  BY DEF RefreshIn
<1>2. s \in Seq(ToSet(s)) /\ refresh = [queue |-> s, before |-> B, done |-> D]
  BY DEF Inv, Shape, Turns
<1>3. Queued(s, B, D) /\ Held = B \ OutOf(s, B)
  <2>1. refresh # NoRefresh
    BY <1>1 DEF NoRefresh
  <2> QED BY <1>1, <2>1 DEF Refreshing, RefreshState, Idle
<1>4. todo = <<Edit("component", c, 0), Edit("add", c, g)>>
  <2> HIDE DEF c, g
  <2> QED BY OneAdd
<1> HIDE DEF s, B, D, todo, q, E
<1>5. Head(s) = s[1] /\ 1 \in DOMAIN s
  BY <1>1, <1>2, <1>3, LaterTurns
<1>6. s[1] = <<c, g, "in">>
  <2>1. \/ \E a, b : s[1] = <<a, Rank(B, a, b)>>
        \/ \E a, b : s[1] = <<a, b, "in">>
    BY <1>3, <1>5, TurnKinds, Zenon
  <2>2. \A a, b : Len(<<a, Rank(B, a, b)>>) = 2
    OBVIOUS
  <2>3. PICK a, b : s[1] = <<a, b, "in">>
    BY <1>1, <1>5, <2>1, <2>2
  <2>4. a = c /\ b = g
    BY <1>5, <2>3
  <2> QED BY <2>3, <2>4
<1> HIDE DEF c, g
<1>7. /\ <<c, g>> \in B \ {Meta} /\ OutOf(s, B) = {<<c, g>>}
      /\ Queued(q, B, D \cup {<<c, g>>}) /\ OutOf(q, B) = {}
  <2>1. PutsIn(s, B, D, c, g)
    BY <1>1, <1>2, <1>3, <1>6, InTurn
  <2> QED BY <2>1 DEF PutsIn, q
<1>8. refresh' = [queue |-> q, before |-> B, done |-> E]
  BY <1>1, <1>2
<1>9. refresh'.queue = q /\ refresh'.before = B /\ refresh'.done = E
  BY <1>8
<1>10. /\ op'.pc = "edit" /\ op'.todo = todo /\ op'.all = FALSE /\ op'.fromSettings = FALSE
       /\ op'.rest = <<>> /\ op' # Idle
  BY <1>1 DEF Start, Idle
<1>11. Held' = B \ {<<c, g>>}
  <2>1. Unedited
    BY <1>1, OneArray DEF Unedited, Start, Rest, Idle
  <2> QED BY <1>3, <1>7, <2>1, UneditedKeeps
<1>12. EditsLeft(todo, B \ {<<c, g>>}, B, {})
  BY <1>4, <1>7 DEF EditsLeft
<1>13. Queued(q, B, E)
  BY <1>7 DEF E
<1>14. RefreshState(refresh', op', Held')
  BY <1>7, <1>9, <1>10, <1>11, <1>12, <1>13 DEF RefreshState
<1> QED BY <1>14 DEF Refreshing

LEMMA RefreshEdits ==
  ASSUME Inv, Inv', Lined, Refreshing, EditOne
  PROVE  Refreshing'
<1> DEFINE e == Head(op.todo)
           u == <<e.c, e.g>>
           B == refresh.before
           out == OutOf(refresh.queue, B)
<1> SUFFICES ASSUME refresh # NoRefresh PROVE Refreshing'
  <2>1. refresh' = refresh
    BY DEF EditOne
  <2> QED BY <2>1, RefreshOver
<1>1. /\ op.pc = "edit" /\ op'.pc = "edit" /\ op'.todo = Tail(op.todo) /\ op.todo # <<>>
      /\ op'.fromSettings = op.fromSettings /\ op'.rest = op.rest /\ op'.all = op.all
      /\ op' # Idle
      /\ \/ /\ Held' = Held /\ (e.do = "add" /\ e.g \in Group => u \in Held)
            /\ (e.do = "remove" => u \notin Held)
         \/ e.do = "add" /\ Held' = Held \cup {u}
         \/ e.do = "remove" /\ Held' = Held \ {u}
  BY EditEffect
<1>2. refresh' = refresh
  BY DEF EditOne
<1>3. /\ Queued(refresh.queue, B, refresh.done)
      /\ ~ op.all /\ ~ op.fromSettings /\ op.rest = <<>>
      /\ EditsLeft(op.todo, Held, B, out)
  BY <1>1 DEF Refreshing, RefreshState
<1>4. \A c, g : <<c, g>> \in B => g \in Group
  BY <1>3 DEF Queued
<1> HIDE DEF B, out
<1>5. PICK c, g : /\ <<c, g>> \in B
                  /\ \/ op.todo = <<Edit("remove", c, g)>> /\ out = {<<c, g>>} /\ Held = B
                     \/ /\ \/ op.todo = <<Edit("component", c, 0), Edit("add", c, g)>>
                           \/ op.todo = <<Edit("add", c, g)>>
                        /\ out = {} /\ Held = B \ {<<c, g>>}
  BY <1>1, <1>3 DEF EditsLeft
<1>6. \A x, y : /\ Head(<<x>>) = x /\ Tail(<<x>>) = <<>>
                /\ Head(<<x, y>>) = x /\ Tail(<<x, y>>) = <<y>>
  OBVIOUS
<1>7. \A x, y, z : Edit(x, y, z).do = x /\ Edit(x, y, z).c = y /\ Edit(x, y, z).g = z
  BY DEF Edit
<1>8. EditsLeft(op'.todo, Held', B, out)
  <2>1. CASE op.todo = <<Edit("remove", c, g)>> /\ out = {<<c, g>>} /\ Held = B
    <3>1. e = Edit("remove", c, g) /\ op'.todo = <<>>
      BY <1>1, <1>6, <2>1
    <3>2. e.do = "remove" /\ u = <<c, g>>
      BY <1>7, <3>1
    <3> HIDE DEF e, u
    <3>3. Held' = B \ out
      BY <1>1, <1>5, <2>1, <3>2
    <3> QED BY <3>1, <3>3 DEF EditsLeft
  <2>2. CASE /\ op.todo = <<Edit("component", c, 0), Edit("add", c, g)>>
             /\ out = {} /\ Held = B \ {<<c, g>>}
    <3>1. e = Edit("component", c, 0) /\ op'.todo = <<Edit("add", c, g)>>
      BY <1>1, <1>6, <2>2
    <3>2. e.do = "component"
      BY <1>7, <3>1
    <3> HIDE DEF e, u
    <3>3. Held' = B \ {<<c, g>>}
      BY <1>1, <2>2, <3>2
    <3> QED BY <1>5, <2>2, <3>1, <3>3 DEF EditsLeft
  <2>3. CASE op.todo = <<Edit("add", c, g)>> /\ out = {} /\ Held = B \ {<<c, g>>}
    <3>1. e = Edit("add", c, g) /\ op'.todo = <<>>
      BY <1>1, <1>6, <2>3
    <3>2. e.do = "add" /\ e.g = g /\ u = <<c, g>> /\ g \in Group
      BY <1>4, <1>5, <1>7, <3>1
    <3> HIDE DEF e, u
    <3>3. Held' = B \ out
      BY <1>1, <1>5, <2>3, <3>2
    <3> QED BY <3>1, <3>3 DEF EditsLeft
  <2> QED BY <1>5, <2>1, <2>2, <2>3
<1>9. RefreshState(refresh', op', Held')
  BY <1>1, <1>2, <1>3, <1>8 DEF RefreshState, B, out
<1> QED BY <1>9 DEF Refreshing

LEMMA RefreshSwaps ==
  ASSUME Inv, Inv', Lined, Refreshing, SetNewComponentsArrayPtr
  PROVE  Refreshing'
<1>1. refresh' = refresh
  BY DEF SetNewComponentsArrayPtr
<1>2. /\ op.pc = "edit" /\ op'.pc = "swapped" /\ op' # Idle /\ op.todo = <<>>
      /\ ~ op.all => Held' = Held
  BY SwapEffect
<1>3. ASSUME refresh # NoRefresh
      PROVE  /\ Queued(refresh.queue, refresh.before, refresh.done)
             /\ Held' = refresh.before \ OutOf(refresh.queue, refresh.before)
  <2> DEFINE out == OutOf(refresh.queue, refresh.before)
  <2>1. /\ Queued(refresh.queue, refresh.before, refresh.done) /\ ~ op.all
        /\ EditsLeft(<<>>, Held, refresh.before, out)
    BY <1>2, <1>3 DEF Refreshing, RefreshState
  <2>2. \A x, y : <<x>> # <<>> /\ <<x, y>> # <<>>
    OBVIOUS
  <2> HIDE DEF out
  <2>3. Held = refresh.before \ out
    BY <2>1, <2>2 DEF EditsLeft
  <2> QED BY <1>2, <2>1, <2>3 DEF out
<1>4. RefreshState(refresh', op', Held')
  BY <1>1, <1>2, <1>3 DEF RefreshState
<1> QED BY <1>4 DEF Refreshing

LEMMA RefreshReports ==
  ASSUME Inv, Lined, Refreshing, HandleTraceActivationChanges
  PROVE  Refreshing'
<1>1. /\ op.pc = "swapped" /\ op' = Idle /\ Unedited
      /\ refresh' = IF refresh.queue = <<>> THEN NoRefresh ELSE refresh
  BY DEF HandleTraceActivationChanges, Unedited, array
<1>2. CASE refresh.queue = <<>>
  BY <1>1, <1>2, RefreshOver
<1>3. CASE refresh.queue # <<>>
  <2>1. Held' = Held /\ op'.pc # "edit" /\ refresh' = refresh
    BY <1>1, <1>3, UneditedKeeps DEF Idle
  <2>2. RefreshState(refresh', op', Held')
    BY <1>1, <1>3, <2>1 DEF Refreshing, RefreshState
  <2> QED BY <2>2 DEF Refreshing
<1> QED BY <1>2, <1>3

LEMMA RefreshingInit ==
  ASSUME Init
  PROVE  Refreshing
BY DEF Init, Refreshing, RefreshState

LEMMA RefreshingStep ==
  ASSUME Inv, Inv', Lined, Refreshing, [Next]_vars
  PROVE  Refreshing'
<1> DEFINE Idles == op = Idle /\ refresh.queue = <<>> /\ refresh' = refresh
<1>0. ASSUME Idles PROVE Refreshing'
  BY <1>0, NoRefreshUnderWay, RefreshOver
<1>1. CASE UNCHANGED vars
  <2>1. Unedited /\ op' = op /\ refresh' = refresh
    BY <1>1 DEF vars, Unedited, array
  <2> QED BY <2>1, StillRefreshing
<1>2. CASE Changes
  <2>1. ASSUME NEW c, NEW gs, ActivateTrace(c, gs) PROVE Idles
    BY <2>1 DEF ActivateTrace, CanStart
  <2>2. ASSUME NEW c, NEW gs, DeactivateTrace(c, gs) PROVE Idles
    BY <2>2 DEF DeactivateTrace, CanStart
  <2>3. ASSUME NEW c, NEW gs, OverwriteGroups(c, gs) PROVE Idles
    BY <2>3 DEF OverwriteGroups, CanStart
  <2>4. ASSUME NEW c, DeactivateAll(c) PROVE Idles
    BY <2>4 DEF DeactivateAll, CanStart
  <2>5. ASSUME PrimeDfc \/ ClearItem PROVE Refreshing'
    <3>1. Unedited /\ op' = op /\ refresh' = refresh
      BY <2>5 DEF PrimeDfc, ClearItem, Unedited, array
    <3> QED BY <3>1, StillRefreshing
  <2> HIDE DEF Idles
  <2> QED BY <1>0, <1>2, <2>1, <2>2, <2>3, <2>4, <2>5, RefreshEdits, RefreshSwaps,
             RefreshReports DEF Changes
<1>3. CASE Refresh
  BY <1>3, RefreshBegins, RefreshTakesOut, RefreshPutsIn DEF Refresh
<1>4. CASE Settings
  <2>1. ASSUME RegisterSettings \/ UnregisterSettings PROVE Idles
    BY <2>1 DEF RegisterSettings, UnregisterSettings, CanStart
  <2>2. ASSUME Restart PROVE refresh' = NoRefresh
    BY <2>2 DEF Restart
  <2>3. ASSUME ReadFromSettings PROVE refresh' = NoRefresh
    <3>1. op.pc = "edit" /\ op.rest # <<>> /\ refresh' = refresh
      BY <2>3 DEF ReadFromSettings
    <3> QED BY <3>1 DEF Refreshing, RefreshState
  <2> HIDE DEF Idles
  <2> QED BY <1>0, <1>4, <2>1, <2>2, <2>3, RefreshOver DEF Settings
<1>5. CASE SetWriter \/ Traces \/ Receivers \/ Writers \/ RegisterWriter(XTI)
  <2>1. Steady /\ op' = op
    BY <1>5, QuietKinds
  <2>2. refresh' = refresh
    <3>1. ASSUME NEW w, RegisterWriter(w) PROVE refresh' = refresh
      BY <3>1 DEF RegisterWriter, PrepareSetWriter
    <3>2. ASSUME NEW w, UnregisterWriter(w) PROVE refresh' = refresh
      BY <3>2 DEF UnregisterWriter, PrepareSetWriter
    <3>3. ASSUME NEW w, SwitchToWriter(w) PROVE refresh' = refresh
      BY <3>3 DEF SwitchToWriter, PrepareSetWriter
    <3>4. ASSUME SetWriter \/ Traces \/ Receivers PROVE refresh' = refresh
      BY <3>4 DEF SetWriter, Traces, HandleFrame, CompareItem, LookUp, SwapPointers, WriteWord, Seen, Receivers,
                  RegisterNotificationReceiver, UnregisterNotificationReceiver
    <3> QED BY <1>5, <3>1, <3>2, <3>3, <3>4 DEF Writers
  <2> QED BY <2>1, <2>2, StillRefreshing DEF Steady
<1>6. CASE Next
  <2>1. \/ Changes \/ SetWriter \/ Refresh \/ Traces \/ RegisterWriter(XTI) \/ Receivers
        \/ Settings \/ Writers
    BY <1>6 DEF Next
  <2> QED BY <1>2, <1>3, <1>4, <1>5, <2>1
<1> QED BY <1>1, <1>6

\* What the queue says is out is the first turn.
LEMMA RefreshingKeeps ==
  ASSUME Inv, Refreshing
  PROVE  RefreshKeepsTraces
<1> DEFINE s == refresh.queue
           B == refresh.before
           D == refresh.done
           out == {<<q[1], q[2]>> : q \in {r \in ToSet(s) : Len(r) = 3}}
<1> SUFFICES ASSUME refresh # NoRefresh, op.pc = "swapped"
             PROVE  /\ Activated = B \ out
                    /\ s = <<>> => D = B \ {<<Kernel, EMetaTrace>>}
  BY DEF RefreshKeepsTraces
<1>1. Queued(s, B, D) /\ Held = B \ OutOf(s, B) /\ Activated = Held
  BY OneArray DEF Refreshing, RefreshState
<1>2. s \in Seq(ToSet(s))
  BY DEF Inv, Shape, Turns
<1> HIDE DEF s, B, D
<1>3. \A a, b, c : Len(<<a, b>>) = 2 /\ Len(<<a, c, "in">>) = 3
  OBVIOUS
<1>4. ASSUME NEW q \in ToSet(s), Len(q) = 3
      PROVE  <<q[1], q[2]>> \in OutOf(s, B)
  <2>1. PICK i \in DOMAIN s : s[i] = q
    BY DEF ToSet
  <2>2. \/ \E c, g : q = <<c, Rank(B, c, g)>>
        \/ i = 1 /\ \E c, g : <<c, g>> \in B /\ q = <<c, g, "in">>
    BY <1>1, <2>1 DEF Queued
  <2>0. ASSUME NEW c, NEW g, q = <<c, Rank(B, c, g)>> PROVE FALSE
    <3>1. Len(<<c, Rank(B, c, g)>>) = 2
      OBVIOUS
    <3> QED BY <1>4, <2>0, <3>1
  <2>3. PICK c, g : <<c, g>> \in B /\ q = <<c, g, "in">>
    BY <2>0, <2>2
  <2>4. i = 1
    BY <2>0, <2>2
  <2>5. s # <<>> /\ s[1] = q
    BY <1>2, <2>1, <2>4
  <2> DEFINE u == <<c, g>>
  <2>6. u \in B /\ u[1] = c /\ u[2] = g /\ q[1] = c /\ q[2] = g
    BY <2>3
  <2>7. u \in OutOf(s, B)
    BY <2>3, <2>5, <2>6 DEF OutOf
  <2> QED BY <2>6, <2>7
<1>5. ASSUME NEW u \in OutOf(s, B)
      PROVE  \E q \in ToSet(s) : Len(q) = 3 /\ u = <<q[1], q[2]>>
  <2>1. u \in B /\ s # <<>> /\ s[1] = <<u[1], u[2], "in">>
    BY DEF OutOf
  <2>2. u = <<u[1], u[2]>>
    BY <1>1, <2>1 DEF Queued
  <2>3. s[1] \in ToSet(s)
    <3>1. 1 \in DOMAIN s
      <4> DEFINE S == ToSet(s)
      <4>1. s \in Seq(S)
        BY <1>2
      <4> HIDE DEF S
      <4> QED BY <2>1, <4>1
    <3> QED BY <3>1 DEF ToSet
  <2>4. Len(s[1]) = 3 /\ s[1][1] = u[1] /\ s[1][2] = u[2]
    BY <2>1
  <2> QED BY <2>2, <2>3, <2>4
<1>6. out = OutOf(s, B)
  BY <1>4, <1>5
<1>7. ASSUME s = <<>> PROVE D = B \ {<<Kernel, EMetaTrace>>}
  <2>1. DOMAIN s = {} /\ OutOf(s, B) = {}
    BY <1>7 DEF OutOf
  <2>2. \A c, g : <<c, g>> \in B \ {Meta} => <<c, g>> \in D
    BY <1>1, <2>1 DEF Queued
  <2>3. B \ {Meta} \subseteq Components \X Group /\ D \subseteq B \ {Meta}
    BY <1>1 DEF Queued
  <2> DEFINE R == B \ {Meta}
  <2>4. R \subseteq D
    <3>1. R \subseteq Components \X Group /\ \A c, g : <<c, g>> \in R => <<c, g>> \in D
      BY <2>2, <2>3
    <3> HIDE DEF R
    <3> QED BY <3>1, SubPairs
  <2> QED BY <2>3, <2>4 DEF Meta
<1> QED BY <1>1, <1>6, <1>7

LEMMA RefreshingAlways == Spec => []Refreshing
<1>1. Init => Refreshing
  BY RefreshingInit
<1>2. Inv /\ Inv' /\ Lined /\ Refreshing /\ [Next]_vars => Refreshing'
  BY RefreshingStep
<1> QED BY <1>1, <1>2, TrackedAlways, PTL DEF Spec

\* RefreshActivations, which reads a group id when its turn comes, takes every
\* group but the meta trace out and in again, and leaves what was activated.
THEOREM RefreshAlwaysKeepsTraces == Spec => []RefreshKeepsTraces
<1>1. Inv /\ Refreshing => RefreshKeepsTraces
  BY RefreshingKeeps
<1> QED BY <1>1, Inductive, RefreshingAlways, PTL

-----------------------------------------------------------------------------
(* The groups in use.                                                      *)

\* A group of a component is a printf of the kernel's or is used by it.
KnownIn(uses, c, g) ==
  g \in Group => (c = Kernel /\ g <= EPlatsecPrintf) \/ <<c, g>> \in uses

AllKnown(S, uses) == \A c, g : <<c, g>> \in S => KnownIn(uses, c, g)

TodoKnown(todo, uses) ==
  \A k \in DOMAIN todo : todo[k].do = "add" => KnownIn(uses, todo[k].c, todo[k].g)

SavedKnown(groups, uses) ==
  \A c \in DOMAIN groups : \A g \in ToSet(groups[c]) : KnownIn(uses, c, g)

EditKnown(o, uses) ==
  o.pc = "edit" => TodoKnown(o.todo, uses) /\ (o.rest # <<>> => o.fromSettings)

\* What is shown, what is to be added, what is saved and what a refresh is to
\* put in again are groups in use.
Uses == /\ AllKnown(Held, scenario.uses) /\ EditKnown(op, scenario.uses)
        /\ SavedKnown(saved.groups, scenario.uses) /\ AllKnown(refresh.before, scenario.uses)

LEMMA ActivateKnown ==
  ASSUME NEW S, NEW gs \in Seq(S), NEW c, NEW uses, \A g \in ToSet(gs) : KnownIn(uses, c, g)
  PROVE  TodoKnown(ActivateTodo(c, gs), uses)
<1> DEFINE r == ActivateTodo(c, gs)
<1>1. /\ DOMAIN r = 1 .. Len(gs) + 1 /\ r[1] = Edit("component", c, 0)
      /\ \A k \in 1 .. Len(gs) : r[k + 1] = Edit("add", c, gs[k])
  BY ActivateShape
<1>2. Len(gs) \in Nat /\ DOMAIN gs = 1 .. Len(gs)
  OBVIOUS
<1> HIDE DEF r
<1>3. ASSUME NEW k \in DOMAIN r, r[k].do = "add" PROVE KnownIn(uses, r[k].c, r[k].g)
  <2>1. k # 1
    <3>1. Edit("component", c, 0).do # "add"
      BY DEF Edit
    <3> QED BY <1>1, <1>3, <3>1
  <2>2. k - 1 \in 1 .. Len(gs) /\ (k - 1) + 1 = k
    BY <1>1, <1>2, <2>1
  <2>3. r[k] = Edit("add", c, gs[k - 1]) /\ gs[k - 1] \in ToSet(gs)
    BY <1>1, <1>2, <2>2 DEF ToSet
  <2>4. r[k].c = c /\ r[k].g = gs[k - 1]
    BY <2>3 DEF Edit
  <2> QED BY <2>3, <2>4
<1>4. TodoKnown(r, uses)
  BY <1>3 DEF TodoKnown
<1> QED BY <1>4 DEF r

LEMMA DeactivateKnown ==
  ASSUME NEW S, NEW gs \in Seq(S), NEW c, NEW uses
  PROVE  TodoKnown(DeactivateTodo(c, gs), uses)
BY DeactivateShape DEF TodoKnown

LEMMA OverwriteKnown ==
  ASSUME NEW S, NEW gone \in Seq(S), NEW T, NEW new \in Seq(T), NEW c, NEW uses,
         \A g \in T : KnownIn(uses, c, g)
  PROVE  TodoKnown(OverwriteTodo(c, gone, new), uses)
<1> DEFINE f == <<Edit("component", c, 0)>>
           a == Edits("remove", c, gone)
           b == Edits("add", c, new)
           A == ToSet(f) \cup ToSet(a) \cup ToSet(b)
           p == f \o a
           r == p \o b
<1>1. /\ a \in Seq(ToSet(a)) /\ Len(a) = Len(gone) /\ Len(gone) \in Nat
      /\ \A k \in 1 .. Len(gone) : a[k] = Edit("remove", c, gone[k])
  BY EditsShape
<1>2. /\ b \in Seq(ToSet(b)) /\ Len(b) = Len(new) /\ Len(new) \in Nat
      /\ \A k \in 1 .. Len(new) : b[k] = Edit("add", c, new[k])
  BY EditsShape
<1>3. f \in Seq(ToSet(f)) /\ Len(f) = 1 /\ f[1] = Edit("component", c, 0)
  BY DEF ToSet
<1> HIDE DEF f, a, b
<1>4. f \in Seq(A) /\ a \in Seq(A) /\ b \in Seq(A)
  BY <1>1, <1>2, <1>3
<1> HIDE DEF A
<1>5. /\ p \in Seq(A) /\ Len(p) = 1 + Len(gone)
      /\ \A k \in 1 .. 1 : p[k] = f[k]
      /\ \A k \in 1 .. Len(gone) : p[k + 1] = a[k]
  <2>1. p \in Seq(A)
    BY <1>4, ConcatProperties
  <2>2. /\ Len(p) = Len(f) + Len(a) /\ \A k \in 1 .. Len(f) : p[k] = f[k]
        /\ \A k \in 1 .. Len(a) : p[k + Len(f)] = a[k]
    BY <1>4, ConcatElements
  <2> HIDE DEF p
  <2> QED BY <1>1, <1>3, <2>1, <2>2
<1> HIDE DEF p
<1>6. /\ DOMAIN r = 1 .. Len(p) + Len(new)
      /\ \A k \in 1 .. Len(p) : r[k] = p[k]
      /\ \A k \in 1 .. Len(new) : r[k + Len(p)] = b[k]
  <2>1. /\ DOMAIN r = 1 .. Len(p) + Len(b) /\ \A k \in 1 .. Len(p) : r[k] = p[k]
        /\ \A k \in 1 .. Len(b) : r[k + Len(p)] = b[k]
    <3>1. p \in Seq(A) /\ b \in Seq(A)
      BY <1>4, <1>5
    <3> QED BY <3>1, ConcatElements
  <2> HIDE DEF r
  <2> QED BY <1>2, <2>1
<1> HIDE DEF r
<1>7. ASSUME NEW k \in DOMAIN r, r[k].do = "add" PROVE KnownIn(uses, r[k].c, r[k].g)
  <2>1. \A x, y : Edit("component", x, y).do # "add" /\ Edit("remove", x, y).do # "add"
    BY DEF Edit
  <2>2. k # 1
    BY <1>1, <1>3, <1>5, <1>6, <1>7, <2>1
  <2>3. ASSUME k <= Len(p) PROVE FALSE
    <3>1. k - 1 \in 1 .. Len(gone) /\ (k - 1) + 1 = k /\ k \in 1 .. Len(p)
      BY <1>1, <1>5, <1>6, <2>2, <2>3
    <3>2. r[k] = Edit("remove", c, gone[k - 1])
      BY <1>1, <1>5, <1>6, <3>1
    <3> QED BY <1>7, <2>1, <3>2
  <2> DEFINE j == k - Len(p)
  <2>4. j \in 1 .. Len(new) /\ j + Len(p) = k
    BY <1>1, <1>2, <1>5, <1>6, <2>3
  <2> HIDE DEF j
  <2>5. r[k] = Edit("add", c, new[j]) /\ new[j] \in T
    BY <1>2, <1>6, <2>4
  <2>6. r[k].c = c /\ r[k].g = new[j]
    BY <2>5 DEF Edit
  <2> QED BY <2>5, <2>6
<1>8. TodoKnown(r, uses)
  BY <1>7 DEF TodoKnown
<1> QED BY <1>8 DEF OverwriteTodo, r, p, f, a, b

\* The groups of a message are in use or invalid.
LEMMA MessageKnown ==
  ASSUME Inv, NEW c, NEW gs \in Messages(c)
  PROVE  gs \in Seq(Requested(c)) /\ \A g \in ToSet(gs) : KnownIn(scenario.uses, c, g)
<1>1. gs \in Seq(Requested(c))
  BY MessageIsSeq
<1>2. ToSet(gs) \subseteq Requested(c)
  <2> DEFINE S == Requested(c)
  <2> HIDE DEF S
  <2>1. gs \in Seq(S)
    BY <1>1 DEF S
  <2>2. ToSet(gs) \subseteq S
    BY <2>1, ElementsOfSeq
  <2> QED BY <2>2 DEF S
<1>3. ASSUME NEW g \in Requested(c) PROVE KnownIn(scenario.uses, c, g)
  <2>1. PICK u \in scenario.uses : u[1] = c /\ g = u[2]
    BY <1>3 DEF Requested
  <2>2. u = <<u[1], u[2]>>
    <3>1. scenario.uses \subseteq Nat \X Nat
      BY TraceAssumption DEF Inv, Shape
    <3> QED BY <3>1
  <2>3. <<c, g>> \in scenario.uses
    BY <2>1, <2>2
  <2> QED BY <2>3 DEF KnownIn
<1> QED BY <1>1, <1>2, <1>3

LEMMA SubKnown ==
  ASSUME NEW S, NEW T, NEW uses, AllKnown(S, uses), T \subseteq S
  PROVE  AllKnown(T, uses)
BY DEF AllKnown

LEMMA HeldKnownStep ==
  ASSUME Inv, Inv', Lined, Uses, [Next]_vars
  PROVE  AllKnown(Held', scenario.uses)
<1>0. AllKnown(Held, scenario.uses) /\ Blocks /\ Blocks'
  BY DEF Uses, Inv, Shape
<1>1. CASE Opens
  <2>1. Unedited
    BY <1>0, <1>1 DEF Opens, Unedited, Blocks, Idle
  <2> QED BY <1>0, <2>1, UneditedKeeps
<1>2. CASE Steady
  BY <1>0, <1>2, UneditedKeeps DEF Steady
<1>3. CASE EditOne
  <2> DEFINE e == Head(op.todo)
             u == <<e.c, e.g>>
  <2>1. /\ op.pc = "edit" /\ op.todo # <<>>
        /\ Held' \subseteq Held \/ (e.do = "add" /\ Held' = Held \cup {u})
    BY <1>3, EditEffect
  <2>2. CASE Held' \subseteq Held
    BY <1>0, <2>2, SubKnown
  <2>3. CASE e.do = "add" /\ Held' = Held \cup {u}
    <3>1. Todo(op.todo, op.c) /\ TodoKnown(op.todo, scenario.uses)
      BY <2>1 DEF Uses, EditKnown, Inv, Shape, Operation, Change, Idle
    <3>2. e = op.todo[1] /\ 1 \in DOMAIN op.todo
      BY <2>1, <3>1, TailShape
    <3> HIDE DEF e
    <3>3. KnownIn(scenario.uses, e.c, e.g)
      BY <2>3, <3>1, <3>2 DEF TodoKnown
    <3>4. \A c, g : <<c, g>> = u => c = e.c /\ g = e.g
      OBVIOUS
    <3> HIDE DEF u
    <3> QED BY <1>0, <2>3, <3>3, <3>4 DEF AllKnown
  <2> QED BY <2>1, <2>2, <2>3
<1>4. CASE SetNewComponentsArrayPtr
  BY <1>0, <1>4, SwapEffect, SubKnown
<1>5. CASE Boots
  <2>1. Held' = Shown(BootStore, BootArray)
    BY <1>5 DEF Boots, Held, Shown
  <2>2. ASSUME NEW c, NEW g, <<c, g>> \in Held' PROVE c = Kernel /\ g <= EPlatsecPrintf
    <3>1. <<c, g>>[1] = Kernel /\ <<c, g>>[2] <= EPlatsecPrintf
      BY <2>1, <2>2, Boot
    <3> QED BY <3>1
  <2> QED BY <2>2 DEF AllKnown, KnownIn
<1> QED BY <1>1, <1>2, <1>3, <1>4, <1>5, StepKinds

\* A step that starts a change with edits of groups in use.
LEMMA StartKnown ==
  ASSUME NEW c, NEW todo, NEW prune, NEW all, Start(c, todo, prune, all), NEW uses,
         TodoKnown(todo, uses)
  PROVE  EditKnown(op', uses)
<1>1. op'.todo = todo /\ op'.rest = <<>>
  BY DEF Start
<1> QED BY <1>1 DEF EditKnown

LEMMA ChangeKnown ==
  ASSUME Inv, NEW c, NEW gs \in Messages(c),
         ActivateTrace(c, gs) \/ DeactivateTrace(c, gs) \/ OverwriteGroups(c, gs)
  PROVE  EditKnown(op', scenario.uses)
<1>1. gs \in Seq(Requested(c)) /\ \A g \in ToSet(gs) : KnownIn(scenario.uses, c, g)
  BY MessageKnown
<1>2. CASE ActivateTrace(c, gs)
  <2>1. TodoKnown(ActivateTodo(c, gs), scenario.uses)
    BY <1>1, ActivateKnown
  <2>2. Start(c, ActivateTodo(c, gs), FALSE, FALSE)
    BY <1>2 DEF ActivateTrace
  <2> QED BY <2>1, <2>2, StartKnown
<1>3. CASE DeactivateTrace(c, gs)
  <2>1. TodoKnown(DeactivateTodo(c, gs), scenario.uses)
    BY <1>1, DeactivateKnown
  <2>2. Start(c, DeactivateTodo(c, gs), TRUE, FALSE)
    BY <1>3 DEF DeactivateTrace
  <2> QED BY <2>1, <2>2, StartKnown
<1>4. CASE OverwriteGroups(c, gs)
  <2> DEFINE old == ToSet(View(iOstComponents, c))
             out == old \ ToSet(gs)
             inn == ToSet(gs) \ old
  <2>1. PICK gone \in SetToSeqs(out), new \in SetToSeqs(inn) :
          Start(c, OverwriteTodo(c, gone, new), TRUE, FALSE)
    BY <1>4 DEF OverwriteGroups, InOrder
  <2>2. IsFiniteSet(old) /\ IsFiniteSet(ToSet(gs))
    <3>1. View(iOstComponents, c) \in Seq(Group)
      <4>1. CASE c \in DOMAIN iOstComponents
        <5>1. store[c] \in Seq(Group) /\ iOstComponents[c] \in 0 .. Len(store[c])
          BY <4>1 DEF Inv, Shape, Blocks, Within
        <5> QED BY <4>1, <5>1 DEF View
      <4>2. CASE c \notin DOMAIN iOstComponents
        BY <4>2 DEF View
      <4> QED BY <4>1, <4>2
    <3> QED BY <1>1, <3>1, FiniteElements
  <2>3. gone \in Seq(out) /\ new \in Seq(inn)
    <3>1. out \in SUBSET old /\ inn \in SUBSET ToSet(gs)
      OBVIOUS
    <3> HIDE DEF old, out, inn
    <3> QED BY <2>1, <2>2, <3>1, Ordered, Zenon
  <2>4. \A g \in inn : KnownIn(scenario.uses, c, g)
    BY <1>1
  <2> HIDE DEF old, out, inn
  <2>5. TodoKnown(OverwriteTodo(c, gone, new), scenario.uses)
    BY <2>3, <2>4, OverwriteKnown
  <2> QED BY <2>1, <2>5, StartKnown
<1> QED BY <1>2, <1>3, <1>4

LEMMA RefreshKnown ==
  ASSUME Inv, Lined, Refreshing, Uses, Refresh
  PROVE  EditKnown(op', scenario.uses)
<1>1. CASE RefreshActivations
  BY <1>1 DEF RefreshActivations, Uses
<1>2. CASE RefreshOut
  <2> DEFINE c == Head(refresh.queue)[1]
             g == store[c][Head(refresh.queue)[2]]
  <2>1. CASE c = Kernel /\ g = EMetaTrace
    BY <1>2, <2>1 DEF RefreshOut, Uses
  <2>2. CASE ~ (c = Kernel /\ g = EMetaTrace)
    <3>1. Start(c, DeactivateTodo(c, <<g>>), TRUE, FALSE)
      BY <1>2, <2>2 DEF RefreshOut
    <3> HIDE DEF c, g
    <3>2. <<g>> \in Seq({g})
      OBVIOUS
    <3>3. TodoKnown(DeactivateTodo(c, <<g>>), scenario.uses)
      BY <3>2, DeactivateKnown
    <3> QED BY <3>1, <3>3, StartKnown
  <2> QED BY <2>1, <2>2
<1>3. CASE RefreshIn
  <2> DEFINE s == refresh.queue
             c == Head(s)[1]
             g == Head(s)[2]
             B == refresh.before
  <2>1. /\ op = Idle /\ s # <<>> /\ Len(Head(s)) = 3
        /\ Start(c, ActivateTodo(c, <<g>>), FALSE, FALSE)
    BY <1>3 DEF RefreshIn
  <2>2. s \in Seq(ToSet(s)) /\ Queued(s, B, refresh.done)
    <3>1. refresh # NoRefresh
      BY <2>1 DEF NoRefresh
    <3>2. s \in Seq(ToSet(s))
      BY DEF Inv, Shape, Turns
    <3>3. Queued(s, B, refresh.done)
      BY <3>1 DEF Refreshing, RefreshState
    <3> QED BY <3>2, <3>3
  <2> HIDE DEF s, B
  <2>3. Head(s) = s[1] /\ 1 \in DOMAIN s
    BY <2>1, <2>2, LaterTurns
  <2>4. \/ \E a, b : s[1] = <<a, Rank(B, a, b)>>
        \/ \E a, b : <<a, b>> \in B /\ s[1] = <<a, b, "in">>
    BY <2>2, <2>3, TurnKinds, Zenon
  <2>5. ASSUME NEW a, NEW b, s[1] = <<a, Rank(B, a, b)>> PROVE FALSE
    <3>1. Len(<<a, Rank(B, a, b)>>) = 2
      OBVIOUS
    <3> QED BY <2>1, <2>3, <2>5, <3>1
  <2>6. PICK a, b : <<a, b>> \in B /\ s[1] = <<a, b, "in">>
    BY <2>4, <2>5
  <2>7. a = c /\ b = g
    BY <2>3, <2>6
  <2> HIDE DEF c, g
  <2>8. KnownIn(scenario.uses, c, g)
    BY <2>6, <2>7 DEF Uses, AllKnown, B
  <2>9. <<g>> \in Seq({g}) /\ \A h \in ToSet(<<g>>) : h = g
    BY DEF ToSet
  <2>10. TodoKnown(ActivateTodo(c, <<g>>), scenario.uses)
    BY <2>8, <2>9, ActivateKnown
  <2> QED BY <2>1, <2>10, StartKnown
<1> QED BY <1>1, <1>2, <1>3 DEF Refresh

LEMMA ReadKnown ==
  ASSUME Inv, Uses, ReadFromSettings
  PROVE  /\ EditKnown(op', scenario.uses) /\ op'.fromSettings = op.fromSettings /\ op.fromSettings
         /\ op.pc = "edit" /\ op'.pc = "edit" /\ op'.changed = op.changed /\ Unedited
<1> DEFINE c == Head(op.rest)
           s == saved.groups[c]
           q == Tail(op.rest)
           todo == ActivateTodo(c, s)
<1>1. /\ op.pc = "edit" /\ op.rest # <<>> /\ Change /\ Unedited
      /\ op' = [op EXCEPT !.c = c, !.todo = todo, !.rest = q]
  BY DEF ReadFromSettings, RestoreTodo, Rest, Inv, Shape, Operation, Idle, Unedited
<1>2. op.fromSettings
  BY <1>1 DEF Uses, EditKnown
<1>3. c \in DOMAIN saved.groups
  <2> DEFINE r == op.rest
  <2>1. r \in Seq(DOMAIN saved.groups) /\ r # <<>>
    BY <1>1 DEF Change
  <2> HIDE DEF r
  <2>2. Head(r) \in DOMAIN saved.groups
    BY <2>1
  <2> QED BY <2>2 DEF r
<1>4. s \in Seq(Group) /\ \A g \in ToSet(s) : KnownIn(scenario.uses, c, g)
  BY <1>3 DEF Inv, Shape, Saved, Uses, SavedKnown
<1> HIDE DEF s, c
<1>5. TodoKnown(todo, scenario.uses)
  BY <1>4, ActivateKnown
<1> HIDE DEF q, todo
<1>6. op' = [pc |-> op.pc, c |-> c, todo |-> todo, prune |-> op.prune, all |-> op.all,
             changed |-> op.changed, before |-> op.before,
             fromSettings |-> op.fromSettings, rest |-> q]
  BY <1>1 DEF Change
<1>7. /\ op'.pc = op.pc /\ op'.todo = todo /\ op'.fromSettings = op.fromSettings
      /\ op'.changed = op.changed
  BY <1>6
<1> QED BY <1>1, <1>2, <1>5, <1>7 DEF EditKnown

LEMMA EditKnownStep ==
  ASSUME Inv, Inv', Lined, Refreshing, Uses, [Next]_vars
  PROVE  EditKnown(op', scenario.uses)
<1> DEFINE uses == scenario.uses
<1>0. EditKnown(op, uses)
  BY DEF Uses
<1>1. ASSUME op' = op PROVE EditKnown(op', uses)
  BY <1>0, <1>1
<1>2. ASSUME op'.pc # "edit" PROVE EditKnown(op', uses)
  BY <1>2 DEF EditKnown
<1>3. ASSUME Changes PROVE EditKnown(op', uses)
  <2>1. ASSUME NEW c, DeactivateAll(c) PROVE EditKnown(op', uses)
    <3>1. Start(c, <<>>, FALSE, TRUE)
      BY <2>1 DEF DeactivateAll
    <3>2. TodoKnown(<<>>, uses)
      BY NothingTodo DEF TodoKnown
    <3> QED BY <3>1, <3>2, StartKnown
  <2>2. ASSUME EditOne PROVE EditKnown(op', uses)
    <3>1. /\ op.pc = "edit" /\ op.todo # <<>> /\ op'.todo = Tail(op.todo)
          /\ op'.fromSettings = op.fromSettings /\ op'.rest = op.rest
      BY <2>2, EditEffect
    <3>2. TodoKnown(op.todo, uses) /\ (op.rest # <<>> => op.fromSettings)
      BY <1>0, <3>1 DEF EditKnown
    <3>3. Todo(op.todo, op.c)
      BY <3>1 DEF Inv, Shape, Operation, Change, Idle
    <3> DEFINE r == Tail(op.todo)
    <3>4. \A k \in DOMAIN r : k + 1 \in DOMAIN op.todo /\ r[k] = op.todo[k + 1]
      BY <3>1, <3>3, TailShape
    <3> HIDE DEF r
    <3>5. TodoKnown(r, uses)
      BY <3>2, <3>4 DEF TodoKnown
    <3> QED BY <3>1, <3>2, <3>5 DEF EditKnown, r
  <2>3. ASSUME SetNewComponentsArrayPtr PROVE EditKnown(op', uses)
    <3>1. op'.pc # "edit"
      BY <2>3, SwapEffect
    <3> QED BY <1>2, <3>1
  <2>4. ASSUME HandleTraceActivationChanges PROVE EditKnown(op', uses)
    <3>1. op'.pc # "edit"
      BY <2>4 DEF HandleTraceActivationChanges, Idle
    <3> QED BY <1>2, <3>1
  <2>5. ASSUME PrimeDfc \/ ClearItem PROVE EditKnown(op', uses)
    <3>1. op' = op
      BY <2>5 DEF PrimeDfc, ClearItem
    <3> QED BY <1>1, <3>1
  <2> QED BY <1>3, <2>1, <2>2, <2>3, <2>4, <2>5, ChangeKnown DEF Changes
<1>4. ASSUME Settings PROVE EditKnown(op', uses)
  <2>1. ASSUME RegisterSettings PROVE EditKnown(op', uses)
    <3>1. CASE saved.some
      <4>1. \E cs : op' = [pc |-> "edit", c |-> 0, todo |-> <<>>, prune |-> FALSE, all |-> FALSE,
                           changed |-> {}, before |-> Activated, fromSettings |-> TRUE,
                           rest |-> cs]
        BY <2>1, <3>1 DEF RegisterSettings
      <4>2. op'.todo = <<>> /\ op'.fromSettings
        BY <4>1
      <4> QED BY <4>2, NothingTodo DEF EditKnown, TodoKnown
    <3>2. CASE ~ saved.some
      <4>1. op' = op
        BY <2>1, <3>2 DEF RegisterSettings
      <4> QED BY <1>1, <4>1
    <3> QED BY <3>1, <3>2
  <2>2. ASSUME UnregisterSettings PROVE op' = op
    BY <2>2 DEF UnregisterSettings
  <2>3. ASSUME Restart PROVE op'.pc # "edit"
    BY <2>3 DEF Restart, Idle
  <2> QED BY <1>1, <1>2, <1>4, <2>1, <2>2, <2>3, ReadKnown DEF Settings
<1>5. ASSUME UNCHANGED vars \/ SetWriter \/ Traces \/ Receivers \/ Writers \/ RegisterWriter(XTI)
      PROVE  EditKnown(op', uses)
  <2>1. op' = op
    BY <1>5, QuietKinds
  <2> QED BY <1>1, <2>1
<1> HIDE DEF uses
<1>6. ASSUME Next PROVE EditKnown(op', uses)
  <2>1. \/ Changes \/ SetWriter \/ Refresh \/ Traces \/ RegisterWriter(XTI) \/ Receivers
        \/ Settings \/ Writers
    BY <1>6 DEF Next
  <2>2. ASSUME Refresh PROVE EditKnown(op', uses)
    BY <2>2, RefreshKnown DEF uses
  <2> QED BY <1>3, <1>4, <1>5, <2>1, <2>2
<1>7. EditKnown(op', uses)
  BY <1>5, <1>6
<1> QED BY <1>7 DEF uses

\* Only the report of a change saves.
LEMMA SavedKinds ==
  ASSUME [Next]_vars
  PROVE  saved' = saved \/ HandleTraceActivationChanges
<1>1. ASSUME Changes PROVE saved' = saved \/ HandleTraceActivationChanges
  <2>1. ASSUME NEW c, NEW gs, ActivateTrace(c, gs) \/ DeactivateTrace(c, gs) \/ OverwriteGroups(c, gs)
        PROVE  saved' = saved
    BY <2>1 DEF ActivateTrace, DeactivateTrace, OverwriteGroups, Rest
  <2>2. ASSUME NEW c, DeactivateAll(c) PROVE saved' = saved
    BY <2>2 DEF DeactivateAll, Rest
  <2>3. ASSUME EditOne \/ SetNewComponentsArrayPtr \/ PrimeDfc \/ ClearItem PROVE saved' = saved
    BY <2>3 DEF EditOne, SetNewComponentsArrayPtr, PrimeDfc, ClearItem
  <2> QED BY <1>1, <2>1, <2>2, <2>3 DEF Changes
<1>2. ASSUME Refresh PROVE saved' = saved
  BY <1>2 DEF Refresh, RefreshActivations, RefreshOut, RefreshIn, Rest
<1>3. ASSUME Settings PROVE saved' = saved
  BY <1>3 DEF Settings, RegisterSettings, ReadFromSettings, UnregisterSettings, Restart, Rest
<1>4. ASSUME NEW w, RegisterWriter(w) \/ UnregisterWriter(w) \/ SwitchToWriter(w)
      PROVE  saved' = saved
  BY <1>4 DEF RegisterWriter, UnregisterWriter, SwitchToWriter, PrepareSetWriter
<1>5. ASSUME UNCHANGED vars \/ SetWriter \/ Traces \/ Receivers PROVE saved' = saved
  BY <1>5 DEF vars, SetWriter, Traces, HandleFrame, CompareItem, LookUp, SwapPointers, WriteWord, Seen, Receivers,
              RegisterNotificationReceiver, UnregisterNotificationReceiver
<1> QED BY <1>1, <1>2, <1>3, <1>4, <1>5 DEF Next, Writers

LEMMA SavedKnownStep ==
  ASSUME Inv, Uses, [Next]_vars
  PROVE  SavedKnown(saved'.groups, scenario.uses)
<1>1. CASE saved' = saved
  BY <1>1 DEF Uses
<1>2. CASE HandleTraceActivationChanges
  <2> DEFINE G == [c \in DOMAIN iOstComponents |-> View(iOstComponents, c)]
  <2>1. op.pc = "swapped" /\ (saved' = saved \/ saved' = [some |-> TRUE, groups |-> G])
    BY <1>2 DEF HandleTraceActivationChanges
  <2>2. Blocks /\ Activated = Held
    BY <2>1, OneArray
  <2>3. /\ DOMAIN G = DOMAIN iOstComponents
        /\ \A c \in DOMAIN G : \A g \in ToSet(G[c]) : <<c, g>> \in Activated
    BY <2>2, SavedGroups
  <2> HIDE DEF G
  <2>4. SavedKnown(G, scenario.uses)
    BY <2>2, <2>3 DEF Uses, AllKnown, SavedKnown
  <2>5. CASE saved' = [some |-> TRUE, groups |-> G]
    <3>1. saved'.groups = G
      BY <2>5
    <3> QED BY <2>4, <3>1
  <2> QED BY <2>1, <2>5, <1>1
<1> QED BY <1>1, <1>2, SavedKinds

LEMMA BeforeKnownStep ==
  ASSUME Inv, Uses, [Next]_vars
  PROVE  AllKnown(refresh'.before, scenario.uses)
<1> DEFINE Fine == AllKnown(refresh'.before, scenario.uses)
<1>0. ASSUME refresh' = refresh \/ refresh' = NoRefresh \/ refresh'.before = refresh.before
      PROVE  Fine
  <2>1. NoRefresh.before = {}
    BY DEF NoRefresh
  <2> QED BY <1>0, <2>1 DEF Uses, AllKnown
<1>1. ASSUME Changes PROVE refresh' = refresh \/ refresh' = NoRefresh
  <2>1. ASSUME NEW c, NEW gs, ActivateTrace(c, gs) \/ DeactivateTrace(c, gs) \/ OverwriteGroups(c, gs)
        PROVE  refresh' = refresh
    BY <2>1 DEF ActivateTrace, DeactivateTrace, OverwriteGroups
  <2>2. ASSUME NEW c, DeactivateAll(c) PROVE refresh' = refresh
    BY <2>2 DEF DeactivateAll
  <2>3. ASSUME EditOne \/ SetNewComponentsArrayPtr \/ PrimeDfc \/ ClearItem PROVE refresh' = refresh
    BY <2>3 DEF EditOne, SetNewComponentsArrayPtr, PrimeDfc, ClearItem
  <2>4. ASSUME HandleTraceActivationChanges PROVE refresh' = refresh \/ refresh' = NoRefresh
    BY <2>4 DEF HandleTraceActivationChanges
  <2> QED BY <1>1, <2>1, <2>2, <2>3, <2>4 DEF Changes
<1>2. ASSUME Refresh PROVE Fine
  <2>0. refresh = [queue |-> refresh.queue, before |-> refresh.before, done |-> refresh.done]
    BY DEF Inv, Shape, Turns
  <2>1. CASE RefreshActivations
    <3>0. op = Idle /\ \E q : refresh' = [queue |-> q, before |-> Activated, done |-> {}]
      BY <2>1 DEF RefreshActivations, CanStart
    <3>1. op = Idle /\ refresh'.before = Activated
      BY <3>0
    <3>2. Activated = Held
      BY <3>1, OneArray DEF Idle
    <3> QED BY <3>1, <3>2 DEF Uses
  <2>2. CASE RefreshOut
    <3> DEFINE r == <<<<Head(refresh.queue)[1], store[Head(refresh.queue)[1]][Head(refresh.queue)[2]], "in">>>>
                      \o Tail(refresh.queue)
               t == Tail(refresh.queue)
    <3>1. \/ refresh' = NoRefresh \/ refresh' = [refresh EXCEPT !.queue = t]
          \/ refresh' = [refresh EXCEPT !.queue = r]
      BY <2>2 DEF RefreshOut
    <3> HIDE DEF r, t
    <3>2. refresh' = NoRefresh \/ refresh'.before = refresh.before
      BY <2>0, <3>1
    <3> QED BY <1>0, <3>2
  <2>3. CASE RefreshIn
    <3> DEFINE t == Tail(refresh.queue)
               D == refresh.done \cup {<<Head(refresh.queue)[1], Head(refresh.queue)[2]>>}
    <3>1. refresh' = [refresh EXCEPT !.queue = t, !.done = D]
      BY <2>3 DEF RefreshIn
    <3> HIDE DEF t, D
    <3>2. refresh' = [queue |-> t, before |-> refresh.before, done |-> D]
      BY <2>0, <3>1
    <3>3. refresh'.before = refresh.before
      BY <3>2
    <3> QED BY <1>0, <3>3
  <2> QED BY <1>2, <2>1, <2>2, <2>3 DEF Refresh
<1>3. ASSUME Settings PROVE refresh' = refresh \/ refresh' = NoRefresh
  BY <1>3 DEF Settings, RegisterSettings, ReadFromSettings, UnregisterSettings, Restart
<1>4. ASSUME NEW w, RegisterWriter(w) \/ UnregisterWriter(w) \/ SwitchToWriter(w)
      PROVE  refresh' = refresh
  BY <1>4 DEF RegisterWriter, UnregisterWriter, SwitchToWriter, PrepareSetWriter
<1>5. ASSUME UNCHANGED vars \/ SetWriter \/ Traces \/ Receivers PROVE refresh' = refresh
  BY <1>5 DEF vars, SetWriter, Traces, HandleFrame, CompareItem, LookUp, SwapPointers, WriteWord, Seen, Receivers,
              RegisterNotificationReceiver, UnregisterNotificationReceiver
<1> HIDE DEF Fine
<1>6. Fine
  BY <1>0, <1>1, <1>2, <1>3, <1>4, <1>5 DEF Next, Writers
<1> QED BY <1>6 DEF Fine

LEMMA UsesStep ==
  ASSUME Inv, Inv', Lined, Refreshing, Uses, [Next]_vars
  PROVE  Uses'
<1>1. scenario' = scenario
  BY DEF Next, vars
<1>2. /\ AllKnown(Held', scenario.uses) /\ EditKnown(op', scenario.uses)
      /\ SavedKnown(saved'.groups, scenario.uses) /\ AllKnown(refresh'.before, scenario.uses)
  BY HeldKnownStep, EditKnownStep, SavedKnownStep, BeforeKnownStep
<1> QED BY <1>1, <1>2 DEF Uses

LEMMA UsesInit ==
  ASSUME Init
  PROVE  Uses
<1>1. Held = Shown(BootStore, BootArray)
  BY DEF Init, Held, Shown
<1>2. ASSUME NEW c, NEW g, <<c, g>> \in Held PROVE c = Kernel /\ g <= EPlatsecPrintf
  <2>1. <<c, g>>[1] = Kernel /\ <<c, g>>[2] <= EPlatsecPrintf
    BY <1>1, <1>2, Boot
  <2> QED BY <2>1
<1>3. AllKnown(Held, scenario.uses)
  BY <1>2 DEF AllKnown, KnownIn
<1>4. op.pc # "edit" /\ refresh.before = {} /\ saved.groups = <<>> /\ DOMAIN <<>> = {}
  BY DEF Init, Idle, NoRefresh
<1> QED BY <1>3, <1>4 DEF Uses, EditKnown, SavedKnown, AllKnown

-----------------------------------------------------------------------------
(* The filters of BTrace.                                                  *)

\* A change of another component than the kernel, or one from the settings,
\* removes no group of the kernel component.
Grows ==
  op.pc = "edit" /\ (op.fromSettings \/ op.c # Kernel) /\ Kernel \in DOMAIN iOstComponents
    => iOstComponents[Kernel] <= iTmpArray[Kernel]

\* A group above the kernel categories is open from the edit that adds it.
Opened ==
  \A c, g : <<c, g>> \in Held /\ ~ Shared(g) /\ g > KMaxKernelCategory => g \in filter

\* An open category is activated, unless a priming is due or the groups of the
\* kernel component are being changed, which ends with a priming.
Closed ==
  ~ primeDue /\ (op = Idle \/ op.fromSettings \/ op.c # Kernel)
    => \A g \in filter \cap Categories : <<Kernel, g>> \in Held

\* With a writer, an activated category is open, or it has changed and the
\* report that is to come asks for a priming or notes that there is none.
Passed ==
  iActiveWriter # NoWriter /\ ~ primeDue /\ ~ missedPrime
    => \A g \in Categories \ {ECpuUsage} :
         <<Kernel, g>> \in Held /\ ~ Shared(g)
           => g \in filter \/ (op # Idle /\ <<Kernel, g>> \in op.changed)

Filters == Grows /\ Opened /\ Closed /\ Passed

\* Two components that show a group share it.
LEMMA TwoUsers ==
  ASSUME Inv, Uses, NEW c, NEW d, NEW g, <<c, g>> \in Held, <<d, g>> \in Held, c # d,
         g > EPlatsecPrintf
  PROVE  Shared(g)
<1>1. g \in Group
  BY ShownPairs DEF Inv, Shape
<1>2. ~ (g <= EPlatsecPrintf)
  BY <1>1, TraceAssumption DEF Group
<1>3. <<c, g>> \in scenario.uses /\ <<d, g>> \in scenario.uses
  BY <1>1, <1>2 DEF Uses, AllKnown, KnownIn
<1>4. <<c, g>>[1] = c /\ <<c, g>>[2] = g /\ <<d, g>>[1] = d /\ <<d, g>>[2] = g
  OBVIOUS
<1> QED BY <1>3, <1>4 DEF Shared

LEMMA SharedKept ==
  ASSUME scenario' = scenario
  PROVE  \A g : Shared(g)' <=> Shared(g)
BY DEF Shared

\* A step that leaves the filters, the priming and the writer alone.
Unprimed == UNCHANGED <<filter, primeDue, iActiveWriter, iWriter, missedPrime>>

LEMMA FilterKinds ==
  ASSUME Inv, [Next]_vars
  PROVE  \/ Unprimed /\ Opens
         \/ Unprimed /\ Unedited /\ op' = op
         \/ Unprimed /\ ReadFromSettings
         \/ Unprimed /\ SetNewComponentsArrayPtr
         \/ EditOne \/ HandleTraceActivationChanges \/ PrimeDfc \/ SetWriter \/ Restart
         \/ Settled /\ \E w : PrepareSetWriter(w)
<1> DEFINE Kind == \/ Unprimed /\ Opens
                   \/ Unprimed /\ Unedited /\ op' = op
                   \/ Unprimed /\ ReadFromSettings
                   \/ Unprimed /\ SetNewComponentsArrayPtr
                   \/ EditOne \/ HandleTraceActivationChanges \/ PrimeDfc \/ SetWriter \/ Restart
                   \/ Settled /\ \E w : PrepareSetWriter(w)
<1>0. ASSUME Rest PROVE Unprimed
  BY <1>0 DEF Rest, Unprimed, writer
<1>1. ASSUME Changes PROVE Kind
  <2>1. ASSUME NEW c, NEW gs, ActivateTrace(c, gs) PROVE Unprimed /\ Opens
    BY <1>0, <2>1, StartOpens DEF ActivateTrace, CanStart
  <2>2. ASSUME NEW c, NEW gs, DeactivateTrace(c, gs) PROVE Unprimed /\ Opens
    BY <1>0, <2>2, StartOpens DEF DeactivateTrace, CanStart
  <2>3. ASSUME NEW c, NEW gs, OverwriteGroups(c, gs) PROVE Unprimed /\ Opens
    BY <1>0, <2>3, StartOpens DEF OverwriteGroups, CanStart
  <2>4. ASSUME NEW c, DeactivateAll(c) PROVE Unprimed /\ Opens
    BY <1>0, <2>4, StartOpens DEF DeactivateAll, CanStart
  <2>5. ASSUME SetNewComponentsArrayPtr PROVE Unprimed
    BY <2>5 DEF SetNewComponentsArrayPtr, Unprimed, writer
  <2>6. ASSUME ClearItem PROVE Unprimed /\ Unedited /\ op' = op
    BY <2>6 DEF ClearItem, Unprimed, Unedited, array, writer
  <2> QED BY <1>1, <2>1, <2>2, <2>3, <2>4, <2>5, <2>6 DEF Changes
<1>2. ASSUME Refresh PROVE Kind
  <2>1. ASSUME RefreshActivations PROVE Unprimed /\ Unedited /\ op' = op
    BY <1>0, <2>1 DEF RefreshActivations, Rest, Unedited
  <2>2. ASSUME RefreshOut PROVE Unprimed /\ (Opens \/ (Unedited /\ op' = op))
    <3> DEFINE c == Head(refresh.queue)[1]
               g == store[c][Head(refresh.queue)[2]]
    <3>1. CASE c = Kernel /\ g = EMetaTrace
      BY <1>0, <2>2, <3>1 DEF RefreshOut, Rest, Unedited
    <3>2. CASE ~ (c = Kernel /\ g = EMetaTrace)
      BY <1>0, <2>2, <3>2, StartOpens DEF RefreshOut
    <3> QED BY <3>1, <3>2
  <2>3. ASSUME RefreshIn PROVE Unprimed /\ Opens
    BY <1>0, <2>3, StartOpens DEF RefreshIn
  <2> QED BY <1>2, <2>1, <2>2, <2>3 DEF Refresh
<1>3. ASSUME Settings PROVE Kind
  <2>1. ASSUME RegisterSettings PROVE Unprimed /\ (Opens \/ (Unedited /\ op' = op))
    <3>0. Unprimed
      BY <2>1 DEF RegisterSettings, Unprimed, writer
    <3>1. op = Idle /\ UNCHANGED <<store, iOstComponents>>
      BY <2>1 DEF RegisterSettings, CanStart
    <3>2. CASE saved.some
      <4>1. /\ iTmpArray' = iOstComponents
            /\ \E cs : op' = [pc |-> "edit", c |-> 0, todo |-> <<>>, prune |-> FALSE, all |-> FALSE,
                              changed |-> {}, before |-> Activated, fromSettings |-> TRUE,
                              rest |-> cs]
        BY <2>1, <3>2 DEF RegisterSettings
      <4>2. op'.pc = "edit" /\ op'.before = Activated /\ op'.changed = {}
        BY <4>1
      <4> QED BY <3>0, <3>1, <4>1, <4>2 DEF Opens
    <3>3. CASE ~ saved.some
      BY <2>1, <3>0, <3>1, <3>3 DEF RegisterSettings, Unedited
    <3> QED BY <3>2, <3>3
  <2>2. ASSUME ReadFromSettings PROVE Unprimed
    BY <1>0, <2>2 DEF ReadFromSettings
  <2>3. ASSUME UnregisterSettings PROVE Unprimed /\ Unedited /\ op' = op
    BY <2>3 DEF UnregisterSettings, Unprimed, Unedited, array, writer
  <2> QED BY <1>3, <2>1, <2>2, <2>3 DEF Settings
<1> DEFINE Quiet == Unprimed /\ Unedited /\ op' = op
           Sets == Settled /\ \E w : PrepareSetWriter(w)
<1>4. ASSUME NEW w, RegisterWriter(w) PROVE Quiet \/ Sets
  <2>1. CASE iActiveWriter = NoWriter
    BY <1>4, <2>1 DEF RegisterWriter
  <2>2. CASE iActiveWriter # NoWriter
    BY <1>4, <2>2 DEF RegisterWriter, Unprimed, Unedited, array
  <2> QED BY <2>1, <2>2
<1>5. ASSUME NEW w, UnregisterWriter(w) PROVE Quiet \/ Sets
  <2>1. CASE iActiveWriter = w
    BY <1>5, <2>1 DEF UnregisterWriter
  <2>2. CASE iActiveWriter # w
    BY <1>5, <2>2 DEF UnregisterWriter, Unprimed, Unedited, array
  <2> QED BY <2>1, <2>2
<1>6. ASSUME NEW w, SwitchToWriter(w) PROVE Sets
  BY <1>6 DEF SwitchToWriter
<1>7. ASSUME UNCHANGED vars PROVE Quiet
  BY <1>7 DEF vars, Unprimed, Unedited, array, writer
<1>8. ASSUME Traces PROVE Quiet
  BY <1>8 DEF Traces, HandleFrame, CompareItem, LookUp, SwapPointers, WriteWord, Seen, Unprimed, Unedited, array, writer
<1>9. ASSUME Receivers PROVE Quiet
  BY <1>9 DEF Receivers, RegisterNotificationReceiver, UnregisterNotificationReceiver, Unprimed,
              Unedited, array, writer
<1>10. ASSUME Quiet \/ Sets PROVE Kind
  BY <1>10
<1>11. ASSUME SetWriter PROVE Kind
  BY <1>11
<1> HIDE DEF Kind, Quiet, Sets
<1>12. ASSUME Next PROVE Kind
  <2>1. \/ Changes \/ SetWriter \/ Refresh \/ Traces \/ RegisterWriter(XTI) \/ Receivers
        \/ Settings \/ Writers
    BY <1>12 DEF Next
  <2>2. ASSUME Writers PROVE Kind
    BY <1>4, <1>5, <1>6, <1>10, <2>2 DEF Writers
  <2> QED BY <1>1, <1>2, <1>3, <1>4, <1>8, <1>9, <1>10, <1>11, <2>1, <2>2
<1>13. Kind
  BY <1>7, <1>10, <1>12
<1> QED BY <1>13 DEF Kind

LEMMA OpenFilters ==
  ASSUME Inv, Inv', Lined, Filters, Unprimed, Opens, scenario' = scenario
  PROVE  Filters'
<1>1. Unedited /\ op = Idle /\ op'.pc = "edit" /\ op' # Idle /\ iTmpArray' = iOstComponents'
  BY DEF Opens, Unedited, Inv, Shape, Blocks, Idle
<1>2. Held' = Held
  BY <1>1, UneditedKeeps
<1>3. \A g : Shared(g)' <=> Shared(g)
  BY SharedKept
<1>4. UNCHANGED <<filter, primeDue, iActiveWriter, missedPrime>>
  BY DEF Unprimed
<1>5. Grows'
  <2>1. \A c \in DOMAIN iOstComponents' : iOstComponents'[c] \in Nat
    BY DEF Inv, Shape, Blocks, Within
  <2>2. \A n \in Nat : n <= n
    OBVIOUS
  <2> QED BY <1>1, <2>1, <2>2 DEF Grows
<1>6. Opened'
  BY <1>2, <1>3, <1>4 DEF Filters, Opened
<1>7. Closed'
  BY <1>1, <1>2, <1>4 DEF Filters, Closed
<1>8. Passed'
  BY <1>1, <1>2, <1>3, <1>4 DEF Filters, Passed
<1> QED BY <1>5, <1>6, <1>7, <1>8 DEF Filters

LEMMA QuietFilters ==
  ASSUME Inv, Lined, Filters, Unprimed, Unedited, scenario' = scenario,
         \/ op' = op
         \/ /\ op.pc = "edit" /\ op'.pc = "edit" /\ op.fromSettings
            /\ op'.changed = op.changed
  PROVE  Filters'
<1>1. Held' = Held
  BY UneditedKeeps
<1>2. \A g : Shared(g)' <=> Shared(g)
  BY SharedKept
<1>3. UNCHANGED <<filter, primeDue, iActiveWriter, missedPrime, iOstComponents, iTmpArray>>
  BY DEF Unprimed, Unedited
<1>4. op' = Idle => op = Idle
  BY DEF Idle
<1>5. op.pc = "edit" => op # Idle
  BY DEF Idle
<1>6. Grows'
  BY <1>3 DEF Filters, Grows
<1>7. Opened'
  BY <1>1, <1>2, <1>3 DEF Filters, Opened
<1>8. Closed'
  BY <1>1, <1>3, <1>4 DEF Filters, Closed
<1>9. Passed'
  BY <1>1, <1>2, <1>3, <1>4, <1>5 DEF Filters, Passed
<1> QED BY <1>6, <1>7, <1>8, <1>9 DEF Filters

LEMMA SwapFilters ==
  ASSUME Inv, Inv', Lined, Filters, Unprimed, SetNewComponentsArrayPtr, scenario' = scenario
  PROVE  Filters'
<1>1. /\ op.pc = "edit" /\ op'.pc = "swapped" /\ op # Idle /\ op' # Idle
      /\ op'.c = op.c /\ op'.fromSettings = op.fromSettings /\ op.changed \subseteq op'.changed
      /\ Held' \subseteq Held
      /\ \A u \in Held : u[1] # op.c => u \in Held'
      /\ op.fromSettings => Held' = Held
  BY SwapEffect
<1>2. \A g : Shared(g)' <=> Shared(g)
  BY SharedKept
<1>3. UNCHANGED <<filter, primeDue, iActiveWriter, missedPrime>>
  BY DEF Unprimed
<1>4. Grows'
  BY <1>1 DEF Grows
<1>5. Opened'
  BY <1>1, <1>2, <1>3 DEF Filters, Opened
<1>6. Closed'
  <2> SUFFICES ASSUME ~ primeDue, op.fromSettings \/ op.c # Kernel,
                      NEW g \in filter \cap Categories
               PROVE  <<Kernel, g>> \in Held'
    BY <1>1, <1>3 DEF Closed
  <2>1. <<Kernel, g>> \in Held /\ <<Kernel, g>>[1] = Kernel
    BY DEF Filters, Closed
  <2> QED BY <1>1, <2>1
<1>7. Passed'
  BY <1>1, <1>2, <1>3 DEF Filters, Passed
<1> QED BY <1>4, <1>5, <1>6, <1>7 DEF Filters

LEMMA EditFilters ==
  ASSUME Inv, Inv', Lined, Uses, Filters, EditOne, scenario' = scenario
  PROVE  Filters'
<1> DEFINE e == Head(op.todo)
           u == <<e.c, e.g>>
           Same == /\ Held' = Held /\ filter' = filter /\ op'.changed = op.changed
                   /\ \A d \in DOMAIN iTmpArray : iTmpArray'[d] = iTmpArray[d]
           More == /\ Held' = Held \cup {u} /\ op'.changed = op.changed \cup {u}
                   /\ e.g \in Group
                   /\ filter' = IF e.g > KMaxKernelCategory THEN filter \cup {e.g} ELSE filter
                   /\ \A d \in DOMAIN iTmpArray : iTmpArray'[d] = IF d = op.c THEN iTmpArray[d] + 1
                                                                         ELSE iTmpArray[d]
           Less == /\ e.do = "remove" /\ u \in Held /\ Held' = Held \ {u}
                   /\ op'.changed = op.changed \cup {u} /\ filter' = filter \ {e.g}
                   /\ \A d \in DOMAIN iTmpArray : d # op.c => iTmpArray'[d] = iTmpArray[d]
<1>1. /\ op.pc = "edit" /\ op'.pc = "edit" /\ op # Idle /\ op' # Idle /\ op.todo # <<>>
      /\ op'.c = op.c /\ op'.fromSettings = op.fromSettings /\ e.c = op.c
      /\ iOstComponents' = iOstComponents
      /\ Same \/ More \/ Less
  BY EditEffect
<1>2. \A g : Shared(g)' <=> Shared(g)
  BY SharedKept
<1>3. UNCHANGED <<primeDue, iActiveWriter, missedPrime>>
  BY DEF EditOne, writer
<1>4. op.fromSettings => ~ Less
  <2>1. Todo(op.todo, op.c)
    BY <1>1 DEF Inv, Shape, Operation, Change
  <2>2. e = op.todo[1] /\ 1 \in DOMAIN op.todo
    BY <1>1, <2>1, TailShape
  <2> HIDE DEF e
  <2> QED BY <1>1, <2>2 DEF Inv, Restored
<1>5. /\ EPlatsecPrintf \in Nat /\ KMaxKernelCategory \in Nat /\ EPlatsecPrintf < KMaxKernelCategory
      /\ \A g \in Categories : g \in Nat /\ g > EPlatsecPrintf /\ ~ (g > KMaxKernelCategory)
      /\ \A c, g : <<c, g>> \in Held => g \in Nat
  <2>1. \A c, g : <<c, g>> \in Held => g \in Group
    BY ShownPairs DEF Inv, Shape
  <2>2. \A g \in Group : g \in Nat
    BY TraceAssumption DEF Group
  <2> QED BY <2>1, <2>2, TraceAssumption DEF Categories
\* A group that is taken away is that of one component.
<1>6. ASSUME NEW c, <<c, e.g>> \in Held, u \in Held, <<c, e.g>> # u, e.g > EPlatsecPrintf
      PROVE  Shared(e.g)
  <2>1. c # e.c
    BY <1>6
  <2> QED BY <1>6, <2>1, TwoUsers
<1>u. \A c, g : <<c, g>> = u <=> c = e.c /\ g = e.g
  OBVIOUS
<1> HIDE DEF e, u
<1>7. Grows'
  <2> SUFFICES ASSUME op.fromSettings \/ op.c # Kernel, Kernel \in DOMAIN iOstComponents
               PROVE  iOstComponents[Kernel] <= iTmpArray'[Kernel]
    BY <1>1 DEF Grows
  <2>1. /\ iOstComponents[Kernel] <= iTmpArray[Kernel] /\ Kernel \in DOMAIN iTmpArray
        /\ iOstComponents[Kernel] \in Nat /\ iTmpArray[Kernel] \in Nat
    BY <1>1 DEF Filters, Grows, Inv, Shape, Blocks, Within
  <2>2. iTmpArray'[Kernel] = iTmpArray[Kernel] \/ iTmpArray'[Kernel] = iTmpArray[Kernel] + 1
    BY <1>1, <1>4, <2>1
  <2> QED BY <2>1, <2>2
<1>8. Opened'
  <2> SUFFICES ASSUME NEW c, NEW g, <<c, g>> \in Held', ~ Shared(g), g > KMaxKernelCategory
               PROVE  g \in filter'
    BY <1>2 DEF Opened
  <2>0. Opened
    BY DEF Filters
  <2>1. CASE Same
    BY <2>0, <2>1 DEF Opened
  <2>2. CASE More
    <3>1. CASE <<c, g>> \in Held
      BY <2>0, <2>2, <3>1 DEF Opened
    <3>2. CASE <<c, g>> = u
      <4>1. g = e.g
        BY <1>u, <3>2
      <4> QED BY <2>2, <4>1
    <3> QED BY <2>2, <3>1, <3>2
  <2>3. CASE Less
    <3>1. <<c, g>> \in Held /\ <<c, g>> # u /\ g \in filter
      BY <2>0, <2>3 DEF Opened
    <3>2. ASSUME g = e.g PROVE FALSE
      <4>1. g > EPlatsecPrintf
        BY <1>5, <3>1
      <4> QED BY <1>6, <2>3, <3>1, <3>2, <4>1
    <3> QED BY <2>3, <3>1, <3>2
  <2> QED BY <1>1, <2>1, <2>2, <2>3
<1>9. Closed'
  <2> SUFFICES ASSUME ~ primeDue, op.fromSettings \/ op.c # Kernel,
                      NEW g \in filter' \cap Categories
               PROVE  <<Kernel, g>> \in Held'
    BY <1>1, <1>3 DEF Closed
  <2>1. g \in filter
    BY <1>1, <1>5
  <2>2. <<Kernel, g>> \in Held
    BY <1>1, <2>1 DEF Filters, Closed
  <2>3. CASE Same \/ More
    BY <2>2, <2>3
  <2>4. CASE Less
    <3>1. op.c # Kernel
      BY <1>4, <2>4
    <3>2. <<Kernel, g>> # u
      BY <1>1, <1>u, <3>1
    <3> QED BY <2>2, <2>4, <3>2
  <2> QED BY <1>1, <2>3, <2>4
<1>10. Passed'
  <2> SUFFICES ASSUME iActiveWriter # NoWriter, ~ primeDue, ~ missedPrime,
                      NEW g \in Categories \ {ECpuUsage}, <<Kernel, g>> \in Held', ~ Shared(g)
               PROVE  g \in filter' \/ <<Kernel, g>> \in op'.changed
    BY <1>1, <1>2, <1>3 DEF Passed
  <2>1. <<Kernel, g>> \in Held => g \in filter \/ <<Kernel, g>> \in op.changed
    BY DEF Filters, Passed
  <2>2. CASE Same
    BY <2>1, <2>2
  <2>3. CASE More
    <3>1. filter \subseteq filter'
      BY <2>3
    <3> QED BY <2>1, <2>3, <3>1
  <2>4. CASE Less
    <3>1. <<Kernel, g>> \in Held /\ <<Kernel, g>> # u
      BY <2>4
    <3>2. g # e.g
      BY <1>5, <1>6, <2>4, <3>1
    <3> QED BY <2>1, <2>4, <3>1, <3>2
  <2> QED BY <1>1, <2>2, <2>3, <2>4
<1> QED BY <1>7, <1>8, <1>9, <1>10 DEF Filters

LEMMA ReportFilters ==
  ASSUME Inv, Lined, Filters, HandleTraceActivationChanges, scenario' = scenario
  PROVE  Filters'
<1>1. /\ op.pc = "swapped" /\ op' = Idle /\ Unedited /\ UNCHANGED <<filter, iActiveWriter>>
      /\ primeDue' = (primeDue \/ op.c = Kernel)
      /\ missedPrime' = (missedPrime \/ (op.c # Kernel /\ \E u \in op.changed : u[1] = Kernel))
  BY DEF HandleTraceActivationChanges, Unedited, array, writer
<1>2. Held' = Held /\ op'.pc # "edit" /\ op # Idle
  BY <1>1, UneditedKeeps DEF Idle
<1>3. \A g : Shared(g)' <=> Shared(g)
  BY SharedKept
<1>4. ~ primeDue' => ~ primeDue /\ op.c # Kernel
  BY <1>1
<1>5. ~ primeDue' /\ ~ missedPrime' => ~ missedPrime /\ \A u \in op.changed : u[1] # Kernel
  BY <1>1
<1>6. Grows'
  BY <1>2 DEF Grows
<1>7. Opened'
  BY <1>1, <1>2, <1>3 DEF Filters, Opened
<1>8. Closed'
  BY <1>1, <1>2, <1>4 DEF Filters, Closed
<1>9. Passed'
  <2> SUFFICES ASSUME iActiveWriter # NoWriter, ~ primeDue', ~ missedPrime',
                      NEW g \in Categories \ {ECpuUsage}, <<Kernel, g>> \in Held, ~ Shared(g)
               PROVE  g \in filter
    BY <1>1, <1>2, <1>3 DEF Passed
  <2>1. <<Kernel, g>>[1] = Kernel
    OBVIOUS
  <2>2. <<Kernel, g>> \notin op.changed
    BY <1>5, <2>1
  <2> QED BY <1>4, <1>5, <2>2 DEF Filters, Passed
<1> QED BY <1>6, <1>7, <1>8, <1>9 DEF Filters

\* What the live array holds of the kernel component is shown by iTmpArray.
LEMMA LiveIsHeld ==
  ASSUME Inv, Grows, op = Idle \/ op.fromSettings \/ op.c # Kernel,
         NEW g, Holds(iOstComponents, Kernel, g)
  PROVE  <<Kernel, g>> \in Held
<1>0. Blocks
  BY DEF Inv, Shape
<1>1. <<Kernel, g>> \in Activated
  BY <1>0, LiveShown
<1>2. CASE op.pc # "edit"
  BY <1>1, <1>2, OneArray
<1>3. CASE op.pc = "edit"
  <2>1. Kernel \in DOMAIN iOstComponents /\ In(store[Kernel], iOstComponents[Kernel], g)
    BY <1>0, <1>1, ShownPairs
  <2>2. /\ iOstComponents[Kernel] <= iTmpArray[Kernel] /\ Kernel \in DOMAIN iTmpArray
        /\ iOstComponents[Kernel] \in Nat /\ iTmpArray[Kernel] \in Nat
    BY <1>0, <1>3, <2>1 DEF Grows, Blocks, Within, Idle
  <2>3. PICK k \in 1 .. iOstComponents[Kernel] : store[Kernel][k] = g
    BY <2>1 DEF In
  <2>4. k \in 1 .. iTmpArray[Kernel]
    BY <2>2, <2>3
  <2>5. In(store[Kernel], iTmpArray[Kernel], g)
    BY <2>3, <2>4 DEF In
  <2> QED BY <1>0, <2>2, <2>5, ShownPairs
<1> QED BY <1>2, <1>3

LEMMA PrimeFilters ==
  ASSUME Inv, Lined, Filters, PrimeDfc, scenario' = scenario
  PROVE  Filters'
<1>1. /\ op = Idle /\ op' = Idle /\ Unedited /\ iActiveWriter' = iActiveWriter
      /\ filter' = Primed(Categories)
      /\ missedPrime' = (iWriter = NoWriter /\ iActiveWriter # NoWriter)
  BY DEF PrimeDfc, Unedited, array, writer
<1>2. Held' = Held /\ op'.pc # "edit"
  BY <1>1, UneditedKeeps DEF Idle
<1>3. \A g : Shared(g)' <=> Shared(g)
  BY SharedKept
<1>4. \A g : Holds(iOstComponents, Kernel, g) <=> <<Kernel, g>> \in Held
  BY <1>1, OneArray, LiveShown DEF Idle
<1>5. /\ \A g : g \in filter' <=> \/ g \in filter /\ g \notin Categories
                                  \/ /\ g \in Categories /\ iWriter # NoWriter
                                     /\ <<Kernel, g>> \in Held
                                     /\ g # ECpuUsage \/ iWriter # USB
  BY <1>1, <1>4 DEF Primed
<1>6. Grows'
  BY <1>2 DEF Grows
<1>7. \A g \in Categories : ~ (g > KMaxKernelCategory)
  BY TraceAssumption DEF Categories
<1>8. Opened'
  <2> SUFFICES ASSUME NEW c, NEW g, <<c, g>> \in Held, ~ Shared(g), g > KMaxKernelCategory
               PROVE  g \in filter'
    BY <1>2, <1>3 DEF Opened
  <2>1. g \in filter /\ g \notin Categories
    BY <1>7 DEF Filters, Opened
  <2> QED BY <1>5, <2>1
<1>9. Closed'
  BY <1>2, <1>5 DEF Closed
<1>10. Passed'
  BY <1>1, <1>2, <1>3, <1>5 DEF Passed
<1> QED BY <1>6, <1>8, <1>9, <1>10 DEF Filters

LEMMA WriterFilters ==
  ASSUME Inv, Lined, Filters, Settled, NEW w, PrepareSetWriter(w), scenario' = scenario
  PROVE  Filters'
<1>1. /\ iActiveWriter' = w /\ op' = op /\ Unedited /\ iActiveWriter = iWriter
      /\ primeDue' = (primeDue \/ (iWriter = NoWriter /\ w # NoWriter))
      /\ missedPrime' = (missedPrime \/ (iWriter = USB /\ w = XTI))
      /\ filter' = IF iWriter # NoWriter /\ w = NoWriter THEN Primed(Categories)
                   ELSE IF w = USB THEN Primed({ECpuUsage}) ELSE filter
  BY DEF PrepareSetWriter, Unedited, array, Settled
<1>2. Held' = Held /\ iOstComponents' = iOstComponents /\ iTmpArray' = iTmpArray
  BY <1>1, UneditedKeeps DEF Unedited
<1>3. \A g : Shared(g)' <=> Shared(g)
  BY SharedKept
<1>4. ECpuUsage \in Categories /\ \A g \in Categories : ~ (g > KMaxKernelCategory)
  BY GroupsAssumption, TraceAssumption DEF Categories
<1>5. ASSUME NEW gs
      PROVE  \A g : g \in Primed(gs) <=> \/ g \in filter /\ g \notin gs
                                         \/ /\ g \in gs /\ iWriter # NoWriter
                                            /\ Holds(iOstComponents, Kernel, g)
                                            /\ g # ECpuUsage \/ iWriter # USB
  BY DEF Primed
<1>6. \A g : g \notin Categories => (g \in filter' <=> g \in filter)
  BY <1>1, <1>4, <1>5
<1>7. \A g : g \in filter' => g \in filter \/ Holds(iOstComponents, Kernel, g)
  BY <1>1, <1>5
<1>8. w # NoWriter => \A g : g # ECpuUsage => (g \in filter' <=> g \in filter)
  BY <1>1, <1>5
<1>9. Grows'
  BY <1>1, <1>2 DEF Filters, Grows
<1>10. Opened'
  <2> SUFFICES ASSUME NEW c, NEW g, <<c, g>> \in Held, ~ Shared(g), g > KMaxKernelCategory
               PROVE  g \in filter'
    BY <1>2, <1>3 DEF Opened
  <2>1. g \in filter /\ g \notin Categories
    BY <1>4 DEF Filters, Opened
  <2> QED BY <1>6, <2>1
<1>11. Closed'
  <2> SUFFICES ASSUME ~ primeDue', op = Idle \/ op.fromSettings \/ op.c # Kernel,
                      NEW g \in filter' \cap Categories
               PROVE  <<Kernel, g>> \in Held
    BY <1>1, <1>2 DEF Closed
  <2>1. ~ primeDue
    BY <1>1
  <2>2. CASE g \in filter
    BY <2>1, <2>2 DEF Filters, Closed
  <2>3. CASE Holds(iOstComponents, Kernel, g)
    BY <2>3, LiveIsHeld DEF Filters
  <2> QED BY <1>7, <2>2, <2>3
<1>12. Passed'
  <2> SUFFICES ASSUME w # NoWriter, ~ primeDue', ~ missedPrime',
                      NEW g \in Categories \ {ECpuUsage}, <<Kernel, g>> \in Held, ~ Shared(g)
               PROVE  g \in filter \/ (op # Idle /\ <<Kernel, g>> \in op.changed)
    <3>1. \A g \in Categories \ {ECpuUsage} : w # NoWriter => (g \in filter' <=> g \in filter)
      BY <1>8
    <3> QED BY <1>1, <1>2, <1>3, <3>1 DEF Passed
  <2>1. ~ primeDue /\ iWriter # NoWriter /\ ~ missedPrime
    BY <1>1
  <2> QED BY <1>1, <2>1 DEF Filters, Passed
<1> QED BY <1>9, <1>10, <1>11, <1>12 DEF Filters

LEMMA SetFilters ==
  ASSUME Lined, Filters, SetWriter, scenario' = scenario
  PROVE  Filters'
<1>1. /\ op' = op /\ Unedited /\ UNCHANGED <<filter, primeDue, iActiveWriter, missedPrime>>
  BY DEF SetWriter, Unedited, array
<1>2. Held' = Held /\ iOstComponents' = iOstComponents /\ iTmpArray' = iTmpArray
  BY <1>1, UneditedKeeps DEF Unedited
<1>3. \A g : Shared(g)' <=> Shared(g)
  BY SharedKept
<1> QED BY <1>1, <1>2, <1>3 DEF Filters, Grows, Opened, Closed, Passed

\* Only printfs are shown after a restart, and a priming is due.
LEMMA RestartFilters ==
  ASSUME Restart
  PROVE  Filters'
<1>1. op' = Idle /\ primeDue' = TRUE /\ store' = BootStore /\ iTmpArray' = BootArray
  BY DEF Restart
<1>2. Held' = Shown(BootStore, BootArray)
  BY <1>1 DEF Held, Shown
<1>3. ASSUME NEW c, NEW g, <<c, g>> \in Held' PROVE ~ (g > KMaxKernelCategory)
  <2>1. <<c, g>>[2] <= EPlatsecPrintf /\ <<c, g>> \in Components \X Group
    BY <1>2, <1>3, Boot DEF Shown
  <2>2. g <= EPlatsecPrintf /\ g \in Group
    BY <2>1
  <2> QED BY <2>2, TraceAssumption DEF Group
<1>4. op'.pc # "edit"
  BY <1>1 DEF Idle
<1> QED BY <1>1, <1>3, <1>4 DEF Filters, Grows, Opened, Closed, Passed

LEMMA InitFilters ==
  ASSUME Init
  PROVE  Filters
<1>1. op = Idle /\ primeDue = TRUE /\ store = BootStore /\ iTmpArray = BootArray
  BY DEF Init
<1>2. Held = Shown(BootStore, BootArray)
  BY <1>1 DEF Held, Shown
<1>3. ASSUME NEW c, NEW g, <<c, g>> \in Held PROVE ~ (g > KMaxKernelCategory)
  <2>1. <<c, g>>[2] <= EPlatsecPrintf /\ <<c, g>> \in Components \X Group
    BY <1>2, <1>3, Boot DEF Shown
  <2>2. g <= EPlatsecPrintf /\ g \in Group
    BY <2>1
  <2> QED BY <2>2, TraceAssumption DEF Group
<1>4. op.pc # "edit"
  BY <1>1 DEF Idle
<1> QED BY <1>1, <1>3, <1>4 DEF Filters, Grows, Opened, Closed, Passed

LEMMA FiltersStep ==
  ASSUME Inv, Inv', Lined, Uses, Filters, [Next]_vars
  PROVE  Filters'
<1>1. scenario' = scenario
  BY DEF Next, vars
<1>2. ASSUME Unprimed, ReadFromSettings PROVE Filters'
  BY <1>1, <1>2, ReadKnown, QuietFilters
<1>3. ASSUME Unprimed, Unedited, op' = op PROVE Filters'
  BY <1>1, <1>3, QuietFilters
<1> QED BY <1>1, <1>2, <1>3, FilterKinds, OpenFilters, SwapFilters, EditFilters, ReportFilters,
           PrimeFilters, WriterFilters, SetFilters, RestartFilters

LEMMA FiltersAlways == Spec => [](Uses /\ Filters)
<1>1. Init => Uses /\ Filters
  BY UsesInit, InitFilters
<1>2. Inv /\ Inv' /\ Lined /\ Refreshing /\ Uses /\ Filters /\ [Next]_vars => Uses' /\ Filters'
  BY UsesStep, FiltersStep
<1> QED BY <1>1, <1>2, TrackedAlways, RefreshingAlways, PTL DEF Spec

\* With nothing under way, BTrace passes a kernel category only if it is
\* activated, and every activated group that no other component uses, a kernel
\* category if there is a writer and no priming was missed.
THEOREM FiltersAlwaysFollow == Spec => []FiltersFollow
<1>1. Inv /\ Filters => FiltersFollow
  <2> SUFFICES ASSUME Inv, Filters, op = Idle, ~ primeDue, Settled
               PROVE  /\ \A g \in filter \cap Categories : <<Kernel, g>> \in Activated
                      /\ \A u \in Activated :
                           ~ Shared(u[2]) =>
                             /\ u[2] > KMaxKernelCategory => u[2] \in filter
                             /\ /\ u[1] = Kernel /\ u[2] \in Categories \ {ECpuUsage}
                                /\ iWriter # NoWriter /\ ~ missedPrime
                                => u[2] \in filter
    BY DEF FiltersFollow
  <2>1. Held = Activated /\ Blocks
    BY OneArray DEF Idle
  <2>2. \A g \in filter \cap Categories : <<Kernel, g>> \in Activated
    BY <2>1 DEF Filters, Closed
  <2>3. ASSUME NEW u \in Activated, ~ Shared(u[2])
        PROVE  /\ u[2] > KMaxKernelCategory => u[2] \in filter
               /\ /\ u[1] = Kernel /\ u[2] \in Categories \ {ECpuUsage}
                  /\ iWriter # NoWriter /\ ~ missedPrime
                  => u[2] \in filter
    <3>1. <<u[1], u[2]>> \in Held
      <4>1. Activated \subseteq Components \X Group
        BY <2>1, ShownPairs
      <4>2. u = <<u[1], u[2]>>
        BY <4>1
      <4> QED BY <2>1, <4>2
    <3>2. u[2] > KMaxKernelCategory => u[2] \in filter
      BY <2>3, <3>1 DEF Filters, Opened
    <3>3. ASSUME u[1] = Kernel, u[2] \in Categories \ {ECpuUsage}, iWriter # NoWriter,
                 ~ missedPrime
          PROVE  u[2] \in filter
      <4>1. <<Kernel, u[2]>> \in Held /\ iActiveWriter # NoWriter
        BY <3>1, <3>3 DEF Settled
      <4> QED BY <2>3, <3>3, <4>1 DEF Filters, Passed
    <3> QED BY <3>2, <3>3
  <2> QED BY <2>2, <2>3
<1> QED BY <1>1, Inductive, FiltersAlways, PTL

-----------------------------------------------------------------------------
(* What the receivers are told.                                            *)

\* A change that was requested moves and records groups of its component only,
\* and every group that is recorded is in use.
Own ==
  op.pc = "edit" =>
    /\ ~ op.fromSettings => /\ moved \subseteq {op.c}
                            /\ \A c, g : <<c, g>> \in op.changed => c = op.c
    /\ AllKnown(op.changed, scenario.uses)

\* After the swap, a group that has come or gone is recorded, or all groups of
\* its component are; of these none is left, unless it is the kernel's.
Reported(o, active) ==
  o.pc = "swapped" =>
    \A c, g : /\ <<c, g>> \in active \ o.before => <<c, g>> \in o.changed
              /\ <<c, g>> \in o.before \ active =>
                   <<c, g>> \in o.changed \/ <<c, KAllGroups>> \in o.changed \ active
              /\ c # Kernel /\ <<c, g>> \in active => <<c, KAllGroups>> \notin o.changed

\* Only an edit moves a block, and the swap lets the live array follow.
LEMMA MovedKinds ==
  ASSUME [Next]_vars
  PROVE  moved' = moved \/ moved' = {} \/ EditOne
<1>1. ASSUME Changes PROVE moved' = moved \/ moved' = {} \/ EditOne
  <2>1. ASSUME NEW c, NEW gs, ActivateTrace(c, gs) \/ DeactivateTrace(c, gs) \/ OverwriteGroups(c, gs)
        PROVE  moved' = moved
    BY <2>1 DEF ActivateTrace, DeactivateTrace, OverwriteGroups, Rest
  <2>2. ASSUME NEW c, DeactivateAll(c) PROVE moved' = moved
    BY <2>2 DEF DeactivateAll, Rest
  <2>3. ASSUME HandleTraceActivationChanges \/ PrimeDfc \/ ClearItem PROVE moved' = moved
    BY <2>3 DEF HandleTraceActivationChanges, PrimeDfc, ClearItem, array
  <2>4. ASSUME SetNewComponentsArrayPtr PROVE moved' = {}
    BY <2>4 DEF SetNewComponentsArrayPtr
  <2> QED BY <1>1, <2>1, <2>2, <2>3, <2>4 DEF Changes
<1>2. ASSUME Refresh PROVE moved' = moved
  BY <1>2 DEF Refresh, RefreshActivations, RefreshOut, RefreshIn, Rest
<1>3. ASSUME Settings PROVE moved' = moved \/ moved' = {}
  BY <1>3 DEF Settings, RegisterSettings, ReadFromSettings, UnregisterSettings, Restart, Rest, array
<1>4. ASSUME NEW w, RegisterWriter(w) \/ UnregisterWriter(w) \/ SwitchToWriter(w)
      PROVE  moved' = moved
  BY <1>4 DEF RegisterWriter, UnregisterWriter, SwitchToWriter, PrepareSetWriter, array
<1>5. ASSUME UNCHANGED vars \/ SetWriter \/ Traces \/ Receivers PROVE moved' = moved
  BY <1>5 DEF vars, SetWriter, Traces, HandleFrame, CompareItem, LookUp, SwapPointers, WriteWord, Seen, Receivers, array,
              RegisterNotificationReceiver, UnregisterNotificationReceiver
<1> QED BY <1>1, <1>2, <1>3, <1>4, <1>5 DEF Next, Writers

\* The steps as far as the receivers can see them.
LEMMA NotifKinds ==
  ASSUME [Next]_vars
  PROVE  UNCHANGED notif \/ HandleTraceActivationChanges \/ Receivers \/ Restart
<1>1. ASSUME Changes PROVE UNCHANGED notif \/ HandleTraceActivationChanges
  <2>1. ASSUME NEW c, NEW gs, ActivateTrace(c, gs) \/ DeactivateTrace(c, gs) \/ OverwriteGroups(c, gs)
        PROVE  UNCHANGED notif
    BY <2>1 DEF ActivateTrace, DeactivateTrace, OverwriteGroups, Rest
  <2>2. ASSUME NEW c, DeactivateAll(c) PROVE UNCHANGED notif
    BY <2>2 DEF DeactivateAll, Rest
  <2>3. ASSUME EditOne \/ SetNewComponentsArrayPtr \/ PrimeDfc \/ ClearItem PROVE UNCHANGED notif
    BY <2>3 DEF EditOne, SetNewComponentsArrayPtr, PrimeDfc, ClearItem
  <2> QED BY <1>1, <2>1, <2>2, <2>3 DEF Changes
<1>2. ASSUME Refresh PROVE UNCHANGED notif
  BY <1>2 DEF Refresh, RefreshActivations, RefreshOut, RefreshIn, Rest
<1>3. ASSUME Settings PROVE UNCHANGED notif \/ Restart
  BY <1>3 DEF Settings, RegisterSettings, ReadFromSettings, UnregisterSettings, Rest
<1>4. ASSUME NEW w, RegisterWriter(w) \/ UnregisterWriter(w) \/ SwitchToWriter(w)
      PROVE  UNCHANGED notif
  BY <1>4 DEF RegisterWriter, UnregisterWriter, SwitchToWriter, PrepareSetWriter
<1>5. ASSUME UNCHANGED vars \/ SetWriter \/ Traces PROVE UNCHANGED notif
  BY <1>5 DEF vars, SetWriter, Traces, HandleFrame, CompareItem, LookUp, SwapPointers, WriteWord, Seen
<1> QED BY <1>1, <1>2, <1>3, <1>4, <1>5 DEF Next, Writers

\* A step that changes the arrays, starts or reports is one of these.
Goes == \/ Opens \/ ReadFromSettings \/ EditOne \/ SetNewComponentsArrayPtr
        \/ HandleTraceActivationChanges \/ Restart

LEMMA StepGoes ==
  ASSUME Inv, [Next]_vars
  PROVE  Goes \/ (Unedited /\ op' = op)
<1>1. ASSUME PrimeDfc \/ SetWriter PROVE Unedited /\ op' = op
  BY <1>1 DEF PrimeDfc, SetWriter, array, Unedited
<1>2. ASSUME NEW w, PrepareSetWriter(w) PROVE Unedited /\ op' = op
  BY <1>2 DEF PrepareSetWriter, array, Unedited
<1> QED BY <1>1, <1>2, FilterKinds DEF Goes

LEMMA OwnStep ==
  ASSUME Inv, Inv', Lined, Uses, Uses', Own, [Next]_vars
  PROVE  Own'
<1>0. scenario' = scenario
  BY DEF Next, vars
<1>1. CASE Opens
  <2>1. op = Idle /\ op.pc # "edit" /\ op'.changed = {}
    BY <1>1 DEF Opens, Idle
  <2>2. moved = {} /\ ~ EditOne
    BY <2>1 DEF Inv, Shape, Blocks, EditOne
  <2>3. moved' = {}
    BY <2>2, MovedKinds
  <2> QED BY <2>1, <2>3 DEF Own, AllKnown
<1>2. CASE Unedited /\ op' = op /\ ~ EditOne
  BY <1>0, <1>2, MovedKinds DEF Own
<1>3. CASE ReadFromSettings
  <2>1. op.fromSettings /\ op'.fromSettings = op.fromSettings /\ op'.changed = op.changed /\ op.pc = "edit"
    BY <1>3, ReadKnown
  <2> QED BY <1>0, <2>1 DEF Own
<1>4. CASE EditOne
  <2> DEFINE e == Head(op.todo)
             u == <<e.c, e.g>>
  <2>1. /\ op.pc = "edit" /\ op'.c = op.c /\ op'.fromSettings = op.fromSettings /\ e.c = op.c
        /\ \/ op'.changed = op.changed
           \/ op'.changed = op.changed \cup {u} /\ (u \in Held \/ u \in Held')
    BY <1>4, EditEffect
  <2>2. moved' \subseteq moved \cup {op.c}
    <3>1. moved' \subseteq moved \cup {e.c}
      BY <1>4 DEF EditOne, AddComponentId, AddGroupId, RemoveGroupId
    <3> QED BY <2>1, <3>1
  <2> HIDE DEF e
  <2>3. KnownIn(scenario.uses, e.c, e.g) \/ op'.changed = op.changed
    BY <1>0, <2>1 DEF Uses, AllKnown
  <2>4. \A c, g : <<c, g>> = u => c = e.c /\ g = e.g
    OBVIOUS
  <2> HIDE DEF u
  <2>5. AllKnown(op'.changed, scenario.uses)
    BY <2>1, <2>3, <2>4 DEF Own, AllKnown
  <2>6. ASSUME ~ op.fromSettings
        PROVE  moved' \subseteq {op.c} /\ \A c, g : <<c, g>> \in op'.changed => c = op.c
    BY <2>1, <2>2, <2>4, <2>6 DEF Own
  <2> QED BY <1>0, <2>1, <2>5, <2>6 DEF Own
<1>5. CASE SetNewComponentsArrayPtr
  BY <1>5, SwapEffect DEF Own
<1>6. CASE HandleTraceActivationChanges \/ Restart
  BY <1>6 DEF HandleTraceActivationChanges, Restart, Own, Idle
<1> QED BY <1>1, <1>2, <1>3, <1>4, <1>5, <1>6, StepGoes DEF Goes

\* The swap drops no group, or all groups of the component, which it records.
LEMMA SwapRecords ==
  ASSUME Inv, Inv', Lined, SetNewComponentsArrayPtr
  PROVE  /\ op'.before = op.before
         /\ \/ op'.changed = op.changed /\ Held' = Held
            \/ /\ op'.changed = op.changed \cup {<<op.c, KAllGroups>>}
               /\ \A g : <<op.c, g>> \notin Held'
               /\ \A c, g : <<c, g>> \in Held /\ c # op.c => <<c, g>> \in Held'
<1> DEFINE c == op.c
           gone == c \in DOMAIN iTmpArray /\ (op.all \/ (op.prune /\ iTmpArray[c] = 0))
           new == IF gone THEN Without(iTmpArray, c) ELSE iTmpArray
           m == IF gone /\ op.all THEN op.changed \cup {<<c, KAllGroups>>} ELSE op.changed
<1>1. /\ op.pc = "edit" /\ Change /\ Blocks /\ Blocks' /\ iTmpArray' = new
      /\ op' = [op EXCEPT !.pc = "swapped", !.changed = m]
  BY DEF SetNewComponentsArrayPtr, Inv, Shape, Operation, Idle
<1>2. op'.before = op.before /\ op'.changed = m
  <2> HIDE DEF m
  <2>1. op' = [pc |-> "swapped", c |-> op.c, todo |-> op.todo, prune |-> op.prune, all |-> op.all,
               changed |-> m, before |-> op.before,
               fromSettings |-> op.fromSettings, rest |-> op.rest]
    BY <1>1 DEF Change
  <2> QED BY <2>1
<1>3. /\ Held' \subseteq Held /\ (~ op.all => Held' = Held)
      /\ \A u \in Held : u[1] # op.c => u \in Held'
  BY SwapEffect
<1>4. /\ \A d, g : <<d, g>> \in Held => d \in DOMAIN iTmpArray
      /\ \A d, g : <<d, g>> \in Held' => d \in DOMAIN iTmpArray'
      /\ Held \subseteq Components \X Group
  BY <1>1, ShownPairs, ShownPairsNext
<1>5. \A d, g : <<d, g>> \in Held /\ d # op.c => <<d, g>> \in Held'
  <2>1. \A d, g : <<d, g>>[1] = d
    OBVIOUS
  <2> QED BY <1>3, <2>1
<1>6. CASE op.all /\ c \in DOMAIN iTmpArray
  <2>1. c \notin DOMAIN iTmpArray' /\ op'.changed = op.changed \cup {<<c, KAllGroups>>}
    BY <1>1, <1>2, <1>6 DEF Without
  <2> QED BY <1>2, <1>4, <1>5, <2>1
<1>7. CASE op.all /\ c \notin DOMAIN iTmpArray
  <2>1. op'.changed = op.changed
    BY <1>2, <1>7
  <2>2. ASSUME NEW u \in Held PROVE u \in Held'
    <3>1. u = <<u[1], u[2]>> /\ u[1] # c
      BY <1>4, <1>7
    <3> QED BY <1>3, <3>1
  <2> QED BY <1>2, <1>3, <2>1, <2>2
<1>8. CASE ~ op.all
  BY <1>2, <1>3, <1>8
<1> QED BY <1>6, <1>7, <1>8

\* Group 0 is used by the kernel component only.
PrintfsApart == \A s \in Scenarios : \A u \in s.uses : u[2] = KAllGroups => u[1] = Kernel

LEMMA SwapReported ==
  ASSUME PrintfsApart, Inv, Inv', Lined, Tracked, Own, SetNewComponentsArrayPtr
  PROVE  Reported(op', Activated')
<1>1. /\ op.pc = "edit" /\ Activated' = Held' /\ Held' \subseteq Held
      /\ op.changed \subseteq op'.changed
  BY SwapEffect
<1>2. /\ op'.before = op.before
      /\ \/ op'.changed = op.changed /\ Held' = Held
         \/ /\ op'.changed = op.changed \cup {<<op.c, KAllGroups>>}
            /\ \A g : <<op.c, g>> \notin Held'
            /\ \A c, g : <<c, g>> \in Held /\ c # op.c => <<c, g>> \in Held'
  BY SwapRecords
<1>3. Held \subseteq op.before \cup op.changed /\ op.before \ op.changed \subseteq Held
  BY <1>1 DEF Tracked
<1>4. \A c : c # Kernel => <<c, KAllGroups>> \notin op.changed
  <2> SUFFICES ASSUME NEW c, c # Kernel, <<c, KAllGroups>> \in op.changed PROVE FALSE
    OBVIOUS
  <2>1. KnownIn(scenario.uses, c, KAllGroups)
    BY <1>1 DEF Own, AllKnown
  <2>2. KAllGroups \in Group
    BY TraceAssumption DEF KAllGroups, Group
  <2>3. <<c, KAllGroups>> \in scenario.uses /\ scenario \in Scenarios
    BY <2>1, <2>2 DEF KnownIn, Inv, Shape
  <2>4. <<c, KAllGroups>>[1] = c /\ <<c, KAllGroups>>[2] = KAllGroups
    OBVIOUS
  <2> QED BY <2>3, <2>4 DEF PrintfsApart
<1> SUFFICES ASSUME NEW c, NEW g
             PROVE  /\ <<c, g>> \in Held' \ op.before => <<c, g>> \in op'.changed
                    /\ <<c, g>> \in op.before \ Held' =>
                         <<c, g>> \in op'.changed \/ <<c, KAllGroups>> \in op'.changed \ Held'
                    /\ c # Kernel /\ <<c, g>> \in Held' => <<c, KAllGroups>> \notin op'.changed
  BY <1>1, <1>2 DEF Reported
<1>5. <<c, g>> \in Held' \ op.before => <<c, g>> \in op'.changed
  BY <1>1, <1>3
<1>6. <<c, g>> \in op.before \ Held' =>
        <<c, g>> \in op'.changed \/ <<c, KAllGroups>> \in op'.changed \ Held'
  BY <1>1, <1>2, <1>3
<1>7. c # Kernel /\ <<c, g>> \in Held' => <<c, KAllGroups>> \notin op'.changed
  BY <1>2, <1>4
<1> QED BY <1>5, <1>6, <1>7

LEMMA ReportedStep ==
  ASSUME PrintfsApart, Inv, Inv', Lined, Uses, Tracked, Own, Reported(op, Activated), [Next]_vars
  PROVE  Reported(op', Activated')
<1>1. CASE SetNewComponentsArrayPtr
  BY <1>1, SwapReported
<1>2. CASE Unedited /\ op' = op
  BY <1>2, UneditedKeeps
<1>3. ASSUME Goes, ~ SetNewComponentsArrayPtr PROVE op'.pc # "swapped"
  <2>1. ASSUME Opens \/ HandleTraceActivationChanges \/ Restart PROVE op'.pc # "swapped"
    BY <2>1 DEF Opens, HandleTraceActivationChanges, Restart, Idle
  <2>2. ASSUME ReadFromSettings PROVE op'.pc # "swapped"
    BY <2>2, ReadKnown
  <2>3. ASSUME EditOne PROVE op'.pc # "swapped"
    BY <2>3, EditEffect
  <2> QED BY <1>3, <2>1, <2>2, <2>3 DEF Goes
<1> QED BY <1>1, <1>2, <1>3, StepGoes DEF Reported

\* Receivers that are not torn were told of no group outside up and of every
\* group in lo, the kernel's apart.
Listens(reg, c, g) == <<c, g>> \in reg \/ <<c, KAllGroups>> \in reg

Says(reg, said, tears, lo, up) ==
  \A c, g : Listens(reg, c, g) /\ c \notin tears =>
    /\ <<c, g>> \in said => <<c, g>> \in up
    /\ <<c, g>> \in lo /\ c # Kernel => <<c, g>> \in said

\* Between two changes the receivers know what is activated; while iTmpArray is
\* edited, what was activated before; after the swap, what was before or is now.
Telling ==
  /\ \A c, g : <<c, g>> \in told => Listens(registered, c, g)
  /\ op = Idle => Says(registered, told, torn, Activated, Activated)
  /\ op.pc = "edit" => Says(registered, told, torn, op.before, op.before)
  /\ op.pc = "swapped" => Says(registered, told, torn, op.before \cap Activated, op.before \cup Activated)

LEMMA TellingBoot ==
  /\ \A c, g : <<c, g>> \in Printfs => Listens(Printfs, c, g)
  /\ \A tears : Says(Printfs, Printfs, tears, Shown(BootStore, BootArray), Shown(BootStore, BootArray))
<1>1. \A c, g : <<c, g>> \in Printfs => c = Kernel /\ g \in 0 .. EPlatsecPrintf
  BY DEF Printfs
<1>2. ASSUME NEW c, NEW g, <<c, g>> \in Shown(BootStore, BootArray) PROVE c = Kernel
  <2>1. <<c, g>>[1] = Kernel
    BY <1>2, Boot
  <2> QED BY <2>1
<1> QED BY <1>1, <1>2, Boot DEF Listens, Says

LEMMA TellingInit ==
  ASSUME Init
  PROVE  Telling
<1>1. Blocks /\ op = Idle /\ store = BootStore /\ iOstComponents = BootArray
  BY InitInv DEF Inv, Shape, Init
<1>2. Activated = Shown(BootStore, BootArray)
  BY <1>1, LiveShown
<1>3. registered = Printfs /\ told = Printfs
  BY DEF Init
<1> QED BY <1>1, <1>2, <1>3, TellingBoot DEF Telling, Idle

LEMMA TellingRestart ==
  ASSUME Inv', Restart
  PROVE  Telling'
<1>1. Blocks' /\ op' = Idle /\ store' = BootStore /\ iOstComponents' = BootArray
  BY DEF Inv, Shape, Restart
<1>2. Activated' = Shown(BootStore, BootArray)
  BY <1>1, LiveShownNext
<1>3. registered' = Printfs /\ told' = Printfs
  BY DEF Restart
<1> QED BY <1>1, <1>2, <1>3, TellingBoot DEF Telling, Idle

\* A step that leaves the notifier alone.
LEMMA TellingKeeps ==
  ASSUME Inv, Inv', Lined, Uses, Telling, UNCHANGED notif, ~ HandleTraceActivationChanges,
         ~ Restart, [Next]_vars
  PROVE  Telling'
<1>0. registered' = registered /\ told' = told /\ torn' = torn
  BY DEF notif
<1>1. CASE Unedited /\ op' = op
  <2>1. Activated' = Activated
    BY <1>1, UneditedKeeps
  <2> QED BY <1>0, <1>1, <2>1 DEF Telling
<1>2. CASE Opens
  <2>1. op = Idle /\ op'.pc = "edit" /\ op'.before = Activated /\ op' # Idle
    BY <1>2 DEF Opens, Idle
  <2> QED BY <1>0, <2>1 DEF Telling
<1>3. CASE ReadFromSettings
  <2>1. op.pc = "edit" /\ op'.pc = "edit" /\ op' # Idle /\ Change
    BY <1>3, ReadKnown DEF Inv, Shape, Operation, Idle
  <2> DEFINE c == Head(op.rest)
             todo == RestoreTodo(Head(op.rest))
             q == Tail(op.rest)
  <2>2. op' = [op EXCEPT !.c = c, !.todo = todo, !.rest = q]
    BY <1>3 DEF ReadFromSettings
  <2> HIDE DEF c, todo, q
  <2>3. op' = [pc |-> op.pc, c |-> c, todo |-> todo, prune |-> op.prune, all |-> op.all,
               changed |-> op.changed, before |-> op.before,
               fromSettings |-> op.fromSettings, rest |-> q]
    BY <2>1, <2>2 DEF Change
  <2>4. op'.before = op.before
    BY <2>3
  <2> QED BY <1>0, <2>1, <2>4 DEF Telling
<1>4. CASE EditOne
  <2>1. op.pc = "edit" /\ op'.pc = "edit" /\ op' # Idle /\ op'.before = op.before
    BY <1>4, EditEffect
  <2> QED BY <1>0, <2>1 DEF Telling
<1>5. CASE SetNewComponentsArrayPtr
  <2>1. op.pc = "edit" /\ op'.pc = "swapped" /\ op' # Idle
    BY <1>5, SwapEffect
  <2>2. op'.before = op.before
    BY <1>5, SwapRecords
  <2>3. Says(registered, told, torn, op.before \cap Activated', op.before \cup Activated')
    BY <2>1 DEF Telling, Says
  <2> QED BY <1>0, <2>1, <2>2, <2>3 DEF Telling
<1> QED BY <1>1, <1>2, <1>3, <1>4, <1>5, StepGoes DEF Goes

\* The report: what has come is told, what has gone is taken back.
LEMMA TellingReport ==
  ASSUME Inv, Reported(op, Activated), Telling, HandleTraceActivationChanges
  PROVE  Telling'
<1> DEFINE off == op.changed \ Activated
           on  == op.changed \cap Activated
           B == op.before
<1>1. /\ op.pc = "swapped" /\ op' = Idle /\ Unedited
      /\ registered' = registered /\ torn' = torn /\ told' = Notified(told, op.changed)
  BY DEF HandleTraceActivationChanges, array, Unedited
<1>2. Activated' = Activated
  BY <1>1 DEF Unedited, Activated, Pairs, Holds, View
<1>3. \A c, g : <<c, g>> \in told' <=>
        \/ <<c, g>> \in on /\ Listens(registered, c, g)
        \/ /\ <<c, g>> \in told
           /\ ~ (Listens(registered, c, g) /\ (<<c, g>> \in off \/ <<c, KAllGroups>> \in off))
  <2>1. \A c, g : <<c, g>>[1] = c /\ <<c, g>>[2] = g
    OBVIOUS
  <2> DEFINE left == TraceDeactivated(told, off)
  <2>2. told' = TraceActivated(left, on)
    BY <1>1 DEF Notified
  <2>3. \A c, g : <<c, g>> \in left <=>
          /\ <<c, g>> \in told
          /\ ~ (Listens(registered, c, g) /\ (<<c, g>> \in off \/ <<c, KAllGroups>> \in off))
    <3> HIDE DEF off, on
    <3> QED BY <2>1 DEF TraceDeactivated, Hears, Listens
  <2> HIDE DEF left, on
  <2>4. \A c, g : <<c, g>> \in TraceActivated(left, on) <=>
          <<c, g>> \in left \/ (<<c, g>> \in on /\ Listens(registered, c, g))
    BY <2>1 DEF TraceActivated, Hears, Listens
  <2> QED BY <2>2, <2>3, <2>4
<1>4. \A c, g : <<c, g>> \in told' => Listens(registered, c, g)
  BY <1>3 DEF Telling
<1>5. ASSUME NEW c, NEW g, Listens(registered, c, g), c \notin torn
      PROVE  /\ <<c, g>> \in told' => <<c, g>> \in Activated
             /\ <<c, g>> \in Activated /\ c # Kernel => <<c, g>> \in told'
  <2>1. /\ <<c, g>> \in told => <<c, g>> \in B \cup Activated
        /\ <<c, g>> \in B \cap Activated /\ c # Kernel => <<c, g>> \in told
    BY <1>1, <1>5 DEF Telling, Says
  <2>2. /\ <<c, g>> \in Activated \ B => <<c, g>> \in op.changed
        /\ <<c, g>> \in B \ Activated =>
             <<c, g>> \in op.changed \/ <<c, KAllGroups>> \in op.changed \ Activated
        /\ c # Kernel /\ <<c, g>> \in Activated => <<c, KAllGroups>> \notin op.changed
    BY <1>1 DEF Reported
  <2> QED BY <1>3, <1>5, <2>1, <2>2
<1> HIDE DEF on, off, B
<1>6. Says(registered, told', torn, Activated, Activated)
  BY <1>5 DEF Says
<1> QED BY <1>1, <1>2, <1>4, <1>6 DEF Telling, Idle

\* In the middle of a change, the groups of a component that it is not about
\* are read from the live array as they were before.
LEMMA ReadsOthers ==
  ASSUME Inv, Lined, Tracked, Own, op.pc = "edit", ~ op.fromSettings, NEW c, c # op.c
  PROVE  c \notin moved /\ \A g : <<c, g>> \in Activated <=> <<c, g>> \in op.before
<1>1. c \notin moved /\ \A g : <<c, g>> \notin op.changed
  BY DEF Own
<1>2. /\ Activated \subseteq op.before \cup op.changed
      /\ op.before \ op.changed \subseteq Held
  BY DEF Tracked
<1>3. ASSUME NEW g, <<c, g>> \in op.before, <<c, g>> \notin Activated PROVE FALSE
  <2>1. <<c, g>> \in Held
    BY <1>1, <1>2, <1>3
  <2>2. \E h : <<c, h>> \in op.changed \ op.before /\ h < g
    BY <1>3, <2>1, PushedBehind
  <2> QED BY <1>1, <2>2
<1> QED BY <1>1, <1>2, <1>3

Heeds(reg, said) == \A c, g : <<c, g>> \in said => Listens(reg, c, g)

\* What a receiver of the group g of c is told when it registers.
First(new, c, g, tears, lo, up) ==
  /\ \A d, h : <<d, h>> \in new => d = c /\ (g = KAllGroups \/ h = g)
  /\ c \in tears \/ (\A h : g = KAllGroups \/ h = g =>
                       /\ <<c, h>> \in new => <<c, h>> \in up
                       /\ <<c, h>> \in lo => <<c, h>> \in new)

LEMMA SaysMore ==
  ASSUME NEW reg, NEW said, NEW tears, NEW lo, NEW up, Says(reg, said, tears, lo, up),
         Heeds(reg, said), NEW c, NEW g, NEW new, NEW tears2, tears \subseteq tears2,
         First(new, c, g, tears2, lo, up)
  PROVE  /\ Says(reg \cup {<<c, g>>}, said \cup new, tears2, lo, up)
         /\ Heeds(reg \cup {<<c, g>>}, said \cup new)
<1> DEFINE reg2 == reg \cup {<<c, g>>}
<1>1. \A d, h : Listens(reg2, d, h) <=> Listens(reg, d, h) \/ (d = c /\ (g = KAllGroups \/ h = g))
  <2>1. \A d, h : <<d, h>> = <<c, g>> <=> d = c /\ h = g
    OBVIOUS
  <2> QED BY <2>1 DEF Listens
<1>2. Heeds(reg2, said \cup new)
  BY <1>1 DEF Heeds, First
<1>3. ASSUME NEW d, NEW h, Listens(reg2, d, h), d \notin tears2
      PROVE  /\ <<d, h>> \in said \cup new => <<d, h>> \in up
             /\ <<d, h>> \in lo /\ d # Kernel => <<d, h>> \in said \cup new
  <2>1. Listens(reg, d, h) =>
          /\ <<d, h>> \in said => <<d, h>> \in up
          /\ <<d, h>> \in lo /\ d # Kernel => <<d, h>> \in said
    BY <1>3 DEF Says
  <2>2. CASE d = c /\ (g = KAllGroups \/ h = g)
    BY <1>3, <2>1, <2>2 DEF First, Heeds
  <2>3. CASE ~ (d = c /\ (g = KAllGroups \/ h = g))
    BY <1>1, <1>3, <2>1, <2>3 DEF First
  <2> QED BY <2>2, <2>3
<1> QED BY <1>2, <1>3 DEF Says

LEMMA TellingRegisters ==
  ASSUME Inv, Lined, Tracked, Own, Telling, NEW c, NEW g, RegisterNotificationReceiver(c, g)
  PROVE  Telling'
<1> DEFINE Fits(u) == u[1] = c /\ (g = KAllGroups \/ u[2] = g)
<1>1. PICK seen : /\ told' = told \cup {u \in seen : Fits(u)}
                  /\ c \notin moved => seen = Activated
  BY DEF RegisterNotificationReceiver
<1>2. /\ registered' = registered \cup {<<c, g>>} /\ torn \subseteq torn'
      /\ Unedited /\ op' = op
      /\ op.pc = "edit" /\ (op.c = c \/ op.fromSettings) => c \in torn'
  BY DEF RegisterNotificationReceiver, Unedited, array
<1>3. Activated' = Activated
  BY <1>2 DEF Unedited, Activated, Pairs, Holds, View
<1> DEFINE new == {u \in seen : Fits(u)}
<1>4. \A d, h : <<d, h>> \in new <=> <<d, h>> \in seen /\ d = c /\ (g = KAllGroups \/ h = g)
  OBVIOUS
<1>5. told' = told \cup new
  BY <1>1
<1> HIDE DEF new
<1>6. ASSUME NEW lo, NEW up, Says(registered, told, torn, lo, up),
             c \in torn' \/ (seen = Activated
                               /\ \A h : /\ <<c, h>> \in Activated => <<c, h>> \in up
                                         /\ <<c, h>> \in lo => <<c, h>> \in Activated)
      PROVE  /\ Says(registered', told', torn', lo, up)
             /\ \A d, h : <<d, h>> \in told' => Listens(registered', d, h)
  <2> DEFINE tears2 == torn'
  <2>1. Heeds(registered, told)
    BY DEF Telling, Heeds
  <2>2. First(new, c, g, tears2, lo, up)
    BY <1>4, <1>6 DEF First
  <2>3. torn \subseteq tears2 /\ Says(registered, told, torn, lo, up)
    BY <1>2, <1>6
  <2> HIDE DEF tears2
  <2>4. /\ Says(registered \cup {<<c, g>>}, told \cup new, tears2, lo, up)
        /\ Heeds(registered \cup {<<c, g>>}, told \cup new)
    BY <2>1, <2>2, <2>3, SaysMore
  <2> QED BY <1>2, <1>5, <2>4 DEF tears2, Heeds
<1>7. CASE op = Idle
  <2>1. moved = {} /\ op.pc # "edit" /\ op.pc # "swapped"
    BY <1>7 DEF Inv, Shape, Blocks, Idle
  <2>2. Says(registered, told, torn, Activated, Activated) /\ seen = Activated
    BY <1>1, <1>7, <2>1 DEF Telling
  <2>3. /\ Says(registered', told', torn', Activated, Activated)
        /\ \A d, h : <<d, h>> \in told' => Listens(registered', d, h)
    BY <1>6, <2>2
  <2> QED BY <1>2, <1>3, <1>7, <2>1, <2>3 DEF Telling
<1>8. CASE op.pc = "swapped"
  <2> DEFINE lo == op.before \cap Activated
             up == op.before \cup Activated
  <2>1. moved = {} /\ op.pc # "edit" /\ op # Idle
    BY <1>8 DEF Inv, Shape, Blocks, Idle
  <2>2. Says(registered, told, torn, lo, up) /\ seen = Activated
    BY <1>1, <1>8, <2>1 DEF Telling
  <2>3. \A h : /\ <<c, h>> \in Activated => <<c, h>> \in up
               /\ <<c, h>> \in lo => <<c, h>> \in Activated
    OBVIOUS
  <2> HIDE DEF lo, up
  <2>4. /\ Says(registered', told', torn', lo, up)
        /\ \A d, h : <<d, h>> \in told' => Listens(registered', d, h)
    BY <1>6, <2>2, <2>3
  <2> QED BY <1>2, <1>3, <1>8, <2>1, <2>4 DEF Telling, lo, up
<1>9. CASE op.pc = "edit"
  <2>1. op # Idle /\ Says(registered, told, torn, op.before, op.before)
    BY <1>9 DEF Telling, Idle
  <2>2. c \in torn' \/ (seen = Activated
                          /\ \A h : /\ <<c, h>> \in Activated => <<c, h>> \in op.before
                                    /\ <<c, h>> \in op.before => <<c, h>> \in Activated)
    BY <1>1, <1>2, <1>9, ReadsOthers
  <2>3. /\ Says(registered', told', torn', op.before, op.before)
        /\ \A d, h : <<d, h>> \in told' => Listens(registered', d, h)
    BY <1>6, <2>1, <2>2
  <2> QED BY <1>2, <1>9, <2>1, <2>3 DEF Telling
<1>10. op = Idle \/ op.pc = "swapped" \/ op.pc = "edit"
  BY DEF Inv, Shape, Operation, Change
<1> QED BY <1>7, <1>8, <1>9, <1>10

\* A receiver that is gone hears nothing; the others know what they knew.
LEMMA TellingUnregisters ==
  ASSUME Telling, NEW c, NEW g, UnregisterNotificationReceiver(c, g)
  PROVE  Telling'
<1>1. /\ registered' \subseteq registered /\ Unedited /\ op' = op
      /\ told' = {u \in told : u \in registered' \/ <<u[1], KAllGroups>> \in registered'}
      /\ torn' = torn \/ (torn' = torn \ {c} /\ ~ \E u \in registered' : u[1] = c)
  BY DEF UnregisterNotificationReceiver, Unedited, array
<1>2. Activated' = Activated
  BY <1>1 DEF Unedited, Activated, Pairs, Holds, View
<1>3. \A d, h : <<d, h>> \in told' <=> <<d, h>> \in told /\ Listens(registered', d, h)
  <2>1. \A d, h : <<d, h>>[1] = d
    OBVIOUS
  <2> QED BY <1>1, <2>1 DEF Listens
<1>4. \A d, h : Listens(registered', d, h) => Listens(registered, d, h) /\ (d \notin torn' => d \notin torn)
  <2>1. \A d, h : <<d, h>>[1] = d
    OBVIOUS
  <2>2. ASSUME NEW d, NEW h, Listens(registered', d, h) PROVE \E u \in registered' : u[1] = d
    BY <2>1, <2>2 DEF Listens
  <2> QED BY <1>1, <2>2 DEF Listens
<1>5. ASSUME NEW lo, NEW up, Says(registered, told, torn, lo, up)
      PROVE  Says(registered', told', torn', lo, up)
  BY <1>3, <1>4, <1>5 DEF Says
<1> DEFINE lo == op.before \cap Activated
           up == op.before \cup Activated
<1>6. /\ op = Idle => Says(registered', told', torn', Activated, Activated)
      /\ op.pc = "edit" => Says(registered', told', torn', op.before, op.before)
      /\ op.pc = "swapped" => Says(registered', told', torn', lo, up)
  BY <1>5 DEF Telling
<1> QED BY <1>1, <1>2, <1>3, <1>6 DEF Telling

LEMMA TellingStep ==
  ASSUME Inv, Inv', Lined, Tracked, Uses, Own, Reported(op, Activated), Telling, [Next]_vars
  PROVE  Telling'
<1>1. CASE Receivers
  BY <1>1, TellingRegisters, TellingUnregisters DEF Receivers
<1>2. CASE HandleTraceActivationChanges
  BY <1>2, TellingReport
<1>3. CASE Restart
  BY <1>3, TellingRestart
<1> QED BY <1>1, <1>2, <1>3, NotifKinds, TellingKeeps

\* Receivers of the notifier have been told, between two changes, what is
\* activated, where no component but the kernel's has a group 0, which
\* TraceDeactivated takes for all groups.
THEOREM ReceiversAlwaysAgree ==
  ASSUME \A s \in Scenarios : \A u \in s.uses : u[2] = KAllGroups => u[1] = Kernel
  PROVE  Spec => []ReceiversAgree
<1>0. PrintfsApart
  BY DEF PrintfsApart
<1> DEFINE Reports == Reported(op, Activated)
<1>1. Init => Own /\ Reports /\ Telling
  <2>1. Init => op.pc # "edit" /\ op.pc # "swapped"
    BY DEF Init, Idle
  <2> QED BY <2>1, TellingInit DEF Own, Reported
<1>2. Inv /\ Inv' /\ Lined /\ Tracked /\ Uses /\ Uses' /\ Own /\ Reports /\ Telling /\ [Next]_vars
        => Own' /\ Reports' /\ Telling'
  BY <1>0, OwnStep, ReportedStep, TellingStep
<1>3. Telling => ReceiversAgree
  <2> SUFFICES ASSUME Telling, op = Idle, NEW u \in Components \X (0 .. KMaxGroupId),
                      Hears(u[1], u[2]), u[1] \notin torn
               PROVE  /\ u \in told => u \in Activated
                      /\ u \in Activated /\ u[1] # Kernel => u \in told
    BY DEF ReceiversAgree
  <2>1. u = <<u[1], u[2]>> /\ Listens(registered, u[1], u[2])
    BY DEF Hears, Listens
  <2> QED BY <2>1 DEF Telling, Says
<1> HIDE DEF Reports
<1> QED BY <1>1, <1>2, <1>3, TrackedAlways, FiltersAlways, PTL DEF Spec
-----------------------------------------------------------------------------
(* The cache of answers.                                                   *)

Item == [c : Components \cup {0}, g : Nat, on : BOOLEAN, late : BOOLEAN]

\* The words of the items, the pointers to them, and how far the traces are.
Cache ==
  /\ iComponentGroupCache \in [1 .. CacheSize -> Item]
  /\ iCacheItem \in [1 .. CacheSize -> 1 .. CacheSize] /\ iTemp \in 1 .. CacheSize
  /\ cleared \in 0 .. CacheSize
  /\ \A x \in Contexts : frame[x].stage = "update" => frame[x].k <= CacheSize + 3

\* As many pointers, from the first, reach no answer of an older array.
Fresh == IF op = Idle THEN CacheSize ELSE IF op.pc = "swapped" THEN cleared ELSE 0

Writing  == \E y \in Contexts : Updating(y) /\ frame[y].k > 1
Sound(p) == (Writing /\ p = iCacheItem[1]) \/ ~ Stale(iComponentGroupCache[p])

\* What an update has done: iTemp holds the item that was the first, and the
\* words of the item that is the first now come from the trace.
Underway(f) ==
  LET item == iComponentGroupCache[iCacheItem[1]]
  IN  /\ f.k <= CacheSize => Sound(iTemp)
      /\ f.k > CacheSize + 1 => item.c = f.c
      /\ f.k > CacheSize + 2 => item.g = f.g

\* One update at a time, none of the fresh pointers reaches a stale answer.
Clean ==
  ~ mixed /\ Fresh > 0 =>
    /\ \A x, y \in Contexts : Updating(x) /\ Updating(y) => x = y
    /\ \A i \in 1 .. Fresh : Sound(iCacheItem[i])
    /\ \A x \in Contexts : Updating(x) => Underway(frame[x])

LEMMA FreshType ==
  ASSUME Inv, Cache
  PROVE  Fresh \in 0 .. CacheSize /\ CacheSize \in Nat /\ CacheSize >= 2
BY TraceAssumption DEF Cache, Fresh

\* A trace is a record of one of three kinds.
LEMMA FrameKinds ==
  ASSUME Inv, NEW x \in Contexts
  PROVE  /\ frame[x].stage = "update" => frame[x] \in Answer
         /\ frame[x].stage = "compare" => frame[x] \in Asking
         /\ frame[x].stage \notin {"update", "compare"} => frame[x] = NoTrace
BY DEF Inv, Frames, Framed, NoTrace, Asking, Answer

LEMMA CacheInit ==
  ASSUME Init
  PROVE  Cache /\ Clean
<1>1. /\ iComponentGroupCache = NoAnswers /\ iCacheItem = FirstOrder /\ iTemp = 1
      /\ cleared = CacheSize /\ \A x \in Contexts : frame[x] = NoTrace
  BY DEF Init
<1>2. Cache
  BY <1>1, TraceAssumption DEF Cache, NoAnswers, FirstOrder, NoTrace, Item
<1>3. \A x \in Contexts : ~ Updating(x)
  BY <1>1 DEF Updating, NoTrace
<1>4. \A p \in 1 .. CacheSize : ~ Stale(iComponentGroupCache[p])
  BY <1>1 DEF NoAnswers, Stale
<1>5. \A i \in 1 .. Fresh : iCacheItem[i] \in 1 .. CacheSize
  BY <1>1, TraceAssumption DEF FirstOrder, Fresh, Init
<1> QED BY <1>2, <1>3, <1>4, <1>5 DEF Clean, Sound

LEMMA CacheRestart ==
  ASSUME Restart
  PROVE  Cache' /\ Clean'
<1>1. /\ iComponentGroupCache' = NoAnswers /\ iCacheItem' = FirstOrder /\ iTemp' = 1
      /\ cleared' = CacheSize /\ \A x \in Contexts : frame'[x] = NoTrace
      /\ op' = Idle
  BY DEF Restart
<1>2. Cache'
  BY <1>1, TraceAssumption DEF Cache, NoAnswers, FirstOrder, NoTrace, Item
<1>3. \A x \in Contexts : ~ Updating(x)'
  BY <1>1 DEF Updating, NoTrace
<1>4. \A p \in 1 .. CacheSize : ~ Stale(iComponentGroupCache[p])'
  BY <1>1 DEF NoAnswers, Stale
<1>5. Fresh' = CacheSize /\ \A i \in 1 .. CacheSize : iCacheItem'[i] \in 1 .. CacheSize
  BY <1>1, TraceAssumption DEF FirstOrder, Fresh
<1> QED BY <1>2, <1>3, <1>4, <1>5 DEF Clean, Sound

\* A step that touches neither the cache nor the array.
LEMMA CacheKeeps ==
  ASSUME Cache, Clean, UNCHANGED reader,
         Fresh' = 0 \/ (Fresh' = Fresh /\ Activated' = Activated)
  PROVE  Cache' /\ Clean'
<1>1. UNCHANGED <<iComponentGroupCache, iCacheItem, iTemp, frame, cleared, mixed>>
  BY DEF reader, items
<1>2. Cache'
  BY <1>1 DEF Cache
<1>3. CASE Fresh' = 0
  BY <1>2, <1>3 DEF Clean
<1>4. CASE Fresh' = Fresh /\ Activated' = Activated
  <2>1. Clean' = Clean
    BY <1>1, <1>4 DEF Clean, Sound, Stale, Underway, Updating, Writing
  <2> QED BY <1>2, <2>1
<1> QED BY <1>3, <1>4

LEMMA CacheSwap ==
  ASSUME Inv, Inv', Lined, Cache, SetNewComponentsArrayPtr
  PROVE  Cache' /\ Clean'
<1>1. /\ UNCHANGED <<iComponentGroupCache, iCacheItem, iTemp>> /\ cleared' = 0
      /\ op' # Idle /\ op'.pc = "swapped"
      /\ \A x \in Contexts : frame'[x] = Superseded(frame[x])
  BY SwapEffect DEF SetNewComponentsArrayPtr, items, Idle
<1>2. \A x \in Contexts : frame'[x].stage = "update" => frame'[x].k <= CacheSize + 3
  <2> SUFFICES ASSUME NEW x \in Contexts, frame'[x].stage = "update"
               PROVE  frame'[x].k <= CacheSize + 3
    OBVIOUS
  <2> DEFINE f == frame[x]
  <2>1. frame'[x] = Superseded(f) /\ (f.stage = "update" => f \in Answer /\ f.k <= CacheSize + 3)
    BY <1>1, FrameKinds DEF Cache
  <2> HIDE DEF f
  <2>2. CASE f.stage = "update"
    BY <2>1, <2>2 DEF Superseded, Answer
  <2>3. CASE f.stage # "update"
    BY <2>1, <2>3 DEF Superseded
  <2> QED BY <2>2, <2>3
<1>3. Cache'
  BY <1>1, <1>2, TraceAssumption DEF Cache
<1>4. Fresh' = 0
  BY <1>1 DEF Fresh
<1> QED BY <1>3, <1>4 DEF Clean

\* An item is cleared: no update is under way, or the clearing is in vain.
LEMMA CacheClear ==
  ASSUME Inv, Cache, Clean, ClearItem
  PROVE  Cache' /\ Clean'
<1> DEFINE p == iCacheItem[cleared + 1]
           old == iComponentGroupCache[p]
           new == ClearedItem(old)
<1>1. /\ op.pc = "swapped" /\ op # Idle /\ cleared < CacheSize /\ cleared' = cleared + 1
      /\ iComponentGroupCache' = [iComponentGroupCache EXCEPT ![p] = new]
      /\ mixed' = (mixed \/ \E x \in Contexts : Updating(x))
      /\ UNCHANGED <<op, iCacheItem, iTemp, frame, array>>
  BY DEF ClearItem, Idle
<1>2. cleared \in Nat /\ CacheSize \in Nat /\ p \in 1 .. CacheSize /\ old \in Item
  BY <1>1, TraceAssumption DEF Cache
<1>3. new \in Item /\ new.c = 0
  BY <1>2 DEF ClearedItem, Item
<1> HIDE DEF p, old, new
<1>4. /\ iComponentGroupCache' \in [1 .. CacheSize -> Item]
      /\ iComponentGroupCache'[p] = new
      /\ \A q \in 1 .. CacheSize : q # p => iComponentGroupCache'[q] = iComponentGroupCache[q]
  BY <1>1, <1>2, <1>3 DEF Cache
<1>5. Cache'
  BY <1>1, <1>2, <1>4 DEF Cache
<1>6. Fresh = cleared /\ Fresh' = cleared + 1 /\ Activated' = Activated
  BY <1>1 DEF Fresh, Activated, Pairs, Holds, View, array
<1>7. ASSUME ~ mixed'
      PROVE  /\ \A x \in Contexts : ~ Updating(x)'
             /\ \A i \in 1 .. Fresh' : ~ Stale(iComponentGroupCache[iCacheItem[i]])'
  <2>1. ~ mixed /\ \A x \in Contexts : ~ Updating(x)
    BY <1>1, <1>7
  <2>2. ~ Writing /\ \A x \in Contexts : ~ Updating(x)'
    BY <1>1, <2>1 DEF Writing, Updating
  <2> SUFFICES ASSUME NEW i \in 1 .. Fresh' PROVE ~ Stale(iComponentGroupCache[iCacheItem[i]])'
    BY <2>2
  <2> DEFINE q == iCacheItem[i]
  <2>3. q \in 1 .. CacheSize /\ (i = cleared + 1 => q = p) /\ iCacheItem'[i] = q
    <3>1. i \in 1 .. CacheSize /\ iCacheItem' = iCacheItem
      BY <1>1, <1>2, <1>6
    <3>2. i = cleared + 1 => q = p
      BY DEF p
    <3> QED BY <3>1, <3>2 DEF Cache
  <2>4. CASE q = p
    BY <1>3, <1>4, <2>3, <2>4 DEF Stale
  <2>5. CASE q # p
    <3>1. i \in 1 .. Fresh /\ Fresh > 0
      BY <1>2, <1>6, <2>3, <2>5
    <3>2. ~ Stale(iComponentGroupCache[q])
      BY <2>1, <2>2, <3>1 DEF Clean, Sound
    <3>3. iComponentGroupCache'[q] = iComponentGroupCache[q]
      BY <1>4, <2>3, <2>5
    <3> HIDE DEF q
    <3> QED BY <1>6, <2>3, <3>2, <3>3 DEF Stale
  <2> QED BY <2>4, <2>5
<1>8. Clean'
  BY <1>7 DEF Clean, Sound
<1> QED BY <1>5, <1>8

\* A trace that has not begun to write.
LEMMA CacheReads ==
  ASSUME Inv, Cache, Clean, NEW x \in Contexts, NEW f, Seen, UNCHANGED <<items, mixed>>,
         frame' = [frame EXCEPT ![x] = f], frame[x].stage = "update" => FALSE,
         f.stage = "update" => f.k = 0
  PROVE  Cache' /\ Clean'
<1>1. /\ UNCHANGED <<op, cleared, mixed, iComponentGroupCache, iCacheItem, iTemp>>
      /\ Activated' = Activated
  BY DEF Seen, items, array, Activated, Pairs, Holds, View
<1>2. \A y \in Contexts : frame'[y] = IF y = x THEN f ELSE frame[y]
  BY DEF Inv, Frames, Framed
<1>3. \A y \in Contexts : frame'[y].stage = "update" => frame'[y].k <= CacheSize + 3
  BY <1>2, TraceAssumption DEF Cache
<1>4. Cache'
  BY <1>1, <1>3 DEF Cache
<1>5. \A y \in Contexts : /\ Updating(y)' <=> Updating(y)
                          /\ Updating(y) => frame'[y] = frame[y]
  BY <1>2 DEF Updating
<1>6. Fresh' = Fresh /\ (Writing' <=> Writing)
  BY <1>1, <1>5 DEF Fresh, Writing
<1>7. \A p : Sound(p)' <=> Sound(p)
  BY <1>1, <1>6 DEF Sound, Stale
<1>8. \A y \in Contexts : Updating(y) => (Underway(frame[y])' <=> Underway(frame[y]))
  BY <1>1, <1>5, <1>7 DEF Underway
<1>9. Clean'
  BY <1>1, <1>5, <1>6, <1>7, <1>8 DEF Clean
<1> QED BY <1>4, <1>9

LEMMA CacheAsks ==
  ASSUME Inv, Cache, Clean, NEW x \in Contexts, NEW c, NEW g,
         HandleFrame(x, c, g) \/ CompareItem(x) \/ LookUp(x)
  PROVE  Cache' /\ Clean'
<1>1. Seen /\ UNCHANGED <<items, mixed>> /\ frame[x].stage # "update"
  BY DEF HandleFrame, CompareItem, LookUp, NoTrace
<1>2. CASE HandleFrame(x, c, g)
  <2> DEFINE f == [stage |-> "compare", c |-> c, g |-> g, k |-> 1]
  <2>1. frame' = [frame EXCEPT ![x] = f] /\ f.stage # "update"
    BY <1>2 DEF HandleFrame
  <2> HIDE DEF f
  <2> QED BY <1>1, <2>1, CacheReads
<1>3. CASE CompareItem(x)
  <2> DEFINE f == frame[x]
             h == [f EXCEPT !.k = @ + 1]
  <2>1. f \in Asking
    BY <1>3, FrameKinds DEF CompareItem
  <2>2. frame' = [frame EXCEPT ![x] = NoTrace] \/ frame' = [frame EXCEPT ![x] = h]
    BY <1>3 DEF CompareItem
  <2>3. h.stage # "update" /\ NoTrace.stage # "update"
    BY <2>1 DEF Asking, NoTrace
  <2> HIDE DEF f, h
  <2> QED BY <1>1, <2>2, <2>3, CacheReads
<1>4. CASE LookUp(x)
  <2>1. PICK on : frame' = [frame EXCEPT ![x] = [stage |-> "update", c |-> @.c, g |-> @.g, k |-> 0,
                                                 on |-> on, late |-> FALSE]]
    BY <1>4 DEF LookUp
  <2> DEFINE f == [stage |-> "update", c |-> frame[x].c, g |-> frame[x].g, k |-> 0,
                   on |-> on, late |-> FALSE]
  <2>2. frame' = [frame EXCEPT ![x] = f] /\ f.k = 0
    BY <2>1
  <2> HIDE DEF f
  <2> QED BY <1>1, <2>2, CacheReads
<1> QED BY <1>2, <1>3, <1>4

\* What the two kinds of steps of an update have in common.
LEMMA UpdateGoes ==
  ASSUME Inv, Cache, NEW x \in Contexts, SwapPointers(x) \/ WriteWord(x)
  PROVE  /\ Fresh' = Fresh /\ Activated' = Activated /\ cleared' = cleared
         /\ frame[x] \in Answer /\ frame[x].stage = "update" /\ frame[x].k \in 0 .. CacheSize + 3
         /\ \A y \in Contexts \ {x} : frame'[y] = frame[y]
         /\ IF frame[x].k = CacheSize + 3 THEN frame'[x] = NoTrace
            ELSE frame'[x] = [frame[x] EXCEPT !.k = @ + 1]
<1>1. Seen /\ frame[x].stage = "update"
  BY DEF SwapPointers, WriteWord
<1>2. frame[x] \in Answer /\ CacheSize \in Nat
  BY <1>1, FrameKinds, TraceAssumption
<1>3. frame[x].k \in 0 .. CacheSize + 3
  BY <1>1, <1>2 DEF Cache, Answer
<1>4. Fresh' = Fresh /\ Activated' = Activated /\ cleared' = cleared
  BY <1>1 DEF Seen, Fresh, array, Activated, Pairs, Holds, View
<1>5. frame' = IF frame[x].k = CacheSize + 3 THEN [frame EXCEPT ![x] = NoTrace]
               ELSE [frame EXCEPT ![x].k = @ + 1]
  <2>1. CASE SwapPointers(x)
    <3>1. frame[x].k # CacheSize + 3
      BY <1>2, <2>1 DEF SwapPointers, Answer
    <3> QED BY <2>1, <3>1 DEF SwapPointers
  <2>2. CASE WriteWord(x)
    BY <2>2 DEF WriteWord
  <2> QED BY <2>1, <2>2
<1>6. frame \in [Contexts -> {NoTrace} \cup Asking \cup Answer]
  BY DEF Inv, Frames, Framed
<1> QED BY <1>1, <1>2, <1>3, <1>4, <1>5, <1>6

LEMMA CacheSwapsPointers ==
  ASSUME Inv, Cache, Clean, NEW x \in Contexts, SwapPointers(x)
  PROVE  Cache' /\ Clean'
<1> DEFINE f == frame[x]
           k == frame[x].k
           I == iCacheItem
           J == iCacheItem'
<1>1. /\ Fresh' = Fresh /\ Activated' = Activated /\ cleared' = cleared
      /\ f \in Answer /\ f.stage = "update" /\ k \in 0 .. CacheSize + 3 /\ k <= CacheSize
      /\ \A y \in Contexts \ {x} : frame'[y] = frame[y]
      /\ frame'[x] = [f EXCEPT !.k = @ + 1]
  <2>1. k <= CacheSize /\ CacheSize \in Nat
    BY TraceAssumption DEF SwapPointers
  <2>2. k # CacheSize + 3
    BY <2>1, UpdateGoes
  <2> QED BY <2>1, <2>2, UpdateGoes
<1>2. /\ iTemp' = IF k = 0 THEN I[1] ELSE iTemp
      /\ J = CASE k = 0         -> I
               [] k = 1         -> [I EXCEPT ![1] = I[CacheSize]]
               [] k = CacheSize -> [I EXCEPT ![2] = iTemp]
               [] OTHER         -> [I EXCEPT ![CacheSize + 2 - k] = I[CacheSize + 1 - k]]
      /\ mixed' = (mixed \/ (k = 0 /\ \E y \in Contexts : Updating(y)))
      /\ iComponentGroupCache' = iComponentGroupCache
  BY DEF SwapPointers
<1>3. /\ CacheSize \in Nat /\ CacheSize >= 2 /\ k \in 0 .. CacheSize
      /\ I \in [1 .. CacheSize -> 1 .. CacheSize] /\ iTemp \in 1 .. CacheSize
      /\ Fresh \in 0 .. CacheSize
  BY <1>1, FreshType DEF Cache
<1>4. /\ frame'[x].stage = "update" /\ frame'[x].k = k + 1
      /\ Updating(x)' /\ (k > 0 => Updating(x))
  BY <1>1, <1>3 DEF Answer, Updating
<1>5. \A y \in Contexts \ {x} : Updating(y)' <=> Updating(y)
  BY <1>1 DEF Updating
<1> HIDE DEF f, k, I, J
\* The pointers, one by one.
<1>6. /\ k = 0 => J = I
      /\ k = 1 => J = [I EXCEPT ![1] = I[CacheSize]]
      /\ k = CacheSize => J = [I EXCEPT ![2] = iTemp]
      /\ k > 1 /\ k < CacheSize => J = [I EXCEPT ![CacheSize + 2 - k] = I[CacheSize + 1 - k]]
  BY <1>2, <1>3
<1>7. J \in [1 .. CacheSize -> 1 .. CacheSize] /\ iTemp' \in 1 .. CacheSize
  <2>1. k = 0 \/ k = 1 \/ k = CacheSize \/ (k > 1 /\ k < CacheSize)
    BY <1>3
  <2>2. 1 \in 1 .. CacheSize /\ CacheSize \in 1 .. CacheSize
    BY <1>3
  <2>3. k > 1 /\ k < CacheSize => CacheSize + 1 - k \in 1 .. CacheSize
    BY <1>3
  <2> QED BY <1>2, <1>3, <1>6, <2>1, <2>2, <2>3
<1>8. Cache'
  <2>1. frame'[x].k <= CacheSize + 3
    BY <1>3, <1>4
  <2>2. \A y \in Contexts : frame'[y].stage = "update" => frame'[y].k <= CacheSize + 3
    BY <1>1, <2>1 DEF Cache
  <2> QED BY <1>1, <1>2, <1>7, <2>2 DEF Cache, J
\* What Sound is after the step.
<1> DEFINE T(p) == (Writing' /\ p = J[1]) \/ ~ Stale(iComponentGroupCache[p])
<1>9. ASSUME ~ mixed', Fresh > 0
      PROVE  Clean'
  <2>1. /\ ~ mixed /\ Fresh \in 1 .. CacheSize
        /\ \A y \in Contexts \ {x} : ~ Updating(y)
        /\ k = 0 => ~ Updating(x)
    <3>1. ~ mixed /\ (k = 0 => \A y \in Contexts : ~ Updating(y))
      BY <1>2, <1>9, Zenon
    <3>2. k > 0 => \A y \in Contexts \ {x} : ~ Updating(y)
      BY <1>4, <1>9, <3>1 DEF Clean
    <3> QED BY <1>3, <1>9, <3>1, <3>2
  <2>2. /\ Writing <=> k > 1
        /\ Writing' <=> k > 0
    <3>1. Writing <=> Updating(x) /\ k > 1
      BY <2>1 DEF Writing, k
    <3>2. Writing' <=> k + 1 > 1
      BY <1>4, <1>5, <2>1 DEF Writing
    <3> QED BY <1>3, <1>4, <3>1, <3>2
  <2>3. \A i \in 1 .. Fresh : Sound(I[i])
    BY <1>9, <2>1 DEF Clean, I
  <2>4. k > 0 => Sound(iTemp)
    BY <1>3, <1>4, <1>9, <2>1 DEF Clean, Underway, k, f
  <2>5. \A p : (k <= 1 \/ p # I[1]) /\ Sound(p) => T(p)
    BY <1>3, <2>2 DEF Sound, I
  <2>6. k > 0 => T(J[1])
    BY <2>2
  <2>7. k > 1 => J[1] = I[1]
    BY <1>3, <1>6
  <2>8. k > 0 => \A p : Sound(p) => T(p)
    <3> HIDE DEF T
    <3> QED BY <1>3, <2>5, <2>6, <2>7
  <2> HIDE DEF T
  <2>9. \A i \in 1 .. Fresh : T(J[i])
    <3> SUFFICES ASSUME NEW i \in 1 .. Fresh PROVE T(J[i])
      OBVIOUS
    <3>1. i \in 1 .. CacheSize /\ Sound(I[i])
      <4>1. i \in 1 .. CacheSize
        BY <1>3, <2>1
      <4> QED BY <2>3, <4>1
    <3>2. CASE k = 0
      BY <1>6, <2>5, <3>1, <3>2
    <3>3. CASE k = 1
      <4>1. i = 1 \/ J[i] = I[i]
        BY <1>3, <1>6, <3>1, <3>3
      <4>2. k > 0 /\ T(J[1])
        BY <2>6, <3>3
      <4>3. CASE i = 1
        BY <4>2, <4>3
      <4>4. CASE J[i] = I[i]
        BY <2>8, <3>1, <4>2, <4>4
      <4> QED BY <4>1, <4>3, <4>4
    <3>4. CASE k = CacheSize
      <4>1. k > 0 /\ J = [I EXCEPT ![2] = iTemp]
        BY <1>3, <1>6, <3>4
      <4>2. J[i] = iTemp \/ J[i] = I[i]
        BY <1>3, <3>1, <4>1
      <4> QED BY <2>4, <2>8, <3>1, <4>1, <4>2
    <3>5. CASE k > 1 /\ k < CacheSize
      <4> DEFINE j == CacheSize + 1 - k
      <4>1. j \in 1 .. CacheSize /\ CacheSize + 2 - k = j + 1 /\ k > 0
        BY <1>3, <3>5
      <4>2. J = [I EXCEPT ![j + 1] = I[j]]
        BY <1>6, <3>5, <4>1
      <4> HIDE DEF j
      <4>3. CASE i = j + 1
        <5>1. j \in 1 .. Fresh /\ J[i] = I[j]
          BY <1>3, <2>1, <3>1, <4>1, <4>2, <4>3
        <5> QED BY <2>3, <2>8, <4>1, <5>1
      <4>4. CASE i # j + 1
        <5>1. J[i] = I[i]
          BY <1>3, <3>1, <4>1, <4>2, <4>4
        <5> QED BY <2>8, <3>1, <4>1, <5>1
      <4> QED BY <4>3, <4>4
    <3> QED BY <1>3, <3>2, <3>3, <3>4, <3>5
  <2>10. T(iTemp')
    <3>1. CASE k = 0
      <4>1. iTemp' = I[1] /\ Sound(I[1])
        BY <1>2, <2>1, <2>3, <3>1
      <4> QED BY <2>5, <3>1, <4>1
    <3>2. CASE k # 0
      <4>1. iTemp' = iTemp /\ k > 0
        BY <1>2, <1>3, <3>2
      <4> QED BY <2>4, <2>8, <4>1
    <3> QED BY <3>1, <3>2
  <2>11. /\ \A i \in 1 .. Fresh : Sound(iCacheItem[i])'
         /\ Sound(iTemp)'
    <3>1. \A i \in 1 .. Fresh : Sound(iCacheItem[i])' <=> T(J[i])
      BY <1>1, <1>2 DEF Sound, Stale, T, J
    <3>2. Sound(iTemp)' <=> T(iTemp')
      BY <1>1, <1>2 DEF Sound, Stale, T, J
    <3> QED BY <2>9, <2>10, <3>1, <3>2
  <2>12. \A y \in Contexts : Updating(y)' => y = x
    BY <1>5, <2>1
  <2>13. Underway(frame[x])'
    BY <1>3, <1>4, <2>11 DEF Underway
  <2> QED BY <1>1, <2>11, <2>12, <2>13 DEF Clean
<1>10. CASE mixed'
  BY <1>8, <1>10, Zenon DEF Clean
<1>11. CASE ~ (Fresh > 0)
  BY <1>1, <1>8, <1>11, Zenon DEF Clean
<1> QED BY <1>8, <1>9, <1>10, <1>11

LEMMA CacheWrites ==
  ASSUME Inv, Cache, Clean, NEW x \in Contexts, WriteWord(x)
  PROVE  Cache' /\ Clean'
<1> DEFINE f == frame[x]
           k == frame[x].k
           p == iCacheItem[1]
           old == iComponentGroupCache[p]
           new == CASE k = CacheSize + 1 -> [old EXCEPT !.c = f.c]
                    [] k = CacheSize + 2 -> [old EXCEPT !.g = f.g]
                    [] OTHER             -> [old EXCEPT !.on = f.on, !.late = f.late]
<1>1. /\ Fresh' = Fresh /\ Activated' = Activated /\ cleared' = cleared
      /\ f \in Answer /\ f.stage = "update" /\ k \in 0 .. CacheSize + 3 /\ k > CacheSize
      /\ \A y \in Contexts \ {x} : frame'[y] = frame[y]
      /\ IF k = CacheSize + 3 THEN frame'[x] = NoTrace ELSE frame'[x] = [f EXCEPT !.k = @ + 1]
  <2>1. k > CacheSize
    BY DEF WriteWord
  <2> QED BY <2>1, UpdateGoes
<1>2. /\ iComponentGroupCache' = [iComponentGroupCache EXCEPT ![p] = new]
      /\ UNCHANGED <<iCacheItem, iTemp, mixed>>
  BY DEF WriteWord
<1>3. /\ CacheSize \in Nat /\ CacheSize >= 2 /\ Fresh \in 0 .. CacheSize
      /\ k = CacheSize + 1 \/ k = CacheSize + 2 \/ k = CacheSize + 3
      /\ p \in 1 .. CacheSize /\ old \in Item
  <2>1. CacheSize \in Nat /\ CacheSize >= 2 /\ Fresh \in 0 .. CacheSize
    BY FreshType
  <2>2. k = CacheSize + 1 \/ k = CacheSize + 2 \/ k = CacheSize + 3
    BY <1>1, <2>1
  <2>3. p \in 1 .. CacheSize
    BY <2>1 DEF Cache
  <2> QED BY <2>1, <2>2, <2>3 DEF Cache
<1>4. /\ k = CacheSize + 1 => new = [old EXCEPT !.c = f.c]
      /\ k = CacheSize + 2 => new = [old EXCEPT !.g = f.g]
      /\ k = CacheSize + 3 => new = [old EXCEPT !.on = f.on, !.late = f.late]
  BY <1>3
<1>5. /\ new \in Item
      /\ k = CacheSize + 1 => new.c = f.c
      /\ k = CacheSize + 2 => new.c = old.c /\ new.g = f.g
      /\ k = CacheSize + 3 => new.c = old.c /\ new.g = old.g /\ new.on = f.on /\ new.late = f.late
  <2> HIDE DEF f, k, p, old, new
  <2>1. f \in Answer /\ old \in Item
    BY <1>1, <1>3
  <2>2. CASE k = CacheSize + 1
    BY <1>3, <1>4, <2>1, <2>2 DEF Item, Answer
  <2>3. CASE k = CacheSize + 2
    BY <1>3, <1>4, <2>1, <2>3 DEF Item, Answer
  <2>4. CASE k = CacheSize + 3
    BY <1>3, <1>4, <2>1, <2>4 DEF Item, Answer
  <2> QED BY <1>3, <2>2, <2>3, <2>4
<1>6. frame'[x].stage = "update" => /\ frame'[x] = [f EXCEPT !.k = @ + 1] /\ k # CacheSize + 3
  BY <1>1 DEF NoTrace
<1>7. /\ k # CacheSize + 3 => /\ frame'[x].stage = "update" /\ frame'[x].k = k + 1
                              /\ frame'[x].c = f.c /\ frame'[x].g = f.g /\ Updating(x)'
      /\ k = CacheSize + 3 => ~ Updating(x)'
      /\ Updating(x)
  <2>1. k # CacheSize + 3 => frame'[x].stage = "update" /\ frame'[x].k = k + 1
                             /\ frame'[x].c = f.c /\ frame'[x].g = f.g
    BY <1>1, <1>6 DEF Answer
  <2> QED BY <1>1, <1>3, <1>6, <2>1 DEF Updating
<1>8. \A y \in Contexts \ {x} : Updating(y)' <=> Updating(y)
  BY <1>1 DEF Updating
<1> HIDE DEF f, k, p, old, new
<1>9. /\ iComponentGroupCache' \in [1 .. CacheSize -> Item]
      /\ iComponentGroupCache'[p] = new
      /\ \A q \in 1 .. CacheSize : q # p => iComponentGroupCache'[q] = iComponentGroupCache[q]
  <2>1. /\ iComponentGroupCache \in [1 .. CacheSize -> Item]
        /\ p \in 1 .. CacheSize /\ new \in Item
    BY <1>3, <1>5 DEF Cache
  <2> QED BY <1>2, <2>1
<1>10. Cache'
  <2>1. \A y \in Contexts : frame'[y].stage = "update" => frame'[y].k <= CacheSize + 3
    <3>1. \A y \in Contexts \ {x} : frame'[y].stage = "update" => frame'[y].k <= CacheSize + 3
      BY <1>1 DEF Cache
    <3>2. frame'[x].stage = "update" => frame'[x].k <= CacheSize + 3
      BY <1>3, <1>6, <1>7
    <3> QED BY <3>1, <3>2
  <2> QED BY <1>1, <1>2, <1>9, <2>1 DEF Cache
<1>11. ASSUME ~ mixed', Fresh > 0
       PROVE  Clean'
  <2>1. /\ ~ mixed /\ \A y \in Contexts \ {x} : ~ Updating(y)
        /\ Writing /\ (k # CacheSize + 3 => Writing') /\ Underway(f)
    BY <1>2, <1>3, <1>7, <1>11 DEF Clean, Writing, k, f
  <2>2. \A i \in 1 .. Fresh : iCacheItem[i] \in 1 .. CacheSize /\ Sound(iCacheItem[i])
    BY <1>3, <1>11, <2>1 DEF Clean, Cache
  <2>3. \A q \in 1 .. CacheSize :
          q # p /\ Sound(q) => ~ Stale(iComponentGroupCache'[q])
    BY <1>9, <2>1 DEF Sound, p
  <2>4. k = CacheSize + 3 => ~ Stale(new)
    <3> SUFFICES ASSUME k = CacheSize + 3 PROVE ~ Stale(new)
      OBVIOUS
    <3>1. old.c = f.c /\ old.g = f.g
      BY <1>3, <2>1 DEF Underway, k, f, p, old
    <3>2. op.pc # "edit"
      BY <1>11 DEF Fresh, Idle
    <3>3. Right(f)
      BY <1>1, <3>2 DEF Inv, Frames, Framed, f
    <3> QED BY <1>5, <3>1, <3>3 DEF Right, Stale
  <2>5. \A i \in 1 .. Fresh : /\ iCacheItem'[i] = iCacheItem[i]
                              /\ \/ Writing' /\ iCacheItem[i] = iCacheItem'[1]
                                 \/ ~ Stale(iComponentGroupCache'[iCacheItem[i]])
    BY <1>2, <1>3, <1>9, <2>1, <2>2, <2>3, <2>4 DEF p
  <2>6. \A i \in 1 .. Fresh : Sound(iCacheItem[i])'
    BY <1>1, <2>5 DEF Sound, Stale
  <2>7. \A y \in Contexts : Updating(y)' => y = x /\ k # CacheSize + 3
    BY <1>7, <1>8, <2>1
  <2>8. k # CacheSize + 3 => Underway(frame[x])'
    <3> SUFFICES ASSUME k # CacheSize + 3 PROVE Underway(frame[x])'
      OBVIOUS
    <3>1. /\ iCacheItem'[1] = p /\ iComponentGroupCache'[p] = new
          /\ frame'[x].k = k + 1 /\ frame'[x].c = f.c /\ frame'[x].g = f.g
      BY <1>2, <1>7, <1>9 DEF p
    <3>2. k = CacheSize + 2 => old.c = f.c
      BY <1>3, <2>1 DEF Underway, k, f, p, old
    <3> QED BY <1>3, <1>5, <3>1, <3>2 DEF Underway
  <2> QED BY <1>1, <2>6, <2>7, <2>8 DEF Clean
<1>12. CASE mixed'
  BY <1>10, <1>12, Zenon DEF Clean
<1>13. CASE ~ (Fresh > 0)
  BY <1>1, <1>10, <1>13, Zenon DEF Clean
<1> QED BY <1>10, <1>11, <1>12, <1>13

\* The steps as far as the cache can see them.
LEMMA ReaderKinds ==
  ASSUME [Next]_vars
  PROVE  \/ UNCHANGED reader \/ SetNewComponentsArrayPtr \/ ClearItem \/ Restart
         \/ \E x \in Contexts : \/ \E c, g : HandleFrame(x, c, g)
                                \/ CompareItem(x) \/ LookUp(x)
                                \/ SwapPointers(x) \/ WriteWord(x)
<1>1. ASSUME Changes
      PROVE  UNCHANGED reader \/ SetNewComponentsArrayPtr \/ ClearItem
  <2>1. ASSUME NEW c, NEW gs, ActivateTrace(c, gs) \/ DeactivateTrace(c, gs) \/ OverwriteGroups(c, gs)
        PROVE  UNCHANGED reader
    BY <2>1 DEF ActivateTrace, DeactivateTrace, OverwriteGroups, Rest
  <2>2. ASSUME NEW c, DeactivateAll(c) PROVE UNCHANGED reader
    BY <2>2 DEF DeactivateAll, Rest
  <2>3. ASSUME EditOne \/ HandleTraceActivationChanges \/ PrimeDfc PROVE UNCHANGED reader
    BY <2>3 DEF EditOne, HandleTraceActivationChanges, PrimeDfc
  <2> QED BY <1>1, <2>1, <2>2, <2>3 DEF Changes
<1>2. ASSUME Refresh PROVE UNCHANGED reader
  BY <1>2 DEF Refresh, RefreshActivations, RefreshOut, RefreshIn, Rest
<1>3. ASSUME Settings PROVE UNCHANGED reader \/ Restart
  BY <1>3 DEF Settings, RegisterSettings, ReadFromSettings, UnregisterSettings, Rest
<1>4. ASSUME NEW w, RegisterWriter(w) \/ UnregisterWriter(w) \/ SwitchToWriter(w)
      PROVE  UNCHANGED reader
  BY <1>4 DEF RegisterWriter, UnregisterWriter, SwitchToWriter, PrepareSetWriter
<1>5. ASSUME UNCHANGED vars \/ SetWriter \/ Receivers PROVE UNCHANGED reader
  BY <1>5 DEF vars, SetWriter, Receivers, RegisterNotificationReceiver,
              UnregisterNotificationReceiver
<1>6. ASSUME Traces
      PROVE  \E x \in Contexts : \/ \E c, g : HandleFrame(x, c, g)
                                 \/ CompareItem(x) \/ LookUp(x)
                                 \/ SwapPointers(x) \/ WriteWord(x)
  BY <1>6 DEF Traces
<1> QED BY <1>1, <1>2, <1>3, <1>4, <1>5, <1>6 DEF Next, Writers

\* A step that leaves the cache alone: the array is the same, or it is about to
\* be edited.
LEMMA FreshGoes ==
  ASSUME Inv, Inv', Lined, Uses, [Next]_vars, ~ SetNewComponentsArrayPtr, ~ Restart, UNCHANGED cleared
  PROVE  Fresh' = 0 \/ (Fresh' = Fresh /\ Activated' = Activated)
<1>1. CASE Unedited /\ op' = op
  BY <1>1 DEF Unedited, Fresh, Activated, Pairs, Holds, View
<1>2. CASE Opens \/ EditOne
  <2>1. op'.pc = "edit"
    BY <1>2, EditEffect DEF Opens
  <2> QED BY <2>1 DEF Fresh, Idle
<1>3. CASE ReadFromSettings
  <2>1. op'.pc = "edit"
    BY <1>3, ReadKnown
  <2> QED BY <2>1 DEF Fresh, Idle
<1>4. CASE HandleTraceActivationChanges
  BY <1>4 DEF HandleTraceActivationChanges, array, Fresh, Idle, Activated, Pairs, Holds, View
<1> QED BY <1>1, <1>2, <1>3, <1>4, StepGoes DEF Goes

LEMMA CacheStep ==
  ASSUME Inv, Inv', Lined, Uses, Cache, Clean, [Next]_vars
  PROVE  Cache' /\ Clean'
<1>1. CASE UNCHANGED reader /\ ~ SetNewComponentsArrayPtr /\ ~ Restart
  <2>1. cleared' = cleared
    BY <1>1 DEF reader
  <2> QED BY <1>1, <2>1, FreshGoes, CacheKeeps
<1>2. ASSUME NEW x \in Contexts,
             \/ \E c, g : HandleFrame(x, c, g)
             \/ CompareItem(x) \/ LookUp(x) \/ SwapPointers(x) \/ WriteWord(x)
      PROVE  Cache' /\ Clean'
  BY <1>2, CacheAsks, CacheSwapsPointers, CacheWrites
<1> QED BY <1>1, <1>2, ReaderKinds, CacheSwap, CacheClear, CacheRestart

\* Whatever traces of threads, interrupts and CPUs, changes of the activation,
\* restarts and writers interleave, between two changes an item of the cache of
\* answers that HandleFrame compares with says what the bitmap says, and the flag
\* that all traces are off never hides an activated group.  Not covered are
\* an answer that was looked up before the arrays were swapped and written later,
\* the item that is being written, and what is cached when two updates, or an
\* update and a clearing, have overlapped since the last change: the pointers
\* are rotated without a lock, and then hold one item twice and another not at all.
\* Component id 0 stands for an empty item and is not covered either.
THEOREM FramesAlwaysFollow == Spec => []FramesFollowTheBitmap
<1>1. Init => Cache /\ Clean
  BY CacheInit
<1>2. Inv /\ Inv' /\ Lined /\ Uses /\ Cache /\ Clean /\ [Next]_vars => Cache' /\ Clean'
  BY CacheStep
<1>3. Inv /\ Cache /\ Clean => FramesFollowTheBitmap
  <2> SUFFICES ASSUME Inv, Cache, Clean, op = Idle
               PROVE  /\ ~ mixed => \A i \in DOMAIN iCacheItem :
                                      \/ iCacheItem[i] \in BeingWritten
                                      \/ ~ Stale(iComponentGroupCache[iCacheItem[i]])
                      /\ iAllTracesDeactivated => \A u \in Activated : u[2] <= EPlatsecPrintf
    BY DEF FramesFollowTheBitmap
  <2>1. Fresh = CacheSize /\ Fresh > 0 /\ DOMAIN iCacheItem = 1 .. CacheSize
    BY FreshType DEF Cache, Fresh
  <2>2. \A p : Writing /\ p = iCacheItem[1] => p \in BeingWritten
    BY DEF Writing, BeingWritten
  <2>3. ~ mixed => \A i \in 1 .. CacheSize : Sound(iCacheItem[i])
    BY <2>1 DEF Clean
  <2> QED BY <2>1, <2>2, <2>3 DEF Sound, Inv, Frames
<1> QED BY <1>1, <1>2, <1>3, TrackedAlways, FiltersAlways, PTL DEF Spec
=============================================================================
