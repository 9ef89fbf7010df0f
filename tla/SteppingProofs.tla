---------------------------- MODULE SteppingProofs ----------------------------
(***************************************************************************)
(* Proofs, for any threads, processes, code and size of the table, of the  *)
(* safety properties of Stepping.                                          *)
(*                                                                         *)
(* The argument is about the table alone.  GoodList says that entries have *)
(* their types, that the temporary ones are there, that new ids are fresh, *)
(* that an entry stands at an instruction and in its mode, and that no two *)
(* entries of the user that overlap concern one thread.  Known says that   *)
(* each breakpoint instruction has an entry, and needs that only entries   *)
(* in a library are obsolete.  Each method of the table is described by    *)
(* the list and the patched addresses that it answers with.                *)
(*                                                                         *)
(* The properties of SteppingHistory are proved for a target of one thread *)
(* in which no instruction branches to itself, and an orderly agent.  The  *)
(* invariant, History, relates the table to where the thread stands and to *)
(* what the agent has asked for and seen.                                  *)
(***************************************************************************)
EXTENDS SteppingHistory, WellFoundedInduction, TLAPS

Entry == [iId : Thread \cup Process \cup {NoId}, iAddress : Address \cup {0},
          iMode : Mode, iInstruction : {"zero", "original", "breakpoint"},
          iDisabledForStep : BOOLEAN, iObsoleteLibraryBreakpoint : BOOLEAN,
          iResumeOnceOutOfRange : BOOLEAN, iNumSteps : Int]

List == UNION {[D -> Entry] : D \in SUBSET Nat}

Table == [list : List, next : Nat, debugged : Seq(Process),
          patched : SUBSET Address, mapped : SUBSET Address, threads : SUBSET Thread]

Users(list) == {b \in DOMAIN list : ~ IsTemporaryBreak(b)}

\* An entry stands nowhere, or at an instruction and in its mode.
Stands(entry) == entry.iAddress # 0 => entry.iMode = CodeMode[entry.iAddress]

\* The temporary entries exist, the next id is fresh, and the user's entries
\* stand somewhere.
Placed(list, next) ==
    /\ TempId \subseteq DOMAIN list /\ DOMAIN list \subseteq 0 .. next - 1
    /\ \A b \in DOMAIN list : Stands(list[b])
    /\ \A b \in Users(list) : list[b].iAddress # 0

\* NoConflictingBreaks, of a list.
NoConflict(list) ==
    \A b, c \in Users(list) :
        /\ b # c
        /\ BreakpointsOverlap(list[b], list[c])
        => ~ \E t \in Thread : AppliesTo(list[b], t) /\ AppliesTo(list[c], t)

GoodList(list, next) == list \in List /\ Placed(list, next) /\ NoConflict(list)

Good(tab) == tab \in Table /\ GoodList(tab.list, tab.next)

\* Only breakpoints of a library become obsolete.
ObsoleteInLibrary(list) ==
    \A b \in DOMAIN list :
        list[b].iObsoleteLibraryBreakpoint => list[b].iAddress \in LibraryCode

Known(list, patched) ==
    \A a \in patched \ LibraryCode : \E b \in DOMAIN list : list[b].iAddress = a

Covered(tab) == ObsoleteInLibrary(tab.list) /\ Known(tab.list, tab.patched)

\* What two entries share when no request has moved the breakpoint.
SamePlace(entry, other) ==
    /\ entry.iId = other.iId
    /\ entry.iAddress = other.iAddress
    /\ entry.iMode = other.iMode

TablesGood == Good(bp) /\ pc \in [Thread -> Address]

-------------------------------------------------------------------------------
(* Lists of entries *)

\* The least element of a set of natural numbers is in it.
LEMMA MinOfNaturals ==
    ASSUME NEW S \in SUBSET Nat, S # {}
    PROVE  Min(S) \in S /\ \A y \in S : Min(S) <= y
<1>1. PICK x \in S : \A y \in S : ~ (<<y, x>> \in OpToRel(<, Nat))
  BY NatLessThanWellFounded, WFMin
<1>2. \A y \in S : ~ (y < x)
  BY <1>1 DEF OpToRel
<1>3. \A y \in S : x <= y
  BY <1>2
<1> QED
  BY <1>3 DEF Min

LEMMA ListType ==
    ASSUME NEW list
    PROVE  list \in List <=> /\ DOMAIN list \subseteq Nat
                             /\ list \in [DOMAIN list -> Entry]
BY DEF List

LEMMA UsersOfTable ==
    ASSUME NEW tab
    PROVE  UserIds(tab) = Users(tab.list)
BY DEF UserIds, Users

LEMMA NewEntryType ==
    ASSUME NEW id \in Thread \cup Process \cup {NoId}, NEW a \in Address \cup {0}, NEW m \in Mode
    PROVE  /\ TBreakEntry(id, a, m) \in Entry
           /\ TBreakEntry(id, a, m).iId = id
           /\ TBreakEntry(id, a, m).iAddress = a
           /\ TBreakEntry(id, a, m).iMode = m
           /\ TBreakEntry(id, a, m).iObsoleteLibraryBreakpoint = FALSE
BY DEF TBreakEntry, Entry

LEMMA ResetType ==
    /\ Reset \in Entry
    /\ Reset.iAddress = 0
    /\ Reset.iObsoleteLibraryBreakpoint = FALSE
BY DEF Reset, TBreakEntry, Entry, Mode

\* A list whose entries of the user are entries of a good list is good.
LEMMA KeepsGoodList ==
    ASSUME NEW list, NEW next \in Nat, GoodList(list, next),
           NEW new \in List,
           TempId \subseteq DOMAIN new, DOMAIN new \subseteq DOMAIN list,
           \A b \in Users(new) : SamePlace(new[b], list[b]),
           \A b \in TempId : Stands(new[b])
    PROVE  GoodList(new, next)
<1>1. Users(new) \subseteq Users(list)
  BY DEF Users
<1>2. DOMAIN new \subseteq Nat /\ NUMBER_OF_TEMP_BREAKPOINTS \in Nat
  BY ListType, TableAssumption
<1>3. \A b \in DOMAIN new : b \in TempId \/ b \in Users(new)
  BY <1>2 DEF Users, IsTemporaryBreak, TempId
<1>4. Placed(new, next)
  BY <1>1, <1>3 DEF GoodList, Placed, SamePlace, Stands
<1>5. NoConflict(new)
  <2> SUFFICES ASSUME NEW b \in Users(new), NEW c \in Users(new), b # c,
                      BreakpointsOverlap(new[b], new[c]),
                      NEW t \in Thread, AppliesTo(new[b], t), AppliesTo(new[c], t)
               PROVE  FALSE
    BY DEF NoConflict
  <2>1. BreakpointsOverlap(list[b], list[c]) /\ AppliesTo(list[b], t) /\ AppliesTo(list[c], t)
    BY DEF SamePlace, BreakpointsOverlap, AppliesTo
  <2> QED
    BY <1>1, <2>1 DEF GoodList, NoConflict
<1> QED
  BY <1>4, <1>5 DEF GoodList

\* The same for a list that only differs in what is noted at its entries.
LEMMA NotesKeepGoodList ==
    ASSUME NEW list, NEW next \in Nat, GoodList(list, next), NEW new \in List,
           DOMAIN new = DOMAIN list, \A b \in DOMAIN list : SamePlace(new[b], list[b])
    PROVE  /\ GoodList(new, next)
           /\ \A P : Known(list, P) => Known(new, P)
<1>1. GoodList(new, next)
  <2>1. \A b \in TempId : Stands(new[b])
    BY DEF GoodList, Placed, SamePlace, Stands
  <2> QED
    BY <2>1, KeepsGoodList DEF GoodList, Placed, Users
<1>2. \A P : Known(list, P) => Known(new, P)
  BY DEF Known, SamePlace
<1> QED
  BY <1>1, <1>2

\* Two entries that stand at different instructions do not overlap.
LEMMA StandsApart ==
    ASSUME NEW e \in Entry, NEW f \in Entry, Stands(e), Stands(f),
           e.iAddress # 0, f.iAddress # 0, BreakpointsOverlap(e, f)
    PROVE  e.iAddress = f.iAddress
<1>1. e.iAddress \in Address /\ f.iAddress \in Address /\ Address \subseteq Nat
  BY CodeAssumption DEF Entry
<1>2. \A m : BreakSize(m) \in Nat
  BY DEF BreakSize
<1>3. e.iMode = CodeMode[e.iAddress] /\ f.iMode = CodeMode[f.iAddress]
  BY DEF Stands
<1>4. /\ ~ (e.iAddress + BreakSize(CodeMode[e.iAddress]) - 1 < f.iAddress)
      /\ ~ (f.iAddress + BreakSize(CodeMode[f.iAddress]) - 1 < e.iAddress)
  BY <1>3 DEF BreakpointsOverlap
<1>5. ASSUME NEW a \in Nat, NEW c \in Nat, a \in Address, c \in Address,
             ~ (a + BreakSize(CodeMode[a]) - 1 < c), ~ (c + BreakSize(CodeMode[c]) - 1 < a)
      PROVE  a = c
  <2>1. ~ (a < c)
    BY <1>2, <1>5, InstructionsAssumption
  <2>2. ~ (c < a)
    BY <1>2, <1>5, InstructionsAssumption
  <2> QED
    BY <2>1, <2>2
<1> QED
  BY <1>1, <1>4, <1>5

-------------------------------------------------------------------------------
(* Enabling and setting *)

\* A new item is added, an old one is replaced, and nothing else changes.
WithEntry(new, list, b, e) ==
    /\ new \in List
    /\ DOMAIN new = DOMAIN list \cup {b}
    /\ new[b] = e
    /\ \A c \in DOMAIN list \ {b} : new[c] = list[c]

LEMMA PutEntry ==
    ASSUME NEW list \in List, NEW b \in Nat, NEW e \in Entry
    PROVE  WithEntry(Put(list, b, e), list, b, e)
<1>1. Put(list, b, e) = [x \in DOMAIN list \cup {b} |-> IF x = b THEN e ELSE list[x]]
  BY DEF Put
<1>2. DOMAIN list \subseteq Nat /\ list \in [DOMAIN list -> Entry]
  BY ListType
<1>3. DOMAIN Put(list, b, e) = DOMAIN list \cup {b}
  BY <1>1
<1>4. /\ DOMAIN Put(list, b, e) \subseteq Nat
      /\ Put(list, b, e) \in [DOMAIN Put(list, b, e) -> Entry]
  BY <1>1, <1>2, <1>3
<1> QED
  BY <1>1, <1>3, <1>4, ListType DEF WithEntry

\* Writing another code leaves the rest of the table alone.
Patch(tab, P) == [tab EXCEPT !.patched = P]

LEMMA PatchTable ==
    ASSUME NEW tab \in Table, NEW P \in SUBSET Address
    PROVE  /\ Patch(tab, P) \in Table
           /\ Patch(tab, P).list = tab.list
           /\ Patch(tab, P).next = tab.next
           /\ Patch(tab, P).patched = P
           /\ Patch(tab, P).threads = tab.threads
           /\ Patch(tab, P).mapped = tab.mapped
           /\ Patch(tab, P).debugged = tab.debugged
BY DEF Patch, Table

Relist(tab, L) == [tab EXCEPT !.list = L]

LEMMA RelistTable ==
    ASSUME NEW tab \in Table, NEW L \in List
    PROVE  /\ Relist(tab, L) \in Table
           /\ Relist(tab, L).list = L
           /\ Relist(tab, L).next = tab.next
           /\ Relist(tab, L).patched = tab.patched
           /\ Relist(tab, L).threads = tab.threads
           /\ Relist(tab, L).mapped = tab.mapped
           /\ Relist(tab, L).debugged = tab.debugged
BY DEF Relist, Table

LEMMA AnswerParts ==
    ASSUME NEW tab, NEW err
    PROVE  Answer(tab, err).bp = tab /\ Answer(tab, err).err = err
BY DEF Answer

\* Enabling an entry again patches its place at most.
LEMMA EnableAgainEffect ==
    ASSUME NEW tab \in Table, NEW e \in Entry
    PROVE  \E P \in SUBSET Address :
               /\ EnableAgain(tab, e).bp = Patch(tab, P)
               /\ P \subseteq tab.patched \cup ({e.iAddress} \cap tab.mapped)
<1>1. tab.patched \in SUBSET Address /\ tab.mapped \in SUBSET Address
  BY DEF Table
<1>2. tab = Patch(tab, tab.patched)
  BY DEF Patch, Table
<1>3. ModifyCode(tab, e.iAddress) = Patch(tab, tab.patched \cup ({e.iAddress} \cap tab.mapped))
  BY DEF ModifyCode, Patch
<1>4. EnableAgain(tab, e).bp \in {tab, ModifyCode(tab, e.iAddress)}
  BY AnswerParts DEF EnableAgain
<1>5. CASE EnableAgain(tab, e).bp = tab
  BY <1>1, <1>2, <1>5
<1>6. CASE EnableAgain(tab, e).bp = ModifyCode(tab, e.iAddress)
  <2>1. tab.patched \cup ({e.iAddress} \cap tab.mapped) \in SUBSET Address
    BY <1>1
  <2> QED
    BY <1>3, <1>6, <2>1
<1> QED
  BY <1>4, <1>5, <1>6

\* Enabling an entry: nothing happens, or it is put in place and patched.
LEMMA EnableBreakEffect ==
    ASSUME NEW tab \in Table, NEW b \in Nat, NEW e \in Entry
    PROVE  \/ priv_DoEnableBreak(tab, b, e).bp = tab
           \/ \E P \in SUBSET Address, s \in Entry :
                 /\ priv_DoEnableBreak(tab, b, e).bp = Relist(Patch(tab, P), Put(tab.list, b, s))
                 /\ P \subseteq tab.patched \cup {e.iAddress}
                 /\ SamePlace(s, e)
                 /\ s.iObsoleteLibraryBreakpoint = e.iObsoleteLibraryBreakpoint
<1> DEFINE saved == [e EXCEPT !.iInstruction = RawInstruction(tab, e.iAddress)]
           done == EnableAgain(tab, e)
           new == priv_DoEnableBreak(tab, b, e)
<1>1. /\ saved \in Entry /\ SamePlace(saved, e)
      /\ saved.iObsoleteLibraryBreakpoint = e.iObsoleteLibraryBreakpoint
  BY DEF Entry, RawInstruction, SamePlace
<1>2. PICK P \in SUBSET Address : /\ done.bp = Patch(tab, P)
                                  /\ P \subseteq tab.patched \cup ({e.iAddress} \cap tab.mapped)
  BY EnableAgainEffect
<1>3. done.err # "KErrNone" => done.bp = tab
  BY AnswerParts DEF EnableAgain
<1>4. done.bp.list = tab.list
  BY <1>2, PatchTable
<1>5. [done.bp EXCEPT !.list = Put(@, b, saved)] = Relist(done.bp, Put(done.bp.list, b, saved))
  BY DEF Relist, Put
<1>6. new.bp \in {done.bp, tab, Relist(Patch(tab, P), Put(tab.list, b, saved))}
      /\ (new.bp = done.bp => new.bp = tab \/ new.bp = Relist(Patch(tab, P), Put(tab.list, b, saved)))
  BY <1>2, <1>3, <1>4, <1>5, AnswerParts DEF priv_DoEnableBreak
<1> QED
  BY <1>1, <1>2, <1>6

\* What an overlapping entry is not refused for concerns no common thread.
LEMMA RefusalIsRight ==
    ASSUME NEW tab, NEW e \in Entry, NEW id \in Thread \cup Process, NEW t \in Thread,
           OverlapError(tab, e, id) = "KErrNone",
           AppliesTo(e, t), id \in {t, OwningProcess[t]}
    PROVE  FALSE
<1>1. OwningProcess[t] \in Process /\ Thread \cap Process = {}
  BY ThreadsAssumption
<1>2. e.iId \in {t, OwningProcess[t]}
  BY DEF AppliesTo
<1>3. CASE (e.iId \in Thread) = (id \in Thread)
  <2>1. e.iId = id
    BY <1>1, <1>2, <1>3
  <2> QED
    BY <1>3, <2>1 DEF OverlapError
<1>4. CASE id \in Thread /\ e.iId \notin Thread
  <2>1. id = t /\ e.iId = OwningProcess[t]
    BY <1>1, <1>2, <1>4
  <2> QED
    BY <1>4, <2>1 DEF OverlapError
<1>5. CASE id \notin Thread /\ e.iId \in Thread
  <2>1. id = OwningProcess[t] /\ e.iId = t
    BY <1>1, <1>2, <1>5
  <2> QED
    BY <1>5, <2>1 DEF OverlapError
<1> QED
  BY <1>3, <1>4, <1>5

\* A table whose ids are counted on.
Count(tab) == [tab EXCEPT !.next = @ + 1]

LEMMA CountKeepsGood ==
    ASSUME NEW tab, Good(tab)
    PROVE  /\ Count(tab) \in Table /\ Good(Count(tab))
           /\ Count(tab).list = tab.list /\ Count(tab).next = tab.next + 1
           /\ Count(tab).patched = tab.patched
<1>1. /\ Count(tab) \in Table /\ Count(tab).list = tab.list
      /\ Count(tab).next = tab.next + 1 /\ Count(tab).patched = tab.patched
  <2> DEFINE n == tab.next + 1
  <2>1. tab \in Table /\ n \in Nat /\ Count(tab) = [tab EXCEPT !.next = n]
    BY DEF Count, Good, Table
  <2> HIDE DEF n
  <2> QED
    BY <2>1 DEF n, Table
<1>2. tab.next \in Nat
  BY DEF Good, Table
<1>3. Placed(tab.list, tab.next + 1)
  BY <1>2 DEF Good, GoodList, Placed
<1> QED
  BY <1>1, <1>3 DEF Good, GoodList

\* An entry that overlaps no other one of its threads may be added.
LEMMA AddGoodEntry ==
    ASSUME NEW list, NEW next \in Nat, GoodList(list, next), NEW e \in Entry,
           Stands(e), e.iAddress # 0,
           \A c \in Users(list), t \in Thread :
               BreakpointsOverlap(e, list[c]) => ~ (AppliesTo(e, t) /\ AppliesTo(list[c], t))
    PROVE  GoodList(Put(list, next, e), next + 1)
<1> DEFINE new == Put(list, next, e)
<1>1. /\ list \in List /\ TempId \subseteq DOMAIN list /\ DOMAIN list \subseteq 0 .. next - 1
      /\ next \notin DOMAIN list /\ DOMAIN list \subseteq Nat
  BY ListType DEF GoodList, Placed
<1>2. /\ new \in List /\ DOMAIN new = DOMAIN list \cup {next} /\ new[next] = e
      /\ \A c \in DOMAIN list : new[c] = list[c]
  <2>1. WithEntry(new, list, next, e)
    BY <1>1, PutEntry
  <2> QED
    BY <1>1, <2>1 DEF WithEntry
<1> HIDE DEF new
<1>3. Placed(new, next + 1)
  <2>1. DOMAIN new \subseteq 0 .. next + 1 - 1
    BY <1>1, <1>2
  <2>2. \A b \in DOMAIN new : Stands(new[b])
    BY <1>2 DEF GoodList, Placed
  <2>3. \A b \in Users(new) : new[b].iAddress # 0
    BY <1>2 DEF GoodList, Placed, Users
  <2> QED
    BY <1>1, <1>2, <2>1, <2>2, <2>3 DEF Placed
<1>4. Users(new) \subseteq Users(list) \cup {next}
  BY <1>2 DEF Users
<1>5. \A c \in Users(list) : c \in DOMAIN list
  BY DEF Users
<1>6. ASSUME NEW b \in Users(new), NEW c \in Users(new), b # c,
             BreakpointsOverlap(new[b], new[c]),
             NEW t \in Thread, AppliesTo(new[b], t), AppliesTo(new[c], t)
      PROVE  FALSE
  <2>1. CASE b = next
    BY <1>2, <1>4, <1>5, <1>6, <2>1
  <2>2. CASE c = next
    <3>1. BreakpointsOverlap(new[c], new[b])
      BY <1>6 DEF BreakpointsOverlap
    <3> QED
      BY <1>2, <1>4, <1>5, <1>6, <2>2, <3>1
  <2>3. CASE b # next /\ c # next
    BY <1>2, <1>4, <1>5, <1>6, <2>3 DEF GoodList, NoConflict
  <2> QED
    BY <2>1, <2>2, <2>3
<1>7. NoConflict(new)
  BY <1>6 DEF NoConflict
<1> QED
  BY <1>2, <1>3, <1>7 DEF GoodList, new

\* Setting a breakpoint.
LEMMA SetBreakKeepsGood ==
    ASSUME NEW tab, Good(tab), NEW id \in Thread \cup Process, NEW a \in Address,
           NEW appended \in BOOLEAN
    PROVE  LET new == priv_DoSetBreak(tab, id, a, CodeMode[a], appended).bp
           IN  Good(new) /\ (appended /\ Covered(tab) => Covered(new))
<1> DEFINE e == TBreakEntry(id, a, CodeMode[a])
           denied == {b \in UserIds(tab) : /\ BreakpointsOverlap(e, tab.list[b])
                                            /\ OverlapError(tab, tab.list[b], id) # "KErrNone"}
           counted == Count(tab)
           enabled == priv_DoEnableBreak(counted, tab.next, e)
           kept == Relist(enabled.bp, tab.list)
           new == priv_DoSetBreak(tab, id, a, CodeMode[a], appended).bp
<1>1. /\ a # 0 /\ CodeMode[a] \in Mode /\ tab \in Table /\ tab.next \in Nat
      /\ tab.list \in List /\ tab.patched \subseteq Address
  BY CodeAssumption DEF Good, Table
<1>2. /\ e \in Entry /\ e.iId = id /\ e.iAddress = a /\ e.iMode = CodeMode[a]
      /\ e.iObsoleteLibraryBreakpoint = FALSE
  <2>1. /\ id \in Thread \cup Process \cup {NoId} /\ a \in Address \cup {0}
        /\ CodeMode[a] \in Mode
    BY <1>1
  <2> QED
    BY <2>1 DEF TBreakEntry, Entry
<1>3. \/ new = tab
      \/ denied = {} /\ ~ appended /\ new = kept
      \/ denied = {} /\ new = enabled.bp
  BY AnswerParts DEF priv_DoSetBreak, Count, Relist
<1>4. /\ counted \in Table /\ Good(counted) /\ counted.list = tab.list
      /\ counted.next = tab.next + 1 /\ counted.patched = tab.patched
  BY CountKeepsGood
<1> HIDE DEF e, new
<1>5. \/ enabled.bp = counted
      \/ \E P \in SUBSET Address, s \in Entry :
            /\ enabled.bp = Relist(Patch(counted, P), Put(tab.list, tab.next, s))
            /\ P \subseteq tab.patched \cup {a}
            /\ SamePlace(s, e) /\ s.iObsoleteLibraryBreakpoint = FALSE
  BY <1>1, <1>2, <1>4, EnableBreakEffect
<1> HIDE DEF enabled, counted
<1>6. /\ enabled.bp \in Table /\ enabled.bp.next = tab.next + 1
      /\ (Covered(tab) => Covered(enabled.bp))
      /\ (denied = {} => Good(enabled.bp))
  <2>1. CASE enabled.bp = counted
    BY <1>4, <2>1 DEF Covered
  <2>2. ASSUME NEW P \in SUBSET Address, NEW s \in Entry,
               enabled.bp = Relist(Patch(counted, P), Put(tab.list, tab.next, s)),
               P \subseteq tab.patched \cup {a},
               SamePlace(s, e), s.iObsoleteLibraryBreakpoint = FALSE
        PROVE  /\ enabled.bp \in Table /\ enabled.bp.next = tab.next + 1
               /\ (Covered(tab) => Covered(enabled.bp))
               /\ (denied = {} => Good(enabled.bp))
    <3> DEFINE L == Put(tab.list, tab.next, s)
    <3>1. tab.next \notin DOMAIN tab.list
      BY <1>1 DEF Good, GoodList, Placed
    <3>2. /\ L \in List /\ DOMAIN L = DOMAIN tab.list \cup {tab.next} /\ L[tab.next] = s
          /\ \A c \in DOMAIN tab.list : L[c] = tab.list[c]
      <4>1. WithEntry(L, tab.list, tab.next, s)
        BY <1>1, PutEntry
      <4> QED
        BY <3>1, <4>1 DEF WithEntry
    <3>3. /\ enabled.bp \in Table /\ enabled.bp.list = L
          /\ enabled.bp.next = tab.next + 1 /\ enabled.bp.patched = P
      BY <1>4, <2>2, <3>2, PatchTable, RelistTable
    <3>4. s.iAddress = a /\ s.iMode = CodeMode[a] /\ s.iId = id
      BY <1>2, <2>2 DEF SamePlace
    <3>5. ASSUME Covered(tab)
          PROVE  Covered(enabled.bp)
      <4>1. ObsoleteInLibrary(L)
        BY <2>2, <3>2, <3>5 DEF Covered, ObsoleteInLibrary
      <4>2. Known(L, P)
        BY <2>2, <3>2, <3>4, <3>5 DEF Covered, Known
      <4> QED
        BY <3>3, <4>1, <4>2 DEF Covered
    <3>6. ASSUME denied = {}
          PROVE  Good(enabled.bp)
      <4>1. ASSUME NEW c \in Users(tab.list), NEW t \in Thread,
                   BreakpointsOverlap(s, tab.list[c]), AppliesTo(s, t), AppliesTo(tab.list[c], t)
            PROVE  FALSE
        <5>1. BreakpointsOverlap(e, tab.list[c])
          BY <2>2, <4>1 DEF SamePlace, BreakpointsOverlap
        <5>2. OverlapError(tab, tab.list[c], id) = "KErrNone"
          BY <3>6, <4>1, <5>1, UsersOfTable
        <5>3. tab.list[c] \in Entry
          BY <1>1, <4>1, ListType DEF Users
        <5>4. id \in {t, OwningProcess[t]}
          BY <3>4, <4>1 DEF AppliesTo
        <5> QED
          BY <4>1, <5>2, <5>3, <5>4, RefusalIsRight
      <4>2. Stands(s) /\ s.iAddress # 0
        BY <1>1, <3>4 DEF Stands
      <4>3. GoodList(L, tab.next + 1)
        BY <1>1, <4>1, <4>2, AddGoodEntry DEF Good
      <4> QED
        BY <3>3, <4>3 DEF Good
    <3> QED
      BY <3>3, <3>5, <3>6
  <2> QED
    BY <1>5, <2>1, <2>2
<1>7. denied = {} => Good(kept)
  <2>1. /\ kept \in Table /\ kept.list = tab.list /\ kept.next = tab.next + 1
    BY <1>1, <1>6, RelistTable
  <2> QED
    BY <1>4, <2>1 DEF Good
<1>8. Good(new)
  BY <1>3, <1>6, <1>7
<1>9. appended /\ Covered(tab) => Covered(new)
  BY <1>3, <1>6
<1> QED
  BY <1>8, <1>9 DEF new

-------------------------------------------------------------------------------
(* Clearing and modifying *)

\* Entry b is gone, or reset where it is temporary; the others are as before.
WithoutEntry(new, list, b) ==
    /\ new \in List
    /\ DOMAIN new \subseteq DOMAIN list
    /\ \A c \in DOMAIN list \ {b} : c \in DOMAIN new /\ new[c] = list[c]
    /\ IsTemporaryBreak(b) => b \in DOMAIN new
    /\ b \in DOMAIN new => new[b] = Reset /\ IsTemporaryBreak(b)

LEMMA DropEntry ==
    ASSUME NEW tab \in Table, NEW b \in DOMAIN tab.list
    PROVE  /\ Drop(tab, b) \in Table
           /\ WithoutEntry(Drop(tab, b).list, tab.list, b)
           /\ Drop(tab, b).next = tab.next
           /\ Drop(tab, b).patched = tab.patched
<1> DEFINE list == tab.list
           L == IF IsTemporaryBreak(b) THEN [list EXCEPT ![b] = Reset]
                ELSE [c \in DOMAIN list \ {b} |-> list[c]]
<1>1. Drop(tab, b) = Relist(tab, L)
  BY DEF Drop, Relist
<1>2. list \in List /\ b \in DOMAIN list
  BY DEF Table
<1> HIDE DEF list
<1>3. DOMAIN list \subseteq Nat /\ list \in [DOMAIN list -> Entry]
  BY <1>2, ListType
<1>4. DOMAIN L \subseteq Nat /\ L \in [DOMAIN L -> Entry]
  BY <1>2, <1>3, ResetType
<1>5. L \in List
  BY <1>4, ListType
<1>6. WithoutEntry(L, list, b)
  BY <1>2, <1>3, <1>5 DEF WithoutEntry
<1> HIDE DEF L
<1> QED
  BY <1>1, <1>5, <1>6, RelistTable DEF list

\* Dropping an entry keeps the list good.
LEMMA DropKeepsGoodList ==
    ASSUME NEW list, NEW next \in Nat, GoodList(list, next), NEW b \in DOMAIN list,
           NEW new, WithoutEntry(new, list, b)
    PROVE  /\ GoodList(new, next)
           /\ ObsoleteInLibrary(list) => ObsoleteInLibrary(new)
<1>1. /\ list \in List /\ TempId \subseteq DOMAIN list /\ DOMAIN list \subseteq Nat
      /\ \A c \in DOMAIN list : Stands(list[c])
      /\ NUMBER_OF_TEMP_BREAKPOINTS \in Nat
  BY ListType, TableAssumption DEF GoodList, Placed
<1>2. \A c \in TempId : IsTemporaryBreak(c)
  BY <1>1 DEF TempId, IsTemporaryBreak
<1>3. TempId \subseteq DOMAIN new /\ DOMAIN new \subseteq DOMAIN list /\ new \in List
  BY <1>1, <1>2 DEF WithoutEntry
<1>4. \A c \in Users(new) : SamePlace(new[c], list[c])
  BY <1>3 DEF WithoutEntry, Users, SamePlace
<1>5. \A c \in TempId : Stands(new[c])
  BY <1>1, <1>3, ResetType DEF WithoutEntry, Stands
<1>6. GoodList(new, next)
  BY <1>3, <1>4, <1>5, KeepsGoodList
<1>7. ObsoleteInLibrary(list) => ObsoleteInLibrary(new)
  BY <1>3, ResetType DEF WithoutEntry, ObsoleteInLibrary
<1> QED
  BY <1>6, <1>7

\* The code is restored unless another entry of the user stands there.
LEMMA OthersStandApart ==
    ASSUME NEW list, NEW next \in Nat, GoodList(list, next), NEW b \in DOMAIN list,
           list[b].iAddress # 0, NEW c \in Users(list), BreakpointsOverlap(list[b], list[c])
    PROVE  c \in DOMAIN list /\ list[c].iAddress = list[b].iAddress
<1>1. c \in DOMAIN list
  BY DEF Users
<1>2. list[b] \in Entry /\ list[c] \in Entry
  BY <1>1, ListType DEF GoodList
<1>3. Stands(list[b]) /\ Stands(list[c]) /\ list[c].iAddress # 0
  BY <1>1 DEF GoodList, Placed
<1> QED
  BY <1>1, <1>2, <1>3, StandsApart

\* Clearing a breakpoint.
LEMMA ClearBreakKeepsGood ==
    ASSUME NEW tab, Good(tab), NEW b \in DOMAIN tab.list, tab.list[b].iAddress # 0
    PROVE  LET new == priv_DoClearBreak(tab, b, FALSE).bp
           IN  Good(new) /\ (Covered(tab) => Covered(new))
<1> DEFINE e == tab.list[b]
           needed == \A c \in UserIds(tab) \ {b} : ~ BreakpointsOverlap(e, tab.list[c])
           restored == IF needed THEN Patch(tab, tab.patched \ {e.iAddress}) ELSE tab
           new == priv_DoClearBreak(tab, b, FALSE).bp
<1>1. RestoreCode(tab, e.iAddress).bp = Patch(tab, tab.patched \ {e.iAddress})
  BY AnswerParts DEF RestoreCode, Patch
<1>2. \/ e.iObsoleteLibraryBreakpoint /\ new = Drop(tab, b)
      \/ new = Drop(restored, b)
      \/ new = tab
  BY <1>1, AnswerParts DEF priv_DoClearBreak
<1>3. /\ tab \in Table /\ tab.next \in Nat /\ tab.list \in List /\ tab.patched \in SUBSET Address
      /\ GoodList(tab.list, tab.next)
  BY DEF Good, Table
<1>4. /\ restored \in Table /\ restored.list = tab.list /\ restored.next = tab.next
      /\ restored.patched = IF needed THEN tab.patched \ {e.iAddress} ELSE tab.patched
  <2>1. tab.patched \ {e.iAddress} \in SUBSET Address
    BY <1>3
  <2> QED
    BY <1>3, <2>1, PatchTable
<1> HIDE DEF new, restored
<1>5. ASSUME NEW from \in {tab, restored}, new = Drop(from, b),
             e.iObsoleteLibraryBreakpoint \/ ~ needed \/ e.iAddress \notin from.patched
      PROVE  Good(new) /\ (Covered(tab) => Covered(new))
  <2>1. from \in Table /\ b \in DOMAIN from.list /\ from.list = tab.list /\ from.next = tab.next
    BY <1>3, <1>4
  <2>2. /\ new \in Table /\ WithoutEntry(new.list, tab.list, b)
        /\ new.next = tab.next /\ new.patched = from.patched
    BY <1>5, <2>1, DropEntry
  <2>3. /\ GoodList(new.list, tab.next)
        /\ ObsoleteInLibrary(tab.list) => ObsoleteInLibrary(new.list)
    BY <1>3, <2>2, DropKeepsGoodList
  <2>4. ASSUME Covered(tab), NEW a \in new.patched \ LibraryCode
        PROVE  \E c \in DOMAIN new.list : new.list[c].iAddress = a
    <3>1. a \in tab.patched
      BY <1>4, <1>5, <2>2, <2>4
    <3>2. PICK c \in DOMAIN tab.list : tab.list[c].iAddress = a
      BY <2>4, <3>1 DEF Covered, Known
    <3>3. CASE c # b
      BY <2>2, <3>2, <3>3 DEF WithoutEntry
    <3>4. CASE c = b
      <4>1. ~ e.iObsoleteLibraryBreakpoint
        BY <2>4, <3>2, <3>4 DEF Covered, ObsoleteInLibrary
      <4>2. ~ needed
        BY <1>4, <1>5, <2>2, <2>4, <3>2, <3>4, <4>1
      <4>3. PICK d \in Users(tab.list) \ {b} : BreakpointsOverlap(e, tab.list[d])
        BY <4>2, UsersOfTable
      <4>4. d \in DOMAIN tab.list /\ tab.list[d].iAddress = a
        BY <1>3, <3>2, <3>4, <4>3, OthersStandApart
      <4> QED
        BY <2>2, <4>3, <4>4 DEF WithoutEntry
    <3> QED
      BY <3>3, <3>4
  <2> QED
    BY <2>2, <2>3, <2>4 DEF Good, Covered, Known
<1>6. ASSUME new = Drop(restored, b)
      PROVE  Good(new) /\ (Covered(tab) => Covered(new))
  <2>1. ~ needed \/ e.iAddress \notin restored.patched
    BY <1>4
  <2> QED
    BY <1>5, <1>6, <2>1
<1>7. ASSUME e.iObsoleteLibraryBreakpoint, new = Drop(tab, b)
      PROVE  Good(new) /\ (Covered(tab) => Covered(new))
  BY <1>5, <1>7
<1>8. Good(new) /\ (Covered(tab) => Covered(new))
  BY <1>2, <1>6, <1>7
<1> QED
  BY <1>8 DEF new

\* An entry of the user may be moved to where no other one is.
LEMMA ReplaceGoodEntry ==
    ASSUME NEW list, NEW next \in Nat, GoodList(list, next), NEW b \in Users(list),
           NEW e \in Entry, Stands(e), e.iAddress # 0,
           \A c \in Users(list) \ {b} : ~ BreakpointsOverlap(e, list[c])
    PROVE  GoodList(Put(list, b, e), next)
<1> DEFINE new == Put(list, b, e)
<1>1. list \in List /\ DOMAIN list \subseteq Nat /\ b \in DOMAIN list
  BY ListType DEF GoodList, Users
<1>2. WithEntry(new, list, b, e)
  BY <1>1, PutEntry
<1> HIDE DEF new
<1>3. /\ new \in List /\ DOMAIN new = DOMAIN list /\ new[b] = e
      /\ \A c \in DOMAIN list \ {b} : new[c] = list[c]
  BY <1>1, <1>2 DEF WithEntry
<1>4. Users(new) = Users(list)
  BY <1>3 DEF Users
<1>5. Placed(new, next)
  BY <1>3, <1>4 DEF GoodList, Placed, Users
<1>6. ASSUME NEW c \in Users(list), NEW d \in Users(list), c # d,
             BreakpointsOverlap(new[c], new[d]),
             NEW t \in Thread, AppliesTo(new[c], t), AppliesTo(new[d], t)
      PROVE  FALSE
  <2>1. c \in DOMAIN list /\ d \in DOMAIN list
    BY DEF Users
  <2>2. BreakpointsOverlap(new[d], new[c])
    BY <1>6 DEF BreakpointsOverlap
  <2>3. c # b /\ d # b
    BY <1>3, <1>6, <2>1, <2>2
  <2> QED
    BY <1>3, <1>6, <2>1, <2>3 DEF GoodList, NoConflict
<1>7. NoConflict(new)
  BY <1>4, <1>6 DEF NoConflict
<1> QED
  BY <1>3, <1>5, <1>7 DEF GoodList, new

\* Modifying a breakpoint: what has a patch afterwards still has an entry,
\* unless the breakpoint belonged to a library that is gone.
LEMMA ModifyEntryKeepsGood ==
    ASSUME NEW tab, Good(tab), NEW b \in Users(tab.list), NEW id \in Thread \cup Process,
           NEW a \in Address, NEW opens, NEW owner \in Thread \cup Process \cup {NoId}
    PROVE  LET new == ModifyEntry(tab, b, id, a, CodeMode[a], opens, owner).bp
           IN  /\ Good(new)
               /\ ~ tab.list[b].iObsoleteLibraryBreakpoint /\ Covered(tab) => Covered(new)
<1> DEFINE e == tab.list[b]
           P == IF e.iObsoleteLibraryBreakpoint THEN tab.patched ELSE tab.patched \ {e.iAddress}
           restored == Patch(tab, P)
           e1 == [[[e EXCEPT !.iId = id] EXCEPT !.iAddress = a] EXCEPT !.iMode = CodeMode[a]]
           e2 == [[e1 EXCEPT !.iId = owner] EXCEPT !.iInstruction = RawInstruction(restored, a)]
           moved == Relist(restored, Put(tab.list, b, e1))
           saved == Relist(restored, Put(tab.list, b, e2))
           coded == Patch(saved, P \cup ({a} \cap tab.mapped))
           apart == \A c \in Users(tab.list) \ {b} : ~ BreakpointsOverlap(e1, tab.list[c])
           new == ModifyEntry(tab, b, id, a, CodeMode[a], opens, owner).bp
<1>1. /\ tab \in Table /\ tab.next \in Nat /\ tab.list \in List /\ tab.patched \in SUBSET Address
      /\ tab.mapped \in SUBSET Address /\ GoodList(tab.list, tab.next)
  BY DEF Good, Table
<1>2. /\ b \in DOMAIN tab.list /\ DOMAIN tab.list \subseteq Nat /\ b \in Nat
      /\ tab.list \in [DOMAIN tab.list -> Entry]
  BY <1>1, ListType DEF Users
<1>3. e \in Entry /\ a # 0 /\ CodeMode[a] \in Mode
  BY <1>2, CodeAssumption
<1>4. /\ e1 \in Entry /\ e1.iAddress = a /\ e1.iMode = CodeMode[a]
      /\ e1.iObsoleteLibraryBreakpoint = e.iObsoleteLibraryBreakpoint
  <2> HIDE DEF e
  <2> QED
    BY <1>3 DEF Entry
<1>5. /\ e2 \in Entry /\ e2.iAddress = a /\ e2.iMode = CodeMode[a]
      /\ e2.iObsoleteLibraryBreakpoint = e.iObsoleteLibraryBreakpoint
  <2> HIDE DEF e1, e
  <2> QED
    BY <1>4 DEF Entry, RawInstruction
<1>6. P \in SUBSET Address /\ P \cup ({a} \cap tab.mapped) \in SUBSET Address
  BY <1>1
<1>7. /\ restored \in Table /\ restored.list = tab.list /\ restored.next = tab.next
      /\ restored.patched = P /\ restored.mapped = tab.mapped
  <2> HIDE DEF P
  <2> QED
    BY <1>1, <1>6, PatchTable
<1>8. \/ new = tab
      \/ new = restored
      \/ apart /\ new = moved
      \/ apart /\ new = coded
  <2> DEFINE r0 == IF e.iObsoleteLibraryBreakpoint THEN tab ELSE RestoreCode(tab, e.iAddress).bp
             n0 == [e EXCEPT !.iId = id, !.iAddress = a, !.iMode = CodeMode[a]]
             s0 == [n0 EXCEPT !.iId = owner, !.iInstruction = RawInstruction(r0, a)]
             Moved(item) == [r0 EXCEPT !.list = Put(@, b, item)]
             there == \E c \in UserIds(tab) \ {b} : BreakpointsOverlap(n0, tab.list[c])
  <2>1. ModifyEntry(tab, b, id, a, CodeMode[a], opens, owner)
          = IF b \notin DOMAIN tab.list THEN Answer(tab, "KErrNotFound")
            ELSE IF ~ e.iObsoleteLibraryBreakpoint /\ ~ opens THEN Answer(tab, "KErrBadHandle")
            ELSE IF there THEN Answer(r0, "KErrAlreadyExists")
            ELSE IF owner = NoId THEN Answer(Moved(n0), "KErrBadHandle")
            ELSE IF a \notin tab.mapped THEN Answer(Moved(n0), "KErrBadDescriptor")
            ELSE Answer(ModifyCode(Moved(s0), a), "KErrNone")
    BY DEF ModifyEntry
  <2>2. r0 = restored
    <3>1. RestoreCode(tab, e.iAddress).bp = Patch(tab, tab.patched \ {e.iAddress})
      BY AnswerParts DEF RestoreCode, Patch
    <3>2. tab = Patch(tab, tab.patched)
      BY <1>1 DEF Patch, Table
    <3> HIDE DEF e
    <3> QED
      BY <3>1, <3>2
  <2>3. n0 = e1
    OBVIOUS
  <2> HIDE DEF r0, n0, P
  <2>4. \A item : Moved(item) = Relist(restored, Put(tab.list, b, item))
    <3> HIDE DEF restored
    <3> QED
      BY <1>7, <2>2 DEF Relist
  <2>5. s0 = e2
    BY <2>2, <2>3
  <2>6. ModifyCode(saved, a) = coded
    <3>1. Put(tab.list, b, e2) \in List
      BY <1>1, <1>2, <1>5, PutEntry DEF WithEntry
    <3>2. saved.patched = P /\ saved.mapped = tab.mapped
      BY <1>7, <3>1, RelistTable
    <3> QED
      BY <3>2 DEF ModifyCode, Patch
  <2>7. apart <=> ~ there
    BY <2>3, UsersOfTable
  <2> HIDE DEF restored, coded, e1, e2, s0, apart, there, Moved
  <2>8. Moved(n0) = moved /\ ModifyCode(Moved(s0), a) = coded
    BY <2>3, <2>4, <2>5, <2>6
  <2> HIDE DEF moved, e
  <2> QED
    BY <1>2, <2>1, <2>2, <2>7, <2>8, AnswerParts
<1>9. Good(restored)
  BY <1>1, <1>7 DEF Good
<1>10. ~ e.iObsoleteLibraryBreakpoint /\ Covered(tab) => Covered(restored)
  BY <1>7 DEF Covered, Known
<1>11. ASSUME NEW item \in Entry, item.iAddress = a, item.iMode = CodeMode[a],
              item.iObsoleteLibraryBreakpoint = e.iObsoleteLibraryBreakpoint, apart,
              NEW there \in Table, there.list = Put(tab.list, b, item), there.next = tab.next,
              there.patched \subseteq P \cup {a}
       PROVE  /\ Good(there)
              /\ ~ e.iObsoleteLibraryBreakpoint /\ Covered(tab) => Covered(there)
  <2>1. Stands(item) /\ item.iAddress # 0
    BY <1>3, <1>11 DEF Stands
  <2>2. \A c \in Users(tab.list) \ {b} : ~ BreakpointsOverlap(item, tab.list[c])
    BY <1>4, <1>11 DEF BreakpointsOverlap
  <2>3. GoodList(Put(tab.list, b, item), tab.next)
    <3> HIDE DEF e, P, apart
    <3> QED
      BY <1>1, <2>1, <2>2, ReplaceGoodEntry
  <2>4. WithEntry(there.list, tab.list, b, item)
    BY <1>1, <1>2, <1>11, PutEntry
  <2>5. ASSUME ~ e.iObsoleteLibraryBreakpoint, Covered(tab)
        PROVE  Covered(there)
    <3>1. ObsoleteInLibrary(there.list)
      BY <1>2, <1>11, <2>4, <2>5 DEF WithEntry, Covered, ObsoleteInLibrary
    <3>2. ASSUME NEW x \in there.patched \ LibraryCode
          PROVE  \E c \in DOMAIN there.list : there.list[c].iAddress = x
      <4>1. CASE x = a
        BY <1>11, <2>4, <4>1 DEF WithEntry
      <4>2. CASE x # a
        <5>1. x \in tab.patched \ LibraryCode /\ x # e.iAddress
          BY <1>11, <2>5, <3>2, <4>2
        <5>2. PICK c \in DOMAIN tab.list : tab.list[c].iAddress = x
          BY <2>5, <5>1 DEF Covered, Known
        <5> QED
          BY <2>4, <5>1, <5>2 DEF WithEntry
      <4> QED
        BY <4>1, <4>2
    <3> QED
      BY <3>1, <3>2 DEF Covered, Known
  <2> QED
    BY <1>11, <2>3, <2>5 DEF Good
<1>12. /\ Put(tab.list, b, e1) \in List
       /\ Put(tab.list, b, e2) \in List
  <2> HIDE DEF e1, e2
  <2> QED
    BY <1>1, <1>2, <1>4, <1>5, PutEntry DEF WithEntry
<1>13. /\ moved \in Table /\ moved.list = Put(tab.list, b, e1)
       /\ moved.next = tab.next /\ moved.patched = P
  BY <1>7, <1>12, RelistTable
<1>14. /\ saved \in Table /\ saved.list = Put(tab.list, b, e2)
       /\ saved.next = tab.next
  BY <1>7, <1>12, RelistTable
<1>15. /\ coded \in Table /\ coded.list = Put(tab.list, b, e2)
       /\ coded.next = tab.next /\ coded.patched \subseteq P \cup {a}
  <2> DEFINE Q == P \cup ({a} \cap tab.mapped)
  <2>1. Q \in SUBSET Address /\ Q \subseteq P \cup {a}
    BY <1>6
  <2> HIDE DEF Q, saved, P
  <2>2. Patch(saved, Q) \in Table /\ Patch(saved, Q).list = saved.list
        /\ Patch(saved, Q).next = saved.next /\ Patch(saved, Q).patched = Q
    BY <1>14, <2>1, PatchTable
  <2> QED
    BY <1>14, <2>1, <2>2 DEF Q
<1> HIDE DEF e, e1, e2, P, restored, moved, saved, coded, apart, new
<1>16. /\ apart => Good(moved)
       /\ apart /\ ~ e.iObsoleteLibraryBreakpoint /\ Covered(tab) => Covered(moved)
  BY <1>4, <1>11, <1>13
<1>17. /\ apart => Good(coded)
       /\ apart /\ ~ e.iObsoleteLibraryBreakpoint /\ Covered(tab) => Covered(coded)
  BY <1>5, <1>11, <1>15
<1>18. Good(new) /\ (~ e.iObsoleteLibraryBreakpoint /\ Covered(tab) => Covered(new))
  BY <1>8, <1>9, <1>10, <1>16, <1>17
<1> QED
  BY <1>18 DEF new, e

\* A request to modify a breakpoint of the user.
LEMMA ModifyBreakKeepsGood ==
    ASSUME Good(bp), NEW b \in Users(bp.list), NEW id \in Thread \cup Process, NEW a \in Address
    PROVE  LET new == ModifyBreakResult(b, id, a).bp
           IN  /\ Good(new)
               /\ ~ bp.list[b].iObsoleteLibraryBreakpoint /\ Covered(bp) => Covered(new)
<1> DEFINE other == FirstThread[bp.debugged[1]]
           owner == IF id \in bp.threads THEN id
                    ELSE IF bp.debugged # <<>> /\ other \in bp.threads THEN other ELSE NoId
           processOwner == IF CanOpenProcess(bp, id) THEN id ELSE NoId
<1>1. bp.threads \subseteq Thread
  BY DEF Good, Table
<1>2. owner \in Thread \cup Process \cup {NoId} /\ processOwner \in Thread \cup Process \cup {NoId}
  BY <1>1
<1>3. CASE id \in Thread
  <2>1. ModifyBreakResult(b, id, a)
           = ModifyEntry(bp, b, id, a, CodeMode[a], bp.list[b].iId \in bp.threads, owner)
    BY <1>3 DEF ModifyBreakResult, priv_DoModifyBreak
  <2> HIDE DEF owner
  <2> QED
    BY <1>2, <2>1, ModifyEntryKeepsGood
<1>4. CASE id \notin Thread
  <2>1. ModifyBreakResult(b, id, a)
           = ModifyEntry(bp, b, id, a, CodeMode[a], CanOpenProcess(bp, bp.list[b].iId), processOwner)
    BY <1>4 DEF ModifyBreakResult, priv_DoModifyProcessBreak
  <2> HIDE DEF processOwner
  <2> QED
    BY <1>2, <2>1, ModifyEntryKeepsGood
<1> QED
  BY <1>3, <1>4

-------------------------------------------------------------------------------
(* Stepping off a breakpoint *)

\* The table is as before but for what is noted at its entries, and patches
\* are only added where entries stand.
Noted(tab, new) ==
    /\ new \in Table /\ new.next = tab.next
    /\ DOMAIN new.list = DOMAIN tab.list
    /\ \A c \in DOMAIN tab.list :
          /\ SamePlace(new.list[c], tab.list[c])
          /\ new.list[c].iObsoleteLibraryBreakpoint = tab.list[c].iObsoleteLibraryBreakpoint
    /\ \A a \in new.patched \ tab.patched : \E c \in DOMAIN tab.list : tab.list[c].iAddress = a

LEMMA NotedKeepsGood ==
    ASSUME NEW tab, NEW new, Good(tab), Noted(tab, new)
    PROVE  Good(new) /\ (Covered(tab) => Covered(new))
<1>1. /\ tab.next \in Nat /\ GoodList(tab.list, tab.next) /\ new \in Table /\ new.list \in List
      /\ new.next = tab.next
  BY DEF Good, Table, Noted
<1>2. /\ DOMAIN new.list = DOMAIN tab.list
      /\ \A c \in DOMAIN tab.list : SamePlace(new.list[c], tab.list[c])
  BY DEF Noted
<1>3. GoodList(new.list, tab.next)
  BY <1>1, <1>2, NotesKeepGoodList
<1>4. ASSUME Covered(tab)
      PROVE  ObsoleteInLibrary(new.list)
  BY <1>2, <1>4 DEF Covered, ObsoleteInLibrary, SamePlace, Noted
<1>5. ASSUME Covered(tab), NEW a \in new.patched \ LibraryCode
      PROVE  \E c \in DOMAIN new.list : new.list[c].iAddress = a
  <2>1. PICK c \in DOMAIN tab.list : tab.list[c].iAddress = a
    BY <1>5 DEF Covered, Known, Noted
  <2> QED
    BY <1>2, <2>1 DEF SamePlace
<1> QED
  BY <1>1, <1>3, <1>4, <1>5 DEF Good, Covered, Known

LEMMA NotedAgain ==
    ASSUME NEW tab, NEW mid, NEW new, Noted(tab, mid), Noted(mid, new)
    PROVE  Noted(tab, new)
<1>1. \A a \in new.patched \ tab.patched : \E c \in DOMAIN tab.list : tab.list[c].iAddress = a
  <2> SUFFICES ASSUME NEW a \in new.patched \ tab.patched
               PROVE  \E c \in DOMAIN tab.list : tab.list[c].iAddress = a
    OBVIOUS
  <2>1. CASE a \in mid.patched
    BY <2>1 DEF Noted
  <2>2. CASE a \notin mid.patched
    <3>1. PICK c \in DOMAIN mid.list : mid.list[c].iAddress = a
      BY <2>2 DEF Noted
    <3> QED
      BY <3>1 DEF Noted, SamePlace
  <2> QED
    BY <2>1, <2>2
<1> QED
  BY <1>1 DEF Noted, SamePlace

LEMMA NotedSelf ==
    ASSUME NEW tab \in Table
    PROVE  Noted(tab, tab)
BY DEF Noted, SamePlace

\* One entry is noted as item.
LEMMA PutNotes ==
    ASSUME NEW tab \in Table, NEW b \in DOMAIN tab.list, NEW item \in Entry,
           SamePlace(item, tab.list[b]),
           item.iObsoleteLibraryBreakpoint = tab.list[b].iObsoleteLibraryBreakpoint
    PROVE  Noted(tab, Relist(tab, Put(tab.list, b, item)))
<1>1. tab.list \in List
  BY DEF Table
<1>2. b \in Nat
  BY <1>1, ListType
<1>3. WithEntry(Put(tab.list, b, item), tab.list, b, item)
  BY <1>1, <1>2, PutEntry
<1>4. Put(tab.list, b, item) \in List
  BY <1>3 DEF WithEntry
<1>5. /\ Relist(tab, Put(tab.list, b, item)) \in Table
      /\ Relist(tab, Put(tab.list, b, item)).list = Put(tab.list, b, item)
      /\ Relist(tab, Put(tab.list, b, item)).next = tab.next
      /\ Relist(tab, Put(tab.list, b, item)).patched = tab.patched
  BY <1>4, RelistTable
<1> QED
  BY <1>3, <1>5 DEF Noted, WithEntry, SamePlace

LEMMA FlagNotes ==
    ASSUME NEW tab \in Table, NEW b \in DOMAIN tab.list, NEW x \in BOOLEAN
    PROVE  Noted(tab, [tab EXCEPT !.list[b].iDisabledForStep = x])
<1> DEFINE item == [tab.list[b] EXCEPT !.iDisabledForStep = x]
<1>1. tab.list[b] \in Entry /\ tab.list \in [DOMAIN tab.list -> Entry]
  BY ListType DEF Table
<1>2. /\ item \in Entry /\ SamePlace(item, tab.list[b])
      /\ item.iObsoleteLibraryBreakpoint = tab.list[b].iObsoleteLibraryBreakpoint
  BY <1>1 DEF Entry, SamePlace
<1>3. [tab.list EXCEPT ![b] = item] = Put(tab.list, b, item)
  BY <1>1 DEF Put
<1>4. [tab EXCEPT !.list[b].iDisabledForStep = x] = Relist(tab, [tab.list EXCEPT ![b] = item])
  BY DEF Relist
<1> HIDE DEF item
<1> QED
  BY <1>2, <1>3, <1>4, PutNotes

LEMMA StepsNotes ==
    ASSUME NEW tab \in Table, NEW b \in DOMAIN tab.list
    PROVE  Noted(tab, [tab EXCEPT !.list[b].iNumSteps = 0])
<1> DEFINE item == [tab.list[b] EXCEPT !.iNumSteps = 0]
<1>1. tab.list[b] \in Entry /\ tab.list \in [DOMAIN tab.list -> Entry]
  BY ListType DEF Table
<1>2. /\ item \in Entry /\ SamePlace(item, tab.list[b])
      /\ item.iObsoleteLibraryBreakpoint = tab.list[b].iObsoleteLibraryBreakpoint
  BY <1>1 DEF Entry, SamePlace
<1>3. [tab.list EXCEPT ![b] = item] = Put(tab.list, b, item)
  BY <1>1 DEF Put
<1>4. [tab EXCEPT !.list[b].iNumSteps = 0] = Relist(tab, [tab.list EXCEPT ![b] = item])
  BY DEF Relist
<1> HIDE DEF item
<1> QED
  BY <1>2, <1>3, <1>4, PutNotes

LEMMA RestoreNotes ==
    ASSUME NEW tab \in Table, NEW a
    PROVE  Noted(tab, RestoreCode(tab, a).bp)
<1>1. RestoreCode(tab, a).bp = Patch(tab, tab.patched \ {a})
  BY AnswerParts DEF RestoreCode, Patch
<1>2. tab.patched \ {a} \in SUBSET Address
  BY DEF Table
<1> DEFINE Q == tab.patched \ {a}
<1> HIDE DEF Q
<1>3. /\ Patch(tab, Q) \in Table /\ Patch(tab, Q).list = tab.list
      /\ Patch(tab, Q).next = tab.next /\ Patch(tab, Q).patched = Q
  BY <1>2, PatchTable DEF Q
<1> QED
  BY <1>1, <1>3 DEF Noted, SamePlace, Q

\* Disabling what is at an address flags at most two entries and restores
\* the code.
LEMMA DisableNotes ==
    ASSUME NEW tab \in Table, NEW a
    PROVE  Noted(tab, priv_DisableBreakAtAddress(tab, a).bp)
<1> DEFINE here == {b \in UserIds(tab) : tab.list[b].iAddress = a}
           first == Min(here)
           second == Min(here \ {first})
           flagged == [tab EXCEPT !.list[first].iDisabledForStep = TRUE]
           done == RestoreCode(flagged, a)
           both == [done.bp EXCEPT !.list[second].iDisabledForStep = TRUE]
           new == priv_DisableBreakAtAddress(tab, a).bp
<1>1. here \in SUBSET Nat /\ here \subseteq DOMAIN tab.list
  BY ListType DEF Table, UserIds
<1>2. \/ new = tab
      \/ here # {} /\ new = flagged
      \/ here # {} /\ new = done.bp
      \/ here # {} /\ here # {first} /\ new = both
  <2> DEFINE Opens(b) == IF tab.list[b].iId \in Thread THEN tab.list[b].iId \in tab.threads
                         ELSE CanOpenProcess(tab, tab.list[b].iId)
  <2>1. priv_DisableBreakAtAddress(tab, a)
          = IF here = {} THEN Answer(tab, "KErrNone")
            ELSE IF ~ Opens(first) THEN Answer(flagged, "KErrBadHandle")
            ELSE IF done.err # "KErrNone" \/ here = {first} THEN done
            ELSE Answer(both, IF Opens(second) THEN "KErrNotFound" ELSE "KErrBadHandle")
    BY DEF priv_DisableBreakAtAddress
  <2> HIDE DEF here, first, second, flagged, done, both
  <2> QED
    BY <2>1, AnswerParts
<1> HIDE DEF here, new
<1>3. here # {} => first \in DOMAIN tab.list
  BY <1>1, MinOfNaturals
<1>4. here # {} => Noted(tab, flagged)
  BY <1>3, FlagNotes
<1>5. here # {} /\ here # {first} => second \in DOMAIN tab.list
  <2>1. here # {} /\ here # {first} => here \ {first} # {} /\ here \ {first} \in SUBSET Nat
    <3>1. here # {} => first \in here
      BY <1>1, MinOfNaturals
    <3> QED
      BY <1>1, <3>1
  <2> QED
    BY <1>1, <2>1, MinOfNaturals
<1> HIDE DEF first, second, flagged
<1>6. here # {} => Noted(tab, done.bp)
  <2> SUFFICES ASSUME here # {}
               PROVE  Noted(tab, done.bp)
    OBVIOUS
  <2>1. flagged \in Table
    BY <1>4 DEF Noted
  <2> QED
    BY <1>4, <2>1, RestoreNotes, NotedAgain
<1> HIDE DEF done
<1>7. here # {} /\ here # {first} => Noted(tab, both)
  <2> SUFFICES ASSUME here # {}, here # {first}
               PROVE  Noted(tab, both)
    OBVIOUS
  <2>1. done.bp \in Table /\ second \in DOMAIN done.bp.list
    BY <1>5, <1>6 DEF Noted
  <2>2. Noted(done.bp, both)
    BY <2>1, FlagNotes
  <2> QED
    BY <1>6, <2>2, NotedAgain
<1>8. Noted(tab, new)
  BY <1>2, <1>4, <1>6, <1>7, NotedSelf
<1> QED
  BY <1>8 DEF new

\* Enabling what was disabled patches places of entries.
LEMMA EnableDisabledNotes ==
    ASSUME NEW tab \in Table, NEW t
    PROVE  Noted(tab, priv_DoEnableDisabledBreak(tab, t).bp)
<1> DEFINE disabled == {b \in UserIds(tab) : /\ tab.list[b].iDisabledForStep
                                             /\ AppliesTo(tab.list[b], t)}
           failing == {b \in disabled : ~ CanOpenThread(tab, tab.list[b].iId)}
           enabled == {b \in disabled : \A c \in failing : b < c}
           places == {tab.list[b].iAddress : b \in enabled}
           added == {a \in places \cap tab.mapped : ~ breakpointAlreadySet(tab, a)}
           Q == tab.patched \cup added
           done == Patch(tab, Q)
           last == [done EXCEPT !.list[Min(failing)].iDisabledForStep = FALSE]
           new == priv_DoEnableDisabledBreak(tab, t).bp
<1>1. disabled \subseteq DOMAIN tab.list /\ failing \subseteq DOMAIN tab.list /\ failing \in SUBSET Nat
  BY ListType DEF Table, UserIds
<1>2. \/ new = tab
      \/ new = done
      \/ failing # {} /\ new = last
  <2>1. priv_DoEnableDisabledBreak(tab, t)
          = IF t \notin tab.threads THEN Answer(tab, "KErrNotFound")
            ELSE IF failing = {} THEN Answer(done, "KErrNone")
            ELSE Answer(last, "KErrBadHandle")
    BY DEF priv_DoEnableDisabledBreak, Patch
  <2> HIDE DEF failing, done, last
  <2> QED
    BY <2>1, AnswerParts
<1>3. /\ Q \in SUBSET Address
      /\ \A a \in Q \ tab.patched : \E c \in DOMAIN tab.list : tab.list[c].iAddress = a
  BY <1>1 DEF Table
<1> HIDE DEF Q, failing, new
<1>4. /\ done \in Table /\ done.list = tab.list /\ done.next = tab.next /\ done.patched = Q
  BY <1>3, PatchTable
<1> HIDE DEF done
<1>5. Noted(tab, done)
  BY <1>3, <1>4 DEF Noted, SamePlace
<1>6. ASSUME failing # {}
      PROVE  Noted(tab, last)
  <2>1. Min(failing) \in DOMAIN done.list
    BY <1>1, <1>4, <1>6, MinOfNaturals
  <2>2. Noted(done, last)
    BY <1>4, <2>1, FlagNotes
  <2> QED
    BY <1>5, <2>2, NotedAgain
<1>7. Noted(tab, new)
  BY <1>2, <1>5, <1>6, NotedSelf
<1> QED
  BY <1>7 DEF new

\* A free temporary entry is taken for an instruction.
LEMMA TakeTemporary ==
    ASSUME NEW tab, Good(tab), NEW b \in TempId, tab.list[b].iAddress = 0,
           NEW e \in Entry, Stands(e), e.iAddress # 0, e.iObsoleteLibraryBreakpoint = FALSE,
           NEW new \in Table, new.next = tab.next, WithEntry(new.list, tab.list, b, e),
           new.patched \subseteq tab.patched \cup {e.iAddress}
    PROVE  Good(new) /\ (Covered(tab) => Covered(new))
<1>1. /\ tab.next \in Nat /\ GoodList(tab.list, tab.next) /\ TempId \subseteq DOMAIN tab.list
      /\ \A c \in DOMAIN tab.list : Stands(tab.list[c])
      /\ NUMBER_OF_TEMP_BREAKPOINTS \in Nat
  BY TableAssumption DEF Good, GoodList, Placed, Table
<1>2. /\ new.list \in List /\ DOMAIN new.list = DOMAIN tab.list /\ new.list[b] = e
      /\ \A c \in DOMAIN tab.list \ {b} : new.list[c] = tab.list[c]
  BY <1>1 DEF WithEntry
<1>3. b \notin Users(new.list) /\ Users(new.list) \subseteq DOMAIN tab.list
  BY <1>1, <1>2 DEF Users, IsTemporaryBreak, TempId
<1>4. \A c \in Users(new.list) : SamePlace(new.list[c], tab.list[c])
  BY <1>2, <1>3 DEF SamePlace
<1>5. \A c \in TempId : Stands(new.list[c])
  BY <1>1, <1>2
<1>6. GoodList(new.list, tab.next)
  BY <1>1, <1>2, <1>4, <1>5, KeepsGoodList
<1>7. ASSUME Covered(tab)
      PROVE  Covered(new)
  <2>1. ObsoleteInLibrary(new.list)
    BY <1>2, <1>7 DEF Covered, ObsoleteInLibrary
  <2>2. ASSUME NEW a \in new.patched \ LibraryCode
        PROVE  \E c \in DOMAIN new.list : new.list[c].iAddress = a
    <3>1. CASE a = e.iAddress
      BY <1>1, <1>2, <3>1
    <3>2. CASE a # e.iAddress
      <4>1. a \in tab.patched \ LibraryCode /\ a # 0
        BY <3>2, CodeAssumption DEF Table, Good
      <4>2. PICK c \in DOMAIN tab.list : tab.list[c].iAddress = a
        BY <1>7, <4>1 DEF Covered, Known
      <4> QED
        BY <1>2, <4>1, <4>2
    <3> QED
      BY <3>1, <3>2
  <2> QED
    BY <2>1, <2>2 DEF Covered, Known
<1> QED
  BY <1>6, <1>7 DEF Good

\* The driver's part of a step.
LEMMA StepKeepsGood ==
    ASSUME NEW tab, Good(tab), NEW t \in Thread, pc \in [Thread -> Address],
           NEW resumeOnce \in BOOLEAN, NEW numSteps \in Int
    PROVE  LET new == ModifyBreaksForStep(tab, t, resumeOnce, numSteps).bp
           IN  Good(new) /\ (Covered(tab) => Covered(new))
<1> DEFINE disabled == priv_DisableBreakAtAddress(tab, pc[t])
           off == disabled.bp
           a == NextPC[pc[t]]
           userBreak == {b \in UserIds(off) : /\ off.list[b].iAddress = a
                                              /\ AppliesTo(off.list[b], t)}
           free == {b \in TempId : off.list[b].iAddress = 0}
           b == Min(free)
           temp == [TBreakEntry(t, a, CodeMode[a]) EXCEPT
                      !.iResumeOnceOutOfRange = resumeOnce, !.iNumSteps = numSteps]
           taken == [off EXCEPT !.list[b] = temp]
           stopped == [off EXCEPT !.list[Min(userBreak)].iNumSteps = 0]
           step == priv_DoEnableBreak(taken, b, temp)
           new == ModifyBreaksForStep(tab, t, resumeOnce, numSteps).bp
<1>1. \/ new = off
      \/ userBreak # {} /\ new = stopped
      \/ free # {} /\ new = step.bp
  <2>1. ModifyBreaksForStep(tab, t, resumeOnce, numSteps)
          = IF disabled.err # "KErrNone" THEN disabled
            ELSE IF userBreak # {} THEN Answer(stopped, "KErrNone")
            ELSE IF free = {} THEN Answer(off, "KErrNoMemory")
            ELSE step
    BY DEF ModifyBreaksForStep
  <2> HIDE DEF disabled, userBreak, free, stopped, step
  <2> QED
    BY <2>1, AnswerParts
<1>2. Noted(tab, off) /\ Good(off) /\ (Covered(tab) => Covered(off)) /\ off \in Table
  <2>1. Noted(tab, off)
    BY DisableNotes DEF Good
  <2> QED
    BY <2>1, NotedKeepsGood DEF Noted
<1>3. a \in Address /\ a # 0 /\ CodeMode[a] \in Mode
  BY CodeAssumption
<1>4. /\ off.list \in List /\ DOMAIN off.list \subseteq Nat /\ TempId \subseteq DOMAIN off.list
      /\ off.list \in [DOMAIN off.list -> Entry]
  BY <1>2, ListType DEF Table, Good, GoodList, Placed
<1>5. userBreak \subseteq DOMAIN off.list /\ userBreak \in SUBSET Nat
      /\ free \subseteq TempId /\ free \in SUBSET Nat
  BY <1>4 DEF UserIds
<1>6. /\ temp \in Entry /\ temp.iAddress = a /\ temp.iMode = CodeMode[a]
      /\ temp.iObsoleteLibraryBreakpoint = FALSE
  <2> DEFINE m == CodeMode[a]
  <2> HIDE DEF a, m
  <2> QED
    BY <1>3 DEF TBreakEntry, Entry, m
<1> HIDE DEF new, off, a, userBreak, free, temp
<1>7. ASSUME userBreak # {}
      PROVE  Good(stopped) /\ (Covered(tab) => Covered(stopped))
  <2>1. Min(userBreak) \in DOMAIN off.list
    BY <1>5, <1>7, MinOfNaturals
  <2>2. Noted(off, stopped)
    BY <1>2, <2>1, StepsNotes
  <2> QED
    BY <1>2, <2>2, NotedKeepsGood
<1>8. ASSUME free # {}
      PROVE  Good(step.bp) /\ (Covered(tab) => Covered(step.bp))
  <2>1. b \in free /\ b \in TempId /\ b \in Nat /\ b \in DOMAIN off.list /\ off.list[b].iAddress = 0
    <3>1. b \in free
      BY <1>5, <1>8, MinOfNaturals
    <3> QED
      BY <1>4, <1>5, <3>1 DEF free
  <2> HIDE DEF b
  <2>2. WithEntry(Put(off.list, b, temp), off.list, b, temp)
    BY <1>4, <1>6, <2>1, PutEntry
  <2>3. taken = Relist(off, Put(off.list, b, temp))
    <3>1. [off.list EXCEPT ![b] = temp] = Put(off.list, b, temp)
      BY <1>4, <2>1 DEF Put
    <3>2. taken = Relist(off, [off.list EXCEPT ![b] = temp])
      BY DEF Relist
    <3> QED
      BY <3>1, <3>2
  <2> HIDE DEF taken
  <2>4. Put(off.list, b, temp) \in List
    BY <2>2 DEF WithEntry
  <2>5. /\ taken \in Table /\ taken.list = Put(off.list, b, temp) /\ taken.next = off.next
        /\ taken.patched = off.patched
    BY <1>2, <2>3, <2>4, RelistTable
  <2>6. Stands(temp) /\ temp.iAddress # 0
    BY <1>3, <1>6 DEF Stands
  <2>7. \/ step.bp = taken
        \/ \E P \in SUBSET Address, s \in Entry :
              /\ step.bp = Relist(Patch(taken, P), Put(taken.list, b, s))
              /\ P \subseteq taken.patched \cup {temp.iAddress}
              /\ SamePlace(s, temp)
              /\ s.iObsoleteLibraryBreakpoint = temp.iObsoleteLibraryBreakpoint
    BY <1>6, <2>1, <2>5, EnableBreakEffect
  <2> HIDE DEF step
  <2>8. CASE step.bp = taken
    <3>1. /\ Good(off) /\ WithEntry(taken.list, off.list, b, temp)
          /\ taken.patched \subseteq off.patched \cup {temp.iAddress}
      BY <1>2, <2>2, <2>5
    <3>2. Good(taken) /\ (Covered(off) => Covered(taken))
      BY <1>6, <2>1, <2>5, <2>6, <3>1, TakeTemporary
    <3> QED
      BY <1>2, <2>8, <3>2
  <2>9. ASSUME NEW P \in SUBSET Address, NEW s \in Entry,
               step.bp = Relist(Patch(taken, P), Put(taken.list, b, s)),
               P \subseteq taken.patched \cup {temp.iAddress},
               SamePlace(s, temp),
               s.iObsoleteLibraryBreakpoint = temp.iObsoleteLibraryBreakpoint
        PROVE  Good(step.bp) /\ (Covered(off) => Covered(step.bp))
    <3>1. taken.list \in List
      BY <2>4, <2>5
    <3>2. WithEntry(Put(taken.list, b, s), taken.list, b, s)
      BY <2>1, <3>1, PutEntry
    <3>3. WithEntry(Put(taken.list, b, s), off.list, b, s)
      BY <2>1, <2>2, <2>5, <3>2 DEF WithEntry
    <3>4. Put(taken.list, b, s) \in List
      BY <3>2 DEF WithEntry
    <3>5. /\ step.bp \in Table /\ step.bp.list = Put(taken.list, b, s)
          /\ step.bp.next = off.next /\ step.bp.patched = P
      <4> DEFINE coded == Patch(taken, P)
      <4>1. coded \in Table /\ coded.patched = P /\ coded.next = taken.next
        BY <2>5, PatchTable
      <4> HIDE DEF coded
      <4>2. step.bp = Relist(coded, Put(taken.list, b, s))
        BY <2>9 DEF coded
      <4> QED
        BY <2>5, <3>4, <4>1, <4>2, RelistTable
    <3>6. Stands(s) /\ s.iAddress # 0 /\ s.iObsoleteLibraryBreakpoint = FALSE
          /\ s.iAddress = temp.iAddress
      BY <1>6, <2>6, <2>9 DEF Stands, SamePlace
    <3>7. step.bp.patched \subseteq off.patched \cup {s.iAddress}
      BY <2>5, <2>9, <3>5, <3>6
    <3>8. WithEntry(step.bp.list, off.list, b, s)
      BY <3>3, <3>5
    <3> QED
      BY <1>2, <2>1, <3>5, <3>6, <3>7, <3>8, TakeTemporary
  <2> QED
    BY <1>2, <2>7, <2>8, <2>9
<1> HIDE DEF stopped, step
<1>9. Good(new) /\ (Covered(tab) => Covered(new))
  BY <1>1, <1>2, <1>7, <1>8
<1> QED
  BY <1>9 DEF new

LEMMA StepRangeKeepsGood ==
    ASSUME NEW tab, Good(tab), NEW t \in Thread, pc \in [Thread -> Address],
           NEW resumeOnce \in BOOLEAN, NEW numSteps \in Int
    PROVE  LET new == DoStepRange(tab, t, resumeOnce, numSteps).bp
           IN  Good(new) /\ (Covered(tab) => Covered(new))
<1>1. DoStepRange(tab, t, resumeOnce, numSteps).bp
        = ModifyBreaksForStep(tab, t, resumeOnce, numSteps).bp
  BY DEF DoStepRange
<1> QED
  BY <1>1, StepKeepsGood

LEMMA ResumeKeepsGood ==
    ASSUME NEW tab, Good(tab), NEW t \in Thread, pc \in [Thread -> Address]
    PROVE  LET new == DoResumeThread(tab, t).bp
           IN  Good(new) /\ (Covered(tab) => Covered(new))
<1>1. DoResumeThread(tab, t).bp \in {tab, DoStepRange(tab, t, TRUE, 1).bp}
  BY DEF DoResumeThread
<1>2. /\ Good(DoStepRange(tab, t, TRUE, 1).bp)
      /\ Covered(tab) => Covered(DoStepRange(tab, t, TRUE, 1).bp)
  <2>1. TRUE \in BOOLEAN /\ 1 \in Int
    OBVIOUS
  <2> QED
    BY <2>1, StepRangeKeepsGood
<1> QED
  BY <1>1, <1>2

\* The handling of a breakpoint exception.
LEMMA TrapKeepsGood ==
    ASSUME Good(bp), NEW t \in Thread, pc \in [Thread -> Address]
    PROVE  LET new == HandleInvalidOpCodeException(t).bp
           IN  Good(new) /\ (Covered(bp) => Covered(new))
<1> DEFINE hits == {b \in DOMAIN bp.list : /\ bp.list[b].iAddress = pc[t]
                                           /\ AppliesTo(bp.list[b], t)}
           b == Min(hits)
           entry == bp.list[b]
           enabled == priv_DoEnableDisabledBreak(bp, t).bp
           cleared == priv_DoClearBreak(enabled, b, FALSE).bp
           numSteps == entry.iNumSteps - 1
           onward == DoStepRange(cleared, t, entry.iResumeOnceOutOfRange, numSteps)
           resumed == DoResumeThread(cleared, t)
           new == HandleInvalidOpCodeException(t).bp
<1>1. \/ new = bp
      \/ hits # {} /\ new \in {enabled, onward.bp, resumed.bp, cleared}
  <2> DEFINE Trap(tab, count, notify) == [bp |-> tab, resumed |-> count, notify |-> notify]
  <2>1. HandleInvalidOpCodeException(t)
          = IF hits = {} THEN Trap(bp, 0, "exception")
            ELSE IF ~ IsTemporaryBreak(b) THEN Trap(enabled, 0, "break")
            ELSE IF numSteps # 0
                 THEN Trap(onward.bp, onward.resumed,
                           IF onward.err = "KErrNone" THEN "none" ELSE "break")
            ELSE IF entry.iResumeOnceOutOfRange
                 THEN Trap(resumed.bp, resumed.resumed, "none")
            ELSE Trap(cleared, 0, "break")
    BY DEF HandleInvalidOpCodeException
  <2>2. \A tab, count, notify : Trap(tab, count, notify).bp = tab
    OBVIOUS
  <2> HIDE DEF hits, b, entry, enabled, cleared, numSteps, onward, resumed, Trap
  <2> QED
    BY <2>1, <2>2
<1>2. bp \in Table /\ bp.list \in List /\ DOMAIN bp.list \subseteq Nat
      /\ bp.list \in [DOMAIN bp.list -> Entry]
  BY ListType DEF Good, Table
<1>3. Noted(bp, enabled) /\ Good(enabled) /\ (Covered(bp) => Covered(enabled))
  BY <1>2, EnableDisabledNotes, NotedKeepsGood
<1>4. ASSUME hits # {}
      PROVE  /\ b \in DOMAIN bp.list /\ bp.list[b].iAddress # 0
             /\ entry.iResumeOnceOutOfRange \in BOOLEAN /\ numSteps \in Int
  <2>1. hits \in SUBSET Nat
    BY <1>2
  <2>2. b \in hits
    <3> HIDE DEF hits
    <3> QED
      BY <1>4, <2>1, MinOfNaturals
  <2> HIDE DEF b
  <2>3. b \in DOMAIN bp.list /\ bp.list[b].iAddress = pc[t]
    BY <2>2
  <2>4. bp.list[b] \in Entry
    BY <1>2, <2>3
  <2>5. entry.iResumeOnceOutOfRange \in BOOLEAN /\ entry.iNumSteps \in Int
    <3> HIDE DEF entry
    <3>1. entry \in Entry
      BY <2>4 DEF entry
    <3> QED
      BY <3>1 DEF Entry
  <2> QED
    BY <2>3, <2>5, CodeAssumption
<1> HIDE DEF hits, b, enabled, new
<1>5. ASSUME hits # {}
      PROVE  Good(cleared) /\ (Covered(bp) => Covered(cleared))
  <2>1. b \in DOMAIN enabled.list /\ enabled.list[b].iAddress # 0
    BY <1>3, <1>4, <1>5 DEF Noted, SamePlace
  <2> QED
    BY <1>3, <2>1, ClearBreakKeepsGood
<1> HIDE DEF cleared, numSteps, entry
<1>6. ASSUME hits # {}
      PROVE  Good(resumed.bp) /\ (Covered(bp) => Covered(resumed.bp))
  BY <1>5, <1>6, ResumeKeepsGood
<1>7. ASSUME hits # {}
      PROVE  Good(onward.bp) /\ (Covered(bp) => Covered(onward.bp))
  <2> DEFINE once == entry.iResumeOnceOutOfRange
  <2>1. once \in BOOLEAN /\ numSteps \in Int
    BY <1>4, <1>7
  <2> HIDE DEF once
  <2>2. LET on == DoStepRange(cleared, t, once, numSteps).bp
        IN  Good(on) /\ (Covered(cleared) => Covered(on))
    BY <1>5, <1>7, <2>1, StepRangeKeepsGood
  <2> QED
    BY <1>5, <1>7, <2>2 DEF once
<1> HIDE DEF resumed, onward
<1>8. Good(new) /\ (Covered(bp) => Covered(new))
  BY <1>1, <1>3, <1>5, <1>6, <1>7
<1> QED
  BY <1>8 DEF new

-------------------------------------------------------------------------------
(* The requests that set breakpoints; threads and libraries that go away *)

LEMMA SetBreakResultKeepsGood ==
    ASSUME Good(bp), NEW id \in BreakOwner, NEW a \in Address, NEW appended \in BOOLEAN,
           NEW left
    PROVE  LET new == SetBreakResult(id, a, appended, left).bp
           IN  Good(new) /\ (appended /\ Covered(bp) => Covered(new))
<1> DEFINE process == IF id \in Thread THEN OwningProcess[id] ELSE id
           D == IF process \in ToSet(bp.debugged) THEN bp.debugged ELSE Append(bp.debugged, process)
           T == bp.threads \ left
           k1 == [bp EXCEPT !.debugged = D]
           known == [k1 EXCEPT !.threads = T]
           new == SetBreakResult(id, a, appended, left).bp
<1>1. id \in Thread \cup Process /\ process \in Process /\ bp \in Table
  BY CodeAssumption, ThreadsAssumption DEF Good
<1>2. D \in Seq(Process) /\ T \in SUBSET Thread
  <2>1. bp.debugged \in Seq(Process) /\ bp.threads \in SUBSET Thread
    BY <1>1 DEF Table
  <2> HIDE DEF process
  <2> QED
    BY <1>1, <2>1
<1>3. new \in {bp, priv_DoSetBreak(known, id, a, CodeMode[a], appended).bp}
  <2>1. [bp EXCEPT !.debugged = IF process \in ToSet(@) THEN @ ELSE Append(@, process),
                   !.threads = @ \ left] = known
    BY <1>1 DEF Table
  <2> HIDE DEF known
  <2> QED
    BY <2>1, AnswerParts DEF SetBreakResult
<1> HIDE DEF D, T
<1>4. /\ k1 \in Table /\ k1.list = bp.list /\ k1.next = bp.next /\ k1.patched = bp.patched
  BY <1>1, <1>2 DEF Table
<1> HIDE DEF k1
<1>5. /\ known \in Table /\ known.list = bp.list /\ known.next = bp.next
      /\ known.patched = bp.patched
  BY <1>2, <1>4 DEF Table
<1> HIDE DEF known, new
<1>6. Good(known) /\ (Covered(bp) => Covered(known))
  BY <1>5 DEF Good, Covered
<1>7. Good(new) /\ (appended /\ Covered(bp) => Covered(new))
  BY <1>1, <1>3, <1>6, SetBreakKeepsGood
<1> QED
  BY <1>7 DEF new

\* The exit of a thread takes its entries away and restores the code where
\* the last entry goes.
LEMMA KillKeepsGood ==
    ASSUME NEW tab, Good(tab), NEW t \in Thread
    PROVE  LET new == priv_DoRemoveThreadBreaks(tab, t)
           IN  Good(new) /\ (Covered(tab) => Covered(new))
<1> DEFINE list == tab.list
           gone == {b \in DOMAIN tab.list :
                      /\ tab.list[b].iAddress # 0
                      /\ ~ tab.list[b].iObsoleteLibraryBreakpoint
                      /\ \/ tab.list[b].iId = t
                         \/ tab.list[b].iId \in Process /\ FirstThread[tab.list[b].iId] = t}
           LeftBy(b) == {c \in UserIds(tab) : c \in gone => c < b}
           restored == {b \in gone : \A c \in LeftBy(b) :
                                       ~ BreakpointsOverlap(tab.list[b], tab.list[c])}
           L == [b \in DOMAIN list \ (gone \ TempId) |-> IF b \in gone THEN Reset ELSE list[b]]
           Q == tab.patched \ {tab.list[b].iAddress : b \in restored}
           left == Patch(Relist(tab, L), Q)
           new == priv_DoRemoveThreadBreaks(tab, t)
<1>1. /\ tab \in Table /\ tab.next \in Nat /\ list \in List /\ tab.patched \in SUBSET Address
      /\ GoodList(list, tab.next)
  BY DEF Good, Table
<1>2. /\ DOMAIN list \subseteq Nat /\ list \in [DOMAIN list -> Entry] /\ TempId \subseteq DOMAIN list
      /\ \A c \in DOMAIN list : Stands(list[c])
      /\ NUMBER_OF_TEMP_BREAKPOINTS \in Nat
  BY <1>1, ListType, TableAssumption DEF GoodList, Placed
<1>3. gone \subseteq DOMAIN list /\ \A b \in gone : list[b].iAddress # 0
  OBVIOUS
<1>4. new \in {tab, left}
  BY DEF priv_DoRemoveThreadBreaks, Patch, Relist
<1> HIDE DEF gone
<1>5. /\ L \in List /\ DOMAIN L = DOMAIN list \ (gone \ TempId)
      /\ \A b \in DOMAIN list \ gone : b \in DOMAIN L /\ L[b] = list[b]
      /\ \A b \in DOMAIN L \cap gone : L[b] = Reset
  <2> HIDE DEF list
  <2>1. DOMAIN L = DOMAIN list \ (gone \ TempId)
    OBVIOUS
  <2>2. DOMAIN L \subseteq Nat /\ L \in [DOMAIN L -> Entry]
    BY <1>2, <2>1, ResetType
  <2> QED
    BY <2>1, <2>2, ListType
<1>6. Q \in SUBSET Address
  BY <1>1
<1> HIDE DEF L, Q
<1>7. /\ left \in Table /\ left.list = L /\ left.next = tab.next /\ left.patched = Q
  <2> DEFINE mid == Relist(tab, L)
  <2>1. mid \in Table /\ mid.list = L /\ mid.next = tab.next
    BY <1>1, <1>5, RelistTable
  <2> HIDE DEF mid
  <2>2. Patch(mid, Q) \in Table /\ Patch(mid, Q).list = mid.list
        /\ Patch(mid, Q).next = mid.next /\ Patch(mid, Q).patched = Q
    BY <1>6, <2>1, PatchTable
  <2> QED
    BY <2>1, <2>2 DEF mid
<1>8. GoodList(L, tab.next)
  <2>1. \A b \in TempId : ~ (b \in Users(L)) /\ b \in DOMAIN L
    BY <1>2, <1>5 DEF Users, TempId, IsTemporaryBreak
  <2>2. \A b \in Users(L) : b \in DOMAIN list \ gone
    BY <1>5, <2>1 DEF Users
  <2>3. \A b \in Users(L) : SamePlace(L[b], list[b])
    BY <1>5, <2>2 DEF SamePlace
  <2>4. \A b \in TempId : Stands(L[b])
    BY <1>2, <1>5, <2>1, ResetType DEF Stands
  <2> HIDE DEF list
  <2> QED
    BY <1>1, <1>5, <2>1, <2>3, <2>4, KeepsGoodList
<1>9. ASSUME Covered(tab)
      PROVE  ObsoleteInLibrary(L)
  BY <1>5, <1>9, ResetType DEF Covered, ObsoleteInLibrary
<1>10. ASSUME Covered(tab), NEW a \in Q \ LibraryCode
       PROVE  \E c \in DOMAIN L : L[c].iAddress = a
  <2> DEFINE E == {c \in DOMAIN list : list[c].iAddress = a}
  <2>1. a \in tab.patched \ LibraryCode /\ \A b \in restored : list[b].iAddress # a
    BY <1>10 DEF Q
  <2>2. E # {} /\ E \in SUBSET Nat
    BY <1>2, <1>10, <2>1 DEF Covered, Known
  <2>3. CASE \E c \in E : c \notin gone
    BY <1>5, <2>3
  <2>4. CASE \A c \in E : c \in gone
    <3> DEFINE b == Min(E)
    <3>1. b \in E /\ \A y \in E : b <= y
      <4> HIDE DEF E
      <4> QED
        BY <2>2, MinOfNaturals
    <3> HIDE DEF b
    <3>2. b \in gone /\ b \in DOMAIN list /\ list[b].iAddress = a
      BY <2>4, <3>1
    <3>3. ASSUME NEW c \in LeftBy(b), BreakpointsOverlap(list[b], list[c])
          PROVE  FALSE
      <4>1. c \in Users(list) /\ (c \in gone => c < b)
        BY <3>3, UsersOfTable
      <4>2. c \in DOMAIN list /\ list[c].iAddress = list[b].iAddress
        <5> HIDE DEF list
        <5> QED
          BY <1>1, <1>3, <3>2, <3>3, <4>1, OthersStandApart
      <4>3. c \in E
        BY <3>2, <4>2
      <4>4. c < b /\ b <= c /\ c \in Nat /\ b \in Nat
        BY <1>2, <2>4, <3>1, <3>2, <4>1, <4>2, <4>3
      <4> QED
        BY <4>4
    <3>4. b \in restored
      BY <3>2, <3>3
    <3> QED
      BY <2>1, <3>2, <3>4
  <2> QED
    BY <2>3, <2>4
<1>11. Good(left) /\ (Covered(tab) => Covered(left))
  BY <1>7, <1>8, <1>9, <1>10 DEF Good, Covered, Known
<1> QED
  BY <1>4, <1>11

\* Breakpoints of a library that goes are obsolete, and its code is gone.
LEMMA RemoveLibraryKeepsGood ==
    ASSUME Good(bp), RemoveLibrary
    PROVE  Good(bp)' /\ (Covered(bp) => Covered(bp)')
<1> DEFINE Item(b) == [bp.list[b] EXCEPT !.iObsoleteLibraryBreakpoint =
                          @ \/ bp.list[b].iAddress \in LibraryCode]
           L == [b \in DOMAIN bp.list |-> Item(b)]
           M == bp.mapped \ LibraryCode
           Q == bp.patched \ LibraryCode
           tab1 == Relist(bp, L)
           tab2 == [tab1 EXCEPT !.mapped = M]
           tab3 == Patch(tab2, Q)
<1>1. /\ bp \in Table /\ bp.next \in Nat /\ bp.list \in List /\ M \in SUBSET Address
      /\ Q \in SUBSET Address /\ GoodList(bp.list, bp.next)
  BY DEF Good, Table
<1>2. DOMAIN bp.list \subseteq Nat /\ bp.list \in [DOMAIN bp.list -> Entry]
  BY <1>1, ListType
<1>3. \A b \in DOMAIN bp.list :
          /\ Item(b) \in Entry /\ SamePlace(Item(b), bp.list[b])
          /\ Item(b).iObsoleteLibraryBreakpoint
                => bp.list[b].iObsoleteLibraryBreakpoint \/ bp.list[b].iAddress \in LibraryCode
  <2> SUFFICES ASSUME NEW b \in DOMAIN bp.list
               PROVE  /\ Item(b) \in Entry /\ SamePlace(Item(b), bp.list[b])
                      /\ Item(b).iObsoleteLibraryBreakpoint
                            => \/ bp.list[b].iObsoleteLibraryBreakpoint
                               \/ bp.list[b].iAddress \in LibraryCode
    OBVIOUS
  <2> DEFINE e == bp.list[b]
  <2>1. e \in Entry
    BY <1>2
  <2>2. Item(b) = [e EXCEPT !.iObsoleteLibraryBreakpoint =
                      e.iObsoleteLibraryBreakpoint \/ e.iAddress \in LibraryCode]
    OBVIOUS
  <2> HIDE DEF e
  <2>3. /\ Item(b) \in Entry /\ SamePlace(Item(b), e)
        /\ Item(b).iObsoleteLibraryBreakpoint
             = (e.iObsoleteLibraryBreakpoint \/ e.iAddress \in LibraryCode)
    BY <2>1, <2>2 DEF Entry, SamePlace
  <2> QED
    BY <2>3 DEF e
<1> HIDE DEF Item
<1>4. L \in List /\ DOMAIN L = DOMAIN bp.list /\ \A b \in DOMAIN bp.list : L[b] = Item(b)
  <2>1. DOMAIN L = DOMAIN bp.list
    OBVIOUS
  <2>2. L \in [DOMAIN L -> Entry]
    BY <1>3, <2>1
  <2> QED
    BY <1>2, <2>1, <2>2, ListType
<1>5. bp' = tab3
  <2>1. InvalidateLibraryBreakPoints(bp, LibraryCode) = tab1
    BY DEF InvalidateLibraryBreakPoints, Relist, Item
  <2>2. tab1.mapped = bp.mapped /\ tab1.patched = bp.patched /\ tab1 \in Table
    BY <1>1, <1>4, RelistTable
  <2> HIDE DEF tab1
  <2> QED
    BY <2>1, <2>2 DEF RemoveLibrary, Patch, Table
<1> HIDE DEF L, M, Q
<1>6. tab1 \in Table /\ tab1.list = L /\ tab1.next = bp.next
  BY <1>1, <1>4, RelistTable
<1> HIDE DEF tab1
<1>7. tab2 \in Table /\ tab2.list = L /\ tab2.next = bp.next
  BY <1>1, <1>6 DEF Table
<1> HIDE DEF tab2
<1>8. tab3 \in Table /\ tab3.list = L /\ tab3.next = bp.next /\ tab3.patched = Q
  BY <1>1, <1>7, PatchTable
<1> HIDE DEF tab3
<1>9. GoodList(L, bp.next) /\ \A P : Known(bp.list, P) => Known(L, P)
  BY <1>1, <1>3, <1>4, NotesKeepGoodList
<1>10. ASSUME Covered(bp)
       PROVE  Covered(tab3)
  <2>1. ObsoleteInLibrary(L)
    BY <1>3, <1>4, <1>10 DEF Covered, ObsoleteInLibrary, SamePlace
  <2>2. Known(bp.list, Q)
    BY <1>10 DEF Covered, Known, Q
  <2> QED
    BY <1>8, <1>9, <2>1, <2>2 DEF Covered
<1> QED
  BY <1>5, <1>8, <1>9, <1>10 DEF Good, Covered

-------------------------------------------------------------------------------
(* The specification *)

LEMMA InitGood ==
    ASSUME Init
    PROVE  TablesGood /\ Covered(bp)
<1> DEFINE L == [i \in TempId |-> Reset]
<1>1. bp = EmptyTable(Address) /\ bp.list = L /\ bp.next = NUMBER_OF_TEMP_BREAKPOINTS /\ bp.patched = {}
  BY DEF Init, EmptyTable
<1>2. NUMBER_OF_TEMP_BREAKPOINTS \in Nat
  BY TableAssumption
<1>3. L \in List /\ DOMAIN L = TempId /\ \A b \in TempId : L[b] = Reset
  <2>1. TempId \subseteq Nat /\ DOMAIN L = TempId
    BY <1>2 DEF TempId
  <2> QED
    BY <2>1, ListType, ResetType
<1>4. bp \in Table
  <2>1. <<>> \in Seq(Process)
    OBVIOUS
  <2> HIDE DEF L
  <2>2. bp = [list |-> L, next |-> NUMBER_OF_TEMP_BREAKPOINTS, debugged |-> <<>>,
              patched |-> {}, mapped |-> Address, threads |-> Thread]
    BY DEF Init, EmptyTable, L
  <2> QED
    BY <1>2, <1>3, <2>1, <2>2 DEF Table
<1> HIDE DEF L
<1>5. Users(L) = {}
  BY <1>2, <1>3 DEF Users, TempId, IsTemporaryBreak
<1>6. Placed(L, NUMBER_OF_TEMP_BREAKPOINTS)
  BY <1>2, <1>3, <1>5, ResetType DEF Placed, TempId, Stands
<1>7. NoConflict(L)
  BY <1>5 DEF NoConflict
<1>8. ObsoleteInLibrary(L) /\ Known(L, {})
  BY <1>3, ResetType DEF ObsoleteInLibrary, Known
<1>9. pc \in [Thread -> Address]
  BY DEF Init
<1> QED
  BY <1>1, <1>3, <1>4, <1>6, <1>7, <1>8, <1>9 DEF TablesGood, Good, GoodList, Covered

\* What every step of the specification preserves.  Breakpoint instructions
\* keep their entries unless the list does not grow, or a breakpoint of a
\* library that is gone is modified.
LEMMA NextGood ==
    ASSUME TablesGood, [Next]_vars
    PROVE  /\ TablesGood'
           /\ AppendMayFail = FALSE /\ CanModify \subseteq {FALSE} /\ Covered(bp) => Covered(bp)'
<1> DEFINE modest == AppendMayFail = FALSE /\ CanModify \subseteq {FALSE}
           Keeps == TablesGood' /\ (modest /\ Covered(bp) => Covered(bp)')
<1>1. Good(bp) /\ pc \in [Thread -> Address] /\ bp \in Table /\ bp.list \in List
  BY DEF TablesGood, Good, Table
<1> HIDE DEF Keeps
<1>2. ASSUME NEW new, bp' = new, pc' = pc, Good(new), modest /\ Covered(bp) => Covered(new)
      PROVE  Keeps
  BY <1>1, <1>2 DEF Keeps, TablesGood
<1>3. ASSUME NEW id \in BreakOwner, NEW a \in Address, NEW appended \in BOOLEAN,
             NEW left \in SUBSET exited, SetBreak(id, a, appended, left)
      PROVE  Keeps
  <2> DEFINE new == SetBreakResult(id, a, appended, left).bp
  <2>1. bp' = new /\ pc' = pc /\ (appended \/ AppendMayFail)
    BY <1>3 DEF SetBreak
  <2>2. Good(new) /\ (appended /\ Covered(bp) => Covered(new))
    BY <1>1, SetBreakResultKeepsGood
  <2> HIDE DEF new
  <2> QED
    BY <1>2, <2>1, <2>2
<1>4. ASSUME NEW b \in UserIds(bp), ClearBreak(b)
      PROVE  Keeps
  <2> DEFINE new == priv_DoClearBreak(bp, b, FALSE).bp
  <2>1. bp' = new /\ pc' = pc
    BY <1>4 DEF ClearBreak
  <2>2. b \in DOMAIN bp.list /\ bp.list[b].iAddress # 0
    BY <1>1, UsersOfTable DEF UserIds, Good, GoodList, Placed
  <2>3. Good(new) /\ (Covered(bp) => Covered(new))
    BY <1>1, <2>2, ClearBreakKeepsGood
  <2> HIDE DEF new
  <2> QED
    BY <1>2, <2>1, <2>3
<1>5. ASSUME NEW b \in UserIds(bp), NEW id \in BreakOwner, NEW a \in Address, ModifyBreak(b, id, a)
      PROVE  Keeps
  <2> DEFINE new == ModifyBreakResult(b, id, a).bp
             obsolete == bp.list[b].iObsoleteLibraryBreakpoint
  <2>1. bp' = new /\ pc' = pc /\ obsolete \in CanModify
    BY <1>5 DEF ModifyBreak
  <2>2. b \in Users(bp.list) /\ id \in Thread \cup Process
    BY UsersOfTable, CodeAssumption
  <2>3. Good(new) /\ (~ obsolete /\ Covered(bp) => Covered(new))
    BY <1>1, <2>2, ModifyBreakKeepsGood
  <2> HIDE DEF new, obsolete
  <2>4. modest => ~ obsolete
    BY <2>1
  <2> QED
    BY <1>2, <2>1, <2>3, <2>4
<1>6. ASSUME NEW t \in Thread, NEW n \in StepCount, Step(t, n)
      PROVE  Keeps
  <2> DEFINE new == DoStepRange(bp, t, FALSE, n).bp
  <2>1. bp' = new /\ pc' = pc
    BY <1>6 DEF Step, LetGo
  <2>2. n \in Int /\ FALSE \in BOOLEAN
    BY CodeAssumption
  <2>3. Good(new) /\ (Covered(bp) => Covered(new))
    BY <1>1, <2>2, StepRangeKeepsGood
  <2> HIDE DEF new
  <2> QED
    BY <1>2, <2>1, <2>3
<1>7. ASSUME NEW t \in Thread, ResumeThread(t)
      PROVE  Keeps
  <2> DEFINE new == DoResumeThread(bp, t).bp
  <2>1. bp' = new /\ pc' = pc
    BY <1>7 DEF ResumeThread, LetGo
  <2>2. Good(new) /\ (Covered(bp) => Covered(new))
    BY <1>1, ResumeKeepsGood
  <2> HIDE DEF new
  <2> QED
    BY <1>2, <2>1, <2>2
<1>8. ASSUME NEW t \in Thread, SuspendThread(t)
      PROVE  Keeps
  BY <1>1, <1>2, <1>8 DEF SuspendThread
<1>9. ASSUME NEW t \in Thread, Execute(t)
      PROVE  Keeps
  <2>1. pc' \in [Thread -> Address] /\ bp' = bp
    BY <1>1, <1>9, CodeAssumption DEF Execute
  <2> QED
    BY <1>1, <2>1 DEF Keeps, TablesGood
<1>10. ASSUME NEW t \in Thread, Hit(t)
       PROVE  Keeps
  <2> DEFINE new == HandleInvalidOpCodeException(t).bp
  <2>1. bp' = new /\ pc' = pc
    BY <1>10 DEF Hit
  <2>2. Good(new) /\ (Covered(bp) => Covered(new))
    BY <1>1, TrapKeepsGood
  <2> HIDE DEF new
  <2> QED
    BY <1>2, <2>1, <2>2
<1>11. ASSUME NEW t \in Thread, KillThread(t)
       PROVE  Keeps
  <2> DEFINE new == priv_DoRemoveThreadBreaks(bp, t)
  <2>1. bp' = new /\ pc' = pc
    BY <1>11 DEF KillThread
  <2>2. Good(new) /\ (Covered(bp) => Covered(new))
    BY <1>1, KillKeepsGood
  <2> HIDE DEF new
  <2> QED
    BY <1>2, <2>1, <2>2
<1>12. ASSUME NEW t \in Thread, ThreadGone(t)
       PROVE  Keeps
  <2>1. /\ bp' \in Table /\ bp'.list = bp.list /\ bp'.next = bp.next /\ bp'.patched = bp.patched
        /\ pc' = pc
    BY <1>1, <1>12 DEF ThreadGone, Table
  <2> QED
    BY <1>1, <1>2, <2>1 DEF Good, Covered
<1>13. ASSUME RemoveLibrary
       PROVE  Keeps
  <2>1. Good(bp)' /\ (Covered(bp) => Covered(bp)')
    BY <1>1, <1>13, RemoveLibraryKeepsGood
  <2>2. pc' = pc
    BY <1>13 DEF RemoveLibrary
  <2> QED
    BY <1>1, <2>1, <2>2 DEF Keeps, TablesGood
<1>14. ASSUME AddLibrary
       PROVE  Keeps
  <2> DEFINE M == bp.mapped \cup LibraryCode
  <2>1. M \in SUBSET Address /\ bp' = [bp EXCEPT !.mapped = M] /\ pc' = pc
    BY <1>1, <1>14, CodeAssumption DEF AddLibrary, Table
  <2> HIDE DEF M
  <2>2. /\ bp' \in Table /\ bp'.list = bp.list /\ bp'.next = bp.next /\ bp'.patched = bp.patched
    BY <1>1, <2>1 DEF Table
  <2> QED
    BY <1>1, <1>2, <2>1, <2>2 DEF Good, Covered
<1>15. ASSUME UNCHANGED vars
       PROVE  Keeps
  BY <1>1, <1>2, <1>15 DEF vars
<1>16. Keeps
  BY <1>3, <1>4, <1>5, <1>6, <1>7, <1>8, <1>9, <1>10, <1>11, <1>12, <1>13, <1>14, <1>15 DEF Next
<1> QED
  BY <1>16 DEF Keeps

\* The list of breakpoints stays well-formed: ids are fresh, temporary
\* entries exist, and entries stand at instructions.
THEOREM TablesStayGood == Spec => []TablesGood
<1>1. Init => TablesGood
  BY InitGood
<1>2. TablesGood /\ [Next]_vars => TablesGood'
  BY NextGood
<1> QED
  BY <1>1, <1>2, PTL DEF Spec

\* However breakpoints are set, modified and cleared, and whoever exits, no
\* thread is ever under two breakpoints of the user that overlap.
THEOREM BreaksNeverConflict == Spec => []NoConflictingBreaks
<1>1. TablesGood => NoConflictingBreaks
  BY UsersOfTable DEF TablesGood, Good, GoodList, NoConflict, NoConflictingBreaks
<1> QED
  BY <1>1, TablesStayGood, PTL

\* A breakpoint instruction never stays in the program without an entry,
\* when the list finds memory and no breakpoint of a library that is gone is
\* modified.
THEOREM CodeAlwaysHasEntries ==
    ASSUME AppendMayFail = FALSE, CanModify \subseteq {FALSE}
    PROVE  Spec => []CodeHasEntries
<1>1. Init => TablesGood /\ Covered(bp)
  BY InitGood
<1>2. TablesGood /\ Covered(bp) /\ [Next]_vars => TablesGood' /\ Covered(bp)'
  BY NextGood
<1>3. Covered(bp) => CodeHasEntries
  BY DEF Covered, Known, CodeHasEntries
<1> QED
  BY <1>1, <1>2, <1>3, PTL DEF Spec

-------------------------------------------------------------------------------
(* What the agent of a single thread has seen, SteppingHistory             *)

\* The target has one thread, and no instruction leads to itself.
SingleThread == \E t : Thread = {t}
NoSelfLoops == \A a \in Address : NextPC[a] # a

\* Nothing has exited or been unloaded, the user's entries have an owner and
\* have saved the program's instruction, and each patched place has an entry.
Plain(tab) ==
    /\ tab.mapped = Address /\ tab.threads = Thread
    /\ \A b \in DOMAIN tab.list : ~ tab.list[b].iObsoleteLibraryBreakpoint
    /\ \A b \in Users(tab.list) : /\ tab.list[b].iInstruction = "original"
                                  /\ tab.list[b].iId \in Thread \cup Process
    /\ \A a \in tab.patched : \E b \in DOMAIN tab.list : tab.list[b].iAddress = a

TempsFree(list) == \A b \in TempId : list[b].iAddress = 0

\* The places of the user's entries, R excepted.
Places(list, R) == {list[b].iAddress : b \in Users(list) \ R}

UserAt(list, a) == \E b \in Users(list) : list[b].iAddress = a

\* A thread stands still: no step is under way, the breakpoints are in the
\* code, but for those whose modification was refused, and the agent has been
\* told.
Standing(list, P, seen, R) ==
    TempsFree(list) /\ seen /\ Places(list, R) \subseteq P

\* The temporary entry of a step is in the code.  It is for the instruction
\* that is to be executed next, or has been reached; g instructions are left.
OnStep(e, a, P, g) ==
    e.iAddress # 0 =>
        /\ e.iId \in Thread /\ e.iAddress \in P
        /\ a = e.iAddress \/ (NextPC[a] = e.iAddress /\ a \notin P)
        /\ e.iResumeOnceOutOfRange => e.iNumSteps = 1
        /\ ~ e.iResumeOnceOutOfRange /\ e.iNumSteps > 0 =>
              g = IF a = e.iAddress THEN e.iNumSteps - 1 ELSE e.iNumSteps

\* A thread runs at a: a breakpoint is missing from the code only where it
\* has been disabled; that is where the thread stands and has been shown, and
\* there is an instruction behind it that stops the thread.
Going(list, P, a, g, seen, R) ==
    /\ \A b \in TempId \ {0} : list[b].iAddress = 0
    /\ OnStep(list[0], a, P, g)
    /\ ~ UserAt(list, list[0].iAddress)
    /\ \A b \in Users(list) \ R : list[b].iAddress \in P \/ list[b].iDisabledForStep
    /\ R = {} => \A b \in Users(list) :
          \/ list[b].iAddress \in P
          \/ a \in P
          \/ a = list[b].iAddress /\ seen /\ NextPC[a] \in P

Told ==
    /\ suspend \in [Thread -> {0, 1}]
    /\ report \in [Thread -> {"none", "break", "exception"}]
    /\ togo \in [Thread -> Int \cup {NoStep}]
    /\ shown \in [Thread -> BOOLEAN]
    /\ exited = {}

Seen(t) ==
    /\ suspend[t] = 1 => Standing(bp.list, bp.patched, shown[t], refused)
    /\ suspend[t] = 0 => /\ report[t] = "none"
                         /\ Going(bp.list, bp.patched, pc[t], togo[t], shown[t], refused)

History == TablesGood /\ Plain(bp) /\ Told /\ \A t \in Thread : Seen(t)

-------------------------------------------------------------------------------
(* Tables of a single thread *)

\* Every owner is the thread or its process.
LEMMA OwnerIsThere ==
    ASSUME SingleThread, NEW tab, Plain(tab), NEW t \in Thread, NEW id \in Thread \cup Process
    PROVE  /\ id \in {t, OwningProcess[t]}
           /\ CanOpenThread(tab, id)
           /\ id \in Process => CanOpenProcess(tab, id)
<1>1. id \in Process => FirstThread[id] = t /\ OwningProcess[t] = id
  BY ThreadsAssumption DEF SingleThread
<1>2. id \in Thread => id = t
  BY DEF SingleThread
<1>3. t \in tab.threads
  BY DEF Plain
<1> QED
  BY <1>1, <1>2, <1>3 DEF CanOpenThread, CanOpenProcess

LEMMA EveryEntryApplies ==
    ASSUME SingleThread, NEW tab, Plain(tab), NEW t \in Thread, NEW b \in Users(tab.list)
    PROVE  /\ AppliesTo(tab.list[b], t) /\ CanOpenThread(tab, tab.list[b].iId)
           /\ tab.list[b].iId \in Process => CanOpenProcess(tab, tab.list[b].iId)
           /\ tab.list[b].iId \in Thread => tab.list[b].iId \in tab.threads
<1>1. tab.list[b].iId \in Thread \cup Process /\ tab.threads = Thread
  BY DEF Plain
<1> QED
  BY <1>1, OwnerIsThere DEF AppliesTo

LEMMA UserEntry ==
    ASSUME NEW tab, Good(tab), NEW b \in Users(tab.list)
    PROVE  /\ b \in DOMAIN tab.list /\ b \in Nat /\ b \notin TempId
           /\ tab.list[b] \in Entry /\ tab.list[b].iAddress \in Address
           /\ tab.list[b].iAddress # 0
<1>1. b \in DOMAIN tab.list /\ tab.list \in List /\ ~ IsTemporaryBreak(b)
  BY DEF Users, Good, Table
<1>2. b \in Nat /\ tab.list[b] \in Entry
  BY <1>1, ListType
<1>3. tab.list[b].iAddress # 0
  BY DEF Good, GoodList, Placed
<1>4. tab.list[b].iAddress \in Address
  BY <1>2, <1>3 DEF Entry
<1>5. b \notin TempId
  BY <1>1, <1>2, TableAssumption DEF IsTemporaryBreak, TempId
<1> QED
  BY <1>1, <1>2, <1>3, <1>4, <1>5

\* Entries at one place overlap.
LEMMA SamePlaceOverlaps ==
    ASSUME NEW e, NEW f, e.iAddress \in Nat, e.iAddress = f.iAddress
    PROVE  BreakpointsOverlap(e, f)
<1>1. BreakSize(e.iMode) \in {2, 4} /\ BreakSize(f.iMode) \in {2, 4}
  BY DEF BreakSize
<1> QED
  BY <1>1 DEF BreakpointsOverlap

LEMMA OneAtAPlace ==
    ASSUME SingleThread, NEW tab, Good(tab), Plain(tab), NEW t \in Thread,
           NEW b \in Users(tab.list), NEW c \in Users(tab.list),
           tab.list[b].iAddress = tab.list[c].iAddress
    PROVE  b = c
<1>1. tab.list[b].iAddress \in Nat
  BY UserEntry, CodeAssumption
<1>2. BreakpointsOverlap(tab.list[b], tab.list[c])
  BY <1>1, SamePlaceOverlaps
<1>3. AppliesTo(tab.list[b], t) /\ AppliesTo(tab.list[c], t)
  BY EveryEntryApplies
<1> QED
  BY <1>2, <1>3 DEF Good, GoodList, NoConflict

\* The temporary ids.
LEMMA ZeroIsTemporary ==
    /\ 0 \in TempId /\ TempId \subseteq Nat /\ Min(TempId) = 0
    /\ \A b : b \in TempId => IsTemporaryBreak(b)
<1>1. 0 \in TempId /\ TempId \subseteq Nat /\ \A b : b \in TempId => IsTemporaryBreak(b)
  BY TableAssumption DEF TempId, IsTemporaryBreak
<1>2. Min(TempId) \in TempId /\ Min(TempId) <= 0
  BY <1>1, MinOfNaturals
<1>3. Min(TempId) = 0
  <2> DEFINE m == Min(TempId)
  <2>1. m \in Nat /\ m <= 0
    BY <1>1, <1>2
  <2> HIDE DEF m
  <2>2. m = 0
    BY <2>1
  <2> QED
    BY <2>2 DEF m
<1> QED
  BY <1>1, <1>3

LEMMA TempsInList ==
    ASSUME NEW tab, Good(tab)
    PROVE  /\ TempId \subseteq DOMAIN tab.list
           /\ \A b \in TempId : b \notin Users(tab.list) /\ tab.list[b] \in Entry
           /\ \A b \in DOMAIN tab.list : b \in TempId \/ b \in Users(tab.list)
<1>1. TempId \subseteq DOMAIN tab.list /\ tab.list \in List /\ NUMBER_OF_TEMP_BREAKPOINTS \in Nat
  BY TableAssumption DEF Good, Table, GoodList, Placed
<1>2. DOMAIN tab.list \subseteq Nat /\ \A b \in DOMAIN tab.list : tab.list[b] \in Entry
  BY <1>1, ListType
<1> QED
  BY <1>1, <1>2, ZeroIsTemporary DEF Users, IsTemporaryBreak, TempId

-------------------------------------------------------------------------------
(* What the methods do to a table without overlaps                         *)

\* The user's entries are as before, but for the steps and what is disabled.
Like(tab, new) ==
    /\ new \in Table /\ new.mapped = tab.mapped /\ new.threads = tab.threads
    /\ DOMAIN new.list = DOMAIN tab.list
    /\ \A b \in DOMAIN tab.list :
          new.list[b].iObsoleteLibraryBreakpoint = tab.list[b].iObsoleteLibraryBreakpoint
    /\ \A b \in Users(tab.list) :
          /\ new.list[b].iAddress = tab.list[b].iAddress
          /\ new.list[b].iId = tab.list[b].iId
          /\ new.list[b].iInstruction = tab.list[b].iInstruction
          /\ tab.list[b].iDisabledForStep => new.list[b].iDisabledForStep

SameTemps(list, new) == \A b \in TempId : new[b] = list[b]

LEMMA LikeItself ==
    ASSUME NEW tab \in Table
    PROVE  Like(tab, tab)
BY DEF Like

LEMMA LikeAgain ==
    ASSUME NEW tab, NEW mid, NEW new, Like(tab, mid), Like(mid, new)
    PROVE  Like(tab, new)
<1>1. Users(mid.list) = Users(tab.list) /\ Users(tab.list) \subseteq DOMAIN tab.list
  BY DEF Like, Users
<1> QED
  BY <1>1 DEF Like

LEMMA LikeIsPlain ==
    ASSUME NEW tab, NEW new, Plain(tab), Like(tab, new),
           \A a \in new.patched : \E b \in DOMAIN new.list : new.list[b].iAddress = a
    PROVE  /\ Plain(new) /\ Users(new.list) = Users(tab.list)
           /\ \A R : Places(new.list, R) = Places(tab.list, R)
           /\ \A a : UserAt(new.list, a) <=> UserAt(tab.list, a)
<1>1. Users(new.list) = Users(tab.list) /\ Users(tab.list) \subseteq DOMAIN tab.list
  BY DEF Like, Users
<1>2. Plain(new)
  BY <1>1 DEF Like, Plain
<1>3. \A R : Places(new.list, R) = Places(tab.list, R)
  BY <1>1 DEF Like, Places
<1>4. \A a : UserAt(new.list, a) <=> UserAt(tab.list, a)
  BY <1>1 DEF Like, UserAt
<1> QED
  BY <1>1, <1>2, <1>3, <1>4

\* Writing an entry of the user that stays where it is.
LEMMA PutLike ==
    ASSUME NEW tab \in Table, NEW b \in Users(tab.list), NEW e \in Entry,
           NEW P \in SUBSET Address,
           SamePlace(e, tab.list[b]), e.iInstruction = tab.list[b].iInstruction,
           e.iObsoleteLibraryBreakpoint = tab.list[b].iObsoleteLibraryBreakpoint,
           tab.list[b].iDisabledForStep => e.iDisabledForStep,
           NEW new, new = Patch(Relist(tab, Put(tab.list, b, e)), P)
    PROVE  /\ Like(tab, new) /\ new.patched = P /\ new.list[b] = e
           /\ \A c \in DOMAIN tab.list \ {b} : new.list[c] = tab.list[c]
<1> DEFINE L == Put(tab.list, b, e)
           mid == Relist(tab, L)
<1>1. b \in DOMAIN tab.list /\ tab.list \in List /\ b \in Nat
  BY ListType DEF Users, Table
<1>2. WithEntry(L, tab.list, b, e)
  BY <1>1, PutEntry
<1>3. /\ L \in List /\ DOMAIN L = DOMAIN tab.list /\ L[b] = e
      /\ \A c \in DOMAIN tab.list \ {b} : L[c] = tab.list[c]
  BY <1>1, <1>2 DEF WithEntry
<1> HIDE DEF L
<1>4. mid \in Table /\ mid.list = L /\ mid.mapped = tab.mapped /\ mid.threads = tab.threads
  BY <1>3, RelistTable
<1>5. /\ new \in Table /\ new.list = L /\ new.mapped = tab.mapped /\ new.threads = tab.threads
      /\ new.patched = P
  <2> HIDE DEF mid
  <2>1. new = Patch(mid, P)
    BY DEF mid, L
  <2> QED
    BY <1>4, <2>1, PatchTable
<1>6. Users(tab.list) \subseteq DOMAIN tab.list
  BY DEF Users
<1>7. Like(tab, new)
  BY <1>3, <1>5, <1>6 DEF Like, SamePlace
<1> QED
  BY <1>3, <1>5, <1>7

\* Clearing an entry: its place is restored.
Cleared(tab, new, b) ==
    /\ Good(new) /\ Plain(new)
    /\ Users(new.list) = Users(tab.list) \ {b}
    /\ \A c \in DOMAIN tab.list \ {b} : c \in DOMAIN new.list /\ new.list[c] = tab.list[c]
    /\ b \in TempId => new.list[b].iAddress = 0
    /\ new.patched = tab.patched \ {tab.list[b].iAddress}

LEMMA ClearEffect ==
    ASSUME SingleThread, NEW t \in Thread, NEW tab, Good(tab), Plain(tab),
           NEW b \in DOMAIN tab.list, tab.list[b].iAddress # 0,
           tab.list[b].iId \in Thread \cup Process,
           \A c \in Users(tab.list) \ {b} : tab.list[c].iAddress # tab.list[b].iAddress
    PROVE  Cleared(tab, priv_DoClearBreak(tab, b, FALSE).bp, b)
<1> DEFINE a == tab.list[b].iAddress
           restored == RestoreCode(tab, a).bp
           new == priv_DoClearBreak(tab, b, FALSE).bp
<1>1. tab \in Table /\ GoodList(tab.list, tab.next) /\ tab.next \in Nat
  BY DEF Good, Table
<1>2. \A c \in UserIds(tab) \ {b} : ~ BreakpointsOverlap(tab.list[b], tab.list[c])
  BY <1>1, OthersStandApart, UsersOfTable
<1>3. ~ tab.list[b].iObsoleteLibraryBreakpoint /\ CanOpenThread(tab, tab.list[b].iId)
  BY OwnerIsThere DEF Plain
<1>4. new = Drop(restored, b)
  BY <1>2, <1>3, AnswerParts DEF priv_DoClearBreak
<1>5. restored = Patch(tab, tab.patched \ {a})
  BY AnswerParts DEF RestoreCode, Patch
<1>6. tab.patched \ {a} \in SUBSET Address
  BY <1>1 DEF Table
<1>7. /\ restored \in Table /\ restored.list = tab.list /\ restored.patched = tab.patched \ {a}
      /\ restored.mapped = tab.mapped /\ restored.threads = tab.threads
  BY <1>1, <1>5, <1>6, PatchTable
<1>8. Good(new)
  BY ClearBreakKeepsGood
<1> HIDE DEF restored, a
<1>9. Drop(restored, b).mapped = restored.mapped /\ Drop(restored, b).threads = restored.threads
  BY <1>7 DEF Drop, Table
<1>10. /\ WithoutEntry(new.list, tab.list, b) /\ new.patched = tab.patched \ {a}
       /\ new.mapped = Address /\ new.threads = Thread
  <2> DEFINE d == Drop(restored, b)
  <2>1. WithoutEntry(d.list, restored.list, b) /\ d.patched = restored.patched
    BY <1>7, DropEntry
  <2>2. d.mapped = restored.mapped /\ d.threads = restored.threads
    BY <1>9
  <2>3. new = d
    BY <1>4
  <2> HIDE DEF d, new
  <2>4. tab.mapped = Address /\ tab.threads = Thread
    BY DEF Plain
  <2> QED
    BY <1>7, <2>1, <2>2, <2>3, <2>4
<1> HIDE DEF new
<1>11. /\ \A c \in DOMAIN tab.list \ {b} : c \in DOMAIN new.list /\ new.list[c] = tab.list[c]
       /\ DOMAIN new.list \subseteq DOMAIN tab.list
       /\ b \in DOMAIN new.list => new.list[b] = Reset /\ IsTemporaryBreak(b)
       /\ IsTemporaryBreak(b) => b \in DOMAIN new.list
  BY <1>10 DEF WithoutEntry
<1>12. Users(new.list) = Users(tab.list) \ {b}
  BY <1>11 DEF Users
<1>13. b \in TempId => new.list[b].iAddress = 0
  BY <1>11, ZeroIsTemporary, ResetType
<1>14. Plain(new)
  <2>1. \A c \in DOMAIN new.list : ~ new.list[c].iObsoleteLibraryBreakpoint
    BY <1>11, ResetType DEF Plain
  <2>2. \A c \in Users(new.list) : /\ new.list[c].iInstruction = "original"
                                   /\ new.list[c].iId \in Thread \cup Process
    <3>1. Users(tab.list) \subseteq DOMAIN tab.list
      BY DEF Users
    <3> QED
      BY <1>11, <1>12, <3>1 DEF Plain
  <2>3. ASSUME NEW x \in new.patched
        PROVE  \E c \in DOMAIN new.list : new.list[c].iAddress = x
    <3>1. x \in tab.patched /\ x # a
      BY <1>10, <2>3
    <3>2. PICK c \in DOMAIN tab.list : tab.list[c].iAddress = x
      BY <3>1 DEF Plain
    <3> QED
      BY <1>11, <3>1, <3>2 DEF a
  <2> QED
    BY <1>10, <2>1, <2>2, <2>3 DEF Plain
<1> QED
  BY <1>8, <1>10, <1>11, <1>12, <1>13, <1>14 DEF Cleared, new, a

-------------------------------------------------------------------------------
(* Steps                                                                   *)

LEMMA MinOfOne ==
    ASSUME NEW b \in Nat
    PROVE  Min({b}) = b
<1>1. {b} \in SUBSET Nat /\ {b} # {}
  OBVIOUS
<1>2. Min({b}) \in {b}
  BY <1>1, MinOfNaturals
<1> QED
  BY <1>2

\* What the user has at a is out of the code.
Off(tab, new, a) ==
    /\ Like(tab, new) /\ SameTemps(tab.list, new.list) /\ new.patched = tab.patched \ {a}
    /\ \A b \in Users(tab.list) : tab.list[b].iAddress = a => new.list[b].iDisabledForStep

\* Without a step under way only the user's entries have patches.
LEMMA PatchesAreUsers ==
    ASSUME NEW tab, Good(tab), Plain(tab), TempsFree(tab.list), NEW a \in tab.patched
    PROVE  UserAt(tab.list, a)
<1>1. PICK b \in DOMAIN tab.list : tab.list[b].iAddress = a
  BY DEF Plain
<1>2. a # 0
  BY CodeAssumption DEF Good, Table
<1>3. b \notin TempId
  BY <1>1, <1>2 DEF TempsFree
<1> QED
  BY <1>1, <1>3, TempsInList DEF UserAt

LEMMA DisableEffect ==
    ASSUME SingleThread, NEW t \in Thread, NEW tab, Good(tab), Plain(tab), TempsFree(tab.list),
           NEW a \in Address
    PROVE  LET off == priv_DisableBreakAtAddress(tab, a)
           IN  /\ Off(tab, off.bp, a)
               /\ off.err = "KErrNone" <=> (UserAt(tab.list, a) => a \in tab.patched)
<1> DEFINE off == priv_DisableBreakAtAddress(tab, a)
           here == {b \in UserIds(tab) : tab.list[b].iAddress = a}
<1>1. tab \in Table
  BY DEF Good
<1>2. CASE ~ UserAt(tab.list, a)
  <2>1. here = {}
    BY <1>2, UsersOfTable DEF UserAt
  <2>2. off.bp = tab /\ off.err = "KErrNone"
    BY <2>1, AnswerParts DEF priv_DisableBreakAtAddress
  <2>3. a \notin tab.patched
    BY <1>2, PatchesAreUsers
  <2>4. Off(tab, tab, a)
    BY <1>1, <1>2, <2>3, LikeItself DEF Off, SameTemps, UserAt
  <2> QED
    BY <1>2, <2>2, <2>4
<1>3. CASE UserAt(tab.list, a)
  <2>1. PICK b \in Users(tab.list) : tab.list[b].iAddress = a
    BY <1>3 DEF UserAt
  <2>2. \A c \in Users(tab.list) : tab.list[c].iAddress = a => c = b
    BY <2>1, OneAtAPlace
  <2>3. here = {b}
    BY <2>1, <2>2, UsersOfTable
  <2>4. b \in Nat /\ b \in DOMAIN tab.list /\ tab.list[b] \in Entry
    BY UserEntry
  <2>5. Min(here) = b
    BY <2>3, <2>4, MinOfOne
  <2> DEFINE e == [tab.list[b] EXCEPT !.iDisabledForStep = TRUE]
             P == tab.patched \ {a}
             flagged == [tab EXCEPT !.list[b].iDisabledForStep = TRUE]
             new == Patch(Relist(tab, Put(tab.list, b, e)), P)
  <2>6. IF tab.list[b].iId \in Thread THEN tab.list[b].iId \in tab.threads
        ELSE CanOpenProcess(tab, tab.list[b].iId)
    <3>1. tab.list[b].iId \in Thread \cup Process
      BY DEF Plain
    <3> QED
      BY <3>1, EveryEntryApplies
  <2> HIDE DEF here
  <2>7. off = RestoreCode(flagged, a)
    BY <2>3, <2>5, <2>6 DEF priv_DisableBreakAtAddress, here
  <2>8. flagged = Relist(tab, Put(tab.list, b, e))
    <3>1. tab.list \in List /\ tab.list = [x \in DOMAIN tab.list |-> tab.list[x]]
      BY <1>1 DEF Table, List
    <3>2. Put(tab.list, b, e) = [tab.list EXCEPT ![b] = e]
      BY <2>4, <3>1 DEF Put
    <3> QED
      BY <1>1, <3>2 DEF Relist, Table
  <2>9. Put(tab.list, b, e) \in List
    <3>1. e \in Entry /\ tab.list \in List
      BY <1>1, <2>4 DEF Entry, Table
    <3> QED
      BY <2>4, <3>1, PutEntry DEF WithEntry
  <2>10. flagged.patched = tab.patched
    BY <1>1, <2>8, <2>9, RelistTable
  <2> HIDE DEF flagged
  <2>11. off.bp = new /\ (off.err = "KErrNone" <=> a \in tab.patched)
    <3>1. /\ off.bp = [flagged EXCEPT !.patched = @ \ {a}]
          /\ off.err = IF a \in flagged.patched THEN "KErrNone" ELSE "KErrNotFound"
      BY <2>7, AnswerParts DEF RestoreCode
    <3>2. [flagged EXCEPT !.patched = @ \ {a}] = Patch(flagged, P)
      BY <2>10 DEF Patch
    <3> HIDE DEF off, P
    <3> QED
      BY <2>8, <2>10, <3>1, <3>2
  <2>12. P \in SUBSET Address
    BY <1>1 DEF Table
  <2>13. /\ e \in Entry /\ SamePlace(e, tab.list[b]) /\ e.iInstruction = tab.list[b].iInstruction
         /\ e.iObsoleteLibraryBreakpoint = tab.list[b].iObsoleteLibraryBreakpoint
         /\ e.iDisabledForStep = TRUE
    BY <2>4 DEF Entry, SamePlace
  <2> HIDE DEF e, P
  <2>14. /\ Like(tab, new) /\ new.patched = P /\ new.list[b] = e
         /\ \A c \in DOMAIN tab.list \ {b} : new.list[c] = tab.list[c]
    BY <1>1, <2>12, <2>13, PutLike
  <2> HIDE DEF new, off
  <2>15. SameTemps(tab.list, new.list)
    BY <2>14, TempsInList DEF SameTemps
  <2>16. Off(tab, new, a)
    BY <2>2, <2>13, <2>14, <2>15 DEF Off, P
  <2> QED
    BY <1>3, <2>11, <2>16 DEF off
<1> QED
  BY <1>2, <1>3

\* After a trap all that was disabled is in the code again.
LEMMA EnableEffect ==
    ASSUME SingleThread, NEW t \in Thread, NEW tab, Good(tab), Plain(tab)
    PROVE  LET new == priv_DoEnableDisabledBreak(tab, t).bp
           IN  /\ Like(tab, new) /\ new.list = tab.list
               /\ new.patched = tab.patched \cup
                     {tab.list[b].iAddress : b \in {c \in Users(tab.list) : tab.list[c].iDisabledForStep}}
<1> DEFINE flagged == {c \in Users(tab.list) : tab.list[c].iDisabledForStep}
           disabled == {b \in UserIds(tab) : /\ tab.list[b].iDisabledForStep
                                             /\ AppliesTo(tab.list[b], t)}
           failing == {b \in disabled : ~ CanOpenThread(tab, tab.list[b].iId)}
           enabled == {b \in disabled : \A c \in failing : b < c}
           places == {tab.list[b].iAddress : b \in enabled}
           added == {a \in places \cap tab.mapped : ~ breakpointAlreadySet(tab, a)}
           new == priv_DoEnableDisabledBreak(tab, t).bp
           P == tab.patched \cup {tab.list[b].iAddress : b \in flagged}
<1>1. disabled = flagged
  BY EveryEntryApplies, UsersOfTable
<1>2. failing = {}
  BY <1>1, EveryEntryApplies
<1>3. enabled = flagged
  BY <1>1, <1>2
<1> HIDE DEF disabled, failing
<1>4. added = {tab.list[b].iAddress : b \in flagged}
  <2>1. \A b \in flagged : tab.list[b].iAddress \in tab.mapped
    BY UserEntry DEF Plain
  <2>2. ASSUME NEW b \in flagged
        PROVE  ~ breakpointAlreadySet(tab, tab.list[b].iAddress)
    <3>1. \A c \in Users(tab.list) : tab.list[c].iAddress = tab.list[b].iAddress => c = b
      BY <2>2, OneAtAPlace
    <3> QED
      BY <2>2, <3>1, UsersOfTable DEF breakpointAlreadySet
  <2> HIDE DEF flagged, enabled
  <2> QED
    BY <1>3, <2>1, <2>2
<1>5. new = Patch(tab, tab.patched \cup added)
  <2>1. t \in tab.threads
    BY DEF Plain
  <2> QED
    BY <1>2, <2>1, AnswerParts DEF priv_DoEnableDisabledBreak, Patch, added, places, enabled, failing, disabled
<1>6. new = Patch(tab, P) /\ P \in SUBSET Address
  <2>1. \A b \in flagged : tab.list[b].iAddress \in Address
    BY UserEntry
  <2>2. tab.patched \in SUBSET Address
    BY DEF Good, Table
  <2> HIDE DEF flagged, added, new
  <2> QED
    BY <1>4, <1>5, <2>1, <2>2
<1> HIDE DEF new, P
<1>7. tab \in Table
  BY DEF Good
<1>8. /\ new \in Table /\ new.list = tab.list /\ new.patched = P
      /\ new.mapped = tab.mapped /\ new.threads = tab.threads
  BY <1>6, <1>7, PatchTable
<1>9. Like(tab, new)
  BY <1>8 DEF Like
<1> QED
  BY <1>8, <1>9 DEF new, P


\* The step that thread t is to make from a can be made.
Free(tab, a) == UserAt(tab.list, a) => a \in tab.patched

\* The step is prepared: its temporary entry is the first one, unless the user
\* has a breakpoint at c.
Prepared(tab, new, t, a, c, once, n) ==
    /\ Like(tab, new)
    /\ \A b \in Users(tab.list) : tab.list[b].iAddress = a => new.list[b].iDisabledForStep
    /\ \/ /\ UserAt(tab.list, c)
          /\ SameTemps(tab.list, new.list) /\ new.patched = tab.patched \ {a}
       \/ /\ ~ UserAt(tab.list, c)
          /\ \A b \in TempId \ {0} : new.list[b] = tab.list[b]
          /\ new.list[0].iId = t /\ new.list[0].iAddress = c
          /\ new.list[0].iResumeOnceOutOfRange = once /\ new.list[0].iNumSteps = n
          /\ new.patched = (tab.patched \ {a}) \cup {c}

\* An instruction that the user has a breakpoint at needs no temporary one.
LEMMA StepToUserBreak ==
    ASSUME NEW tab, Good(tab), NEW off, NEW t, NEW a, NEW c, NEW once, NEW n,
           Off(tab, off, a), UserAt(tab.list, c), NEW b \in Users(off.list)
    PROVE  Prepared(tab, [off EXCEPT !.list[b].iNumSteps = 0], t, a, c, once, n)
<1> DEFINE e == [off.list[b] EXCEPT !.iNumSteps = 0]
           new == [off EXCEPT !.list[b].iNumSteps = 0]
           P == off.patched
<1>1. off \in Table /\ off.list \in List /\ b \in DOMAIN off.list /\ P \in SUBSET Address
  BY DEF Off, Like, Users, Table
<1>2. off.list[b] \in Entry /\ off.list = [x \in DOMAIN off.list |-> off.list[x]]
  BY <1>1, ListType
<1>3. /\ e \in Entry /\ SamePlace(e, off.list[b]) /\ e.iInstruction = off.list[b].iInstruction
      /\ e.iObsoleteLibraryBreakpoint = off.list[b].iObsoleteLibraryBreakpoint
      /\ e.iDisabledForStep = off.list[b].iDisabledForStep
      /\ off.list[b].iDisabledForStep => e.iDisabledForStep
  BY <1>2 DEF Entry, SamePlace
<1>4. new = Patch(Relist(off, Put(off.list, b, e)), P)
  <2> DEFINE L == Put(off.list, b, e)
  <2>1. L = [off.list EXCEPT ![b] = e]
    BY <1>1, <1>2 DEF Put
  <2>2. new = [off EXCEPT !.list = [off.list EXCEPT ![b] = e]]
    OBVIOUS
  <2> HIDE DEF new, e, L
  <2>3. new = Relist(off, L)
    BY <2>1, <2>2 DEF Relist
  <2>4. Patch(Relist(off, L), P) = Relist(off, L)
    BY <1>1 DEF Relist, Patch, Table
  <2> QED
    BY <2>3, <2>4 DEF L
<1> HIDE DEF e, P, new
<1>5. /\ Like(off, new) /\ new.patched = P /\ new.list[b] = e
      /\ \A x \in DOMAIN off.list \ {b} : new.list[x] = off.list[x]
  BY <1>1, <1>3, <1>4, PutLike
<1>6. Like(tab, new) /\ Users(off.list) = Users(tab.list)
  BY <1>5, LikeAgain DEF Off, Like, Users
<1>7. SameTemps(tab.list, new.list)
  <2>1. \A x \in TempId : x # b
    BY ZeroIsTemporary DEF Users
  <2>2. \A x \in TempId : new.list[x] = off.list[x]
    <3>1. TempId \subseteq DOMAIN off.list
      BY TempsInList DEF Off, Like
    <3> QED
      BY <1>5, <2>1, <3>1
  <2> QED
    BY <2>2 DEF SameTemps, Off
<1>8. \A x \in Users(tab.list) : tab.list[x].iAddress = a => new.list[x].iDisabledForStep
  <2>1. Users(off.list) \subseteq DOMAIN off.list
    BY DEF Users
  <2> QED
    BY <1>3, <1>5, <1>6, <2>1 DEF Off
<1>9. new.patched = tab.patched \ {a}
  BY <1>5 DEF P, Off
<1> QED
  BY <1>6, <1>7, <1>8, <1>9 DEF Prepared, new

\* Otherwise the first temporary entry is taken.
StepEntry(t, c, once, n) ==
    [TBreakEntry(t, c, CodeMode[c]) EXCEPT !.iResumeOnceOutOfRange = once, !.iNumSteps = n]

LEMMA StepToTemporary ==
    ASSUME SingleThread, NEW t \in Thread, NEW tab, Good(tab), Plain(tab),
           NEW a \in Address, NEW c \in Address, NEW once \in BOOLEAN, NEW n \in Int,
           NEW off, Off(tab, off, a), ~ UserAt(tab.list, c),
           NEW temp, temp = StepEntry(t, c, once, n),
           NEW taken, taken = [off EXCEPT !.list[0] = temp],
           NEW made, made = priv_DoEnableBreak(taken, 0, temp)
    PROVE  made.err = "KErrNone" /\ Prepared(tab, made.bp, t, a, c, once, n)
<1> DEFINE saved == [temp EXCEPT !.iInstruction = RawInstruction(taken, c)]
           P == off.patched \cup {c}
           L == Put(off.list, 0, saved)
<1>1. /\ off \in Table /\ off.list \in List /\ off.mapped = Address /\ off.threads = Thread
      /\ DOMAIN off.list = DOMAIN tab.list /\ Users(off.list) = Users(tab.list)
      /\ off.patched = tab.patched \ {a} /\ off.patched \in SUBSET Address
  BY DEF Off, Like, Users, Table, Plain
<1>2. 0 \in TempId /\ 0 \in DOMAIN off.list /\ IsTemporaryBreak(0) /\ 0 \in Nat
  BY <1>1, ZeroIsTemporary, TempsInList
<1>3. temp \in Entry /\ temp.iId = t /\ temp.iAddress = c
  <2>1. TBreakEntry(t, c, CodeMode[c]) \in Entry
    BY NewEntryType, CodeAssumption
  <2> QED
    BY <2>1 DEF Entry, TBreakEntry, StepEntry
<1>4. /\ saved \in Entry /\ saved.iId = t /\ saved.iAddress = c
      /\ saved.iResumeOnceOutOfRange = once /\ saved.iNumSteps = n
      /\ saved.iObsoleteLibraryBreakpoint = FALSE
  <2>1. RawInstruction(taken, c) \in {"breakpoint", "original"}
    BY DEF RawInstruction
  <2>2. /\ temp.iResumeOnceOutOfRange = once /\ temp.iNumSteps = n
        /\ temp.iObsoleteLibraryBreakpoint = FALSE
    BY DEF TBreakEntry, StepEntry
  <2> QED
    BY <1>3, <2>1, <2>2 DEF Entry
<1>5. taken = Relist(off, Put(off.list, 0, temp))
  <2>1. off.list = [x \in DOMAIN off.list |-> off.list[x]]
    BY <1>1, ListType
  <2>2. Put(off.list, 0, temp) = [off.list EXCEPT ![0] = temp]
    BY <1>2, <2>1 DEF Put
  <2> QED
    BY <1>1, <2>2 DEF Relist, Table
<1>6. WithEntry(Put(off.list, 0, temp), off.list, 0, temp)
  BY <1>1, <1>2, <1>3, PutEntry
<1>7. /\ taken \in Table /\ taken.list = Put(off.list, 0, temp) /\ taken.patched = off.patched
      /\ taken.mapped = Address /\ taken.threads = Thread
  <2> DEFINE put == Relist(off, Put(off.list, 0, temp))
  <2>1. Put(off.list, 0, temp) \in List
    BY <1>6 DEF WithEntry
  <2>2. /\ put \in Table /\ put.list = Put(off.list, 0, temp) /\ put.patched = off.patched
        /\ put.mapped = off.mapped /\ put.threads = off.threads
    BY <1>1, <2>1, RelistTable
  <2> HIDE DEF put
  <2>3. taken = put
    BY <1>5 DEF put
  <2> QED
    BY <1>1, <2>2, <2>3
<1>8. \A b \in UserIds(taken) : b \in Users(tab.list) /\ taken.list[b] = off.list[b]
  BY <1>1, <1>2, <1>6, <1>7 DEF UserIds, Users, WithEntry
<1>9. ~ breakpointAlreadySet(taken, c)
  BY <1>8 DEF breakpointAlreadySet, UserAt, Off, Like
<1>10. CanOpenThread(taken, temp.iId)
  BY <1>3, <1>7 DEF CanOpenThread
<1>11. ModifyCode(taken, c) = Patch(taken, P)
  BY <1>7 DEF ModifyCode, Patch
<1>12. /\ EnableAgain(taken, temp).bp = Patch(taken, P)
       /\ EnableAgain(taken, temp).err = "KErrNone"
  BY <1>3, <1>9, <1>10, <1>11, AnswerParts DEF EnableAgain
<1>13. P \in SUBSET Address
  BY <1>1
<1>14. WithEntry(L, off.list, 0, saved)
  BY <1>1, <1>2, <1>4, PutEntry
<1>15. Put(taken.list, 0, saved) = L
  BY <1>2, <1>6, <1>7 DEF Put, WithEntry
<1> HIDE DEF P, saved
<1>16. made.err = "KErrNone" /\ made.bp = Relist(Patch(taken, P), L)
  <2>1. temp.iAddress \in taken.mapped
    BY <1>3, <1>7
  <2>2. Patch(taken, P).list = taken.list
    BY <1>7, <1>13, PatchTable
  <2> DEFINE done == EnableAgain(taken, temp)
  <2>3. done.err = "KErrNone" /\ done.bp = Patch(taken, P)
    BY <1>12
  <2> HIDE DEF done
  <2>4. made = Answer([done.bp EXCEPT !.list = Put(@, 0, saved)], "KErrNone")
    BY <1>3, <2>1, <2>3 DEF priv_DoEnableBreak, done, saved
  <2>5. made = Answer(Relist(Patch(taken, P), L), "KErrNone")
    BY <1>15, <2>2, <2>3, <2>4 DEF Relist
  <2> QED
    BY <2>5, AnswerParts
<1> DEFINE new == made.bp
<1> HIDE DEF L
<1>17. /\ new \in Table /\ new.list = L /\ new.patched = P
       /\ new.mapped = Address /\ new.threads = Thread
  <2>1. L \in List
    BY <1>14 DEF WithEntry
  <2> DEFINE mid == Patch(taken, P)
  <2>2. /\ mid \in Table /\ mid.patched = P /\ mid.mapped = Address /\ mid.threads = Thread
    BY <1>7, <1>13, PatchTable
  <2> HIDE DEF mid
  <2>3. new = Relist(mid, L)
    BY <1>16 DEF mid
  <2> QED
    BY <2>1, <2>2, <2>3, RelistTable
<1> HIDE DEF new
<1>18. /\ DOMAIN new.list = DOMAIN tab.list /\ new.list[0] = saved
       /\ \A b \in DOMAIN tab.list \ {0} : new.list[b] = off.list[b]
  BY <1>1, <1>2, <1>14, <1>17 DEF WithEntry
<1>19. 0 \in TempId /\ 0 \notin Users(tab.list) /\ Users(tab.list) \subseteq DOMAIN tab.list
  BY <1>2 DEF Users
<1>20. tab.list[0].iObsoleteLibraryBreakpoint = FALSE
  <2>1. tab.list[0] \in Entry
    BY <1>2, TempsInList
  <2> QED
    BY <1>1, <1>2, <2>1 DEF Plain, Entry
<1>21. Like(tab, new)
  <2>1. Like(tab, off)
    BY DEF Off
  <2>2. \A b \in DOMAIN tab.list :
           new.list[b].iObsoleteLibraryBreakpoint = tab.list[b].iObsoleteLibraryBreakpoint
    <3>1. CASE 0 \in DOMAIN tab.list
      <4>1. new.list[0].iObsoleteLibraryBreakpoint = FALSE
        BY <1>4, <1>18
      <4>2. tab.list[0].iObsoleteLibraryBreakpoint = FALSE
        BY <1>20
      <4> QED
        BY <1>18, <2>1, <4>1, <4>2 DEF Like
    <3> QED
      BY <1>1, <1>2, <3>1
  <2>3. \A b \in Users(tab.list) : new.list[b] = off.list[b]
    BY <1>18, <1>19
  <2> QED
    BY <1>17, <1>18, <2>1, <2>2, <2>3 DEF Like, Plain
<1>22. \A b \in Users(tab.list) : tab.list[b].iAddress = a => new.list[b].iDisabledForStep
  BY <1>18, <1>19 DEF Off
<1>23. \A b \in TempId \ {0} : new.list[b] = tab.list[b]
  BY <1>18, TempsInList DEF Off, SameTemps
<1>24. new.patched = (tab.patched \ {a}) \cup {c}
  BY <1>1, <1>17 DEF P
<1>25. Prepared(tab, new, t, a, c, once, n)
  BY <1>4, <1>18, <1>21, <1>22, <1>23, <1>24 DEF Prepared
<1> QED
  BY <1>16, <1>25 DEF new

LEMMA StepEffect ==
    ASSUME SingleThread, NEW t \in Thread, NEW tab, Good(tab), Plain(tab), TempsFree(tab.list),
           pc \in [Thread -> Address], NEW once \in BOOLEAN, NEW n \in Int
    PROVE  LET step == ModifyBreaksForStep(tab, t, once, n)
           IN  /\ Free(tab, pc[t]) => /\ step.err = "KErrNone"
                                      /\ Prepared(tab, step.bp, t, pc[t], NextPC[pc[t]], once, n)
               /\ ~ Free(tab, pc[t]) => step.err # "KErrNone" /\ Off(tab, step.bp, pc[t])
<1> DEFINE a == pc[t]
           c == NextPC[a]
           disabled == priv_DisableBreakAtAddress(tab, a)
           off == disabled.bp
           userBreak == {b \in UserIds(off) : /\ off.list[b].iAddress = c
                                              /\ AppliesTo(off.list[b], t)}
           free == {b \in TempId : off.list[b].iAddress = 0}
           temp == [TBreakEntry(t, c, CodeMode[c]) EXCEPT
                      !.iResumeOnceOutOfRange = once, !.iNumSteps = n]
           taken == [off EXCEPT !.list[Min(free)] = temp]
           step == ModifyBreaksForStep(tab, t, once, n)
<1>1. a \in Address /\ c \in Address
  BY CodeAssumption
<1>2. Off(tab, off, a) /\ (disabled.err = "KErrNone" <=> Free(tab, a))
  BY <1>1, DisableEffect DEF Free
<1>3. step = IF disabled.err # "KErrNone" THEN disabled
             ELSE IF userBreak # {}
                  THEN Answer([off EXCEPT !.list[Min(userBreak)].iNumSteps = 0], "KErrNone")
             ELSE IF free = {} THEN Answer(off, "KErrNoMemory")
             ELSE priv_DoEnableBreak(taken, Min(free), temp)
  BY DEF ModifyBreaksForStep
<1> HIDE DEF a, c, disabled, step, temp, taken
<1>4. Users(off.list) = Users(tab.list) /\ UserIds(off) = Users(off.list)
  BY <1>2, UsersOfTable DEF Off, Like, Users
<1>5. userBreak = {b \in Users(tab.list) : tab.list[b].iAddress = c}
  <2>1. ASSUME NEW b \in Users(tab.list)
        PROVE  off.list[b].iAddress = tab.list[b].iAddress /\ AppliesTo(off.list[b], t)
    BY <1>2, EveryEntryApplies DEF Off, Like, AppliesTo
  <2> HIDE DEF off
  <2> QED
    BY <1>4, <2>1
<1>6. CASE ~ Free(tab, a)
  <2>1. step = disabled
    BY <1>2, <1>3, <1>6
  <2>2. step.err # "KErrNone" /\ Off(tab, step.bp, a)
    BY <1>2, <1>6, <2>1
  <2> QED
    BY <1>6, <2>2 DEF a, step
<1>7. CASE Free(tab, a) /\ UserAt(tab.list, c)
  <2>1. userBreak # {} /\ userBreak \in SUBSET Nat
    BY <1>5, <1>7, UserEntry DEF UserAt
  <2> DEFINE b == Min(userBreak)
  <2>2. b \in userBreak
    BY <2>1, MinOfNaturals
  <2>3. b \in Users(off.list)
    BY <1>4, <1>5, <2>2
  <2> DEFINE new == [off EXCEPT !.list[b].iNumSteps = 0]
  <2>4. step = Answer(new, "KErrNone")
    BY <1>2, <1>3, <1>7, <2>1
  <2> HIDE DEF b, off
  <2>5. Prepared(tab, new, t, a, c, once, n)
    BY <1>2, <1>7, <2>3, StepToUserBreak
  <2> HIDE DEF new
  <2>6. step.err = "KErrNone" /\ step.bp = new
    BY <2>4, AnswerParts
  <2> QED
    BY <1>7, <2>5, <2>6 DEF step, a, c
<1>8. CASE Free(tab, a) /\ ~ UserAt(tab.list, c)
  <2>1. userBreak = {}
    BY <1>5, <1>8 DEF UserAt
  <2>2. free = TempId
    BY <1>2 DEF Off, SameTemps, TempsFree
  <2>3. Min(free) = 0 /\ free # {}
    BY <2>2, ZeroIsTemporary
  <2> HIDE DEF free, userBreak
  <2>4. step = priv_DoEnableBreak(taken, 0, temp) /\ taken = [off EXCEPT !.list[0] = temp]
    BY <1>2, <1>3, <1>8, <2>1, <2>3 DEF taken
  <2> HIDE DEF off
  <2>5. /\ step.err = "KErrNone"
        /\ Prepared(tab, step.bp, t, a, c, once, n)
    <3>1. temp = StepEntry(t, c, once, n)
      BY DEF temp, StepEntry
    <3> QED
      BY <1>1, <1>2, <1>8, <2>4, <3>1, StepToTemporary
  <2> QED
    BY <1>8, <2>5 DEF step, a, c
<1> QED
  BY <1>6, <1>7, <1>8 DEF a

\* A thread that the agent lets go, or that the driver makes go on, is under way.
LEMMA GoingAfter ==
    ASSUME SingleThread, NoSelfLoops, NEW t \in Thread,
           NEW tab, Good(tab), Plain(tab), TempsFree(tab.list),
           NEW a \in Address, NEW once \in BOOLEAN, NEW n \in Int,
           NEW R, Places(tab.list, R) \subseteq tab.patched,
           NEW g, NEW seen, Free(tab, a), UserAt(tab.list, a) => seen,
           once => n = 1, ~ once /\ n > 0 => g = n,
           NEW new, Prepared(tab, new, t, a, NextPC[a], once, n)
    PROVE  Plain(new) /\ Going(new.list, new.patched, a, g, seen, R)
<1> DEFINE c == NextPC[a]
           e == new.list[0]
<1>1. c \in Address /\ c # a /\ c # 0 /\ a # 0
  BY CodeAssumption DEF NoSelfLoops
<1>2. Like(tab, new) /\ 0 \in TempId /\ TempId \subseteq DOMAIN tab.list
  BY ZeroIsTemporary, TempsInList DEF Prepared
<1>3. /\ Users(tab.list) \subseteq DOMAIN tab.list /\ Users(new.list) = Users(tab.list)
      /\ \A b \in Users(tab.list) : /\ new.list[b].iAddress = tab.list[b].iAddress
                                    /\ tab.list[b].iAddress # 0
  BY <1>2, UserEntry DEF Users, Like
<1>4. \A b \in TempId \ {0} : new.list[b].iAddress = 0
  BY DEF Prepared, SameTemps, TempsFree
<1>5. \/ UserAt(tab.list, c) /\ e.iAddress = 0 /\ new.patched = tab.patched \ {a}
      \/ /\ ~ UserAt(tab.list, c) /\ e.iId = t /\ e.iAddress = c
         /\ e.iResumeOnceOutOfRange = once /\ e.iNumSteps = n
         /\ new.patched = (tab.patched \ {a}) \cup {c}
  BY <1>2 DEF Prepared, SameTemps, TempsFree
<1>6. \A x \in new.patched : \E b \in DOMAIN new.list : new.list[b].iAddress = x
  <2>1. ASSUME NEW x \in tab.patched
        PROVE  \E b \in DOMAIN new.list : new.list[b].iAddress = x
    <3>1. PICK b \in Users(tab.list) : tab.list[b].iAddress = x
      BY PatchesAreUsers DEF UserAt
    <3> QED
      BY <1>2, <1>3, <3>1 DEF Like
  <2>2. 0 \in DOMAIN new.list
    BY <1>2 DEF Like
  <2> QED
    BY <1>5, <2>1, <2>2
<1>7. Plain(new)
  BY <1>2, <1>6, LikeIsPlain
<1>8. OnStep(e, a, new.patched, g)
  BY <1>1, <1>5 DEF OnStep
<1>9. ~ UserAt(new.list, e.iAddress)
  BY <1>3, <1>5 DEF UserAt
<1>10. \A b \in Users(new.list) \ R : new.list[b].iAddress \in new.patched \/ new.list[b].iDisabledForStep
  <2>1. \A b \in Users(tab.list) : tab.list[b].iAddress = a => new.list[b].iDisabledForStep
    BY DEF Prepared
  <2> QED
    BY <1>3, <1>5, <2>1 DEF Places
<1>11. R = {} => \A b \in Users(new.list) :
          \/ new.list[b].iAddress \in new.patched
          \/ a \in new.patched
          \/ a = new.list[b].iAddress /\ seen /\ NextPC[a] \in new.patched
  <2>1. SUFFICES ASSUME R = {}, NEW b \in Users(tab.list)
                 PROVE  \/ tab.list[b].iAddress \in new.patched
                        \/ a = tab.list[b].iAddress /\ seen /\ c \in new.patched
    BY <1>3
  <2>2. \A x \in Users(tab.list) : tab.list[x].iAddress \in tab.patched
    BY <2>1 DEF Places
  <2>3. c \in new.patched
    BY <1>1, <1>5, <2>2 DEF UserAt
  <2>4. CASE tab.list[b].iAddress = a
    BY <2>3, <2>4 DEF UserAt
  <2>5. CASE tab.list[b].iAddress # a
    BY <1>5, <2>2, <2>5
  <2> QED
    BY <2>4, <2>5
<1> QED
  BY <1>4, <1>7, <1>8, <1>9, <1>10, <1>11 DEF Going

\* So is one that is resumed where the user has no breakpoint.
LEMMA GoingOn ==
    ASSUME NEW tab, Good(tab), TempsFree(tab.list), NEW a, NEW g, NEW seen,
           NEW R, Places(tab.list, R) \subseteq tab.patched
    PROVE  Going(tab.list, tab.patched, a, g, seen, R)
<1>1. tab.list[0].iAddress = 0
  BY ZeroIsTemporary DEF TempsFree
<1>2. \A b \in Users(tab.list) : tab.list[b].iAddress # 0
  BY UserEntry
<1> QED
  BY <1>1, <1>2 DEF Going, OnStep, TempsFree, Places, UserAt

-------------------------------------------------------------------------------
(* The requests that change breakpoints *)

\* The user has a breakpoint b at the place of s, where s has saved the
\* program's instruction.
LEMMA BreakInPlace ==
    ASSUME NEW tab, Good(tab), Plain(tab), TempsFree(tab.list),
           NEW b \in Nat, ~ IsTemporaryBreak(b), NEW s \in Entry,
           s.iInstruction = "original", s.iId \in Thread \cup Process,
           ~ s.iObsoleteLibraryBreakpoint,
           NEW new, WithEntry(new.list, tab.list, b, s),
           new.mapped = tab.mapped, new.threads = tab.threads,
           \A x \in new.patched \ {s.iAddress} :
               x \in tab.patched /\ (b \in DOMAIN tab.list => x # tab.list[b].iAddress)
    PROVE  /\ Plain(new) /\ TempsFree(new.list)
           /\ \A R : Places(new.list, R) \subseteq {s.iAddress} \cup Places(tab.list, R \cup {b})
<1>1. /\ DOMAIN new.list = DOMAIN tab.list \cup {b} /\ new.list[b] = s
      /\ \A c \in DOMAIN tab.list \ {b} : new.list[c] = tab.list[c]
  BY DEF WithEntry
<1>2. \A c \in Users(new.list) : c = b \/ (c \in Users(tab.list) /\ new.list[c] = tab.list[c])
  BY <1>1 DEF Users
<1>3. TempsFree(new.list)
  <2>1. TempId \subseteq DOMAIN tab.list /\ b \notin TempId
    BY TempsInList, ZeroIsTemporary
  <2> QED
    BY <1>1, <2>1 DEF TempsFree
<1>4. \A R : Places(new.list, R) \subseteq {s.iAddress} \cup Places(tab.list, R \cup {b})
  BY <1>1, <1>2 DEF Places
<1>5. \A c \in DOMAIN new.list : ~ new.list[c].iObsoleteLibraryBreakpoint
  BY <1>1 DEF Plain
<1>6. \A c \in Users(new.list) : /\ new.list[c].iInstruction = "original"
                                 /\ new.list[c].iId \in Thread \cup Process
  BY <1>1, <1>2 DEF Plain
<1>7. ASSUME NEW x \in new.patched
      PROVE  \E c \in DOMAIN new.list : new.list[c].iAddress = x
  <2>1. CASE x = s.iAddress
    BY <1>1, <2>1
  <2>2. CASE x # s.iAddress
    <3>1. PICK c \in DOMAIN tab.list : tab.list[c].iAddress = x
      BY <2>2 DEF Plain
    <3>2. c # b
      BY <2>2, <3>1
    <3> QED
      BY <1>1, <3>1, <3>2
  <2> QED
    BY <2>1, <2>2
<1>8. Plain(new)
  BY <1>5, <1>6, <1>7 DEF Plain
<1> QED
  BY <1>3, <1>4, <1>8

\* A table in which the user's places, R excepted, are in the code.
Stopped(tab, R) == Plain(tab) /\ TempsFree(tab.list) /\ Places(tab.list, R) \subseteq tab.patched

LEMMA NewBreakEffect ==
    ASSUME SingleThread, NEW t \in Thread, NEW tab, Good(tab), NEW R, Stopped(tab, R),
           NEW id \in Thread \cup Process, NEW a \in Address
    PROVE  Stopped(priv_DoSetBreak(tab, id, a, CodeMode[a], TRUE).bp, R)
<1> DEFINE e == TBreakEntry(id, a, CodeMode[a])
           denied == {b \in UserIds(tab) : /\ BreakpointsOverlap(e, tab.list[b])
                                            /\ OverlapError(tab, tab.list[b], id) # "KErrNone"}
           counted == Count(tab)
           saved == [e EXCEPT !.iInstruction = RawInstruction(counted, a)]
           P == tab.patched \cup {a}
           L == Put(tab.list, tab.next, saved)
           enabled == priv_DoEnableBreak(counted, tab.next, e)
           new == priv_DoSetBreak(tab, id, a, CodeMode[a], TRUE).bp
<1>1. /\ tab \in Table /\ tab.next \in Nat /\ tab.list \in List /\ P \in SUBSET Address
      /\ tab.mapped = Address /\ tab.threads = Thread
  BY DEF Good, Table, Stopped, Plain
<1>2. /\ e \in Entry /\ e.iId = id /\ e.iAddress = a
      /\ e.iObsoleteLibraryBreakpoint = FALSE
  <2>1. /\ id \in Thread \cup Process \cup {NoId} /\ a \in Address \cup {0}
        /\ CodeMode[a] \in Mode
    BY CodeAssumption
  <2> QED
    BY <2>1 DEF TBreakEntry, Entry
<1>3. new = tab \/ (denied = {} /\ new = enabled.bp)
  BY AnswerParts DEF priv_DoSetBreak, Count
<1>4. CASE new = tab
  BY <1>4
<1>5. CASE denied = {} /\ new = enabled.bp
  <2>1. ~ UserAt(tab.list, a)
    <3>1. SUFFICES ASSUME NEW b \in Users(tab.list), tab.list[b].iAddress = a
                   PROVE  FALSE
      BY DEF UserAt
    <3>2. e.iAddress \in Nat
      BY <1>2, CodeAssumption
    <3>3. BreakpointsOverlap(e, tab.list[b])
      BY <1>2, <3>1, <3>2, SamePlaceOverlaps
    <3>4. OverlapError(tab, tab.list[b], id) = "KErrNone"
      BY <1>5, <3>3, UsersOfTable
    <3>5. AppliesTo(tab.list[b], t) /\ id \in {t, OwningProcess[t]} /\ tab.list[b] \in Entry
      BY EveryEntryApplies, OwnerIsThere, UserEntry DEF Stopped
    <3> QED
      BY <3>4, <3>5, RefusalIsRight
  <2>2. a \notin tab.patched
    BY <2>1, PatchesAreUsers DEF Stopped
  <2>3. /\ counted \in Table /\ counted.list = tab.list /\ counted.patched = tab.patched
        /\ counted.mapped = Address /\ counted.threads = Thread
    <3>1. counted.mapped = tab.mapped /\ counted.threads = tab.threads
      BY <1>1 DEF Count, Table
    <3> QED
      BY <1>1, <3>1, CountKeepsGood
  <2> HIDE DEF counted, e
  <2>4. RawInstruction(counted, a) = "original"
    BY <2>2, <2>3 DEF RawInstruction
  <2>5. /\ saved \in Entry /\ saved.iId = id /\ saved.iAddress = a
        /\ saved.iInstruction = "original" /\ saved.iObsoleteLibraryBreakpoint = FALSE
    BY <1>2, <2>4 DEF Entry
  <2>6. ~ breakpointAlreadySet(counted, a) /\ CanOpenThread(counted, e.iId)
    <3>1. ~ breakpointAlreadySet(counted, a)
      BY <2>1, <2>3, UsersOfTable DEF breakpointAlreadySet, UserAt
    <3>2. CanOpenThread(counted, id)
      BY <2>3, ThreadsAssumption DEF CanOpenThread
    <3> QED
      BY <1>2, <3>1, <3>2
  <2>7. ModifyCode(counted, a) = Patch(counted, P)
    BY <2>3 DEF ModifyCode, Patch
  <2>8. EnableAgain(counted, e) = Answer(Patch(counted, P), "KErrNone")
    BY <1>2, <2>6, <2>7 DEF EnableAgain
  <2>9. WithEntry(L, tab.list, tab.next, saved)
    BY <1>1, <2>5, PutEntry
  <2> HIDE DEF P
  <2> DEFINE mid == Patch(counted, P)
  <2>10. /\ mid \in Table /\ mid.list = tab.list /\ mid.patched = P
         /\ mid.mapped = Address /\ mid.threads = Thread
    BY <1>1, <2>3, PatchTable
  <2> HIDE DEF mid, enabled, new, denied, L
  <2>11. new = Relist(mid, L)
    <3>1. enabled = Answer([mid EXCEPT !.list = Put(@, tab.next, saved)], "KErrNone")
      BY <1>2, <2>3, <2>8, AnswerParts DEF priv_DoEnableBreak, enabled, mid
    <3> QED
      BY <1>5, <2>10, <3>1, AnswerParts DEF Relist, L
  <2> HIDE DEF saved
  <2>12. /\ new.list = L /\ new.patched = P /\ new.mapped = tab.mapped /\ new.threads = tab.threads
    <3>1. L \in List
      BY <2>9 DEF WithEntry
    <3> QED
      BY <1>1, <2>10, <2>11, <3>1, RelistTable
  <2>13. tab.next \notin DOMAIN tab.list /\ ~ IsTemporaryBreak(tab.next)
    <3>1. tab.next \notin DOMAIN tab.list
      BY <1>1 DEF Good, GoodList, Placed
    <3>2. tab.next \notin TempId
      BY <3>1, TempsInList
    <3> QED
      BY <1>1, <3>1, <3>2, TableAssumption DEF IsTemporaryBreak, TempId
  <2>14. \A x \in new.patched \ {saved.iAddress} :
             x \in tab.patched /\ (tab.next \in DOMAIN tab.list => x # tab.list[tab.next].iAddress)
    BY <2>5, <2>12, <2>13 DEF P
  <2>15. /\ Plain(new) /\ TempsFree(new.list)
         /\ Places(new.list, R) \subseteq {a} \cup Places(tab.list, R \cup {tab.next})
    BY <1>1, <2>5, <2>9, <2>12, <2>13, <2>14, BreakInPlace DEF Stopped
  <2>16. Places(new.list, R) \subseteq new.patched
    BY <2>12, <2>15 DEF Places, Stopped, P
  <2> QED
    BY <2>15, <2>16 DEF Stopped, new
<1> QED
  BY <1>3, <1>4, <1>5

\* A breakpoint that could not be moved may be out of the code.
LEMMA MovedBreakEffect ==
    ASSUME SingleThread, NEW t \in Thread, NEW tab, Good(tab), NEW R, Stopped(tab, R),
           NEW b \in Users(tab.list), NEW id \in Thread \cup Process, NEW a \in Address, NEW opens
    PROVE  LET result == ModifyEntry(tab, b, id, a, CodeMode[a], opens, id)
           IN  Stopped(result.bp, IF result.err = "KErrNone" THEN R \ {b} ELSE R \cup {b})
<1> DEFINE entry == tab.list[b]
           old == entry.iAddress
           restored == RestoreCode(tab, old).bp
           new == [entry EXCEPT !.iId = id, !.iAddress = a, !.iMode = CodeMode[a]]
           saved == [new EXCEPT !.iId = id, !.iInstruction = RawInstruction(restored, a)]
           L == Put(tab.list, b, saved)
           O == tab.patched \ {old}
           P == O \cup {a}
           result == ModifyEntry(tab, b, id, a, CodeMode[a], opens, id)
           denied == \E c \in UserIds(tab) \ {b} : BreakpointsOverlap(new, tab.list[c])
<1>1. /\ tab \in Table /\ tab.list \in List /\ O \in SUBSET Address /\ P \in SUBSET Address
      /\ tab.mapped = Address /\ tab.threads = Thread
  BY DEF Good, Table, Stopped, Plain
<1>2. /\ b \in DOMAIN tab.list /\ b \in Nat /\ b \notin TempId /\ entry \in Entry
      /\ ~ IsTemporaryBreak(b) /\ entry.iObsoleteLibraryBreakpoint = FALSE
  <2>1. /\ b \in DOMAIN tab.list /\ b \in Nat /\ b \notin TempId /\ entry \in Entry
    BY UserEntry
  <2> QED
    BY <2>1 DEF Users, Stopped, Plain, Entry
<1>3. restored = Patch(tab, O)
  BY AnswerParts DEF RestoreCode, Patch
<1>4. /\ restored \in Table /\ restored.list = tab.list /\ restored.patched = O
      /\ restored.mapped = Address /\ restored.threads = Thread
  BY <1>1, <1>3, PatchTable
<1>5. /\ new.iAddress = a /\ new.iMode = CodeMode[a]
      /\ saved \in Entry /\ saved.iAddress = a /\ saved.iId = id
      /\ saved.iObsoleteLibraryBreakpoint = FALSE
      /\ saved.iInstruction = RawInstruction(restored, a)
  <2>1. RawInstruction(restored, a) \in {"breakpoint", "original"} /\ CodeMode[a] \in Mode
    BY CodeAssumption DEF RawInstruction
  <2> HIDE DEF entry, restored
  <2> QED
    BY <1>2, <2>1 DEF Entry
<1>6. id # NoId /\ a \in tab.mapped
  BY <1>1, ThreadsAssumption
<1>7. result = IF ~ opens THEN Answer(tab, "KErrBadHandle")
               ELSE IF denied THEN Answer(restored, "KErrAlreadyExists")
               ELSE Answer(ModifyCode([restored EXCEPT !.list = Put(@, b, saved)], a), "KErrNone")
  BY <1>2, <1>6 DEF ModifyEntry
<1> HIDE DEF result, denied, restored, saved, new
<1>8. CASE ~ opens
  <2>1. result.bp = tab /\ result.err # "KErrNone"
    BY <1>7, <1>8, AnswerParts
  <2>2. Stopped(tab, R \cup {b})
    BY DEF Stopped, Places
  <2> QED
    BY <2>1, <2>2 DEF result
<1>9. CASE opens /\ denied
  <2>1. result.bp = restored /\ result.err # "KErrNone"
    BY <1>7, <1>9, AnswerParts
  <2>2. Plain(restored) /\ TempsFree(restored.list)
    BY <1>4 DEF Stopped, Plain
  <2>3. \A c \in Users(tab.list) \ {b} : tab.list[c].iAddress # old
    BY OneAtAPlace DEF Stopped
  <2>4. Places(restored.list, R \cup {b}) \subseteq restored.patched
    BY <1>4, <2>3 DEF Stopped, Places
  <2> QED
    BY <2>1, <2>2, <2>4 DEF result, Stopped
<1>10. CASE opens /\ ~ denied
  <2>1. ASSUME NEW c \in Users(tab.list), tab.list[c].iAddress = a
        PROVE  c = b
    <3>1. a \in Nat
      BY CodeAssumption
    <3>2. BreakpointsOverlap(new, tab.list[c])
      BY <1>5, <2>1, <3>1, SamePlaceOverlaps
    <3> QED
      BY <1>10, <3>2, UsersOfTable DEF denied
  <2>2. a \notin O
    <3>1. a \in tab.patched => UserAt(tab.list, a)
      BY PatchesAreUsers DEF Stopped
    <3> QED
      BY <2>1, <3>1 DEF UserAt
  <2>3. saved.iInstruction = "original"
    BY <1>4, <1>5, <2>2 DEF RawInstruction
  <2>4. WithEntry(L, tab.list, b, saved)
    BY <1>1, <1>2, <1>5, PutEntry
  <2> HIDE DEF L, O
  <2> DEFINE mid == Relist(restored, L)
             moved == Patch(mid, P)
  <2>5. /\ mid \in Table /\ mid.list = L /\ mid.patched = O
        /\ mid.mapped = Address /\ mid.threads = Thread
    BY <1>4, <2>4, RelistTable DEF WithEntry
  <2>6. result.err = "KErrNone" /\ result.bp = moved
    <3>1. [restored EXCEPT !.list = Put(@, b, saved)] = mid
      BY <1>4 DEF Relist, L
    <3> HIDE DEF mid
    <3>2. ModifyCode(mid, a) = moved
      BY <2>5 DEF ModifyCode, Patch
    <3> QED
      BY <1>7, <1>10, <3>1, <3>2, AnswerParts
  <2> HIDE DEF mid, P
  <2>7. /\ moved.list = L /\ moved.patched = P
        /\ moved.mapped = tab.mapped /\ moved.threads = tab.threads
    BY <1>1, <2>5, PatchTable
  <2> HIDE DEF moved
  <2>8. \A x \in moved.patched \ {saved.iAddress} :
            x \in tab.patched /\ (b \in DOMAIN tab.list => x # tab.list[b].iAddress)
    BY <1>5, <2>7 DEF P, O
  <2> HIDE DEF entry
  <2>9. /\ Plain(moved) /\ TempsFree(moved.list)
        /\ \A S : Places(moved.list, S) \subseteq {a} \cup Places(tab.list, S \cup {b})
    BY <1>2, <1>5, <2>3, <2>4, <2>7, <2>8, BreakInPlace DEF Stopped
  <2>10. Places(tab.list, (R \ {b}) \cup {b}) \subseteq O
    <3>1. \A c \in Users(tab.list) \ {b} : tab.list[c].iAddress # old
      BY OneAtAPlace DEF Stopped, entry
    <3> QED
      BY <3>1 DEF Stopped, Places, O
  <2>11. Places(moved.list, R \ {b}) \subseteq moved.patched
    BY <2>7, <2>9, <2>10 DEF P
  <2> QED
    BY <2>6, <2>9, <2>11 DEF result, Stopped
<1> QED
  BY <1>8, <1>9, <1>10

\* Clearing a breakpoint.
LEMMA GoneBreakEffect ==
    ASSUME SingleThread, NEW t \in Thread, NEW tab, Good(tab), NEW R, Stopped(tab, R),
           NEW b \in Users(tab.list)
    PROVE  Stopped(priv_DoClearBreak(tab, b, FALSE).bp, R \ {b})
<1> DEFINE new == priv_DoClearBreak(tab, b, FALSE).bp
           old == tab.list[b].iAddress
<1>1. /\ b \in DOMAIN tab.list /\ old # 0 /\ b \notin TempId
      /\ tab.list[b].iId \in Thread \cup Process
  BY UserEntry DEF Stopped, Plain
<1>2. \A c \in Users(tab.list) \ {b} : tab.list[c].iAddress # old
  BY OneAtAPlace DEF Stopped
<1>3. Cleared(tab, new, b)
  BY <1>1, <1>2, ClearEffect DEF Stopped
<1> HIDE DEF new
<1>4. TempsFree(new.list)
  <2>1. TempId \subseteq DOMAIN tab.list
    BY TempsInList
  <2> QED
    BY <1>1, <1>3, <2>1 DEF Cleared, TempsFree, Stopped
<1>5. Places(new.list, R \ {b}) \subseteq new.patched
  <2>1. Users(tab.list) \subseteq DOMAIN tab.list
    BY DEF Users
  <2> QED
    BY <1>2, <1>3, <2>1 DEF Cleared, Places, Stopped
<1> QED
  BY <1>3, <1>4, <1>5 DEF Cleared, Stopped, new

-------------------------------------------------------------------------------
(* Each step of the target and of its agent                                *)

LEMMA StandsStill ==
    ASSUME History, NEW t \in Thread, suspend[t] # 0
    PROVE  suspend[t] = 1 /\ shown[t] = TRUE /\ Stopped(bp, refused)
<1>1. suspend[t] \in {0, 1} /\ shown[t] \in BOOLEAN
  BY DEF History, Told
<1> QED
  BY <1>1 DEF History, Seen, Standing, Stopped

LEMMA ChangesKeepHistory ==
    ASSUME SingleThread, Orderly, History, MayChangeBreaks, NEW R,
           Stopped(bp, refused) => Stopped(bp', R), refused' = R, TablesGood',
           UNCHANGED <<pc, suspend, report, exited, togo, shown>>
    PROVE  History'
<1>1. PICK t : Thread = {t}
  BY DEF SingleThread
<1>2. t \in Thread /\ t \in bp.threads /\ exited = {}
  BY <1>1 DEF History, Told, Plain
<1>3. suspend[t] # 0
  BY <1>2 DEF MayChangeBreaks, Runs
<1>4. suspend[t] = 1 /\ shown[t] = TRUE /\ Stopped(bp', refused')
  BY <1>2, <1>3, StandsStill
<1>5. Plain(bp)' /\ Standing(bp.list, bp.patched, shown[t], refused)'
  BY <1>4 DEF Stopped, Standing, Plain, Places, Users, TempsFree, TempId, IsTemporaryBreak, Address
<1>6. Told'
  BY DEF History, Told
<1>7. Seen(t)'
  BY <1>4, <1>5 DEF Seen
<1> QED
  BY <1>1, <1>5, <1>6, <1>7 DEF History

\* The thread has been let go at a, or it stays at a breakpoint that is not
\* in the code.
Onward(tab, go, a, g, seen, R) ==
    \/ /\ go.resumed = 1 /\ go.err = "KErrNone"
       /\ Plain(go.bp) /\ Going(go.bp.list, go.bp.patched, a, g, seen, R)
    \/ /\ go.resumed = 0 /\ go.err # "KErrNone"
       /\ Stopped(go.bp, R) /\ UserAt(tab.list, a)

LEMMA StepRangeEffect ==
    ASSUME SingleThread, NoSelfLoops, NEW t \in Thread, pc \in [Thread -> Address],
           NEW tab, Good(tab), NEW R, Stopped(tab, R), NEW once \in BOOLEAN, NEW n \in Int,
           NEW g, NEW seen, UserAt(tab.list, pc[t]) => seen,
           once => n = 1, ~ once /\ n > 0 => g = n
    PROVE  Onward(tab, DoStepRange(tab, t, once, n), pc[t], g, seen, R)
<1> DEFINE a == pc[t]
           step == ModifyBreaksForStep(tab, t, once, n)
           go == DoStepRange(tab, t, once, n)
<1>1. a \in Address /\ Plain(tab) /\ TempsFree(tab.list) /\ Places(tab.list, R) \subseteq tab.patched
  BY DEF Stopped
<1>2. /\ Free(tab, a) => /\ step.err = "KErrNone"
                         /\ Prepared(tab, step.bp, t, a, NextPC[a], once, n)
      /\ ~ Free(tab, a) => step.err # "KErrNone" /\ Off(tab, step.bp, a)
  BY <1>1, StepEffect
<1>3. /\ go.bp = step.bp /\ go.err = step.err
      /\ go.resumed = IF step.err = "KErrNone" THEN 1 ELSE 0
  BY DEF DoStepRange
<1> DEFINE new == step.bp
           err == step.err
<1> HIDE DEF step, go, a
<1>4. CASE Free(tab, a)
  <2>1. Prepared(tab, new, t, a, NextPC[a], once, n) /\ err = "KErrNone"
    BY <1>2, <1>4
  <2> HIDE DEF new, err
  <2>2. Plain(new) /\ Going(new.list, new.patched, a, g, seen, R)
    BY <1>1, <1>4, <2>1, GoingAfter DEF a
  <2> QED
    BY <1>3, <2>1, <2>2 DEF Onward, new, err, go, a
<1>5. CASE ~ Free(tab, a)
  <2>1. Off(tab, new, a) /\ err # "KErrNone"
    BY <1>2, <1>5
  <2> HIDE DEF new, err
  <2>2. new.patched = tab.patched /\ UserAt(tab.list, a)
    BY <1>5, <2>1 DEF Off, Free
  <2>3. ASSUME NEW x \in new.patched
        PROVE  \E b \in DOMAIN new.list : new.list[b].iAddress = x
    <3>1. PICK b \in Users(tab.list) : tab.list[b].iAddress = x
      BY <1>1, <2>2, PatchesAreUsers DEF UserAt
    <3> QED
      BY <2>1, <3>1 DEF Off, Like, Users
  <2>4. Plain(new) /\ Places(new.list, R) = Places(tab.list, R)
    BY <1>1, <2>1, <2>3, LikeIsPlain DEF Off
  <2>5. TempsFree(new.list)
    BY <1>1, <2>1 DEF Off, SameTemps, TempsFree
  <2>6. Stopped(new, R)
    BY <1>1, <2>2, <2>4, <2>5 DEF Stopped
  <2> QED
    BY <1>3, <2>1, <2>2, <2>6 DEF Onward, new, err, go, a
<1> QED
  BY <1>4, <1>5

LEMMA ResumeEffect ==
    ASSUME SingleThread, NoSelfLoops, NEW t \in Thread, pc \in [Thread -> Address],
           NEW tab, Good(tab), NEW R, Stopped(tab, R),
           NEW g, NEW seen, UserAt(tab.list, pc[t]) => seen
    PROVE  Onward(tab, DoResumeThread(tab, t), pc[t], g, seen, R)
<1>1. CASE UserAt(tab.list, pc[t])
  <2> DEFINE once == TRUE
             n == 1
  <2>1. DoResumeThread(tab, t) = DoStepRange(tab, t, once, n)
    BY <1>1, UsersOfTable DEF DoResumeThread, UserAt
  <2>2. once \in BOOLEAN /\ once /\ n \in Int /\ n = 1
    OBVIOUS
  <2> HIDE DEF once, n
  <2> QED
    BY <2>1, <2>2, StepRangeEffect
<1>2. CASE ~ UserAt(tab.list, pc[t])
  <2>1. DoResumeThread(tab, t) = [bp |-> tab, err |-> "KErrNone", resumed |-> 1]
    BY <1>2, UsersOfTable DEF DoResumeThread, UserAt
  <2>2. Going(tab.list, tab.patched, pc[t], g, seen, R)
    BY GoingOn DEF Stopped
  <2> QED
    BY <2>1, <2>2 DEF Stopped, Onward
<1> QED
  BY <1>1, <1>2

\* The agent lets the thread go.
LEMMA LetGoKeepsHistory ==
    ASSUME SingleThread, NoStep \notin Int, History, NEW t \in Thread, NEW go,
           NEW g \in Int \cup {NoStep}, TablesGood', LetGo(t, go), Released(t, g),
           Onward(bp, go, pc[t], g, shown[t], refused)
    PROVE  History'
<1>1. Thread = {t}
  BY DEF SingleThread
<1>2. /\ bp' = go.bp /\ pc' = pc /\ exited' = exited /\ shown' = shown /\ refused' = refused
      /\ suspend' = [suspend EXCEPT ![t] = @ - go.resumed]
      /\ report' = [report EXCEPT ![t] = IF suspend'[t] = 0 THEN "none" ELSE @]
      /\ togo' = [togo EXCEPT ![t] = IF suspend'[t] < suspend[t] THEN g ELSE @]
      /\ suspend[t] > 0
  BY DEF LetGo, Released
<1>3. suspend[t] = 1 /\ shown[t] = TRUE
  <2>1. suspend[t] # 0
    BY <1>2 DEF History, Told
  <2> QED
    BY <2>1, StandsStill
<1>4. Told /\ suspend'[t] = 1 - go.resumed /\ go.resumed \in {0, 1}
  BY <1>2, <1>3 DEF History, Told, Onward
<1>5. Told'
  BY <1>2, <1>3, <1>4 DEF Told
<1>6. Plain(bp') /\ Seen(t)'
  <2>1. CASE go.resumed = 1 /\ Plain(go.bp)
             /\ Going(go.bp.list, go.bp.patched, pc[t], g, shown[t], refused)
    <3>1. suspend'[t] = 0 /\ report'[t] = "none" /\ togo'[t] = g
      BY <1>2, <1>3, <1>4, <2>1 DEF Told
    <3> QED
      BY <1>2, <2>1, <3>1 DEF Seen
  <2>2. CASE go.resumed = 0 /\ Stopped(go.bp, refused)
    <3>1. suspend'[t] = 1
      BY <1>4, <2>2
    <3> QED
      BY <1>2, <1>3, <2>2, <3>1 DEF Seen, Standing, Stopped
  <2> QED
    BY <2>1, <2>2 DEF Onward
<1> QED
  BY <1>1, <1>5, <1>6 DEF History

\* An instruction is executed.
LEMMA MovesOn ==
    ASSUME NoStep \notin Int, NEW list \in List, TempId \subseteq DOMAIN list,
           NEW P, NEW a, a \notin P, NEW g \in Int \cup {NoStep}, NEW seen, NEW after, NEW R,
           Going(list, P, a, g, seen, R)
    PROVE  Going(list, P, NextPC[a], IF g \in {NoStep, -1} THEN g ELSE g - 1, after, R)
<1> DEFINE e == list[0]
           h == IF g \in {NoStep, -1} THEN g ELSE g - 1
<1>1. e \in Entry
  BY ListType, ZeroIsTemporary
<1>2. e.iNumSteps \in Int
  <2> HIDE DEF e
  <2> QED
    BY <1>1 DEF Entry
<1>3. OnStep(e, a, P, g)
  BY DEF Going
<1>4. OnStep(e, NextPC[a], P, h)
  <2> HIDE DEF e
  <2>1. SUFFICES ASSUME e.iAddress # 0
                 PROVE  /\ e.iId \in Thread /\ e.iAddress \in P
                        /\ NextPC[a] = e.iAddress
                        /\ e.iResumeOnceOutOfRange => e.iNumSteps = 1
                        /\ ~ e.iResumeOnceOutOfRange /\ e.iNumSteps > 0 => h = e.iNumSteps - 1
    BY DEF OnStep
  <2>2. /\ e.iId \in Thread /\ e.iAddress \in P /\ a # e.iAddress /\ NextPC[a] = e.iAddress
        /\ e.iResumeOnceOutOfRange => e.iNumSteps = 1
        /\ ~ e.iResumeOnceOutOfRange /\ e.iNumSteps > 0 => g = e.iNumSteps
    BY <1>3, <2>1 DEF OnStep
  <2>3. ASSUME ~ e.iResumeOnceOutOfRange, e.iNumSteps > 0
        PROVE  h = e.iNumSteps - 1
    BY <1>2, <2>2, <2>3
  <2> QED
    BY <2>2, <2>3
<1> HIDE DEF h
<1>5. R = {} => \A b \in Users(list) : list[b].iAddress \in P \/ NextPC[a] \in P
  BY DEF Going
<1> QED
  BY <1>4, <1>5 DEF Going, h

LEMMA ExecuteKeepsHistory ==
    ASSUME SingleThread, NoStep \notin Int, History, NEW t \in Thread, TablesGood',
           Execute(t), Executed(t)
    PROVE  History'
<1>1. Thread = {t}
  BY DEF SingleThread
<1>2. /\ suspend[t] = 0 /\ pc[t] \notin bp.patched /\ pc' = [pc EXCEPT ![t] = NextPC[@]]
      /\ UNCHANGED <<bp, suspend, report, exited, refused>>
      /\ togo' = [togo EXCEPT ![t] = IF @ \in {NoStep, -1} THEN @ ELSE @ - 1]
      /\ shown' = [shown EXCEPT ![t] = FALSE]
  BY DEF Execute, Executed, Runs
<1>3. Good(bp) /\ Plain(bp) /\ Told /\ bp.list \in List /\ pc \in [Thread -> Address]
  BY DEF History, TablesGood, Good, GoodList
<1> DEFINE g == togo[t]
           h == IF g \in {NoStep, -1} THEN g ELSE g - 1
<1>4. g \in Int \cup {NoStep} /\ h \in Int \cup {NoStep}
  BY <1>3 DEF Told
<1>5. Going(bp.list, bp.patched, pc[t], g, shown[t], refused) /\ report[t] = "none"
  BY <1>2 DEF History, Seen
<1>6. Going(bp.list, bp.patched, NextPC[pc[t]], h, shown'[t], refused)
  <2>1. TempId \subseteq DOMAIN bp.list
    BY <1>3, TempsInList
  <2> HIDE DEF g
  <2> QED
    BY <1>2, <1>3, <1>4, <1>5, <2>1, MovesOn DEF h
<1>7. pc'[t] = NextPC[pc[t]] /\ togo'[t] = h
  BY <1>2, <1>3 DEF Told
<1>8. Told'
  <2> HIDE DEF h
  <2>1. togo' = [togo EXCEPT ![t] = h]
    BY <1>2 DEF h
  <2> QED
    BY <1>2, <1>3, <1>4, <2>1 DEF Told
<1>9. Seen(t)'
  <2>1. suspend'[t] = 0 /\ report'[t] = "none" /\ bp' = bp /\ refused' = refused
    BY <1>2, <1>5
  <2> HIDE DEF h
  <2> QED
    BY <1>6, <1>7, <2>1 DEF Seen
<1>10. Plain(bp')
  BY <1>2, <1>3
<1> QED
  BY <1>1, <1>8, <1>9, <1>10 DEF History

\* What a trap puts back into the code.
LEMMA EverythingEnabled ==
    ASSUME SingleThread, NEW t \in Thread, NEW tab, Good(tab), Plain(tab),
           NEW a, NEW g, NEW seen, NEW R, Going(tab.list, tab.patched, a, g, seen, R)
    PROVE  LET new == priv_DoEnableDisabledBreak(tab, t).bp
           IN  /\ Good(new) /\ Plain(new) /\ new.list = tab.list
               /\ Places(tab.list, R) \subseteq new.patched
<1> DEFINE new == priv_DoEnableDisabledBreak(tab, t).bp
           flagged == {c \in Users(tab.list) : tab.list[c].iDisabledForStep}
<1>1. /\ Like(tab, new) /\ new.list = tab.list
      /\ new.patched = tab.patched \cup {tab.list[b].iAddress : b \in flagged}
  BY EnableEffect
<1>2. Good(new)
  BY EnableDisabledNotes, NotedKeepsGood DEF Good
<1> HIDE DEF new
<1>3. \A x \in new.patched : \E b \in DOMAIN new.list : new.list[b].iAddress = x
  BY <1>1 DEF Plain, Users
<1>4. Plain(new)
  BY <1>1, <1>3, LikeIsPlain
<1>5. Places(tab.list, R) \subseteq new.patched
  BY <1>1 DEF Going, Places
<1> QED
  BY <1>1, <1>2, <1>4, <1>5 DEF new

\* A trap ends with the thread stopped and the agent told, at a breakpoint of
\* the user or at the end of a step, or it lets the thread go.
TrapEnds(trap, t) ==
    \/ /\ trap.resumed = 0 /\ trap.notify = "break" /\ Stopped(trap.bp, refused)
       /\ UserAt(bp.list, pc[t]) \/ togo[t] = 0
    \/ /\ trap.resumed = 1 /\ trap.notify = "none" /\ Plain(trap.bp)
       /\ Going(trap.bp.list, trap.bp.patched, pc[t], togo[t], shown[t], refused)
       /\ ~ UserAt(bp.list, pc[t])

LEMMA UserTrap ==
    ASSUME SingleThread, History, NEW t \in Thread, suspend[t] = 0,
           pc[t] \in bp.patched, UserAt(bp.list, pc[t])
    PROVE  TrapEnds(HandleInvalidOpCodeException(t), t)
<1> DEFINE a == pc[t]
           hits == {b \in DOMAIN bp.list : /\ bp.list[b].iAddress = a
                                           /\ AppliesTo(bp.list[b], t)}
           enabled == priv_DoEnableDisabledBreak(bp, t).bp
           trap == HandleInvalidOpCodeException(t)
<1>1. /\ Good(bp) /\ Plain(bp) /\ a \in Address /\ a # 0
      /\ Going(bp.list, bp.patched, a, togo[t], shown[t], refused)
  BY CodeAssumption DEF History, TablesGood, Seen
<1>2. TempsFree(bp.list)
  <2>1. bp.list[0].iAddress = 0
    BY <1>1 DEF Going, OnStep
  <2> QED
    BY <1>1, <2>1 DEF Going, TempsFree
<1>3. hits \subseteq Users(bp.list)
  BY <1>1, <1>2, TempsInList DEF TempsFree
<1>4. hits # {} /\ hits \in SUBSET Nat
  <2>1. PICK b \in Users(bp.list) : bp.list[b].iAddress = a
    BY DEF UserAt
  <2>2. b \in hits
    BY <1>1, <2>1, EveryEntryApplies, UserEntry
  <2>3. \A c \in Users(bp.list) : c \in Nat
    BY <1>1, UserEntry
  <2> QED
    BY <1>3, <2>2, <2>3
<1>5. ~ IsTemporaryBreak(Min(hits))
  <2> HIDE DEF hits
  <2> QED
    BY <1>3, <1>4, MinOfNaturals DEF Users
<1>6. trap = [bp |-> enabled, resumed |-> 0, notify |-> "break"]
  BY <1>4, <1>5 DEF HandleInvalidOpCodeException
<1>7. Plain(enabled) /\ enabled.list = bp.list /\ Places(bp.list, refused) \subseteq enabled.patched
  BY <1>1, EverythingEnabled
<1> HIDE DEF enabled, trap
<1>8. Stopped(enabled, refused)
  BY <1>2, <1>7 DEF Stopped
<1> QED
  BY <1>6, <1>8 DEF TrapEnds, trap

LEMMA TemporaryTrap ==
    ASSUME SingleThread, NoSelfLoops, History, NEW t \in Thread, suspend[t] = 0,
           pc[t] \in bp.patched, ~ UserAt(bp.list, pc[t])
    PROVE  TrapEnds(HandleInvalidOpCodeException(t), t)
<1> DEFINE a == pc[t]
           hits == {b \in DOMAIN bp.list : /\ bp.list[b].iAddress = a
                                           /\ AppliesTo(bp.list[b], t)}
           entry == bp.list[0]
           enabled == priv_DoEnableDisabledBreak(bp, t).bp
           cleared == priv_DoClearBreak(enabled, 0, FALSE).bp
           once == entry.iResumeOnceOutOfRange
           numSteps == entry.iNumSteps - 1
           onward == DoStepRange(cleared, t, once, numSteps)
           resumed == DoResumeThread(cleared, t)
           trap == HandleInvalidOpCodeException(t)
           Trap(tab, count, notify) == [bp |-> tab, resumed |-> count, notify |-> notify]
<1>1. /\ Good(bp) /\ Plain(bp) /\ pc \in [Thread -> Address] /\ a \in Address /\ a # 0
      /\ Going(bp.list, bp.patched, a, togo[t], shown[t], refused)
  BY CodeAssumption DEF History, TablesGood, Seen
<1>2. /\ 0 \in TempId /\ 0 \in DOMAIN bp.list /\ IsTemporaryBreak(0) /\ entry \in Entry
      /\ \A b \in DOMAIN bp.list : bp.list[b].iAddress = a => b = 0
  <2>1. \A b \in DOMAIN bp.list : b \in TempId \/ b \in Users(bp.list)
    BY <1>1, TempsInList
  <2>2. 0 \in TempId /\ IsTemporaryBreak(0) /\ 0 \in DOMAIN bp.list /\ entry \in Entry
    BY <1>1, ZeroIsTemporary, TempsInList
  <2>3. \A b \in TempId \ {0} : bp.list[b].iAddress = 0
    BY <1>1 DEF Going
  <2> HIDE DEF entry
  <2> QED
    BY <1>1, <2>1, <2>2, <2>3 DEF UserAt
<1>3. /\ entry.iAddress = a /\ entry.iId = t
      /\ once => entry.iNumSteps = 1
      /\ ~ once /\ entry.iNumSteps > 0 => togo[t] = entry.iNumSteps - 1
  <2>1. entry.iAddress = a
    BY <1>1, <1>2 DEF Plain
  <2> QED
    BY <1>1, <2>1 DEF Going, OnStep, SingleThread
<1>4. once \in BOOLEAN /\ entry.iNumSteps \in Int
  <2> HIDE DEF entry
  <2> QED
    BY <1>2 DEF Entry
<1>5. hits = {0}
  BY <1>2, <1>3 DEF AppliesTo
<1>6. trap = IF numSteps # 0
             THEN Trap(onward.bp, onward.resumed,
                       IF onward.err = "KErrNone" THEN "none" ELSE "break")
             ELSE IF once THEN Trap(resumed.bp, resumed.resumed, "none")
             ELSE Trap(cleared, 0, "break")
  <2>1. Min(hits) = 0 /\ hits # {}
    BY <1>5, MinOfOne
  <2> QED
    BY <1>2, <2>1 DEF HandleInvalidOpCodeException
<1> HIDE DEF hits, trap
<1>7. /\ Good(enabled) /\ Plain(enabled) /\ enabled.list = bp.list
      /\ Places(bp.list, refused) \subseteq enabled.patched
  BY <1>1, EverythingEnabled
<1> HIDE DEF enabled
<1>8. Cleared(enabled, cleared, 0)
  <2>1. enabled.list[0].iId \in Thread \cup Process
    BY <1>3, <1>7
  <2>2. \A c \in Users(enabled.list) \ {0} : enabled.list[c].iAddress # enabled.list[0].iAddress
    BY <1>3, <1>7 DEF UserAt
  <2>3. 0 \in DOMAIN enabled.list /\ enabled.list[0].iAddress # 0
    BY <1>1, <1>2, <1>3, <1>7
  <2> QED
    BY <1>7, <2>1, <2>2, <2>3, ClearEffect
<1> HIDE DEF cleared
<1>9. Good(cleared) /\ Stopped(cleared, refused) /\ ~ UserAt(cleared.list, a)
  <2>1. TempId \subseteq DOMAIN bp.list /\ Users(bp.list) \subseteq DOMAIN bp.list
    BY <1>1, TempsInList DEF Users
  <2>2. TempsFree(cleared.list)
    BY <1>1, <1>2, <1>7, <1>8, <2>1 DEF Cleared, TempsFree, Going
  <2>3. \A c \in Users(cleared.list) : c \in Users(bp.list) /\ cleared.list[c] = bp.list[c]
    BY <1>7, <1>8, <2>1 DEF Cleared
  <2>4. Places(cleared.list, refused) \subseteq cleared.patched
    BY <1>3, <1>7, <1>8, <2>3 DEF Cleared, Places, UserAt
  <2> QED
    BY <1>8, <2>2, <2>3, <2>4 DEF Cleared, Stopped, UserAt
<1> DEFINE Onwards(go) == /\ go.resumed = 1 /\ go.err = "KErrNone" /\ Plain(go.bp)
                          /\ Going(go.bp.list, go.bp.patched, a, togo[t], shown[t], refused)
<1> HIDE DEF entry, Trap
<1>10. CASE numSteps # 0
  <2>1. ~ once /\ numSteps \in Int /\ (numSteps > 0 => togo[t] = numSteps)
    BY <1>3, <1>4, <1>10
  <2> HIDE DEF once, numSteps
  <2>2. Onward(cleared, onward, a, togo[t], shown[t], refused)
    BY <1>1, <1>4, <1>9, <2>1, StepRangeEffect
  <2> HIDE DEF onward
  <2>3. Onwards(onward)
    BY <1>9, <2>2 DEF Onward
  <2>4. trap = Trap(onward.bp, 1, "none")
    BY <1>6, <1>10, <2>3
  <2> QED
    BY <2>3, <2>4 DEF TrapEnds, Trap, trap
<1>11. CASE numSteps = 0 /\ once
  <2>1. Onward(cleared, resumed, a, togo[t], shown[t], refused)
    BY <1>1, <1>9, ResumeEffect
  <2> HIDE DEF once, numSteps, resumed
  <2>2. Onwards(resumed)
    BY <1>9, <2>1 DEF Onward
  <2>3. trap = Trap(resumed.bp, 1, "none")
    BY <1>6, <1>11, <2>2
  <2> QED
    BY <2>2, <2>3 DEF TrapEnds, Trap, trap
<1>12. CASE numSteps = 0 /\ ~ once
  <2>1. togo[t] = 0
    BY <1>3, <1>4, <1>12
  <2> HIDE DEF once, numSteps
  <2>2. trap = Trap(cleared, 0, "break")
    BY <1>6, <1>12
  <2> QED
    BY <1>9, <2>1, <2>2 DEF TrapEnds, Trap, trap
<1> QED
  BY <1>10, <1>11, <1>12

LEMMA TrapEffect ==
    ASSUME SingleThread, NoSelfLoops, History, NEW t \in Thread, Hit(t)
    PROVE  /\ TrapEnds(HandleInvalidOpCodeException(t), t)
           /\ suspend[t] = 0 /\ report[t] = "none"
<1>1. suspend[t] = 0 /\ pc[t] \in bp.patched
  BY DEF Hit, Runs
<1>2. TrapEnds(HandleInvalidOpCodeException(t), t)
  BY <1>1, UserTrap, TemporaryTrap
<1> QED
  BY <1>1, <1>2 DEF History, Seen

LEMMA HitKeepsHistory ==
    ASSUME SingleThread, NoSelfLoops, NoStep \notin Int, History, NEW t \in Thread, TablesGood',
           Hit(t), Trapped(t)
    PROVE  History'
<1> DEFINE trap == HandleInvalidOpCodeException(t)
<1>1. Thread = {t}
  BY DEF SingleThread
<1>2. /\ bp' = trap.bp /\ suspend' = [suspend EXCEPT ![t] = @ + 1 - trap.resumed]
      /\ report' = [report EXCEPT ![t] = trap.notify]
      /\ UNCHANGED <<pc, exited, refused>>
      /\ togo' = [togo EXCEPT ![t] = IF report'[t] = "none" THEN @ ELSE NoStep]
      /\ shown' = [shown EXCEPT ![t] = @ \/ report'[t] # "none"]
  BY DEF Hit, Trapped
<1>3. TrapEnds(trap, t) /\ suspend[t] = 0 /\ Told
  BY TrapEffect DEF History
<1> HIDE DEF trap
<1>4. trap.resumed \in {0, 1} /\ trap.notify \in {"none", "break"}
  BY <1>3 DEF TrapEnds
<1>5. report'[t] = trap.notify /\ suspend'[t] = 1 - trap.resumed
  BY <1>2, <1>3, <1>4 DEF Told
<1>6. Told'
  <2>1. suspend' \in [Thread -> {0, 1}]
    BY <1>2, <1>3, <1>4 DEF Told
  <2>2. report' \in [Thread -> {"none", "break", "exception"}]
    BY <1>2, <1>3, <1>4 DEF Told
  <2>3. togo' \in [Thread -> Int \cup {NoStep}]
    BY <1>2, <1>3 DEF Told
  <2>4. shown' \in [Thread -> BOOLEAN]
    BY <1>2, <1>3 DEF Told
  <2> QED
    BY <1>2, <1>3, <2>1, <2>2, <2>3, <2>4 DEF Told
<1>7. CASE trap.resumed = 0 /\ trap.notify = "break" /\ Stopped(trap.bp, refused)
  <2>1. suspend'[t] = 1 /\ report'[t] # "none"
    BY <1>5, <1>7
  <2>2. shown'[t]
    BY <1>2, <1>3, <2>1 DEF Told
  <2> QED
    BY <1>1, <1>2, <1>6, <1>7, <2>1, <2>2 DEF History, Seen, Standing, Stopped
<1>8. CASE trap.resumed = 1 /\ trap.notify = "none" /\ Plain(trap.bp)
           /\ Going(trap.bp.list, trap.bp.patched, pc[t], togo[t], shown[t], refused)
  <2>1. suspend'[t] = 0 /\ report'[t] = "none"
    BY <1>5, <1>8
  <2>2. togo'[t] = togo[t] /\ shown'[t] = shown[t]
    BY <1>2, <1>3, <2>1 DEF Told
  <2> QED
    BY <1>1, <1>2, <1>6, <1>8, <2>1, <2>2 DEF History, Seen
<1> QED
  BY <1>3, <1>7, <1>8 DEF TrapEnds

LEMMA StepKeepsHistory ==
    ASSUME SingleThread, NoSelfLoops, NoStep \notin Int, History, TablesGood',
           NEW t \in Thread, NEW n \in Int, Step(t, n), Released(t, n)
    PROVE  History'
<1> DEFINE once == FALSE
           go == DoStepRange(bp, t, once, n)
<1>1. LetGo(t, go)
  BY DEF Step
<1>2. once \in BOOLEAN /\ ~ once
  OBVIOUS
<1> HIDE DEF once
<1>3. suspend[t] # 0 /\ Good(bp) /\ pc \in [Thread -> Address]
  BY <1>1 DEF LetGo, History, TablesGood, Told
<1>4. Stopped(bp, refused) /\ shown[t] = TRUE
  BY <1>3, StandsStill
<1>5. Onward(bp, go, pc[t], n, shown[t], refused)
  BY <1>2, <1>3, <1>4, StepRangeEffect
<1> HIDE DEF go
<1> QED
  BY <1>1, <1>5, LetGoKeepsHistory

LEMMA ResumeKeepsHistory ==
    ASSUME SingleThread, NoSelfLoops, NoStep \notin Int, History, TablesGood',
           NEW t \in Thread, ResumeThread(t), Released(t, NoStep)
    PROVE  History'
<1> DEFINE go == DoResumeThread(bp, t)
<1>1. LetGo(t, go)
  BY DEF ResumeThread
<1>2. suspend[t] # 0 /\ Good(bp) /\ pc \in [Thread -> Address]
  BY <1>1 DEF LetGo, History, TablesGood, Told
<1>3. Stopped(bp, refused) /\ shown[t] = TRUE
  BY <1>2, StandsStill
<1>4. Onward(bp, go, pc[t], NoStep, shown[t], refused)
  BY <1>2, <1>3, ResumeEffect
<1> HIDE DEF go
<1> QED
  BY <1>1, <1>4, LetGoKeepsHistory

LEMMA SetKeepsHistory ==
    ASSUME SingleThread, Orderly, History, TablesGood',
           NEW id \in BreakOwner, NEW a \in Address, SetBreak(id, a, TRUE, {}), UNCHANGED history
    PROVE  History'
<1> DEFINE process == IF id \in Thread THEN OwningProcess[id] ELSE id
           D == IF process \in ToSet(bp.debugged) THEN bp.debugged ELSE Append(bp.debugged, process)
           known == [bp EXCEPT !.debugged = D]
           new == SetBreakResult(id, a, TRUE, {}).bp
           made == priv_DoSetBreak(known, id, a, CodeMode[a], TRUE).bp
<1>1. /\ MayChangeBreaks /\ bp' = new
      /\ UNCHANGED <<pc, suspend, report, exited, togo, shown>> /\ refused' = refused
  BY DEF SetBreak, history
<1>2. Good(bp) /\ bp \in Table /\ id \in Thread \cup Process
  BY CodeAssumption DEF History, TablesGood, Good
<1>3. PICK t \in Thread : TRUE
  BY DEF SingleThread
<1>4. new = bp \/ new = made
  <2>1. [bp EXCEPT !.debugged = IF process \in ToSet(@) THEN @ ELSE Append(@, process),
                   !.threads = @ \ {}] = known
    BY <1>2 DEF Table
  <2> HIDE DEF known
  <2> QED
    BY <2>1, AnswerParts DEF SetBreakResult
<1>5. /\ known \in Table /\ known.list = bp.list /\ known.next = bp.next
      /\ known.patched = bp.patched /\ known.mapped = bp.mapped /\ known.threads = bp.threads
  <2>1. D \in Seq(Process)
    <3>1. bp.debugged \in Seq(Process) /\ process \in Process
      BY <1>2, ThreadsAssumption DEF Table
    <3> HIDE DEF process
    <3> QED
      BY <3>1
  <2> HIDE DEF D
  <2> QED
    BY <1>2, <2>1 DEF Table
<1> HIDE DEF new, known
<1>6. Stopped(bp, refused) => Stopped(new, refused)
  <2>1. ASSUME Stopped(bp, refused)
        PROVE  Stopped(made, refused)
    <3>1. Good(known) /\ Stopped(known, refused)
      BY <1>2, <1>5, <2>1 DEF Good, Stopped, Plain
    <3> QED
      BY <1>2, <1>3, <3>1, NewBreakEffect
  <2> QED
    BY <1>4, <2>1
<1> QED
  BY <1>1, <1>6, ChangesKeepHistory

LEMMA ClearKeepsHistory ==
    ASSUME SingleThread, Orderly, History, TablesGood',
           NEW b \in UserIds(bp), ClearBreak(b), refused' = refused \ {b}, UNCHANGED <<togo, shown>>
    PROVE  History'
<1> DEFINE new == priv_DoClearBreak(bp, b, FALSE).bp
<1>1. /\ MayChangeBreaks /\ bp' = new
      /\ UNCHANGED <<pc, suspend, report, exited, togo, shown>>
  BY DEF ClearBreak
<1>2. Good(bp) /\ b \in Users(bp.list)
  BY UsersOfTable DEF History, TablesGood
<1>3. PICK t \in Thread : TRUE
  BY DEF SingleThread
<1>4. Stopped(bp, refused) => Stopped(new, refused \ {b})
  BY <1>2, <1>3, GoneBreakEffect
<1> HIDE DEF new
<1> QED
  BY <1>1, <1>4, ChangesKeepHistory

LEMMA ModifyKeepsHistory ==
    ASSUME SingleThread, Orderly, History, TablesGood',
           NEW b \in UserIds(bp), NEW id \in BreakOwner, NEW a \in Address, ModifyBreak(b, id, a),
           refused' = IF ModifyBreakResult(b, id, a).err = "KErrNone"
                      THEN refused \ {b} ELSE refused \cup {b},
           UNCHANGED <<togo, shown>>
    PROVE  History'
<1> DEFINE result == ModifyBreakResult(b, id, a)
           R == IF result.err = "KErrNone" THEN refused \ {b} ELSE refused \cup {b}
<1>1. /\ MayChangeBreaks /\ bp' = result.bp /\ refused' = R
      /\ UNCHANGED <<pc, suspend, report, exited, togo, shown>>
  BY DEF ModifyBreak
<1>2. /\ Good(bp) /\ Plain(bp) /\ b \in Users(bp.list) /\ id \in Thread \cup Process
  BY UsersOfTable, CodeAssumption DEF History, TablesGood
<1>3. PICK t \in Thread : TRUE
  BY DEF SingleThread
<1>4. \E opens : result = ModifyEntry(bp, b, id, a, CodeMode[a], opens, id)
  <2>1. id \in Thread => id \in bp.threads
    BY <1>2 DEF Plain
  <2>2. id \notin Thread => CanOpenProcess(bp, id)
    BY <1>2, <1>3, OwnerIsThere
  <2>3. CASE id \in Thread
    <3>1. result = ModifyEntry(bp, b, id, a, CodeMode[a], bp.list[b].iId \in bp.threads, id)
      BY <2>1, <2>3 DEF ModifyBreakResult, priv_DoModifyBreak
    <3> QED
      BY <3>1
  <2>4. CASE id \notin Thread
    <3>1. result = ModifyEntry(bp, b, id, a, CodeMode[a], CanOpenProcess(bp, bp.list[b].iId), id)
      BY <2>2, <2>4 DEF ModifyBreakResult, priv_DoModifyProcessBreak
    <3> QED
      BY <3>1
  <2> QED
    BY <2>3, <2>4
<1>5. PICK opens : result = ModifyEntry(bp, b, id, a, CodeMode[a], opens, id)
  BY <1>4
<1>6. Stopped(bp, refused) => Stopped(result.bp, R)
  BY <1>2, <1>3, <1>5, MovedBreakEffect
<1> HIDE DEF result, R
<1> QED
  BY <1>1, <1>6, ChangesKeepHistory

LEMMA InitHistory ==
    ASSUME HInit
    PROVE  History
<1>1. /\ bp = EmptyTable(Address) /\ suspend = [t \in Thread |-> 1]
      /\ report = [t \in Thread |-> "none"] /\ exited = {}
      /\ togo = [t \in Thread |-> NoStep] /\ shown = [t \in Thread |-> TRUE] /\ refused = {}
  BY DEF HInit, Init
<1>2. TablesGood
  BY InitGood DEF HInit
<1>3. /\ bp.list = [i \in TempId |-> Reset] /\ bp.patched = {} /\ bp.mapped = Address
      /\ bp.threads = Thread
  BY <1>1 DEF EmptyTable
<1>4. Users(bp.list) = {}
  BY <1>3, ZeroIsTemporary DEF Users
<1>5. TempsFree(bp.list)
  BY <1>3, ResetType DEF TempsFree
<1>6. Plain(bp)
  BY <1>3, <1>4, ResetType DEF Plain
<1>7. Told
  BY <1>1 DEF Told
<1>8. \A t \in Thread : Seen(t)
  BY <1>1, <1>4, <1>5 DEF Seen, Standing, Places
<1> QED
  BY <1>2, <1>6, <1>7, <1>8 DEF History

LEMMA NextHistory ==
    ASSUME SingleThread, NoSelfLoops, Orderly, History, [HNext]_<<vars, history>>
    PROVE  History'
<1>1. NoStep \notin Int /\ Told /\ TablesGood
  BY NoStepAssumption DEF History
<1>2. CASE UNCHANGED <<vars, history>>
  BY <1>2 DEF History, TablesGood, Told, Seen, vars, history
<1>3. ASSUME NEW id \in BreakOwner, NEW a \in Address, SetBreak(id, a, TRUE, {}), UNCHANGED history
      PROVE  History'
  <2>1. Next
    BY <1>3 DEF Next
  <2> QED
    BY <1>1, <1>3, <2>1, NextGood, SetKeepsHistory
<1>4. ASSUME NEW b \in UserIds(bp), ClearBreak(b), refused' = refused \ {b},
             UNCHANGED <<togo, shown>>
      PROVE  History'
  <2>1. Next
    BY <1>4 DEF Next
  <2> QED
    BY <1>1, <1>4, <2>1, NextGood, ClearKeepsHistory
<1>5. ASSUME NEW b \in UserIds(bp), NEW id \in BreakOwner, NEW a \in Address,
             ModifyBreak(b, id, a),
             refused' = IF ModifyBreakResult(b, id, a).err = "KErrNone"
                        THEN refused \ {b} ELSE refused \cup {b},
             UNCHANGED <<togo, shown>>
      PROVE  History'
  <2>1. Next
    BY <1>5 DEF Next
  <2> QED
    BY <1>1, <1>5, <2>1, NextGood, ModifyKeepsHistory
<1>6. ASSUME NEW t \in Thread, NEW n \in StepCount, Step(t, n), Released(t, n)
      PROVE  History'
  <2>1. Next /\ n \in Int
    BY <1>6, CodeAssumption DEF Next
  <2> QED
    BY <1>1, <1>6, <2>1, NextGood, StepKeepsHistory
<1>7. ASSUME NEW t \in Thread, ResumeThread(t), Released(t, NoStep)
      PROVE  History'
  <2>1. Next
    BY <1>7 DEF Next
  <2> QED
    BY <1>1, <1>7, <2>1, NextGood, ResumeKeepsHistory
<1>8. ASSUME NEW t \in Thread, Execute(t), Executed(t)
      PROVE  History'
  <2>1. Next
    BY <1>8 DEF Next
  <2> QED
    BY <1>1, <1>8, <2>1, NextGood, ExecuteKeepsHistory
<1>9. ASSUME NEW t \in Thread, Hit(t), Trapped(t)
      PROVE  History'
  <2>1. Next
    BY <1>9 DEF Next
  <2> QED
    BY <1>1, <1>9, <2>1, NextGood, HitKeepsHistory
<1> QED
  BY <1>2, <1>3, <1>4, <1>5, <1>6, <1>7, <1>8, <1>9 DEF HNext

LEMMA HistoryAlways ==
    ASSUME SingleThread, NoSelfLoops, Orderly
    PROVE  HSpec => []History
<1>1. HInit => History
  BY InitHistory
<1>2. History /\ [HNext]_<<vars, history>> => History'
  BY NextHistory
<1> QED
  BY <1>1, <1>2, PTL DEF HSpec

-------------------------------------------------------------------------------
(* What the agent of a single thread may rely on                           *)

\* Where the user has no breakpoint the raw memory is the program; elsewhere
\* the entry has saved it.
LEMMA HistoryReads ==
    ASSUME SingleThread, History
    PROVE  ReadsSeeTheProgram
<1>1. SUFFICES ASSUME \A t \in Thread : ~ Runs(t), NEW a \in bp.mapped
               PROVE  DoReadMemory(bp, a) = "original"
  BY DEF ReadsSeeTheProgram
<1>2. PICK t \in Thread : TRUE
  BY DEF SingleThread
<1>3. Good(bp) /\ Plain(bp)
  BY DEF History, TablesGood
<1>4. suspend[t] # 0
  BY <1>1, <1>3 DEF Runs, Plain, History, Told
<1>5. TempsFree(bp.list)
  BY <1>4, StandsStill DEF Stopped
<1> DEFINE here == {b \in UserIds(bp) : bp.list[b].iAddress = a}
<1>6. CASE here = {}
  <2>1. ~ UserAt(bp.list, a)
    BY <1>6, UsersOfTable DEF UserAt
  <2>2. a \notin bp.patched
    BY <1>3, <1>5, <2>1, PatchesAreUsers
  <2> QED
    BY <1>6, <2>2 DEF DoReadMemory, RawInstruction
<1>7. ASSUME NEW b \in here
      PROVE  DoReadMemory(bp, a) = "original"
  <2>1. b \in Users(bp.list) /\ b \in Nat
    BY <1>3, <1>7, UsersOfTable, UserEntry
  <2>2. here = {b}
    BY <1>3, <1>7, <2>1, UsersOfTable, OneAtAPlace
  <2>3. Max(here) = b
    <3> HIDE DEF here
    <3> QED
      BY <2>1, <2>2 DEF Max
  <2>4. DoReadMemory(bp, a) = bp.list[b].iInstruction
    BY <2>2, <2>3 DEF DoReadMemory
  <2> QED
    BY <1>3, <2>1, <2>4 DEF Plain
<1> QED
  BY <1>6, <1>7

LEMMA HistoryShows ==
    ASSUME History
    PROVE  BreaksAreShown
<1>1. SUFFICES ASSUME NEW t \in Thread, NEW b \in UserIds(bp), refused = {}, Runs(t),
                      pc[t] \notin bp.patched, bp.list[b].iAddress = pc[t]
               PROVE  shown[t]
  BY DEF BreaksAreShown
<1>2. Going(bp.list, bp.patched, pc[t], togo[t], shown[t], refused)
  BY <1>1 DEF History, Seen, Runs
<1>3. b \in Users(bp.list)
  BY UsersOfTable
<1> QED
  BY <1>1, <1>2, <1>3 DEF Going

LEMMA HistoryReports ==
    ASSUME History
    PROVE  StopsAreReported
<1>1. \A t \in Thread : suspend[t] > 0 => suspend[t] # 0
  BY DEF History, Told
<1>2. \A t \in Thread : suspend[t] # 0 => shown[t]
  BY StandsStill
<1> QED
  BY <1>1, <1>2 DEF StopsAreReported

\* Only a trap reports; where the user has no breakpoint, the one of a step.
LEMMA HistoryStops ==
    ASSUME SingleThread, NoSelfLoops, History, HNext, NEW t \in Thread,
           report[t] = "none", report'[t] = "break",
           \A b \in UserIds(bp) : bp.list[b].iAddress # pc[t]
    PROVE  togo[t] = 0
<1>1. report \in [Thread -> {"none", "break", "exception"}]
  BY DEF History, Told
<1>2. PICK u \in Thread : Hit(u)
  <2>1. ASSUME NEW u \in Thread, NEW go, LetGo(u, go)
        PROVE  FALSE
    <3>1. report'[t] \in {"none", report[t]}
      BY <1>1, <2>1 DEF LetGo
    <3> QED
      BY <3>1
  <2>2. \A u \in Thread, n \in StepCount : ~ Step(u, n)
    BY <2>1 DEF Step
  <2>3. \A u \in Thread : ~ ResumeThread(u)
    BY <2>1 DEF ResumeThread
  <2>4. report' # report
    OBVIOUS
  <2>5. /\ \A id \in BreakOwner, a \in Address : ~ SetBreak(id, a, TRUE, {})
        /\ \A b \in UserIds(bp) : ~ ClearBreak(b)
        /\ \A b \in UserIds(bp), id \in BreakOwner, a \in Address : ~ ModifyBreak(b, id, a)
        /\ \A u \in Thread : ~ Execute(u)
    BY <2>4 DEF SetBreak, ClearBreak, ModifyBreak, Execute
  <2> QED
    BY <2>2, <2>3, <2>5 DEF HNext
<1>3. u = t
  BY DEF SingleThread
<1> DEFINE trap == HandleInvalidOpCodeException(t)
<1>4. TrapEnds(trap, t) /\ report'[t] = trap.notify
  <2>1. report' = [report EXCEPT ![t] = trap.notify]
    BY <1>2, <1>3 DEF Hit
  <2> HIDE DEF trap
  <2>2. TrapEnds(trap, t)
    BY <1>2, <1>3, TrapEffect DEF trap
  <2> QED
    BY <1>1, <2>1, <2>2
<1>5. ~ UserAt(bp.list, pc[t])
  BY UsersOfTable DEF UserAt
<1> HIDE DEF trap
<1> QED
  BY <1>4, <1>5 DEF TrapEnds

\* Whatever breakpoints the agent has set, moved, cleared, stepped off or been
\* stopped at, memory that it reads while the thread stands still is the
\* program's: a saved instruction is never a breakpoint, and no breakpoint
\* stays in the code without an entry that hides it (DoReadMemory).
THEOREM ReadsAlwaysSeeTheProgram ==
    ASSUME SingleThread, NoSelfLoops, Orderly
    PROVE  HSpec => []ReadsSeeTheProgram
<1>1. History => ReadsSeeTheProgram
  BY HistoryReads
<1> QED
  BY <1>1, HistoryAlways, PTL

\* No breakpoint is passed unseen: what is disabled for a step is enabled again
\* by the trap that ends the step, and until then the thread stands where it
\* has been shown (ModifyBreaksForStep, priv_DoEnableDisabledBreak).
THEOREM BreaksAlwaysShown ==
    ASSUME SingleThread, NoSelfLoops, Orderly
    PROVE  HSpec => []BreaksAreShown
<1>1. History => BreaksAreShown
  BY HistoryShows
<1> QED
  BY <1>1, HistoryAlways, PTL

\* A trap that suspends the thread reports it or resumes it again
\* (HandleInvalidOpCodeException).
THEOREM StopsAlwaysReported ==
    ASSUME SingleThread, NoSelfLoops, Orderly
    PROVE  HSpec => []StopsAreReported
<1>1. History => StopsAreReported
  BY HistoryReports
<1> QED
  BY <1>1, HistoryAlways, PTL

\* A step of several instructions that no breakpoint of the user cuts short
\* ends after exactly so many, though each of them is a step of its own that a
\* trap continues (DoStepRange, iNumSteps).
THEOREM StepsStopAtTheirTarget ==
    ASSUME SingleThread, NoSelfLoops, Orderly
    PROVE  HSpec => StepStopsAtTarget
<1> DEFINE Right == \A t \in Thread :
                       /\ togo[t] # NoStep /\ report[t] = "none" /\ report'[t] = "break"
                       /\ \A b \in UserIds(bp) : bp.list[b].iAddress # pc[t]
                       => togo[t] = 0
<1>1. History /\ [HNext]_<<vars, history>> => [Right]_<<vars, history>>
  BY HistoryStops
<1> HIDE DEF Right
<1>2. HSpec => []History
  BY HistoryAlways
<1>3. HSpec => [][Right]_<<vars, history>>
  BY <1>1, <1>2, PTL DEF HSpec
<1> QED
  BY <1>3 DEF StepStopsAtTarget, Right

===============================================================================
