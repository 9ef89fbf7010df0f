----------------------------- MODULE EventFifo -----------------------------
(***************************************************************************)
(* What the run-mode debug driver promises the debug security server about *)
(* the events of one attachment: a bounded first-in first-out queue in     *)
(* front of at most one waiting reader.  A reader never waits while        *)
(* something is queued, entries leave in the order they came in, and an    *)
(* entry may only be refused at the documented levels: user traces above   *)
(* the critical level (they may be replaced by a "traces lost" marker),    *)
(* anything once the queue is full.                                        *)
(*                                                                         *)
(* The module knows nothing of slots, indices or counters; DebugAgent is   *)
(* the ring buffer that implements it.                                     *)
(***************************************************************************)
EXTENDS Naturals, Sequences

CONSTANTS Capacity,    \* how many entries the queue holds
          Critical,    \* above this length user traces may be refused
          Traces,      \* the entries that are user traces
          Others,      \* all the other entries
          Marker,      \* the entry that tells the reader traces were lost
          Nothing      \* what the reader holds before its first entry

VARIABLES fifo,        \* the queued entries, oldest first
          status,      \* the reader's request: idle, pending, or how it ended
          got          \* the entry last handed to the reader

fvars == <<fifo, status, got>>

Entries == Traces \cup Others \cup {Marker}

Init == /\ fifo = <<>>
        /\ status = "idle"
        /\ got = Nothing

\* What the queue may look like after it was offered entry e.
Offered(e) ==
    (IF Len(fifo) < Capacity THEN {Append(fifo, e)} ELSE {fifo})
    \cup (IF e \in Traces /\ Len(fifo) > Critical
             THEN {fifo}
                  \cup (IF Len(fifo) < Capacity THEN {Append(fifo, Marker)} ELSE {})
             ELSE {})

\* An entry is offered; a waiting reader is handed the oldest one at once.
Post(e) ==
    \E q \in Offered(e) :
       IF status = "pending" /\ q # <<>>
          THEN /\ fifo' = Tail(q)
               /\ status' = "KErrNone"
               /\ got' = Head(q)
          ELSE /\ fifo' = q
               /\ UNCHANGED <<status, got>>

\* The reader asks for the next entry and waits only if there is none.
Read ==
    /\ status = "idle"
    /\ IF fifo = <<>>
          THEN /\ status' = "pending"
               /\ UNCHANGED <<fifo, got>>
          ELSE /\ status' = "KErrNone"
               /\ got' = Head(fifo)
               /\ fifo' = Tail(fifo)

\* The reader gives up; a request that is already answered stays answered.
GiveUp ==
    /\ status # "idle"
    /\ status' = IF status = "pending" THEN "KErrCancel" ELSE status
    /\ UNCHANGED <<fifo, got>>

\* The reader looks at how its request ended and is free to ask again.
Collect ==
    /\ status \in {"KErrNone", "KErrCancel"}
    /\ status' = "idle"
    /\ UNCHANGED <<fifo, got>>

Next == \/ \E e \in Entries : Post(e)
        \/ Read
        \/ GiveUp
        \/ Collect

Spec == Init /\ [][Next]_fvars
============================================================================
