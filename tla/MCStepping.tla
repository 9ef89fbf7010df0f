------------------------------ MODULE MCStepping ------------------------------
(* Small targets for Stepping: one process with one, two or three threads. *)
EXTENDS Stepping

CONSTANTS t1, t2, t3, p

MCProcess == {p}
OneThread == {t1}
TwoThreads == {t1, t2}
ThreeThreads == {t1, t2, t3}
MCOwningProcess == [t \in Thread |-> p]
MCFirstThread == [q \in Process |-> t1]

(* A loop of a Thumb instruction pair and an ARM instruction behind it. *)
Loop == (4 :> 6) @@ (6 :> 8) @@ (8 :> 4)
LoopMode == [a \in {4, 6, 8} |-> IF a = 8 THEN "EArmMode" ELSE "EThumbMode"]

(* Two instructions that call each other. *)
Pair == (4 :> 8) @@ (8 :> 4)
PairMode == [a \in {4, 8} |-> "EArmMode"]

(* An instruction that branches to itself. *)
SelfBranch == (4 :> 8) @@ (8 :> 8)

NoAddress == {}
Library == {8}
AllOwners == Thread \cup Process
===============================================================================
