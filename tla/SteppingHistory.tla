---------------------------- MODULE SteppingHistory ----------------------------
(***************************************************************************)
(* Stepping with history variables: what the agent has asked for and what  *)
(* it has been shown.  They restrict nothing; the properties of single     *)
(* steps need them.                                                        *)
(***************************************************************************)
EXTENDS Stepping

CONSTANT NoStep

ASSUME NoStepAssumption == NoStep \notin Int

VARIABLES
    togo,      \* instructions left of the step a thread makes, or NoStep; -1: too many
    shown,     \* the agent has seen the thread stopped at its present pc
    refused    \* the breakpoints whose last modification the driver refused

history == <<togo, shown, refused>>

HInit ==
    /\ Init
    /\ togo = [t \in Thread |-> NoStep]
    /\ shown = [t \in Thread |-> TRUE]
    /\ refused = {}

(* A request has resumed thread t, to make so many steps. *)
Released(t, steps) ==
    /\ togo' = [togo EXCEPT ![t] = IF suspend'[t] < suspend[t] THEN steps ELSE @]
    /\ UNCHANGED <<shown, refused>>

Executed(t) ==
    /\ togo' = [togo EXCEPT ![t] = IF @ \in {NoStep, -1} THEN @ ELSE @ - 1]
    /\ shown' = [shown EXCEPT ![t] = FALSE]
    /\ UNCHANGED refused

Trapped(t) ==
    /\ togo' = [togo EXCEPT ![t] = IF report'[t] = "none" THEN @ ELSE NoStep]
    /\ shown' = [shown EXCEPT ![t] = @ \/ report'[t] # "none"]
    /\ UNCHANGED refused

HNext ==
    \/ \E id \in BreakOwner, a \in Address : SetBreak(id, a, TRUE, {}) /\ UNCHANGED history
    \/ \E b \in UserIds(bp) :
            ClearBreak(b) /\ refused' = refused \ {b} /\ UNCHANGED <<togo, shown>>
    \/ \E b \in UserIds(bp), id \in BreakOwner, a \in Address :
            /\ ModifyBreak(b, id, a)
            /\ refused' = IF ModifyBreakResult(b, id, a).err = "KErrNone"
                          THEN refused \ {b} ELSE refused \cup {b}
            /\ UNCHANGED <<togo, shown>>
    \/ \E t \in Thread, n \in StepCount : Step(t, n) /\ Released(t, n)
    \/ \E t \in Thread : ResumeThread(t) /\ Released(t, NoStep)
    \/ \E t \in Thread : Execute(t) /\ Executed(t)
    \/ \E t \in Thread : Hit(t) /\ Trapped(t)

HSpec == HInit /\ [][HNext]_<<vars, history>> /\ Fairness

-------------------------------------------------------------------------------

(* While the target stands still, reading memory shows the program and never *)
(* a breakpoint: "If there is a breakpoint set in the region of memory       *)
(* returned then the correct data value is inserted into the descriptor".    *)
ReadsSeeTheProgram ==
    (\A t \in Thread : ~ Runs(t)) =>
        \A a \in bp.mapped : DoReadMemory(bp, a) = "original"

(* A thread never passes a breakpoint that concerns it without having been  *)
(* shown to the agent there, also while it steps or is resumed from the     *)
(* breakpoint before (unless a modification was refused).                   *)
BreaksAreShown ==
    \A t \in Thread : \A b \in UserIds(bp) :
        /\ refused = {} /\ Runs(t) /\ pc[t] \notin bp.patched
        /\ bp.list[b].iAddress = pc[t] /\ AppliesTo(bp.list[b], t)
        => shown[t]

(* When a step is reported at a place without breakpoint, exactly the       *)
(* number of instructions that was asked for has been executed.             *)
StepStopsAtTarget ==
    [][\A t \in Thread :
          /\ togo[t] # NoStep /\ report[t] = "none" /\ report'[t] = "break"
          /\ \A b \in UserIds(bp) : bp.list[b].iAddress # pc[t]
          => togo[t] = 0]_<<vars, history>>

(* A thread that steps is stopped again and reported. *)
StepEnds ==
    \A t \in Thread : togo[t] # NoStep /\ refused = {} ~> report[t] # "none"

(* A thread that the driver has stopped without telling anybody would stand *)
(* still for ever: whenever a thread that was let go is suspended again, it *)
(* is reported, or the agent has suspended it itself.                       *)
StopsAreReported ==
    \A t \in Thread \ Suspendable :
        suspend[t] > 0 /\ ~ shown[t] => report[t] # "none"
===============================================================================
