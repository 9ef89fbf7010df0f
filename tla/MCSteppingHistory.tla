--------------------------- MODULE MCSteppingHistory ---------------------------
(* The targets of MCStepping with the history of the agent. *)
EXTENDS MCStepping, SteppingHistory
===============================================================================
