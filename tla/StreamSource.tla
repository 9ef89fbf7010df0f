---------------------------- MODULE StreamSource ----------------------------
(***************************************************************************)
(* What a sampler driver promises to the one client that reads its stream: *)
(* a buffer given while sampling is kept until it has data, the pending    *)
(* one is answered no later than a stop is, and once sampling has stopped  *)
(* every further buffer is answered, an empty one saying that the stream   *)
(* has ended.  The client relies on the last two: it waits for these       *)
(* answers with User::WaitForRequest, which blocks its only thread.        *)
(***************************************************************************)
CONSTANTS Phases    \* of the client: "stopped", "running" and "stopping"

VARIABLES
    phase,      \* what the client has asked for
    pending,    \* a buffer of the client is with the driver
    answer,     \* how the last buffer came back
    powered     \* the device has not been powered down so far

sourceVars == <<phase, pending, answer, powered>>

SourceInit == /\ phase = "stopped"
              /\ pending = FALSE
              /\ answer = "none"
              /\ powered = TRUE

Start == /\ phase = "stopped" /\ ~pending
         /\ phase' = "running"
         /\ answer' = "none"
         /\ UNCHANGED <<pending, powered>>

Request == /\ phase \in {"running", "stopped"} /\ ~pending
           /\ pending' = TRUE
           /\ answer' = "none"
           /\ UNCHANGED <<phase, powered>>

Fill == /\ phase \in {"running", "stopping"} /\ pending
        /\ pending' = FALSE
        /\ answer' = "data"
        /\ UNCHANGED <<phase, powered>>

Stop == /\ phase = "running"
        /\ phase' = "stopping"
        /\ UNCHANGED <<pending, answer, powered>>

Finish == /\ phase = "stopping"
          /\ phase' = "stopped"
          /\ pending' = FALSE
          /\ answer' \in IF pending THEN {"data", "empty"} ELSE {answer}
          /\ UNCHANGED powered

Answer == /\ phase = "stopped" /\ pending
          /\ pending' = FALSE
          /\ answer' \in {"data", "empty"}
          /\ UNCHANGED <<phase, powered>>

\* Nothing is promised any more once the device has been powered down.
PowerLost == /\ powered' = FALSE
             /\ phase' \in Phases /\ pending' \in BOOLEAN
             /\ answer' \in {"none", "data", "empty"}

SourceNext == Start \/ Request \/ Fill \/ Stop \/ Finish \/ Answer \/ PowerLost

SourceSpec == /\ SourceInit /\ [][SourceNext]_sourceVars
              /\ WF_sourceVars(powered /\ Finish)
              /\ WF_sourceVars(powered /\ Answer)
=============================================================================
