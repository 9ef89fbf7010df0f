-------------------------- MODULE MCSecurityServer --------------------------
(***************************************************************************)
(* SecurityServer for TLC: one executable, whose path has one or two       *)
(* spellings, and two sessions of two agents or of a single one.           *)
(***************************************************************************)
EXTENDS SecurityServer

CONSTANTS app, APP, star, s1, s2, agentA, agentB

OneSpelling == (app :> app) @@ (star :> star)
TwoSpellings == (app :> app) @@ (APP :> app) @@ (star :> star)

TwoAgents == (s1 :> agentA) @@ (s2 :> agentB)
OneAgent == (s1 :> agentA) @@ (s2 :> agentA)
=============================================================================
