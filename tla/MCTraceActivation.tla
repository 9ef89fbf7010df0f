-------------------------- MODULE MCTraceActivation --------------------------
(* Component 1 is the kernel's, components 2 and 3 are applications.  Group *)
(* 0 is the printf group, 1 the CPU usage category, 2 the meta trace        *)
(* category; the others are groups of OST traces, but 6, which is no valid  *)
(* group id.                                                                *)
EXTENDS TraceActivation, TLC

CONSTANTS x1, x2
MCContexts == {x1, x2}
Symmetry == Permutations(MCContexts)

MCItems == {<<2, 0>>, <<2, 3>>}

Scenario(does, length, uses) ==
  [does |-> {does, "overwrites"}, lengths |-> 0 .. length, uses |-> uses, traced |-> {}]
MCScenarios ==
  {[does |-> {"traces"}, lengths |-> {1}, uses |-> {<<2, 3>>}, traced |-> {<<2, 3>>, <<3, 3>>}],
   Scenario("changes",   2, {<<2, 3>>, <<2, 4>>, <<2, 6>>}),
   Scenario("refresh",   1, {<<1, 1>>, <<1, 2>>, <<2, 3>>, <<2, 4>>, <<2, 5>>, <<2, 6>>}),
   Scenario("receivers", 1, {<<1, 0>>, <<2, 3>>, <<2, 4>>}),
   Scenario("settings",  1, {<<1, 0>>, <<1, 2>>, <<2, 3>>, <<2, 6>>}),
   Scenario("writers",   1, {<<1, 1>>, <<1, 2>>, <<1, 6>>})}
=============================================================================
