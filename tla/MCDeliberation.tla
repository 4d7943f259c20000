--------------------------- MODULE MCDeliberation ----------------------------
(* Small instances of Deliberation: a plan nobody deliberates about         *)
(* together, a pattern with one persona, and two workflows that convene the*)
(* same two, one of them twice, past a workflow without a pattern.         *)
EXTENDS Deliberation, TLC

CallSymmetry == Permutations(Call)

Workflow(pattern, personas) == [pattern |-> pattern, personas |-> personas]

SmallPlans ==
  {<<>>,
   <<Workflow(TRUE, <<"ann">>), Workflow(FALSE, <<"bob">>)>>,
   <<Workflow(TRUE, <<"ann", "bob">>), Workflow(FALSE, <<"eve">>),
     Workflow(TRUE, <<"bob", "ann">>)>>}

TwoToolPolicies == <<"limit", "law">>
==============================================================================
