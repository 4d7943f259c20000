------------------------------- MODULE MCCycle -------------------------------
(* Small instances of Cycle: a runtime policy only ann may waive; a process *)
(* of one workflow, under a policy nobody may waive, and one of a workflow *)
(* without policies.                                                       *)
EXTENDS Monitor

AnnOrBob == {"ann", "bob"}
AllPolicies == {"limit", "law"}
AllProcesses == {"lend", "report"}
AllWorkflows == {"assess", "publish"}

OneRuntimePolicy == <<"limit">>
OneWorkflowEach == [p \in AllProcesses |->
                      IF p = "lend" THEN <<"assess">> ELSE <<"publish">>]
AssessGoverned == [w \in AllWorkflows |-> IF w = "assess" THEN <<"law">> ELSE <<>>]
LimitWaivable == {"limit"}
AnnMayWaiveLimit == [p \in AllPolicies |-> IF p = "limit" THEN {"ann"} ELSE {}]
==============================================================================
