----------------------------- MODULE MCAuthority -----------------------------
(* Authority on two agents and two operators that may be exchanged: its      *)
(* properties are invariants and name none of them.                         *)
EXTENDS Authority, TLC

Interchangeable == Permutations(Agent) \cup Permutations(Operator)
=============================================================================
