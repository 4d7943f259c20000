------------------------------ MODULE MCServer ------------------------------
(* Small instances of Server.  In the runs without liveness properties      *)
(* clients and intents are interchangeable.                                *)
EXTENDS Server, TLC

Interchangeable == Permutations(Client) \cup Permutations(Intent)
=============================================================================
