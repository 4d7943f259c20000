---------------------------- MODULE MCKernelDrain -----------------------------
(* Small instances of Drain for TLC. *)
EXTENDS KernelDrain

SomeName == CHOOSE n \in Names : TRUE

(* One-shot work for every instance, and a schedule armed to start at once, *)
(* as the one-shot run of a kernel arms it.                                *)
DrainWork == {[inst |-> n, every |-> 0, delay |-> 0] : n \in Names}
             \cup {[inst |-> SomeName, every |-> 1, delay |-> 0]}
==============================================================================
