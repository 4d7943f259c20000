------------------------------ MODULE MCKernel -------------------------------
(* Small instances of the scheduler for TLC.                               *)
EXTENDS Kernel

SomeName == CHOOSE n \in Names : TRUE

Prompt(n)      == [inst |-> n, every |-> 0, delay |-> 0]
Deferred(n, d) == [inst |-> n, every |-> 0, delay |-> d]
Periodic(n, p) == [inst |-> n, every |-> p, delay |-> p]

(* One-shot work for every instance, a timer and a deferred task on one of  *)
(* them, and a schedule armed to start at once (Arm with StartAfter(0)).   *)
TimedWork == {Prompt(n) : n \in Names}
             \cup {Periodic(SomeName, 1), Deferred(SomeName, 1),
                   [inst |-> SomeName, every |-> 1, delay |-> 0]}

(* A deferred one-shot task, alone.                                         *)
DeferredWork == {Deferred(SomeName, 1)}
==============================================================================
