-------------------------------- MODULE Fleet --------------------------------
(***************************************************************************)
(* What the scheduler promises the fleet, without saying how (the promise  *)
(* is the comment on Kernel.Workers, src/kernel.go:49-53, and the contract *)
(* of Run, src/kernel.go:603-614):                                         *)
(*                                                                         *)
(*   - a piece of work belongs to one instance from the moment it is       *)
(*     accepted;                                                           *)
(*   - at most one piece of work executes on an instance at any time;      *)
(*   - one-shot work starts at most once, recurring work stays on the      *)
(*     books until it is withdrawn;                                        *)
(*   - work that has started finishes, and is never taken back.            *)
(*                                                                         *)
(* There is no queue, no clock, no worker pool and no run loop here:       *)
(* module Kernel has those, and implements this specification.             *)
(***************************************************************************)
CONSTANTS
  Names,   \* the instances of the fleet
  Job      \* the identities a piece of work may have

(***************************************************************************)
(* owner      the instance each accepted job belongs to (NoOwner before)   *)
(* repeats    the accepted jobs that recur                                 *)
(* pending    the jobs that may still start                                *)
(* executing  the jobs that have started and not finished                  *)
(***************************************************************************)
VARIABLES owner, repeats, pending, executing

fleetVars == <<owner, repeats, pending, executing>>

NoOwner == "unowned"

FleetTypeOK ==
  /\ owner \in [Job -> Names \cup {NoOwner}]
  /\ repeats \subseteq Job
  /\ pending \subseteq Job
  /\ executing \subseteq Job

FleetInit ==
  /\ owner = [j \in Job |-> NoOwner]
  /\ repeats = {}
  /\ pending = {}
  /\ executing = {}

Accept(j) ==
  /\ owner[j] = NoOwner
  /\ \E n \in Names : owner' = [owner EXCEPT ![j] = n]
  /\ repeats' \in {repeats, repeats \cup {j}}
  /\ pending' = pending \cup {j}
  /\ UNCHANGED executing

Start(j) ==
  /\ j \in pending
  /\ \A e \in executing : owner[e] # owner[j]
  /\ executing' = executing \cup {j}
  /\ pending' = IF j \in repeats THEN pending ELSE pending \ {j}
  /\ UNCHANGED <<owner, repeats>>

Finish(j) ==
  /\ j \in executing
  /\ executing' = executing \ {j}
  /\ UNCHANGED <<owner, repeats, pending>>

Withdraw(j) ==
  /\ j \in pending
  /\ pending' = pending \ {j}
  /\ UNCHANGED <<owner, repeats, executing>>

FleetNext ==
  \E j \in Job : Accept(j) \/ Start(j) \/ Finish(j) \/ Withdraw(j)

FleetSpec == FleetInit /\ [][FleetNext]_fleetVars

(* Work that has started finishes: the fairness an implementation owes. *)
FleetLiveSpec == FleetSpec /\ \A j \in Job : WF_fleetVars(Finish(j))

(* The single-writer rule, stated on the abstract state. *)
SingleWriter ==
  \A d, e \in executing : d # e => owner[d] # owner[e]
==============================================================================
