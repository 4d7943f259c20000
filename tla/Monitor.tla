------------------------------- MODULE Monitor -------------------------------
(***************************************************************************)
(* The control room's verdict on one runtime (src/monitor.go): what        *)
(* InspectRuntime counts in the records the log in memory still holds,     *)
(* InspectFleet's failures from the kernel's history, and the one word     *)
(* classifyHealth makes of both.  The monitor reads and changes nothing:   *)
(* its view is a function of the state of module Cycle, whose cycles are   *)
(* here the kernel's -- a cycle that fails over HTTP is in nobody's        *)
(* history.                                                                *)
(***************************************************************************)
EXTENDS Cycle

(* The markers that governance writes, and nobody else: where records have  *)
(* those of a stop, and those of a question.                               *)
Stops(records) ==
  {k \in 1..Len(records) :
     \/ records[k].stage = "policy" /\ records[k].out = "VIOLATED"
     \/ records[k].stage = "approval" /\ records[k].out \in {"REJECTED", "REFUSED"}
     \/ records[k].stage = "tenant" /\ records[k].out = "REFUSED"}

Questions(records) ==
  {k \in 1..Len(records) : records[k].stage = "policy" /\ records[k].out = "PENDING APPROVAL"}

(* Mutant: the summary of enforce is counted with the gate it sums up. *)
InspectTwice(records) ==
  [blocked |-> Cardinality(Stops(records)),
   pending |-> Cardinality({k \in 1..Len(records) :
                              records[k].out \in {"PENDING APPROVAL", "PENDING"}})]

(* InspectRuntime counts them. *)
Inspect(records) ==
  [blocked |-> Cardinality(Stops(records)), pending |-> Cardinality(Questions(records))]

classifyHealth(intact, failed, pending) ==
  CASE ~intact                                -> "broken"
    [] intact /\ (failed > 0 \/ pending > 0)  -> "attention"
    [] OTHER                                  -> "healthy"

(* The kernel's history starts with the process, and so does the log.       *)
Session == SubSeq(log.trail, log.since + 1, Len(log.trail))
EndedHere ==
  LET before == MaxCycle(SubSeq(log.trail, 1, log.since))
  IN {n \in 1..Len(ended) : ended[n].cycle > before}

(* InspectFleet: what failed in dispatch, counted from the kernel's history.*)
Failures == Cardinality({n \in EndedHere : ended[n].outcome = "failed"})

Health == classifyHealth(Verify(log), Failures, Inspect(Records(log)).pending)

------------------------------------------------------------------------------
(* Properties *)

RecordsOf(n) ==
  LET records == Records(log)
  IN Picked(records, {k \in 1..Len(records) : records[k].cycle = ended[n].cycle})

(* What a gate wrote that stands in the way of the cycle, but for the       *)
(* summary that enforce adds of the gates left open.                       *)
InTheWay(records) ==
  {k \in 1..Len(records) : /\ records[k].stage \in {"tenant", "policy", "approval"}
                           /\ records[k].out \notin {"complies", "approved", "PENDING"}}

(* monitor.go:27-32, 72-84, 125-197: of the cycles the log still holds, one  *)
(* that decided raises nothing, a blocked one is blocked, and a parked one *)
(* pending unless its approver was refused; whatever stood in the way of a *)
(* cycle is counted, and nothing twice.  A fault is never healthy, and the *)
(* record is called broken exactly when rotation has dropped the beginning *)
(* of what is left.                                                        *)
MonitorMissesNothing ==
  /\ \A n \in EndedHere :
       LET records == RecordsOf(n)
           seen    == Inspect(records)
       IN records # <<>> =>
            /\ seen.blocked + seen.pending = Cardinality(InTheWay(records))
            /\ CASE ended[n].outcome = "decided" -> seen = [blocked |-> 0, pending |-> 0]
                 [] ended[n].outcome = "blocked" -> seen.blocked > 0
                 [] ended[n].outcome = "parked"  -> seen.pending = 0 => seen.blocked > 0
                 [] OTHER -> TRUE
  /\ Failures > 0 => Health # "healthy"
  /\ Health = "broken" <=>
       ~IsPrefix(Records(log), Session)

==============================================================================
