------------------------------- MODULE Spending ------------------------------
(***************************************************************************)
(* What the cycles of a runtime and of its subagents cost: the usage       *)
(* record a cycle takes from the call history of the model it shares       *)
(* (src/runtime.go, src/lm.go), the budget monitor that record feeds       *)
(* (src/budget.go) and the spawner that bounds the subagents               *)
(* (src/spawner.go).                                                       *)
(*                                                                         *)
(* The cycles run on goroutines of their own: a subagent is spawned from   *)
(* inside a cycle or by a caller outside one, a subagent may spawn again,  *)
(* and two requests over HTTP may run two cycles of one runtime at once    *)
(* (module Server, OneCyclePerRuntime).  All share one model.              *)
(*                                                                         *)
(* A priced call costs one unit; thresholds are given in units.  The auxiliary    *)
(* model has a history of its own which nothing reads: its calls cost      *)
(* nothing anywhere, and the model leaves them out.                        *)
(***************************************************************************)
EXTENDS Integers, Sequences, SequencesExt, FiniteSets, FiniteSetsExt

CONSTANTS
  Limit,        \* Spawner.Limit; 0 means unbounded
  Thresholds,   \* BudgetMonitor.Thresholds
  MaxCycles,    \* bound: cycles, those of subagents included
  MaxCalls,     \* bound: calls to the model
  MaxDenials    \* bound: spawns denied

ASSUME SpendingAssumption ==
  /\ Limit \in Nat
  /\ Thresholds \subseteq Nat \ {0} /\ IsFiniteSet(Thresholds)
  /\ {MaxCycles, MaxCalls, MaxDenials} \subseteq Nat

VARIABLES
  setup,     \* what memory.md declares
  history,   \* the model's call history: whose cycle made each call
  cycles,    \* the cycles, in the order they were started
  spawned,   \* Spawner.spawned: who spawned each subagent, 0 outside a cycle
  denials,   \* how many subagents there were at each denial (history variable)
  spent,     \* BudgetMonitor.spent
  fired,     \* BudgetMonitor.fired
  alerts     \* the alerts delivered, in order (history variable)

budgetVars == <<spent, fired, alerts>>
spendingVars == <<setup, history, cycles, spawned, denials, budgetVars>>

(* applyMemoryStrategy: each section of memory.md that is there wires its    *)
(* part of the runtime -- a price, a budget with its monitor, a spawner --  *)
(* and one that is not leaves the part alone.                              *)
Wirings == [priced : BOOLEAN, capped : BOOLEAN,
            subagents : {"unconfigured", "enabled", "disabled"}]

SpendingInit ==
  /\ setup \in Wirings
  /\ history = <<>>
  /\ cycles = <<>>
  /\ spawned = <<>>
  /\ denials = {}
  /\ spent = 0 /\ fired = {} /\ alerts = <<>>

At(phase) == {c \in 1..Len(cycles) : cycles[c].phase = phase}
Goes(c, phase) == cycles' = [cycles EXCEPT ![c].phase = phase]

------------------------------------------------------------------------------
(* Cycles and subagents *)

(* A cycle notes how long the history is before it does anything.  Who runs *)
(* at the same time is kept on both sides (a history variable).            *)
Begun(all, c) ==
  LET running == At("running") \ {c}
  IN [k \in 1..Len(all) |->
        IF k = c THEN [all[k] EXCEPT !.phase = "running", !.before = Len(history),
                                     !.met = running]
        ELSE IF k \in running THEN [all[k] EXCEPT !.met = @ \cup {c}] ELSE all[k]]

Started(of) ==
  Append(cycles, [of |-> of, phase |-> "reserved", before |-> 0, met |-> {},
                  usage |-> <<>>, due |-> <<>>])

(* Reason of the runtime itself. *)
ReasonBegins ==
  /\ Len(cycles) < MaxCycles
  /\ cycles' = Begun(Started("desk"), Len(cycles) + 1)
  /\ UNCHANGED <<setup, history, spawned, denials, budgetVars>>

(* Runtime.Spawn: where no spawner was configured, one without a limit is   *)
(* made.                                                                   *)
SpawnLimit == IF setup.subagents = "unconfigured" THEN 0 ELSE Limit

(* Mutant: the limit holds for each spawning cycle. *)
FullForParent(parent) ==
  SpawnLimit > 0 /\ Len(SelectSeq(spawned, LAMBDA p : p = parent)) >= SpawnLimit

(* The subagents of subagents take the same slots. *)
Full(parent) == SpawnLimit > 0 /\ Len(spawned) >= SpawnLimit

(* Check and reservation are one critical section; a denied spawn reasons   *)
(* nothing.  A slot is never given back.                                   *)
Spawn(parent) ==
  /\ IF setup.subagents # "disabled" /\ ~Full(parent)
     THEN /\ Len(cycles) < MaxCycles
          /\ spawned' = Append(spawned, parent)
          /\ cycles' = Started("subagent")
          /\ UNCHANGED denials
     ELSE /\ Cardinality(denials) < MaxDenials
          /\ denials' = denials \cup {Len(spawned)}
          /\ UNCHANGED <<spawned, cycles>>
  /\ UNCHANGED <<setup, history, budgetVars>>

(* The subagent, on the model of its parent and without a budget, reasons.  *)
SubagentBegins(c) ==
  /\ c \in At("reserved")
  /\ cycles' = Begun(cycles, c)
  /\ UNCHANGED <<setup, history, spawned, denials, budgetVars>>

(* A completion that succeeded is in the history; the others are not.       *)
Completes(c) ==
  /\ c \in At("running")
  /\ Len(history) < MaxCalls
  /\ history' = Append(history, c)
  /\ UNCHANGED <<setup, cycles, spawned, denials, budgetVars>>

------------------------------------------------------------------------------
(* Accounting *)

(* Mutant: the last call of the cycle before is counted again. *)
cycleCallsFromBefore(c) == SubSeq(history, Max({1, cycles[c].before}), Len(history))

(* What was called since the cycle began, by whomever. *)
cycleCalls(c) == SubSeq(history, cycles[c].before + 1, Len(history))

(* What calls cost: a figure nobody declared is never invented. *)
Dollars(calls) == IF setup.priced THEN Len(calls) ELSE 0

(* recordUsage, on every way out of a cycle: the record, and what it cost   *)
(* for the runtime's budget -- a subagent has none.                        *)
RecordUsage(c) ==
  /\ c \in At("running")
  /\ LET calls   == cycleCalls(c)
         charges == cycles[c].of = "desk" /\ Dollars(calls) > 0
     IN cycles' = [cycles EXCEPT ![c].usage = calls,
                                 ![c].phase = IF charges THEN "charging" ELSE "ended"]
  /\ UNCHANGED <<setup, history, spawned, denials, budgetVars>>

(* Mutant: a threshold crossed is crossed by every spend after it. *)
CrossedAgain(total) == {t \in Thresholds : setup.capped /\ total >= t}

Crossed(total) == {t \in Thresholds \ fired : setup.capped /\ total >= t}

(* The thresholds are kept in ascending order, and met in that order.       *)
Rising(S) ==
  CHOOSE due \in [1..Cardinality(S) -> S] :
    \A i, j \in 1..Cardinality(S) : i < j => due[i] < due[j]

(* Add: the spend, and the thresholds it crosses, under the lock.           *)
Add(c) ==
  /\ c \in At("charging")
  /\ LET total   == spent + Dollars(cycles[c].usage)
         crossed == Crossed(total)
         due     == Rising(crossed)
     IN /\ spent' = total
        /\ fired' = fired \cup crossed
        /\ cycles' = [cycles EXCEPT
             ![c].due   = [k \in 1..Len(due) |-> [threshold |-> due[k], spent |-> total]],
             ![c].phase = IF crossed = {} THEN "ended" ELSE "alerting"]
  /\ UNCHANGED <<setup, history, spawned, denials, alerts>>

(* Its alerts are delivered one by one, outside the lock.                   *)
Deliver(c) ==
  /\ c \in At("alerting")
  /\ alerts' = Append(alerts, Head(cycles[c].due))
  /\ cycles' = [cycles EXCEPT ![c].due = Tail(@),
                              ![c].phase = IF Len(cycles[c].due) = 1 THEN "ended" ELSE @]
  /\ UNCHANGED <<setup, history, spawned, denials, spent, fired>>

SpendingNext ==
  \/ ReasonBegins
  \/ \E parent \in {0} \cup At("running") : Spawn(parent)
  \/ \E c \in 1..Len(cycles) :
       \/ SubagentBegins(c) \/ Completes(c) \/ RecordUsage(c) \/ Add(c) \/ Deliver(c)

SpendingSpec == SpendingInit /\ [][SpendingNext]_spendingVars

------------------------------------------------------------------------------
(* Properties *)

Accounted == At("charging") \cup At("alerting") \cup At("ended")
By(c, calls) == {k \in 1..Len(calls) : calls[k] = c}

(* runtime.go:255-258: a usage record has every call the cycle made, and     *)
(* what it has beyond those was called by a cycle that ran at the same     *)
(* time.  A cycle that ran alone is accounted for exactly.                 *)
UsageCoversCycle ==
  \A c \in Accounted :
    LET usage == cycles[c].usage
    IN /\ Cardinality(By(c, usage)) = Cardinality(By(c, history))
       /\ ToSet(usage) \subseteq {c} \cup cycles[c].met

(* budget.go:26-30: when every cycle that was charged has been told of, each *)
(* threshold the spend has reached was told once and no other ever, each   *)
(* with a spend that reached it; and the spend is not short of what the    *)
(* runtime's own cycles called, nor more when no two cycles met.           *)
BudgetTellsSpend ==
  LET due     == FlattenSeq([c \in 1..Len(cycles) |-> cycles[c].due])
      told    == alerts \o due
      charged == {c \in At("alerting") \cup At("ended") : cycles[c].of = "desk"}
      called  == Cardinality({k \in 1..Len(history) : history[k] \in charged})
  IN /\ \A k, m \in 1..Len(told) : told[k].threshold = told[m].threshold => k = m
     /\ {told[k].threshold : k \in 1..Len(told)} =
          {t \in Thresholds : setup.capped /\ t <= spent}
     /\ \A k \in 1..Len(told) : told[k].threshold <= told[k].spent /\ told[k].spent <= spent
     /\ IF ~setup.priced THEN spent = 0
        ELSE /\ spent >= called
             /\ (\A c \in 1..Len(cycles) : cycles[c].met = {}) => spent = called

(* spawner.go:10-19, 51-53: nested and concurrent spawns never overrun the   *)
(* limit, a spawn is denied only when it is reached or spawning is         *)
(* forbidden, and every slot taken is a subagent that reasons.             *)
SpawnsWithinLimit ==
  /\ CASE setup.subagents = "disabled"     -> spawned = <<>>
       [] setup.subagents = "unconfigured" -> denials = {}
       [] setup.subagents = "enabled"      -> Limit > 0 => /\ Len(spawned) <= Limit
                                                           /\ denials \subseteq {Limit}
  /\ Len(spawned) = Cardinality({c \in 1..Len(cycles) : cycles[c].of = "subagent"})
==============================================================================
