----------------------------- MODULE KernelDrain ------------------------------
(***************************************************************************)
(* Kernel.Drain (src/kernel.go:337-356) and drainConcurrent (408-449): run *)
(* everything that is ready now, at most maxUnits of it, and return.  With *)
(* one worker Drain turns Tick until it finds nothing; with more it works  *)
(* in rounds -- launch until there is no room or nothing startable, wait   *)
(* for the round's goroutines, and go round again until a round launches   *)
(* nothing, because what a busy instance held back is startable once its   *)
(* cycle is done.  The program drains a kernel nobody runs                 *)
(* (cmd/ear/kernel.go:101-104), so Run stays off here; callers may Submit  *)
(* and Cancel meanwhile, as a dispatched task may.                         *)
(***************************************************************************)
EXTENDS Kernel

CONSTANT MaxUnits   \* Drain's maxUnits, after its default was put in

ASSUME UnitsAssumption == MaxUnits \in Nat

DrainPC == {"idle", "room", "take", "handoff", "running", "join", "returned"}

VARIABLES
  drain,     \* where Drain is
  called,    \* the tasks that were ready when it was called (history variable)
  done,      \* len(done): the dispatches collected so far
  round      \* launched: the tasks of this round

drainVars == <<drain, called, done, round>>
allVars   == <<vars, drainVars>>

(* What Drain's steps never touch. *)
otherVars == <<nextID, wake, loop, launched, deadline, scanned, ctxDone,
               client, clock, withdrawn>>

DrainTypeOK ==
  /\ drain \in DrainPC
  /\ called \subseteq TaskId
  /\ done \in 0..MaxUnits
  /\ round \in 0..MaxUnits

DrainInit ==
  /\ Init
  /\ drain = "idle"
  /\ called = {}
  /\ done = 0
  /\ round = 0

DrainCall ==
  /\ drain = "idle"
  /\ drain' = "room"
  /\ called' = {t \in queue : task[t].due <= clock}
  /\ UNCHANGED <<vars, done, round>>

(* Mutant: room for one unit too many. *)
DrainRoomOver ==
  /\ drain = "room"
  /\ drain' = CASE done + round <= MaxUnits -> "take"
                [] done + round > MaxUnits /\ Parallel -> "join"
                [] OTHER -> "returned"
  /\ UNCHANGED <<vars, called, done, round>>

(* The loop head.  A round's own dispatches are counted twice while they    *)
(* finish -- once in done, once in launched -- which only ends it sooner.  *)
DrainRoom ==
  /\ drain = "room"
  /\ drain' = CASE done + round < MaxUnits -> "take"
                [] done + round >= MaxUnits /\ Parallel -> "join"
                [] OTHER -> "returned"
  /\ UNCHANGED <<vars, called, done, round>>

DrainTake(t) ==
  /\ drain = "take"
  /\ TakeReady(t)
  /\ IF Parallel
     THEN /\ drain' = "handoff"
          /\ held' = t
          /\ round' = round + 1
          /\ UNCHANGED <<worker, runs>>
     ELSE /\ drain' = "running"
          /\ BeginRun(1, t)
          /\ UNCHANGED <<held, round>>
  /\ UNCHANGED <<otherVars, dispatched, called, done>>

DrainNothingReady ==
  /\ drain = "take"
  /\ \A t \in queue : ~Startable(t)
  /\ drain' = IF Parallel THEN "join" ELSE "returned"
  /\ UNCHANGED <<vars, called, done, round>>

DrainHandOff(w) ==
  /\ drain = "handoff"
  /\ worker[w].pc = "idle"
  /\ \A v \in Slot : worker[v].pc = "idle" => w <= v
  /\ BeginRun(w, held)
  /\ held' = NoTask
  /\ drain' = "room"
  /\ UNCHANGED <<queue, task, inFlight, otherVars, dispatched, called, done, round>>

(* Mutant: a round does not wait for its goroutines. *)
DrainJoinNoWait ==
  /\ drain = "join"
  /\ drain' = IF round = 0 THEN "returned" ELSE "room"
  /\ round' = 0
  /\ UNCHANGED <<vars, called, done>>

(* Mutant: Drain returns after its first round. *)
DrainJoinOnce ==
  /\ drain = "join"
  /\ CyclesDone
  /\ drain' = "returned"
  /\ round' = 0
  /\ UNCHANGED <<vars, called, done>>

(* wg.Wait, then the next round unless this one launched nothing.           *)
DrainJoin ==
  /\ drain = "join"
  /\ CyclesDone
  /\ drain' = IF round = 0 THEN "returned" ELSE "room"
  /\ round' = 0
  /\ UNCHANGED <<vars, called, done>>

(* Mutant: a goroutine ends without giving its token back. *)
DrainFinishKeepsToken(w) ==
  /\ \/ WorkerRecord(w) \/ WorkerRelease(w) \/ WorkerSignal(w)
  /\ UNCHANGED drainVars

(* A goroutine of the round: record, release and interrupt as under Run,    *)
(* then append to done, give the token back and leave the wait group.  The *)
(* serial Drain appends what Tick returns and goes on.                     *)
DrainFinish(w) ==
  IF Parallel
  THEN \/ /\ \/ WorkerRecord(w) \/ WorkerRelease(w) \/ WorkerSignal(w)
          /\ UNCHANGED drainVars
       \/ /\ WorkerExit(w)
          /\ done' = done + 1
          /\ UNCHANGED <<drain, called, round>>
  ELSE /\ worker[w].pc = "cycle"
       /\ dispatched' = [dispatched EXCEPT ![worker[w].task] = @ + 1]
       /\ worker' = [worker EXCEPT ![w] = IdleWorker]
       /\ done' = done + 1
       /\ drain' = "room"
       /\ UNCHANGED <<queue, task, inFlight, runs, held, otherVars, called, round>>

DrainStep ==
  \/ DrainRoom \/ DrainNothingReady \/ DrainJoin
  \/ \E t \in TaskId : DrainTake(t)
  \/ \E w \in Slot : DrainHandOff(w)

(* Once Drain has returned the program prints and ends: nothing more        *)
(* happens.                                                                *)
DrainNext ==
  /\ drain # "returned"
  /\ \/ DrainCall \/ DrainStep
     \/ \E w \in Slot : DrainFinish(w)
     \/ /\ \/ \E c \in Clients : ClientStep(c)
           \/ \E t \in TaskId : Cancel(t)
           \/ ClockTick
        /\ UNCHANGED drainVars

DrainSpec == DrainInit /\ [][DrainNext]_allVars

FairDrainSpec ==
  /\ DrainSpec
  /\ WF_allVars(DrainStep)
  /\ \A w \in Slot : WF_allVars(DrainFinish(w))

------------------------------------------------------------------------------
(* Properties *)

(* maxUnits bounds the work (kernel.go:338-339): what was collected and     *)
(* what is still under way never exceed it together.                       *)
UnitsBounded ==
  done + Cardinality({w \in Slot : worker[w].pc # "idle"})
       + Cardinality({held} \ {NoTask}) <= MaxUnits

(* Drain `runs every task that is ready right now' (kernel.go:337): unless  *)
(* it ran into the bound, every task that was ready when it was called has *)
(* run or was cancelled, whichever instances were busy in between; and its *)
(* goroutines are gone, with every reservation they held.                  *)
DrainLeavesNothing ==
  drain = "returned" =>
    /\ done < MaxUnits => \A t \in called : runs[t] > 0 \/ t \in withdrawn
    /\ held = NoTask /\ inFlight = {} /\ CyclesDone

(* Drain comes back: a full pool, a busy instance or a task that submits    *)
(* again cannot hold it for ever.                                          *)
DrainReturns == drain = "room" ~> drain = "returned"
==============================================================================
