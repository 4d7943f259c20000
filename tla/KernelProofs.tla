---------------------------- MODULE KernelProofs -----------------------------
(***************************************************************************)
(* Theorems about the scheduler of module Kernel, for every number of      *)
(* workers, instances, callers and tasks, and every mix of work; and, in   *)
(* the last sections, about Drain (module KernelDrain): it never works on  *)
(* more than maxUnits, and when it returns it has left nothing behind.     *)
(***************************************************************************)
EXTENDS KernelDrain, FiniteSetTheorems, TLAPS

(***************************************************************************)
(* The inductive invariant.  A reservation alone does not show that cycles *)
(* exclude each other: a step that reserves an instance must know that     *)
(* nobody holds it, hence that every holder's instance is in inFlight; a   *)
(* step that releases one must know that it is nobody else's, hence that   *)
(* holders have different instances; and both need the instance of a task  *)
(* in hand to stay what it was, hence that Enqueue writes an unused ID.    *)
(***************************************************************************)

(* Only IDs that were handed out are in use. *)
IdsInUse ==
  /\ queue \subseteq 1..nextID
  /\ held \in 0..nextID
  /\ \A w \in Slot : Holding(w) => worker[w].task \in 1..nextID

(* What the place of the loop says about its locals and the workers. *)
LoopState ==
  /\ held # NoTask <=> loop = "handoff"
  /\ loop = "handoff" => Parallel
  /\ loop = "off" => CyclesDone
  /\ ~Parallel => /\ inFlight = {}
                  /\ \A w \in Slot : /\ worker[w].pc \in {"idle", "cycle"}
                                     /\ worker[w].pc = "cycle" => loop = "tick"

(* Holders have reserved their instances, ... *)
HoldersReserved ==
  Parallel =>
    /\ \A w \in Slot : Holding(w) => InstOf(w) \in inFlight
    /\ held # NoTask => task[held].inst \in inFlight

(* ... different ones, ... *)
HoldersDiffer ==
  /\ \A v, w \in Slot : v # w /\ Holding(v) /\ Holding(w) => InstOf(v) # InstOf(w)
  /\ held # NoTask => \A w \in Slot : Holding(w) => InstOf(w) # task[held].inst

(* ... and nothing else is reserved. *)
NoLeak ==
  \A n \in inFlight : \/ \E w \in Slot : Holding(w) /\ InstOf(w) = n
                      \/ held # NoTask /\ task[held].inst = n

Reserving  == IdsInUse /\ HoldersReserved /\ HoldersDiffer /\ NoLeak
Discipline == Reserving /\ LoopState

IInv == TypeOK /\ Discipline

------------------------------------------------------------------------------
(* Types *)

LEMMA BlankIsTask == BlankTask \in Task
  BY NamesAssumption DEF BlankTask, Task

LEMMA InitTypes == Init => TypeOK
  <1> SUFFICES ASSUME Init PROVE TypeOK
    OBVIOUS
  <1>1. /\ task \in [TaskId -> Task]
        /\ client \in [Clients -> [pc : ClientPC, task : Task]]
    BY BlankIsTask DEF Init, IdleClient, ClientPC
  <1>2. worker \in [Slot -> [pc : WorkerPC, task : TaskId \cup {NoTask}]]
    BY DEF Init, IdleWorker, WorkerPC
  <1>3. nextID \in 0..MaxTasks
    BY BoundsAssumption DEF Init
  <1> QED
    BY <1>1, <1>2, <1>3 DEF Init, TypeOK, LoopPC

(* A caller of Submit keeps the types: the task it builds from its work is  *)
(* a Task, and the ID it takes is within the bound.                        *)
LEMMA ClientTypes ==
  ASSUME TypeOK, NEW c \in Clients, ClientStep(c)
  PROVE  TypeOK'
  <1> USE DEF TypeOK, kernelFields, runLocals
  <1>1. CASE Stamp(c)
    <2>1. PICK w \in Work :
            client' = [client EXCEPT ![c] =
              [pc   |-> "stamped",
               task |-> [inst |-> w.inst, every |-> w.every, delay |-> w.delay,
                         stamp |-> clock, due |-> clock + w.delay]]]
      BY <1>1 DEF Stamp
    <2>2. w.inst \in Names /\ w.every \in Nat /\ w.delay \in Nat
      BY WorkAssumption
    <2>3. [inst |-> w.inst, every |-> w.every, delay |-> w.delay,
           stamp |-> clock, due |-> clock + w.delay] \in Task
      BY <2>2 DEF Task
    <2>4. client' \in [Clients -> [pc : ClientPC, task : Task]]
      BY <2>1, <2>3 DEF ClientPC
    <2> QED
      BY <1>1, <2>4 DEF Stamp
  <1>2. CASE Enqueue(c)
    <2>1. nextID + 1 \in TaskId /\ nextID' \in 0..MaxTasks
      BY <1>2, BoundsAssumption DEF Enqueue, TaskId
    <2>2. task' \in [TaskId -> Task] /\ queue' \subseteq TaskId
      BY <1>2, <2>1 DEF Enqueue
    <2>3. client' \in [Clients -> [pc : ClientPC, task : Task]]
      BY <1>2 DEF Enqueue, ClientPC
    <2> QED
      BY <1>2, <2>1, <2>2, <2>3 DEF Enqueue
  <1>3. CASE Interrupt(c)
    <2>1. client' \in [Clients -> [pc : ClientPC, task : Task]]
      BY <1>3, BlankIsTask DEF Interrupt, IdleClient, ClientPC
    <2> QED
      BY <1>3, <2>1 DEF Interrupt
  <1> QED
    BY <1>1, <1>2, <1>3 DEF ClientStep

(* Taking a task re-arms or removes it and may reserve its instance.        *)
LEMMA TakeTypes ==
  ASSUME TypeOK, NEW t \in TaskId, TakeReady(t)
  PROVE  /\ queue' \subseteq TaskId
         /\ task' \in [TaskId -> Task]
         /\ inFlight' \subseteq Names
  <1>1. task[t] \in Task
    BY DEF TypeOK
  <1>2. NextDue(t) \in Nat
    BY <1>1 DEF NextDue, Recurring, Task, TypeOK
  <1>3. [task[t] EXCEPT !.due = NextDue(t)] \in Task
    BY <1>1, <1>2 DEF Task
  <1> QED
    BY <1>1, <1>3 DEF TakeReady, QueueWithout, TypeOK, Task

(* So does starting a run on a free slot. *)
LEMMA BeginTypes ==
  ASSUME TypeOK, NEW w \in Slot, NEW t \in TaskId, BeginRun(w, t)
  PROVE  /\ worker' \in [Slot -> [pc : WorkerPC, task : TaskId \cup {NoTask}]]
         /\ runs' \in [TaskId -> Nat]
  BY DEF TypeOK, BeginRun, WorkerPC

LEMMA LoopTypes ==
  ASSUME TypeOK, LoopState, LoopStep
  PROVE  TypeOK'
  <1> USE DEF kernelFields, runLocals
  <1>1. CASE RunTop
    BY <1>1 DEF RunTop, TypeOK, LoopPC
  <1>2. CASE RunReturn
    BY <1>2 DEF RunReturn, TypeOK, LoopPC
  <1>3. CASE LoopNothingReady
    BY <1>3 DEF LoopNothingReady, TypeOK, LoopPC
  <1>4. CASE PlanSleep
    <2>1. deadline' \in Nat \cup {Never}
      <3>1. ASSUME NEW t \in queue PROVE task[t].due \in Nat
        BY DEF TypeOK, Task
      <3> QED
        BY <1>4, <3>1 DEF PlanSleep
    <2> QED
      BY <1>4, <2>1 DEF PlanSleep, TypeOK, LoopPC
  <1>5. CASE WakeOnInterrupt
    BY <1>5 DEF WakeOnInterrupt, TypeOK, LoopPC
  <1>6. CASE WakeOnTimer
    BY <1>6 DEF WakeOnTimer, TypeOK, LoopPC
  <1>7. CASE WakeOnCancel
    BY <1>7 DEF WakeOnCancel, TypeOK, LoopPC
  <1>8. ASSUME NEW t \in TaskId, LoopTake(t)
        PROVE  TypeOK'
    <2>1. TakeReady(t)
      BY <1>8 DEF LoopTake
    <2>2. /\ queue' \subseteq TaskId
          /\ task' \in [TaskId -> Task]
          /\ inFlight' \subseteq Names
      BY <2>1, TakeTypes
    <2>3. CASE Parallel
      BY <1>8, <2>2, <2>3 DEF LoopTake, TypeOK, LoopPC
    <2>4. CASE ~Parallel
      <3>1. BeginRun(1, t) /\ 1 \in Slot
        BY <1>8, <2>4, WorkersAssumption DEF LoopTake, Slot
      <3>2. /\ worker' \in [Slot -> [pc : WorkerPC, task : TaskId \cup {NoTask}]]
            /\ runs' \in [TaskId -> Nat]
        BY <3>1, BeginTypes
      <3> QED
        BY <1>8, <2>2, <2>4, <3>2 DEF LoopTake, TypeOK, LoopPC
    <2> QED
      BY <2>3, <2>4
  <1>9. ASSUME NEW w \in Slot, LoopHandOff(w)
        PROVE  TypeOK'
    <2>1. held \in TaskId
      BY <1>9 DEF LoopHandOff, LoopState, TypeOK
    <2>2. /\ worker' \in [Slot -> [pc : WorkerPC, task : TaskId \cup {NoTask}]]
          /\ runs' \in [TaskId -> Nat]
      BY <1>9, <2>1, BeginTypes DEF LoopHandOff
    <2> QED
      BY <1>9, <2>2 DEF LoopHandOff, TypeOK, LoopPC
  <1> QED
    BY <1>1, <1>2, <1>3, <1>4, <1>5, <1>6, <1>7, <1>8, <1>9 DEF LoopStep

LEMMA WorkerTypes ==
  ASSUME TypeOK, IdsInUse, NEW w \in Slot, WorkerStep(w)
  PROVE  TypeOK'
  <1> USE DEF kernelFields, runLocals
  <1>1. CASE WorkerRecord(w)
    <2>1. worker[w].task \in TaskId
      BY <1>1, BoundsAssumption DEF WorkerRecord, IdsInUse, Holding, TypeOK, TaskId
    <2>2. dispatched' \in [TaskId -> Nat]
      BY <1>1, <2>1 DEF WorkerRecord, TypeOK
    <2>3. worker' \in [Slot -> [pc : WorkerPC, task : TaskId \cup {NoTask}]]
      BY <1>1 DEF WorkerRecord, TypeOK, IdleWorker, WorkerPC
    <2>4. loop' \in LoopPC
      BY <1>1 DEF WorkerRecord, TypeOK, LoopPC
    <2> QED
      BY <1>1, <2>2, <2>3, <2>4 DEF WorkerRecord, TypeOK
  <1>2. CASE WorkerRelease(w)
    <2>1. worker' \in [Slot -> [pc : WorkerPC, task : TaskId \cup {NoTask}]]
      BY <1>2 DEF WorkerRelease, TypeOK, IdleWorker, WorkerPC
    <2> QED
      BY <1>2, <2>1 DEF WorkerRelease, TypeOK
  <1>3. CASE WorkerSignal(w)
    <2>1. worker' \in [Slot -> [pc : WorkerPC, task : TaskId \cup {NoTask}]]
      BY <1>3 DEF WorkerSignal, TypeOK, WorkerPC
    <2> QED
      BY <1>3, <2>1 DEF WorkerSignal, TypeOK
  <1>4. CASE WorkerExit(w)
    <2>1. worker' \in [Slot -> [pc : WorkerPC, task : TaskId \cup {NoTask}]]
      BY <1>4 DEF WorkerExit, TypeOK, IdleWorker, WorkerPC
    <2> QED
      BY <1>4, <2>1 DEF WorkerExit, TypeOK
  <1> QED
    BY <1>1, <1>2, <1>3, <1>4 DEF WorkerStep

LEMMA NextTypes ==
  ASSUME TypeOK, IdsInUse, LoopState, [Next]_vars
  PROVE  TypeOK'
  <1> USE DEF kernelFields, runLocals
  <1>1. CASE \E t \in TaskId : Cancel(t)
    BY <1>1 DEF Cancel, TypeOK
  <1>2. CASE RunStart \/ CancelContext
    BY <1>2 DEF RunStart, CancelContext, TypeOK, LoopPC
  <1>3. CASE ClockTick
    BY <1>3 DEF ClockTick, TypeOK
  <1>4. CASE UNCHANGED vars
    BY <1>4 DEF vars, TypeOK
  <1> QED
    BY <1>1, <1>2, <1>3, <1>4, ClientTypes, LoopTypes, WorkerTypes DEF Next

------------------------------------------------------------------------------
(* The reservation discipline *)

LEMMA InitDiscipline == Init => Discipline
  BY DEF Init, Discipline, Reserving, IdsInUse, LoopState, HoldersReserved,
         HoldersDiffer, NoLeak, Holding, IdleWorker, CyclesDone, NoTask

(***************************************************************************)
(* First what each step does to the reservations, whoever takes the tasks: *)
(* Run here, Drain in the last sections.                                   *)
(***************************************************************************)

(* Steps that reserve, release, take and hand over nothing. *)
LEMMA ReservingKept ==
  ASSUME Reserving, UNCHANGED <<task, inFlight, nextID, held, worker>>,
         queue' \subseteq queue
  PROVE  Reserving'
  BY DEF Reserving, IdsInUse, HoldersReserved, HoldersDiffer, NoLeak, Holding, InstOf

(* Enqueue writes a task nobody holds. *)
LEMMA EnqueueReserving ==
  ASSUME TypeOK, Reserving, NEW c \in Clients, Enqueue(c)
  PROVE  Reserving'
  <1>1. /\ nextID \in Nat
        /\ \A t \in 1..nextID : t \in TaskId /\ task'[t] = task[t]
        /\ UNCHANGED <<held, worker, inFlight>>
    BY BoundsAssumption DEF Enqueue, TypeOK, TaskId, runLocals
  <1>2. \A w \in Slot : Holding(w)' <=> Holding(w)
    BY <1>1 DEF Holding
  <1>3. \A w \in Slot : Holding(w) => InstOf(w)' = InstOf(w)
    BY <1>1 DEF InstOf, Reserving, IdsInUse
  <1>4. held # NoTask => task'[held] = task[held]
    BY <1>1 DEF Reserving, IdsInUse, NoTask
  <1>5. IdsInUse'
    BY <1>1, <1>2 DEF Reserving, IdsInUse, Enqueue
  <1>6. HoldersReserved'
    BY <1>1, <1>2, <1>3, <1>4 DEF Reserving, HoldersReserved
  <1>7. HoldersDiffer'
    BY <1>1, <1>2, <1>3, <1>4 DEF Reserving, HoldersDiffer
  <1>8. NoLeak'
    BY <1>1, <1>2, <1>3, <1>4 DEF Reserving, NoLeak
  <1> QED
    BY <1>5, <1>6, <1>7, <1>8 DEF Reserving

(* Taking a task never changes the instance of any task. *)
LEMMA TakeKeepsInstances ==
  ASSUME TypeOK, NEW t \in TaskId, TakeReady(t)
  PROVE  \A u \in TaskId : task'[u].inst = task[u].inst
  BY DEF TakeReady, TypeOK, Task

(* A taken task is in nobody's hand but the loop's, and its instance was    *)
(* free.                                                                   *)
LEMMA TakeReserving ==
  ASSUME TypeOK, Reserving, NEW t \in TaskId, TakeReady(t), Parallel,
         held = NoTask, held' = t, UNCHANGED <<nextID, worker>>
  PROVE  Reserving' /\ held' # NoTask
  <1>1. t \in 1..nextID /\ queue' \subseteq queue
    BY DEF TakeReady, Startable, QueueWithout, Reserving, IdsInUse
  <1>2. \A u \in 1..nextID : u \in TaskId /\ task'[u].inst = task[u].inst
    <2>1. 1..nextID \subseteq TaskId
      BY BoundsAssumption DEF TypeOK, TaskId
    <2> QED
      BY <2>1, TakeKeepsInstances
  <1>3. /\ inFlight' = inFlight \cup {task[t].inst}
        /\ task[t].inst \notin inFlight
    BY DEF TakeReady, Startable
  <1>4. \A w \in Slot : /\ Holding(w)' <=> Holding(w)
                        /\ Holding(w) => InstOf(w)' = InstOf(w)
    BY <1>2 DEF Holding, InstOf, Reserving, IdsInUse
  <1>5. task'[held'].inst = task[t].inst
    BY <1>1, <1>2
  <1>6. IdsInUse'
    BY <1>1, <1>4 DEF Reserving, IdsInUse
  <1>7. HoldersReserved'
    BY <1>3, <1>4, <1>5 DEF Reserving, HoldersReserved
  <1>8. HoldersDiffer'
    BY <1>3, <1>4, <1>5 DEF Reserving, HoldersDiffer, HoldersReserved
  <1>9. NoLeak'
    BY <1>1, <1>3, <1>4, <1>5 DEF Reserving, NoLeak, NoTask
  <1> QED
    BY <1>1, <1>6, <1>7, <1>8, <1>9 DEF Reserving, NoTask

(* Without a pool nothing is reserved, and there is one slot. *)
LEMMA SerialReserving ==
  ASSUME TypeOK', ~Parallel, inFlight' = {}, held' = NoTask, nextID' \in Nat,
         queue' \subseteq 1..nextID',
         \A w \in Slot : Holding(w)' => worker'[w].task \in 1..nextID'
  PROVE  Reserving'
  <1>1. Slot = {1}
    BY WorkersAssumption DEF Slot, Parallel
  <1>2. IdsInUse'
    BY DEF IdsInUse, NoTask
  <1>3. HoldersReserved' /\ HoldersDiffer' /\ NoLeak'
    BY <1>1 DEF HoldersReserved, HoldersDiffer, NoLeak
  <1> QED
    BY <1>2, <1>3 DEF Reserving

(* The reservation passes from the loop's hand to the worker. *)
LEMMA HandOffReserving ==
  ASSUME TypeOK, Reserving, Parallel, NEW w \in Slot, BeginRun(w, held),
         worker[w].pc = "idle", held # NoTask, held' = NoTask,
         UNCHANGED <<queue, task, inFlight, nextID>>
  PROVE  Reserving'
  <1>1. /\ worker' = [worker EXCEPT ![w] = [pc |-> "cycle", task |-> held]]
        /\ ~Holding(w)
    BY DEF BeginRun, Holding
  <1>2. held \in 1..nextID
    BY DEF Reserving, IdsInUse, NoTask
  <1>3. Holding(w)' /\ InstOf(w)' = task[held].inst
    BY <1>1 DEF Holding, InstOf, TypeOK
  <1>4. \A v \in Slot \ {w} : (Holding(v)' <=> Holding(v)) /\ InstOf(v)' = InstOf(v)
    BY <1>1 DEF Holding, InstOf, TypeOK
  <1>5. IdsInUse'
    BY <1>1, <1>2, <1>4 DEF Reserving, IdsInUse, NoTask, TypeOK
  <1>6. HoldersReserved'
    BY <1>1, <1>2, <1>3, <1>4 DEF Reserving, HoldersReserved
  <1>7. HoldersDiffer'
    BY <1>1, <1>2, <1>3, <1>4 DEF Reserving, HoldersDiffer
  <1>8. NoLeak'
    BY <1>1, <1>2, <1>3, <1>4 DEF Reserving, NoLeak
  <1> QED
    BY <1>5, <1>6, <1>7, <1>8 DEF Reserving

(* The end of a run keeps the reservation: the worker is a holder until it  *)
(* has released.                                                           *)
LEMMA RecordReserving ==
  ASSUME TypeOK, Reserving, Parallel, NEW w \in Slot, WorkerRecord(w)
  PROVE  Reserving'
  <1>1. /\ worker[w].pc = "cycle" /\ worker' = [worker EXCEPT ![w].pc = "release"]
        /\ UNCHANGED <<queue, task, inFlight, nextID, held>>
    BY DEF WorkerRecord, kernelFields
  <1>2. \A v \in Slot : /\ Holding(v)' <=> Holding(v)
                        /\ worker'[v].task = worker[v].task
                        /\ InstOf(v)' = InstOf(v)
    BY <1>1 DEF Holding, InstOf, TypeOK
  <1> QED
    BY <1>1, <1>2 DEF Reserving, IdsInUse, HoldersReserved, HoldersDiffer, NoLeak

(* The released instance was this worker's and nobody else's. *)
LEMMA ReleaseReserving ==
  ASSUME TypeOK, Reserving, Parallel, NEW w \in Slot, WorkerRelease(w)
  PROVE  Reserving'
  <1>1. /\ worker[w].pc = "release"
        /\ inFlight' = inFlight \ {InstOf(w)}
        /\ worker' = [worker EXCEPT ![w] = [pc |-> "signal", task |-> NoTask]]
        /\ UNCHANGED <<queue, task, nextID, held>>
    BY DEF WorkerRelease, InstOf, runLocals
  <1>2. Holding(w) /\ ~Holding(w)'
    BY <1>1 DEF Holding, TypeOK
  <1>3. \A v \in Slot \ {w} : (Holding(v)' <=> Holding(v)) /\ InstOf(v)' = InstOf(v)
    BY <1>1 DEF Holding, InstOf, TypeOK
  <1>4. IdsInUse'
    BY <1>1, <1>2, <1>3 DEF Reserving, IdsInUse, TypeOK
  <1>5. HoldersReserved'
    BY <1>1, <1>2, <1>3 DEF Reserving, HoldersReserved, HoldersDiffer
  <1>6. HoldersDiffer'
    BY <1>1, <1>2, <1>3 DEF Reserving, HoldersDiffer
  <1>7. NoLeak'
    BY <1>1, <1>2, <1>3 DEF Reserving, NoLeak
  <1> QED
    BY <1>4, <1>5, <1>6, <1>7 DEF Reserving

(* After the release a worker holds nothing. *)
LEMMA SignalExitReserving ==
  ASSUME TypeOK, Reserving, NEW w \in Slot, WorkerSignal(w) \/ WorkerExit(w)
  PROVE  /\ Reserving'
         /\ worker[w].pc \in {"signal", "exit"} /\ worker'[w].pc \in {"exit", "idle"}
         /\ \A v \in Slot \ {w} : worker'[v] = worker[v]
  <1>1. /\ worker[w].pc \in {"signal", "exit"}
        /\ \A v \in Slot \ {w} : worker'[v] = worker[v]
        /\ worker'[w].pc \in {"exit", "idle"}
        /\ UNCHANGED <<queue, task, inFlight, nextID, held>>
    BY DEF WorkerSignal, WorkerExit, IdleWorker, kernelFields, runLocals, TypeOK
  <1>2. \A v \in Slot : (Holding(v)' <=> Holding(v)) /\ (Holding(v) => InstOf(v)' = InstOf(v))
    BY <1>1 DEF Holding, InstOf
  <1>3. IdsInUse'
    BY <1>1, <1>2 DEF Reserving, IdsInUse, Holding
  <1>4. HoldersReserved' /\ HoldersDiffer' /\ NoLeak'
    BY <1>1, <1>2 DEF Reserving, HoldersReserved, HoldersDiffer, NoLeak
  <1> QED
    BY <1>1, <1>3, <1>4 DEF Reserving

(***************************************************************************)
(* Then with the place of the loop.                                        *)
(***************************************************************************)

(* Steps that only move the loop between places where it holds nothing.     *)
LEMMA LoopMoves ==
  ASSUME Discipline, UNCHANGED <<task, inFlight, nextID, held, worker>>,
         queue' \subseteq queue,
         loop' = loop \/ /\ loop \notin {"handoff", "tick"}
                         /\ loop' \notin {"handoff", "tick"}
                         /\ loop' = "off" => CyclesDone
  PROVE  Discipline'
  <1>1. Reserving'
    BY ReservingKept DEF Discipline
  <1>2. LoopState'
    BY DEF Discipline, LoopState, CyclesDone
  <1> QED
    BY <1>1, <1>2 DEF Discipline

LEMMA EnqueueDiscipline ==
  ASSUME TypeOK, Discipline, NEW c \in Clients, Enqueue(c)
  PROVE  Discipline'
  <1>1. UNCHANGED <<held, worker, inFlight, loop>>
    BY DEF Enqueue, runLocals
  <1>2. LoopState'
    BY <1>1 DEF Discipline, LoopState, CyclesDone
  <1> QED
    BY <1>2, EnqueueReserving DEF Discipline

LEMMA TakeDiscipline ==
  ASSUME TypeOK, Discipline, TypeOK', NEW t \in TaskId, LoopTake(t)
  PROVE  Discipline'
  <1>1. TakeReady(t) /\ loop = "scan" /\ UNCHANGED nextID
    BY DEF LoopTake
  <1>2. held = NoTask
    BY <1>1 DEF Discipline, LoopState
  <1>3. CASE Parallel
    <2>1. loop' = "handoff" /\ held' = t /\ UNCHANGED worker
      BY <1>1, <1>3 DEF LoopTake
    <2>2. Reserving' /\ held' # NoTask
      BY <1>1, <1>2, <1>3, <2>1, TakeReserving DEF Discipline
    <2>3. LoopState'
      BY <1>3, <2>1, <2>2 DEF Discipline, LoopState
    <2> QED
      BY <2>2, <2>3 DEF Discipline
  <1>4. CASE ~Parallel
    <2>1. /\ loop' = "tick" /\ UNCHANGED <<held, inFlight>>
          /\ worker' = [worker EXCEPT ![1] = [pc |-> "cycle", task |-> t]]
      BY <1>1, <1>4 DEF LoopTake, TakeReady, BeginRun
    <2>2. Slot = {1}
      BY <1>4, WorkersAssumption DEF Slot, Parallel
    <2>3. t \in 1..nextID /\ queue' \subseteq 1..nextID
      BY <1>1 DEF TakeReady, Startable, QueueWithout, Discipline, Reserving, IdsInUse
    <2>4. LoopState'
      BY <1>1, <1>2, <1>4, <2>1, <2>2 DEF Discipline, LoopState, TypeOK
    <2>5. \A w \in Slot : worker'[w].task = t
      BY <2>1, <2>2 DEF TypeOK
    <2>6. nextID' \in Nat /\ inFlight' = {} /\ held' = NoTask
      BY <1>1, <1>2, <1>4, <2>1, BoundsAssumption DEF TypeOK, Discipline, LoopState
    <2>7. Reserving'
      BY <1>1, <1>4, <2>3, <2>5, <2>6, SerialReserving
    <2> QED
      BY <2>4, <2>7 DEF Discipline
  <1> QED
    BY <1>3, <1>4

LEMMA HandOffDiscipline ==
  ASSUME TypeOK, Discipline, NEW w \in Slot, LoopHandOff(w)
  PROVE  Discipline'
  <1>1. /\ worker[w].pc = "idle" /\ BeginRun(w, held)
        /\ loop = "handoff" /\ loop' = "scan" /\ held' = NoTask
        /\ UNCHANGED <<queue, task, inFlight, nextID>>
    BY DEF LoopHandOff
  <1>2. Parallel /\ held # NoTask
    BY <1>1 DEF Discipline, LoopState
  <1>3. LoopState'
    BY <1>1, <1>2 DEF Discipline, LoopState
  <1>4. Reserving'
    BY <1>1, <1>2, HandOffReserving DEF Discipline
  <1> QED
    BY <1>3, <1>4 DEF Discipline

(* The serial loop held no reservation and returns to its head. *)
LEMMA RecordDiscipline ==
  ASSUME TypeOK, Discipline, TypeOK', NEW w \in Slot, WorkerRecord(w)
  PROVE  Discipline'
  <1>1. worker[w].pc = "cycle" /\ UNCHANGED <<queue, task, inFlight, nextID, held>>
    BY DEF WorkerRecord, kernelFields
  <1>2. CASE Parallel
    <2>1. worker' = [worker EXCEPT ![w].pc = "release"] /\ loop' = loop
      BY <1>2 DEF WorkerRecord
    <2>2. loop # "off"
      BY <1>1 DEF Discipline, LoopState, CyclesDone
    <2>3. LoopState'
      BY <1>1, <1>2, <2>1, <2>2 DEF Discipline, LoopState
    <2> QED
      BY <1>2, <2>3, RecordReserving DEF Discipline
  <1>3. CASE ~Parallel
    <2>1. worker' = [worker EXCEPT ![w] = IdleWorker] /\ loop' = "top" /\ loop = "tick"
      BY <1>1, <1>3 DEF WorkerRecord, Discipline, LoopState
    <2>2. Slot = {1} /\ held = NoTask /\ inFlight = {}
      BY <1>3, <2>1, WorkersAssumption DEF Slot, Parallel, Discipline, LoopState
    <2>3. LoopState'
      BY <1>1, <1>3, <2>1, <2>2 DEF Discipline, LoopState, IdleWorker, TypeOK
    <2>4. \A v \in Slot : ~Holding(v)'
      BY <2>1, <2>2 DEF Holding, IdleWorker, TypeOK
    <2>5. queue' \subseteq 1..nextID' /\ nextID' \in Nat
      BY <1>1, BoundsAssumption DEF Discipline, Reserving, IdsInUse, TypeOK
    <2>6. Reserving'
      BY <1>1, <1>3, <2>2, <2>4, <2>5, SerialReserving
    <2> QED
      BY <2>3, <2>6 DEF Discipline
  <1> QED
    BY <1>2, <1>3

LEMMA ReleaseDiscipline ==
  ASSUME TypeOK, Discipline, NEW w \in Slot, WorkerRelease(w)
  PROVE  Discipline'
  <1>1. /\ worker[w].pc = "release"
        /\ worker' = [worker EXCEPT ![w] = [pc |-> "signal", task |-> NoTask]]
        /\ UNCHANGED <<held, loop>>
    BY DEF WorkerRelease, runLocals
  <1>2. Parallel
    BY <1>1 DEF Discipline, LoopState
  <1>3. LoopState'
    BY <1>1, <1>2 DEF Discipline, LoopState, CyclesDone
  <1> QED
    BY <1>2, <1>3, ReleaseReserving DEF Discipline

LEMMA SignalExitDiscipline ==
  ASSUME TypeOK, Discipline, NEW w \in Slot, WorkerSignal(w) \/ WorkerExit(w)
  PROVE  Discipline'
  <1>1. UNCHANGED <<inFlight, held, loop>>
    BY DEF WorkerSignal, WorkerExit, kernelFields, runLocals
  <1>2. /\ Reserving'
        /\ worker[w].pc \in {"signal", "exit"} /\ worker'[w].pc \in {"exit", "idle"}
        /\ \A v \in Slot \ {w} : worker'[v] = worker[v]
    BY SignalExitReserving DEF Discipline
  <1>3. LoopState'
    BY <1>1, <1>2 DEF Discipline, LoopState, CyclesDone
  <1> QED
    BY <1>2, <1>3 DEF Discipline

LEMMA NextDiscipline ==
  ASSUME TypeOK, Discipline, TypeOK', [Next]_vars
  PROVE  Discipline'
  <1> USE DEF kernelFields, runLocals
  <1>1. ASSUME NEW c \in Clients, ClientStep(c)
        PROVE  Discipline'
    <2>1. CASE Stamp(c)
      BY <2>1, LoopMoves DEF Stamp
    <2>2. CASE Interrupt(c)
      BY <2>2, LoopMoves DEF Interrupt
    <2> QED
      BY <1>1, <2>1, <2>2, EnqueueDiscipline DEF ClientStep
  <1>2. CASE \E t \in TaskId : Cancel(t)
    BY <1>2, LoopMoves DEF Cancel
  <1>3. CASE RunStart
    BY <1>3, LoopMoves DEF RunStart
  <1>4. CASE CancelContext
    BY <1>4, LoopMoves DEF CancelContext
  <1>5. CASE ClockTick
    BY <1>5, LoopMoves DEF ClockTick
  <1>6. ASSUME LoopStep
        PROVE  Discipline'
    <2>1. CASE RunTop
      BY <2>1, LoopMoves DEF RunTop
    <2>2. CASE RunReturn
      BY <2>2, LoopMoves DEF RunReturn
    <2>3. CASE LoopNothingReady
      BY <2>3, LoopMoves DEF LoopNothingReady
    <2>4. CASE PlanSleep
      BY <2>4, LoopMoves DEF PlanSleep
    <2>5. CASE WakeOnInterrupt \/ WakeOnTimer \/ WakeOnCancel
      BY <2>5, LoopMoves DEF WakeOnInterrupt, WakeOnTimer, WakeOnCancel
    <2> QED
      BY <1>6, <2>1, <2>2, <2>3, <2>4, <2>5, TakeDiscipline, HandOffDiscipline DEF LoopStep
  <1>7. ASSUME NEW w \in Slot, WorkerStep(w)
        PROVE  Discipline'
    BY <1>7, RecordDiscipline, ReleaseDiscipline, SignalExitDiscipline DEF WorkerStep
  <1>8. CASE UNCHANGED vars
    BY <1>8, LoopMoves DEF vars
  <1> QED
    BY <1>1, <1>2, <1>3, <1>4, <1>5, <1>6, <1>7, <1>8 DEF Next

------------------------------------------------------------------------------
(* The theorems *)

(* Every reachable state of the scheduler satisfies the reservation         *)
(* discipline: the inductive invariant all theorems below rest on.         *)
THEOREM Invariance == Spec => []IInv
  <1>1. Init => IInv
    BY InitTypes, InitDiscipline DEF IInv
  <1>2. IInv /\ [Next]_vars => IInv'
    BY NextTypes, NextDiscipline DEF IInv, Discipline, Reserving
  <1> QED
    BY <1>1, <1>2, PTL DEF Spec

(* Types: what Submit, takeReady, Run and its goroutines may write to the   *)
(* kernel's fields.                                                        *)
THEOREM TypeCorrect == Spec => []TypeOK
  <1>1. IInv => TypeOK
    BY DEF IInv
  <1> QED
    BY <1>1, Invariance, PTL

(* kernel.go:49-53 for every pool size, fleet and mix of tasks: two workers *)
(* never run cycles of the same instance at once.                          *)
THEOREM SingleWriterPerInstance == Spec => []OneCyclePerInstance
  <1>1. IInv => OneCyclePerInstance
    BY DEF IInv, Discipline, Reserving, HoldersDiffer, OneCyclePerInstance, Busy, Holding
  <1> QED
    BY <1>1, Invariance, PTL

(* takeReady and dispatchAndRelease (kernel.go:358-392, 472-483): an        *)
(* instance is reserved exactly while somebody holds it, so no reservation *)
(* leaks and none is given up early.                                       *)
THEOREM ReservationsExact == Spec => []ReservationsOwned
  <1>1. IInv => ReservationsOwned
    <2> SUFFICES ASSUME IInv PROVE ReservationsOwned
      OBVIOUS
    <2>1. CASE ~Parallel
      BY <2>1 DEF IInv, Discipline, LoopState, ReservationsOwned
    <2>2. CASE Parallel
      <3> DEFINE Held == {InstOf(w) : w \in {v \in Slot : Holding(v)}}
                         \cup {task[t].inst : t \in {held} \ {NoTask}}
      <3>1. inFlight \subseteq Held
        BY DEF IInv, Discipline, Reserving, NoLeak
      <3>2. Held \subseteq inFlight
        BY <2>2 DEF IInv, Discipline, Reserving, HoldersReserved
      <3> QED
        BY <2>2, <3>1, <3>2 DEF ReservationsOwned
    <2> QED
      BY <2>1, <2>2
  <1> QED
    BY <1>1, Invariance, PTL

(* Run's contract on return (kernel.go:603-605): every goroutine is done,   *)
(* no task is in hand and no instance is reserved.                         *)
THEOREM ReturnIsQuiet == Spec => []ReturnedRunIsQuiet
  <1>1. IInv => ReturnedRunIsQuiet
    <2> SUFFICES ASSUME IInv, loop = "off"
                 PROVE  held = NoTask /\ inFlight = {} /\ CyclesDone
      BY DEF ReturnedRunIsQuiet
    <2>1. held = NoTask /\ CyclesDone
      BY DEF IInv, Discipline, LoopState
    <2>2. inFlight = {}
      BY <2>1 DEF IInv, Discipline, Reserving, NoLeak, CyclesDone, Holding
    <2> QED
      BY <2>1, <2>2
  <1> QED
    BY <1>1, Invariance, PTL

------------------------------------------------------------------------------
(***************************************************************************)
(* What the scheduler does with each task: none is lost or run twice,      *)
(* tasks of one instance keep their order, none runs ahead of its          *)
(* schedule, and the loop sleeps only when it may.  This rests on the      *)
(* reservation discipline above: that holders of tasks have different      *)
(* instances is why no two of them hold one task.                          *)
(***************************************************************************)

(***************************************************************************)
(* The invariants.  Custody: the accounting of one-shot tasks goes on only *)
(* if an ID that Submit has yet to hand out has no history.                *)
(***************************************************************************)
FreshIds ==
  \A t \in TaskId : t > nextID => /\ t \notin withdrawn
                                  /\ dispatched[t] = 0
                                  /\ runs[t] = 0

Custody == FreshIds /\ OneShotAccounted

(* The schedule: the due time of a task is ahead of its first by a period   *)
(* for every time it was taken, a run the loop has in hand and dispatch has *)
(* not counted included; and a caller that stamped a task made it due after *)
(* its delay.                                                              *)
FirstDue(t) == task[t].stamp + task[t].delay
Taken(t)    == IF held = t THEN runs[t] + 1 ELSE runs[t]

Schedule ==
  /\ \A c \in Clients : client[c].pc = "stamped" =>
       client[c].task.due = client[c].task.stamp + client[c].task.delay
  /\ \A t \in 1..nextID :
       /\ FirstDue(t) + Taken(t) * task[t].every <= task[t].due
       /\ Taken(t) > 0 => FirstDue(t) + (Taken(t) - 1) * task[t].every <= clock

(* The sleep: what SleepsOnlyWhenIdle says is true from the scan that found *)
(* nothing, before the loop has planned its sleep.                         *)
Idle ==
  loop \in {"plan", "sleep"} /\ ~InterruptComing =>
    \A t \in queue : \/ task[t].due > scanned
                     \/ task[t].inst \in inFlight

------------------------------------------------------------------------------
(* Steps that move no task: they leave the queue, the tasks, their history  *)
(* and the hands they are in alone.                                        *)
QuietStep ==
  /\ UNCHANGED <<queue, task, nextID, held, runs, dispatched, withdrawn>>
  /\ clock <= clock'
  /\ \A w \in Slot : /\ Busy(w)' <=> Busy(w)
                     /\ Busy(w) => worker'[w].task = worker[w].task
  /\ \A c \in Clients : client'[c].pc = "stamped" =>
       client'[c].task.due = client'[c].task.stamp + client'[c].task.delay

LEMMA QuietSteps ==
  ASSUME IInv, Schedule, [Next]_vars
  PROVE  \/ QuietStep
         \/ \E c \in Clients : Enqueue(c)
         \/ \E t \in TaskId : Cancel(t) \/ LoopTake(t)
         \/ \E w \in Slot : LoopHandOff(w) \/ WorkerRecord(w)
  <1> USE DEF kernelFields, runLocals
  <1>1. ASSUME NEW c \in Clients, Stamp(c)
        PROVE  QuietStep
    <2>1. PICK k \in Work :
            client' = [client EXCEPT ![c] =
              [pc   |-> "stamped",
               task |-> [inst |-> k.inst, every |-> k.every, delay |-> k.delay,
                         stamp |-> clock, due |-> clock + k.delay]]]
      BY <1>1 DEF Stamp
    <2>2. \A d \in Clients : client'[d].pc = "stamped" =>
            client'[d].task.due = client'[d].task.stamp + client'[d].task.delay
      BY <2>1 DEF IInv, TypeOK, Schedule
    <2> QED
      BY <1>1, <2>2 DEF Stamp, QuietStep, Busy, IInv, TypeOK
  <1>2. ASSUME NEW c \in Clients, Interrupt(c)
        PROVE  QuietStep
    <2>1. \A d \in Clients : client'[d].pc = "stamped" =>
            client'[d].task.due = client'[d].task.stamp + client'[d].task.delay
      BY <1>2 DEF Interrupt, IdleClient, IInv, TypeOK, Schedule
    <2> QED
      BY <1>2, <2>1 DEF Interrupt, QuietStep, Busy, IInv, TypeOK
  <1>3. ASSUME \/ RunStart \/ CancelContext \/ RunTop \/ RunReturn
               \/ LoopNothingReady \/ PlanSleep
               \/ WakeOnInterrupt \/ WakeOnTimer \/ WakeOnCancel \/ UNCHANGED vars
        PROVE  QuietStep
    <2>1. UNCHANGED <<queue, task, nextID, held, runs, dispatched, withdrawn,
                      clock, worker, client>>
      BY <1>3 DEF RunStart, CancelContext, RunTop, RunReturn, LoopNothingReady,
                  PlanSleep, WakeOnInterrupt, WakeOnTimer, WakeOnCancel, vars
    <2> QED
      BY <2>1 DEF QuietStep, Busy, Schedule, IInv, TypeOK
  <1>4. ASSUME ClockTick
        PROVE  QuietStep
    BY <1>4 DEF ClockTick, QuietStep, Busy, Schedule, IInv, TypeOK
  <1>5. ASSUME NEW w \in Slot, WorkerRelease(w) \/ WorkerSignal(w) \/ WorkerExit(w)
        PROVE  QuietStep
    <2>1. /\ UNCHANGED <<queue, task, nextID, held, runs, dispatched, withdrawn,
                         clock, client>>
          /\ worker[w].pc \in {"release", "signal", "exit"}
          /\ worker'[w].pc \in {"signal", "exit", "idle"}
          /\ \A v \in Slot \ {w} : worker'[v] = worker[v]
      BY <1>5 DEF WorkerRelease, WorkerSignal, WorkerExit, IdleWorker, IInv, TypeOK
    <2> QED
      BY <2>1 DEF QuietStep, Busy, Schedule, IInv, TypeOK
  <1> QED
    BY <1>1, <1>2, <1>3, <1>4, <1>5 DEF Next, ClientStep, LoopStep, WorkerStep

(* takeReady changes nothing of a task but when it is due next, and of a    *)
(* one-shot task not even that.                                            *)
LEMMA TakeKeepsWork ==
  ASSUME TypeOK, NEW t \in TaskId, TakeReady(t)
  PROVE  \A u \in TaskId :
           /\ task'[u].inst  = task[u].inst
           /\ task'[u].every = task[u].every
           /\ task'[u].delay = task[u].delay
           /\ task'[u].stamp = task[u].stamp
           /\ task'[u].due   = IF u = t THEN NextDue(t) ELSE task[u].due
  BY DEF TakeReady, TypeOK, Task

------------------------------------------------------------------------------
(* Custody of one-shot tasks *)

LEMMA QuietCustody ==
  ASSUME Custody, QuietStep
  PROVE  Custody'
  <1>1. \A t \in 1..nextID : InHand(t)' <=> InHand(t)
    BY DEF QuietStep, InHand
  <1>2. FreshIds'
    BY DEF Custody, FreshIds, QuietStep
  <1>3. OneShotAccounted'
    BY <1>1 DEF Custody, OneShotAccounted, Recurring, QuietStep
  <1> QED
    BY <1>2, <1>3 DEF Custody

(* Enqueue hands out the next ID: the new task is in the queue and, having  *)
(* had no history, nowhere else.                                           *)
LEMMA EnqueueCustody ==
  ASSUME IInv, Custody, NEW c \in Clients, Enqueue(c)
  PROVE  Custody'
  <1> DEFINE n == nextID + 1
  <1>1. /\ nextID \in Nat /\ n \in TaskId /\ nextID' = n
        /\ queue' = queue \cup {n}
        /\ \A t \in 1..nextID : t \in TaskId /\ t # n /\ task'[t] = task[t]
        /\ UNCHANGED <<held, worker, withdrawn, dispatched, runs>>
    BY BoundsAssumption DEF Enqueue, IInv, TypeOK, TaskId, runLocals
  <1>2. \A t \in TaskId : InHand(t)' <=> InHand(t)
    BY <1>1 DEF InHand, Busy
  <1>3. n \notin queue /\ ~InHand(n) /\ n \notin withdrawn /\ dispatched[n] = 0
    BY <1>1 DEF IInv, Discipline, Reserving, IdsInUse, InHand, Busy, Holding, Custody, FreshIds
  <1>4. FreshIds'
    BY <1>1 DEF Custody, FreshIds, TaskId
  <1>5. ASSUME NEW t \in 1..nextID', ~Recurring(t)'
        PROVE  LET queued    == IF t \in queue' THEN 1 ELSE 0
                   inHand    == IF InHand(t)' THEN 1 ELSE 0
                   cancelled == IF t \in withdrawn' THEN 1 ELSE 0
               IN queued + inHand + cancelled + dispatched'[t] = 1
    <2>1. CASE t = n
      BY <1>1, <1>2, <1>3, <2>1
    <2>2. CASE t # n
      <3>1. t \in 1..nextID /\ ~Recurring(t)
        BY <1>1, <1>5, <2>2 DEF Recurring
      <3> QED
        BY <1>1, <1>2, <2>2, <3>1 DEF Custody, OneShotAccounted
    <2> QED
      BY <2>1, <2>2
  <1> QED
    BY <1>4, <1>5 DEF Custody, OneShotAccounted

(* Cancel moves a task from the queue to the cancelled ones. *)
LEMMA CancelCustody ==
  ASSUME IInv, Custody, NEW x \in TaskId, Cancel(x)
  PROVE  Custody'
  <1>1. /\ x \in queue /\ queue' = queue \ {x} /\ withdrawn' = withdrawn \cup {x}
        /\ UNCHANGED <<task, nextID, held, worker, dispatched, runs>>
    BY DEF Cancel, runLocals
  <1>2. x \in 1..nextID /\ nextID \in Nat
    BY <1>1 DEF IInv, TypeOK, Discipline, Reserving, IdsInUse
  <1>3. \A t \in TaskId : InHand(t)' <=> InHand(t)
    BY <1>1 DEF InHand, Busy
  <1>4. FreshIds'
    BY <1>1, <1>2 DEF Custody, FreshIds
  <1>5. ASSUME NEW t \in 1..nextID, ~Recurring(t)
        PROVE  LET queued    == IF t \in queue' THEN 1 ELSE 0
                   inHand    == IF InHand(t) THEN 1 ELSE 0
                   cancelled == IF t \in withdrawn' THEN 1 ELSE 0
               IN queued + inHand + cancelled + dispatched[t] = 1
    <2>1. dispatched[t] \in Nat
      BY BoundsAssumption DEF IInv, TypeOK, TaskId
    <2> QED
      BY <1>1, <1>5, <2>1 DEF Custody, OneShotAccounted
  <1>6. \A t \in 1..nextID : InHand(t)' <=> InHand(t)
    BY <1>3, BoundsAssumption DEF IInv, TypeOK, TaskId
  <1> QED
    BY <1>1, <1>4, <1>5, <1>6 DEF Custody, OneShotAccounted, Recurring

(* The loop has nothing in hand when it takes a task, so the task it takes  *)
(* -- which leaves the queue if it does not recur -- is in its hand alone.  *)
LEMMA TakeCustody ==
  ASSUME IInv, Custody, NEW x \in TaskId, LoopTake(x)
  PROVE  Custody'
  <1>1. /\ loop = "scan" /\ held = NoTask /\ x \in queue
        /\ x \in 1..nextID /\ nextID \in Nat
        /\ UNCHANGED <<nextID, withdrawn, dispatched>>
        /\ queue' = QueueWithout(x)
    BY DEF LoopTake, TakeReady, Startable, IInv, TypeOK, Discipline, Reserving, IdsInUse, LoopState
  <1>2. \A t \in 1..nextID : /\ t \in TaskId /\ t # NoTask
                             /\ task'[t].every = task[t].every
    <2>1. \A t \in TaskId : task'[t].every = task[t].every
      BY TakeKeepsWork DEF LoopTake, IInv
    <2> QED
      BY <2>1, BoundsAssumption DEF IInv, TypeOK, TaskId, NoTask
  <1>3. \A t \in 1..nextID : InHand(t)' <=> InHand(t) \/ t = x
    <2>1. CASE Parallel
      BY <1>1, <1>2, <2>1 DEF LoopTake, InHand, Busy
    <2>2. CASE ~Parallel
      <3>1. Slot = {1}
        BY <2>2, WorkersAssumption DEF Slot, Parallel
      <3>2. worker' = [worker EXCEPT ![1] = [pc |-> "cycle", task |-> x]] /\ held' = held
        BY <2>2 DEF LoopTake, BeginRun
      <3>3. ~Busy(1)
        BY <1>1, <2>2, <3>1 DEF IInv, Discipline, LoopState, Busy
      <3> QED
        BY <1>1, <1>2, <3>1, <3>2, <3>3 DEF InHand, Busy, IInv, TypeOK
    <2> QED
      BY <2>1, <2>2
  <1>4. FreshIds'
    <2>1. \A t \in TaskId : t # x => runs'[t] = runs[t]
      BY DEF LoopTake, BeginRun, IInv, TypeOK
    <2> QED
      BY <1>1, <2>1 DEF Custody, FreshIds
  <1>5. ASSUME NEW t \in 1..nextID, ~Recurring(t)
        PROVE  LET queued    == IF t \in QueueWithout(x) THEN 1 ELSE 0
                   inHand    == IF InHand(t) \/ t = x THEN 1 ELSE 0
                   cancelled == IF t \in withdrawn THEN 1 ELSE 0
               IN queued + inHand + cancelled + dispatched[t] = 1
    <2>1. dispatched[t] \in Nat
      BY <1>2 DEF IInv, TypeOK
    <2> QED
      BY <1>1, <1>5, <2>1 DEF Custody, OneShotAccounted, QueueWithout
  <1> QED
    BY <1>1, <1>2, <1>3, <1>4, <1>5 DEF Custody, OneShotAccounted, Recurring

(* The task passes from the loop's hand to the worker's. *)
LEMMA HandOffCustody ==
  ASSUME IInv, Custody, NEW w \in Slot, LoopHandOff(w)
  PROVE  Custody'
  <1>1. /\ worker' = [worker EXCEPT ![w] = [pc |-> "cycle", task |-> held]]
        /\ held' = NoTask /\ held \in 1..nextID /\ ~Busy(w)
        /\ runs' = [runs EXCEPT ![held] = @ + 1]
        /\ UNCHANGED <<queue, task, nextID, withdrawn, dispatched>>
    BY DEF LoopHandOff, BeginRun, Busy, IInv, Discipline, Reserving, IdsInUse, LoopState, NoTask
  <1>2. \A t \in 1..nextID : InHand(t)' <=> InHand(t)
    BY <1>1 DEF InHand, Busy, NoTask, IInv, TypeOK
  <1>3. FreshIds'
    BY <1>1 DEF Custody, FreshIds, IInv, TypeOK
  <1> QED
    BY <1>1, <1>2, <1>3 DEF Custody, OneShotAccounted, Recurring

(* record() enters a run of a task that, its holder being the only holder   *)
(* of its instance, nobody else has in hand.                               *)
LEMMA RecordCustody ==
  ASSUME IInv, Custody, NEW w \in Slot, WorkerRecord(w)
  PROVE  Custody'
  <1> DEFINE x == worker[w].task
  <1>1. /\ Busy(w) /\ ~Busy(w)'
        /\ \A v \in Slot \ {w} : worker'[v] = worker[v]
        /\ dispatched' = [dispatched EXCEPT ![x] = @ + 1]
        /\ UNCHANGED <<queue, task, nextID, held, runs, withdrawn>>
    BY DEF WorkerRecord, Busy, IdleWorker, kernelFields, IInv, TypeOK
  <1>2. x \in 1..nextID /\ nextID \in Nat /\ x # NoTask
    BY <1>1 DEF Busy, Holding, IInv, TypeOK, Discipline, Reserving, IdsInUse, NoTask
  <1>3. \A t \in 1..nextID : t \in TaskId
    BY BoundsAssumption DEF IInv, TypeOK, TaskId
  <1>4. held # x
    BY <1>1, <1>2 DEF Busy, Holding, InstOf, IInv, Discipline, Reserving, HoldersDiffer
  <1>5. \A v \in Slot \ {w} : Busy(v) => worker[v].task # x
    BY <1>1 DEF Busy, Holding, InstOf, IInv, Discipline, Reserving, HoldersDiffer
  <1>6. \A t \in 1..nextID : InHand(t)' <=> InHand(t) /\ t # x
    BY <1>1, <1>4, <1>5 DEF InHand, Busy
  <1>7. InHand(x)
    BY <1>1 DEF InHand
  <1>8. FreshIds'
    BY <1>1, <1>2 DEF Custody, FreshIds, IInv, TypeOK
  <1>9. ASSUME NEW t \in 1..nextID, ~Recurring(t)
        PROVE  LET queued    == IF t \in queue THEN 1 ELSE 0
                   inHand    == IF InHand(t) /\ t # x THEN 1 ELSE 0
                   cancelled == IF t \in withdrawn THEN 1 ELSE 0
               IN queued + inHand + cancelled + dispatched'[t] = 1
    <2>1. dispatched[t] \in Nat /\ dispatched'[t] = IF t = x THEN dispatched[t] + 1
                                                             ELSE dispatched[t]
      BY <1>1, <1>3 DEF IInv, TypeOK
    <2> QED
      BY <1>7, <1>9, <2>1 DEF Custody, OneShotAccounted
  <1> QED
    BY <1>1, <1>6, <1>8, <1>9 DEF Custody, OneShotAccounted, Recurring

LEMMA InitCustody == Init => Custody
  BY DEF Init, Custody, FreshIds, OneShotAccounted

LEMMA NextCustody ==
  ASSUME IInv, Schedule, Custody, [Next]_vars
  PROVE  Custody'
  BY QuietSteps, QuietCustody, EnqueueCustody, CancelCustody, TakeCustody,
     HandOffCustody, RecordCustody

------------------------------------------------------------------------------
(* Order within an instance *)

LEMMA InitFifo == Init => FifoPerInstance
  BY DEF Init, FifoPerInstance

(* Steps that take nothing from the queue but what Cancel withdraws, and    *)
(* keep the tasks that have an ID.                                         *)
LEMMA FifoKept ==
  ASSUME FifoPerInstance, UNCHANGED <<task, nextID>>,
         queue' \subseteq queue, queue \subseteq queue' \cup withdrawn',
         withdrawn \subseteq withdrawn'
  PROVE  FifoPerInstance'
  BY DEF FifoPerInstance, Recurring

(* The new task is the last, and queued. *)
LEMMA EnqueueFifo ==
  ASSUME IInv, FifoPerInstance, NEW c \in Clients, Enqueue(c)
  PROVE  FifoPerInstance'
  <1>1. /\ nextID \in Nat /\ nextID' = nextID + 1 /\ withdrawn' = withdrawn
        /\ queue' = queue \cup {nextID + 1}
        /\ \A t \in 1..nextID : task'[t] = task[t]
    BY BoundsAssumption DEF Enqueue, IInv, TypeOK, TaskId
  <1> QED
    BY <1>1 DEF FifoPerInstance, Recurring

(* takeReady takes the soonest, the first of them on a tie.  Had an earlier *)
(* task of the instance been left in the queue when a later one is taken,  *)
(* it would have been startable too -- due, and its instance as free -- and *)
(* sooner.                                                                 *)
LEMMA TakeFifo ==
  ASSUME IInv, FifoPerInstance, NEW x \in TaskId, LoopTake(x)
  PROVE  FifoPerInstance'
  <1>1. /\ TakeReady(x) /\ UNCHANGED <<nextID, withdrawn>>
        /\ queue' = QueueWithout(x) /\ clock \in Nat
        /\ \A t \in 1..nextID : t \in TaskId
    BY BoundsAssumption DEF LoopTake, TakeReady, IInv, TypeOK, TaskId
  <1>2. \A t \in TaskId : /\ task'[t].inst  = task[t].inst
                          /\ task'[t].every = task[t].every
                          /\ task'[t].due   = IF t = x THEN NextDue(x) ELSE task[t].due
                          /\ task[t].due \in Nat
    BY <1>1, TakeKeepsWork DEF IInv, TypeOK, Task
  <1> SUFFICES ASSUME NEW t \in 1..nextID, NEW u \in 1..nextID,
                      task'[t].inst = task'[u].inst, ~(task'[t].every > 0),
                      ~(task'[u].every > 0), t < u, task'[t].due <= task'[u].due,
                      t \in queue'
               PROVE  u \in queue' \/ u \in withdrawn'
    BY <1>1 DEF FifoPerInstance, Recurring
  <1>3. /\ task[t].inst = task[u].inst /\ ~Recurring(t) /\ ~Recurring(u)
        /\ task[t].due <= task[u].due
    BY <1>1, <1>2 DEF Recurring, NextDue
  <1>4. t \in queue
    BY <1>1 DEF QueueWithout
  <1>5. u \in queue \/ u \in withdrawn
    BY <1>3, <1>4 DEF FifoPerInstance
  <1>6. u # x
    <2> SUFFICES ASSUME u = x PROVE FALSE
      OBVIOUS
    <2>1. Startable(u)
      BY <1>1 DEF TakeReady
    <2>2. Startable(t)
      BY <1>1, <1>2, <1>3, <1>4, <2>1 DEF Startable
    <2>3. Sooner(u, t)
      BY <1>1, <1>4, <2>2 DEF TakeReady
    <2> QED
      BY <1>1, <1>2, <1>3, <2>3 DEF Sooner
  <1> QED
    BY <1>1, <1>5, <1>6 DEF QueueWithout

LEMMA NextFifo ==
  ASSUME IInv, Schedule, FifoPerInstance, [Next]_vars
  PROVE  FifoPerInstance'
  <1>1. CASE QuietStep
    BY <1>1, FifoKept DEF QuietStep
  <1>2. CASE \E t \in TaskId : Cancel(t)
    BY <1>2, FifoKept DEF Cancel
  <1>3. CASE \E w \in Slot : LoopHandOff(w) \/ WorkerRecord(w)
    BY <1>3, FifoKept DEF LoopHandOff, WorkerRecord, kernelFields
  <1> QED
    BY <1>1, <1>2, <1>3, QuietSteps, EnqueueFifo, TakeFifo

------------------------------------------------------------------------------
(* The schedule *)

LEMMA OneMorePeriod ==
  ASSUME NEW n \in Nat, NEW p \in Nat
  PROVE  /\ (n + 1) * p = n * p + p
         /\ n * p \in Nat /\ (n - 1) * p \in Int
         /\ (n - 1) * p <= n * p
  OBVIOUS

LEMMA InitSchedule == Init => Schedule
  BY DEF Init, Schedule, IdleClient

(* What the types say about the tasks that have an ID. *)
LEMMA ScheduleTypes ==
  ASSUME IInv
  PROVE  /\ nextID \in Nat /\ clock \in Nat
         /\ \A t \in 1..nextID :
              /\ t \in TaskId
              /\ task[t].stamp \in Nat /\ task[t].delay \in Nat
              /\ task[t].every \in Nat /\ task[t].due \in Nat
              /\ runs[t] \in Nat /\ Taken(t) \in Nat /\ FirstDue(t) \in Nat
              /\ Taken(t) * task[t].every \in Nat
              /\ (Taken(t) - 1) * task[t].every \in Int
  <1>1. nextID \in Nat /\ clock \in Nat /\ 1..nextID \subseteq TaskId
    BY BoundsAssumption DEF IInv, TypeOK, TaskId
  <1>2. ASSUME NEW t \in TaskId
        PROVE  /\ task[t].stamp \in Nat /\ task[t].delay \in Nat
               /\ task[t].every \in Nat /\ task[t].due \in Nat
               /\ runs[t] \in Nat /\ Taken(t) \in Nat /\ FirstDue(t) \in Nat
    BY DEF IInv, TypeOK, Task, Taken, FirstDue
  <1> QED
    BY <1>1, <1>2, OneMorePeriod

(* As long as a task and the number of times it was taken stay, time only   *)
(* makes the schedule truer.                                               *)
LEMMA ScheduleKept ==
  ASSUME IInv, Schedule, clock' \in Nat, clock <= clock',
         UNCHANGED <<task, nextID>>,
         \A t \in 1..nextID : Taken(t)' = Taken(t),
         \A c \in Clients : client'[c].pc = "stamped" =>
           client'[c].task.due = client'[c].task.stamp + client'[c].task.delay
  PROVE  Schedule'
  <1>1. \A t \in 1..nextID : FirstDue(t)' = FirstDue(t)
    BY DEF FirstDue
  <1>2. ASSUME NEW t \in 1..nextID
        PROVE  /\ FirstDue(t) + Taken(t) * task[t].every <= task[t].due
               /\ Taken(t) > 0 => FirstDue(t) + (Taken(t) - 1) * task[t].every <= clock'
    <2> DEFINE k == (Taken(t) - 1) * task[t].every
    <2>1. /\ FirstDue(t) + Taken(t) * task[t].every <= task[t].due
          /\ Taken(t) > 0 => FirstDue(t) + k <= clock
      BY DEF Schedule
    <2>2. FirstDue(t) \in Nat /\ k \in Int /\ clock \in Nat
      BY ScheduleTypes
    <2> HIDE DEF k
    <2>3. Taken(t) > 0 => FirstDue(t) + k <= clock'
      BY <2>1, <2>2
    <2> QED
      BY <2>1, <2>3 DEF k
  <1> QED
    BY <1>1, <1>2 DEF Schedule

(* The new task was never taken, and is due after its delay. *)
LEMMA EnqueueSchedule ==
  ASSUME IInv, FreshIds, Schedule, NEW c \in Clients, Enqueue(c)
  PROVE  Schedule'
  <1>0. PICK n \in Nat : n = nextID + 1
    BY DEF IInv, TypeOK
  <1>1. /\ nextID \in Nat /\ n \in TaskId /\ nextID' = n
        /\ task' = [task EXCEPT ![n] = client[c].task]
        /\ client[c].pc = "stamped"
        /\ \A t \in 1..nextID : t \in TaskId /\ t # n
        /\ UNCHANGED <<held, runs, clock>>
    BY <1>0, BoundsAssumption DEF Enqueue, IInv, TypeOK, TaskId, runLocals
  <1>2. \A d \in Clients : client'[d].pc = "stamped" => client'[d] = client[d]
    BY DEF Enqueue, IInv, TypeOK
  <1>3. /\ task'[n].due = task'[n].stamp + task'[n].delay
        /\ task'[n].due \in Nat /\ task'[n].every \in Nat
    BY <1>1 DEF Schedule, IInv, TypeOK, Task
  <1>4. Taken(n)' = 0
    BY <1>0, <1>1 DEF FreshIds, Taken, IInv, Discipline, Reserving, IdsInUse, TypeOK
  <1>5. FirstDue(n)' + Taken(n)' * task'[n].every <= task'[n].due
    BY <1>3, <1>4 DEF FirstDue
  <1>6. \A t \in 1..nextID : /\ task'[t] = task[t]
                             /\ FirstDue(t)' = FirstDue(t) /\ Taken(t)' = Taken(t)
    BY <1>1 DEF FirstDue, Taken, IInv, TypeOK
  <1>7. \A t \in 1..nextID' : t \in 1..nextID \/ t = n
    BY <1>0, <1>1
  <1>8. ASSUME NEW t \in 1..nextID'
        PROVE  /\ FirstDue(t)' + Taken(t)' * task'[t].every <= task'[t].due
               /\ Taken(t)' > 0 => FirstDue(t)' + (Taken(t)' - 1) * task'[t].every <= clock'
    <2>1. CASE t = n
      BY <1>4, <1>5, <2>1
    <2>2. CASE t \in 1..nextID
      BY <1>1, <1>6, <2>2 DEF Schedule
    <2> QED
      BY <1>7, <2>1, <2>2
  <1> QED
    BY <1>2, <1>8 DEF Schedule

(* A task is taken when it is due, and due again a period after it was      *)
(* taken: the period its due time was ahead by is paid for by the clock.   *)
LEMMA TakeSchedule ==
  ASSUME IInv, Schedule, NEW x \in TaskId, LoopTake(x)
  PROVE  Schedule'
  <1>1. /\ TakeReady(x) /\ x \in queue /\ x \in 1..nextID /\ task[x].due <= clock
        /\ held = NoTask /\ UNCHANGED <<nextID, clock, client>>
    BY DEF LoopTake, TakeReady, Startable, IInv, Discipline, Reserving, IdsInUse, LoopState
  <1>2. \A t \in 1..nextID :
          /\ t \in TaskId /\ t # NoTask
          /\ task'[t].inst = task[t].inst /\ task'[t].every = task[t].every
          /\ FirstDue(t)' = FirstDue(t)
          /\ task'[t].due = IF t = x THEN NextDue(x) ELSE task[t].due
    BY <1>1, ScheduleTypes, TakeKeepsWork DEF FirstDue, IInv, NoTask
  <1>3. \A t \in 1..nextID : Taken(t)' = IF t = x THEN Taken(t) + 1 ELSE Taken(t)
    BY <1>1, <1>2 DEF LoopTake, BeginRun, Taken, IInv, TypeOK
  <1>4. ASSUME NEW t \in 1..nextID
        PROVE  /\ FirstDue(t)' + Taken(t)' * task'[t].every <= task'[t].due
               /\ Taken(t)' > 0 => FirstDue(t)' + (Taken(t)' - 1) * task'[t].every <= clock
    <2>1. CASE t # x
      BY <1>2, <1>3, <2>1 DEF Schedule
    <2>2. CASE t = x
      <3> DEFINE p == task[x].every
                 k == Taken(x)
                 f == FirstDue(x)
      <3>1. /\ p \in Nat /\ k \in Nat /\ f \in Nat /\ k * p \in Nat
            /\ task[x].due \in Nat /\ clock \in Nat
        BY <1>1, ScheduleTypes
      <3>2. f + k * p <= task[x].due
        BY <1>1 DEF Schedule
      <3>3. (k + 1) * p = k * p + p /\ (k + 1) - 1 = k
        <4> HIDE DEF p, k, f
        <4>1. (k + 1) * p = k * p + p
          BY <3>1, OneMorePeriod
        <4>2. (k + 1) - 1 = k
          BY <3>1
        <4> QED
          BY <4>1, <4>2
      <3>4. NextDue(x) = IF p > 0 THEN clock + p ELSE task[x].due
        BY DEF NextDue, Recurring
      <3>5. /\ FirstDue(t)' = f /\ Taken(t)' = k + 1
            /\ task'[t].every = p /\ task'[t].due = NextDue(x)
        BY <1>2, <1>3, <2>2
      <3> HIDE DEF p, k, f
      <3>6. f + k * p <= clock
        BY <1>1, <3>1, <3>2
      <3>7. f + (k * p + p) <= NextDue(x)
        BY <3>1, <3>2, <3>4, <3>6
      <3> QED
        BY <3>3, <3>5, <3>6, <3>7
    <2> QED
      BY <2>1, <2>2
  <1> QED
    BY <1>1, <1>4 DEF Schedule

(* The run the loop had in hand becomes a counted one. *)
LEMMA HandOffSchedule ==
  ASSUME IInv, Schedule, NEW w \in Slot, LoopHandOff(w)
  PROVE  Schedule'
  <1>1. /\ runs' = [runs EXCEPT ![held] = @ + 1] /\ held' = NoTask
        /\ UNCHANGED <<task, nextID, clock, client>>
    BY DEF LoopHandOff, BeginRun
  <1>2. \A t \in 1..nextID : t \in TaskId /\ t # NoTask /\ clock \in Nat
    BY ScheduleTypes DEF NoTask
  <1>3. \A t \in 1..nextID : Taken(t)' = Taken(t)
    BY <1>1, <1>2 DEF Taken, IInv, TypeOK
  <1>4. clock' \in Nat /\ clock <= clock'
    BY <1>1, ScheduleTypes
  <1> QED
    BY <1>1, <1>3, <1>4, ScheduleKept DEF Schedule

LEMMA NextSchedule ==
  ASSUME IInv, FreshIds, Schedule, [Next]_vars
  PROVE  Schedule'
  <1>1. clock \in Nat
    BY ScheduleTypes
  <1>2. CASE QuietStep
    <2>1. \A t \in 1..nextID : Taken(t)' = Taken(t)
      BY <1>2 DEF QuietStep, Taken
    <2>2. clock' \in Nat
      BY NextTypes DEF IInv, Discipline, Reserving, TypeOK
    <2> QED
      BY <1>2, <2>1, <2>2, ScheduleKept DEF QuietStep
  <1>3. ASSUME \/ \E t \in TaskId : Cancel(t)
               \/ \E w \in Slot : WorkerRecord(w)
        PROVE  Schedule'
    <2>1. UNCHANGED <<task, nextID, held, runs, clock, client>>
      BY <1>3 DEF Cancel, WorkerRecord, kernelFields, runLocals
    <2>2. \A t \in 1..nextID : Taken(t)' = Taken(t)
      BY <2>1 DEF Taken
    <2>3. clock' \in Nat /\ clock <= clock'
      BY <1>1, <2>1
    <2> QED
      BY <2>1, <2>2, <2>3, ScheduleKept DEF Schedule
  <1> QED
    BY <1>2, <1>3, QuietSteps, EnqueueSchedule, TakeSchedule, HandOffSchedule

------------------------------------------------------------------------------
(* The sleep *)

LEMMA InitIdle == Init => Idle
  BY DEF Init, Idle

(* Steps that add no task and free no instance, and take away no interrupt  *)
(* that is coming.                                                         *)
LEMMA IdleKept ==
  ASSUME Idle, queue' \subseteq queue, UNCHANGED <<task, inFlight, scanned>>,
         loop' \in {"plan", "sleep"} => loop \in {"plan", "sleep"},
         InterruptComing => InterruptComing'
  PROVE  Idle'
  BY DEF Idle

(* While the loop plans and sleeps, whoever adds a task or frees an         *)
(* instance still owes it an interrupt, and only the loop consumes one.    *)
LEMMA NextIdle ==
  ASSUME IInv, Idle, [Next]_vars
  PROVE  Idle'
  <1> USE DEF kernelFields, runLocals
  <1>1. ASSUME NEW c \in Clients, ClientStep(c)
        PROVE  Idle'
    <2>1. CASE Stamp(c)
      <3>1. InterruptComing => InterruptComing'
        BY <2>1 DEF Stamp, InterruptComing, IInv, TypeOK
      <3> QED
        BY <2>1, <3>1, IdleKept DEF Stamp
    <2>2. CASE Enqueue(c)
      BY <2>2 DEF Enqueue, Idle, InterruptComing, IInv, TypeOK
    <2>3. CASE Interrupt(c)
      BY <2>3 DEF Interrupt, Idle, InterruptComing
    <2> QED
      BY <1>1, <2>1, <2>2, <2>3 DEF ClientStep
  <1>2. CASE \E t \in TaskId : Cancel(t)
    <2>1. UNCHANGED <<task, inFlight, scanned, loop, wake, client, worker>> /\ queue' \subseteq queue
      BY <1>2 DEF Cancel
    <2> QED
      BY <2>1, IdleKept DEF InterruptComing
  <1>3. CASE RunStart \/ RunTop \/ RunReturn \/ WakeOnInterrupt \/ WakeOnTimer \/ WakeOnCancel
    BY <1>3 DEF RunStart, RunTop, RunReturn, WakeOnInterrupt, WakeOnTimer, WakeOnCancel, Idle
  <1>4. CASE CancelContext \/ ClockTick \/ PlanSleep
    <2>1. /\ UNCHANGED <<queue, task, inFlight, scanned, wake, client, worker>>
          /\ loop' = loop \/ loop = "plan"
      BY <1>4 DEF CancelContext, ClockTick, PlanSleep
    <2> QED
      BY <2>1, IdleKept DEF InterruptComing
  <1>5. CASE LoopNothingReady
    <2>1. \A t \in queue : task[t].due \in Nat /\ clock \in Nat
      BY DEF IInv, TypeOK, Task
    <2>2. \A t \in queue : task[t].due > clock \/ task[t].inst \in inFlight
      BY <1>5, <2>1 DEF LoopNothingReady, Startable
    <2> QED
      BY <1>5, <2>2 DEF LoopNothingReady, Idle
  <1>6. CASE \E t \in TaskId : LoopTake(t)
    BY <1>6 DEF LoopTake, Idle
  <1>7. CASE \E w \in Slot : LoopHandOff(w)
    BY <1>7 DEF LoopHandOff, Idle
  <1>8. ASSUME NEW w \in Slot, WorkerStep(w)
        PROVE  Idle'
    <2>1. CASE WorkerRecord(w)
      <3>1. InterruptComing => InterruptComing'
        BY <2>1 DEF WorkerRecord, InterruptComing, IInv, TypeOK
      <3> QED
        BY <2>1, <3>1, IdleKept DEF WorkerRecord
    <2>2. CASE WorkerRelease(w)
      <3>1. InterruptComing'
        BY <2>2 DEF WorkerRelease, InterruptComing, IInv, TypeOK
      <3> QED
        BY <3>1 DEF Idle
    <2>3. CASE WorkerSignal(w)
      BY <2>3 DEF WorkerSignal, Idle, InterruptComing
    <2>4. CASE WorkerExit(w)
      <3>1. InterruptComing => InterruptComing'
        BY <2>4 DEF WorkerExit, IdleWorker, InterruptComing, IInv, TypeOK
      <3> QED
        BY <2>4, <3>1, IdleKept DEF WorkerExit
    <2> QED
      BY <1>8, <2>1, <2>2, <2>3, <2>4 DEF WorkerStep
  <1>9. CASE UNCHANGED vars
    BY <1>9, IdleKept DEF vars, InterruptComing
  <1> QED
    BY <1>1, <1>2, <1>3, <1>4, <1>5, <1>6, <1>7, <1>8, <1>9 DEF Next, LoopStep

------------------------------------------------------------------------------
(* The theorems *)

(* Custody of tasks and their schedule, together with the discipline of     *)
(* KernelProofs, hold in every reachable state: what submit, cancel, take,  *)
(* hand over and record preserve between them, in any order.               *)
THEOREM TasksInOrder == Spec => [](IInv /\ Custody /\ Schedule)
  <1>1. Init => IInv /\ Custody /\ Schedule
    BY InitTypes, InitDiscipline, InitCustody, InitSchedule DEF IInv
  <1>2. IInv /\ Custody /\ Schedule /\ [Next]_vars => (IInv /\ Custody /\ Schedule)'
    <2> SUFFICES ASSUME IInv, Custody, Schedule, [Next]_vars
                 PROVE  (IInv /\ Custody /\ Schedule)'
      OBVIOUS
    <2>1. IInv'
      BY NextTypes, NextDiscipline DEF IInv, Discipline, Reserving
    <2>2. Custody'
      BY NextCustody
    <2>3. Schedule'
      BY NextSchedule DEF Custody
    <2> QED
      BY <2>1, <2>2, <2>3
  <1> QED
    BY <1>1, <1>2, PTL DEF Spec

(* Submit, Cancel, takeReady and dispatch (kernel.go:234-297, 362-392,      *)
(* 496-594): a one-shot task is queued, in hand, cancelled or recorded     *)
(* once, never two of these and never none, for every pool size, fleet and *)
(* order of calls, restarts of Run included.                               *)
THEOREM NoTaskLostOrRunTwice == Spec => []OneShotAccounted
  <1>1. Custody => OneShotAccounted
    BY DEF Custody
  <1> QED
    BY <1>1, TasksInOrder, PTL

(* takeReady's choice (kernel.go:367-378): one-shot tasks of an instance    *)
(* start in the order they fall due and, on a tie, were submitted.         *)
THEOREM OrderWithinInstance == Spec => []FifoPerInstance
  <1>1. FifoPerInstance /\ (IInv /\ Custody /\ Schedule) /\ [Next]_vars => FifoPerInstance'
    BY NextFifo
  <1> QED
    BY <1>1, InitFifo, TasksInOrder, PTL DEF Spec

(* takeReady's due test and re-arming (kernel.go:369-387): by its n-th run  *)
(* n-1 periods have passed since a task's first due time, whatever the     *)
(* periods and however late the loop gets to it.                           *)
THEOREM OnSchedule == Spec => []NeverAheadOfSchedule
  <1>1. IInv /\ Schedule => NeverAheadOfSchedule
    <2> SUFFICES ASSUME IInv, Schedule, NEW t \in 1..nextID, runs[t] > 0
                 PROVE  task[t].stamp + task[t].delay + (runs[t] - 1) * task[t].every <= clock
      BY DEF NeverAheadOfSchedule
    <2> DEFINE p == task[t].every
               r == runs[t]
               f == task[t].stamp + task[t].delay
    <2>1. p \in Nat /\ r \in Nat /\ f \in Nat /\ clock \in Nat
      BY ScheduleTypes
    <2>2. (r - 1) * p \in Int /\ r * p \in Int /\ (r - 1) * p <= r * p
      BY <2>1, OneMorePeriod
    <2>3. Taken(t) > 0 => f + (Taken(t) - 1) * p <= clock
      BY DEF Schedule, FirstDue
    <2>4. Taken(t) = r \/ Taken(t) = r + 1
      BY DEF Taken
    <2>5. f + (r - 1) * p <= clock \/ f + r * p <= clock
      <3>1. (r + 1) - 1 = r
        BY <2>1
      <3> QED
        BY <2>1, <2>3, <2>4, <3>1
    <2> HIDE DEF p, r, f
    <2>6. f + (r - 1) * p <= clock
      BY <2>1, <2>2, <2>5
    <2> QED
      BY <2>6 DEF p, r, f
  <1> QED
    BY <1>1, TasksInOrder, PTL

(* sleepUntilInterrupt and its interrupts (kernel.go:305-316, 476-480,      *)
(* 654-676): when the loop sleeps and no interrupt is on its way, every     *)
(* queued task was not yet due at the latest scan or waits for a reserved  *)
(* instance, whatever raced the loop on its way to sleep.                  *)
THEOREM NoWakeUpLost == Spec => []SleepsOnlyWhenIdle
  <1>1. Idle => SleepsOnlyWhenIdle
    BY DEF Idle, SleepsOnlyWhenIdle
  <1>2. Idle /\ (IInv /\ Custody /\ Schedule) /\ [Next]_vars => Idle'
    BY NextIdle
  <1> QED
    BY <1>1, <1>2, InitIdle, TasksInOrder, PTL DEF Spec
------------------------------------------------------------------------------
(***************************************************************************)
(* The scheduler keeps the promise of module Fleet: every step of Kernel   *)
(* is, through the mapping Promise, a step of Fleet or changes nothing     *)
(* Fleet can see.  Enqueue accepts, taking a task starts it, releasing the *)
(* reservation (for the serial loop: recording the run) finishes it,       *)
(* Cancel withdraws; all else stutters.                                    *)
(***************************************************************************)


(* The abstract state, spelled out. *)
Owners    == [t \in TaskId |-> IF t <= nextID THEN task[t].inst ELSE "unowned"]
Repeating   == {t \in 1..nextID : Recurring(t)}
Executing == {t \in 1..nextID :
                 held = t \/ \E w \in Slot : Holding(w) /\ worker[w].task = t}

LEMMA InitMaps == Init => Promise!FleetInit
  BY BoundsAssumption DEF Init, Promise!FleetInit, Promise!NoOwner, TaskId, Holding, IdleWorker, NoTask

(* What two states that agree on this much look like to Fleet. *)
LEMMA SameMapped ==
  ASSUME TypeOK, IdsInUse, UNCHANGED <<nextID, queue>>,
         \A t \in 1..nextID : task'[t].inst = task[t].inst /\ task'[t].every = task[t].every,
         held' = held,
         \A w \in Slot : /\ Holding(w)' <=> Holding(w)
                         /\ Holding(w) => worker'[w].task = worker[w].task
  PROVE  UNCHANGED Promise!fleetVars
  <1>1. UNCHANGED Owners
    BY BoundsAssumption, SMTT(30) DEF Owners, TypeOK, TaskId
  <1>2. UNCHANGED Repeating
    BY DEF Repeating, Recurring
  <1>3. UNCHANGED Executing
    BY DEF Executing
  <1> QED
    BY <1>1, <1>2, <1>3 DEF Promise!fleetVars, Owners, Repeating, Executing

LEMMA AcceptMaps ==
  ASSUME IInv, NEW c \in Clients, Enqueue(c), NEW j \in TaskId, j = nextID + 1
  PROVE  Promise!Accept(j)
  <1>1. /\ nextID \in Nat /\ nextID' = nextID + 1 /\ j \in TaskId
        /\ client[c].task \in Task
        /\ task' = [task EXCEPT ![j] = client[c].task]
        /\ queue' = queue \cup {j}
        /\ UNCHANGED <<held, worker>>
    BY BoundsAssumption DEF Enqueue, IInv, TypeOK, TaskId, runLocals
  <1>2. client[c].task.inst \in Names
    BY <1>1 DEF Task
  <1>3. Owners[j] = "unowned"
    BY <1>1 DEF Owners
  <1>4. Owners' = [Owners EXCEPT ![j] = client[c].task.inst]
    <2>1. ASSUME NEW t \in TaskId
          PROVE  Owners'[t] = IF t = j THEN client[c].task.inst ELSE Owners[t]
      <3>1. t \in Nat
        BY DEF TaskId
      <3>2. t <= nextID' <=> t <= nextID \/ t = j
        BY <1>1, <3>1
      <3>3. task'[t] = IF t = j THEN client[c].task ELSE task[t]
        BY <1>1 DEF IInv, TypeOK
      <3>4. ~(j <= nextID)
        BY <1>1
      <3> QED
        BY <3>2, <3>3, <3>4 DEF Owners
    <2>2. Owners' = [t \in TaskId |-> IF t = j THEN client[c].task.inst ELSE Owners[t]]
      BY <2>1 DEF Owners
    <2> QED
      BY <1>1, <2>2 DEF Owners
  <1>5. Repeating' = Repeating \/ Repeating' = Repeating \cup {j}
    BY <1>1 DEF Repeating, Recurring, IInv, TypeOK, TaskId
  <1>6. Executing' = Executing
    BY <1>1 DEF Executing, Holding, IInv, Discipline, Reserving, IdsInUse
  <1> QED
    BY <1>1, <1>2, <1>3, <1>4, <1>5, <1>6
       DEF Promise!Accept, Promise!NoOwner, Owners, Repeating, Executing

LEMMA TakeMaps ==
  ASSUME IInv, NEW t \in TaskId, LoopTake(t)
  PROVE  Promise!Start(t)
  <1>1. TakeReady(t) /\ loop = "scan" /\ UNCHANGED nextID /\ held = NoTask
    BY DEF LoopTake, IInv, Discipline, Reserving, LoopState
  <1>2. t \in queue /\ t \in 1..nextID
    BY <1>1 DEF TakeReady, Startable, IInv, Discipline, Reserving, IdsInUse
  <1>3. \A u \in TaskId : task'[u].inst = task[u].inst /\ task'[u].every = task[u].every
    BY <1>1 DEF TakeReady, IInv, TypeOK, Task
  <1>4. UNCHANGED <<Owners, Repeating>>
    BY <1>1, <1>3, BoundsAssumption DEF Owners, Repeating, Recurring, IInv, TypeOK, TaskId
  <1>5. queue' = IF t \in Repeating THEN queue ELSE queue \ {t}
    BY <1>1, <1>2 DEF TakeReady, QueueWithout, Repeating
  <1>6. ASSUME NEW e \in Executing
        PROVE  Owners[e] # Owners[t]
    <2>1. PICK w \in Slot : Holding(w) /\ worker[w].task = e
      BY <1>1 DEF Executing, NoTask
    <2>2. CASE Parallel
      <3>1. task[e].inst \in inFlight /\ task[t].inst \notin inFlight
        BY <1>1, <2>1, <2>2
           DEF TakeReady, Startable, IInv, Discipline, Reserving, HoldersReserved, InstOf
      <3> QED
        BY <1>2, <3>1, BoundsAssumption DEF Owners, Executing, IInv, TypeOK, TaskId
    <2>3. CASE ~Parallel
      BY <1>1, <2>1, <2>3 DEF IInv, Discipline, Reserving, LoopState, Holding
    <2> QED
      BY <2>2, <2>3
  <1>7. Executing' = Executing \cup {t}
    <2>1. CASE Parallel
      <3>1. held' = t /\ UNCHANGED worker
        BY <2>1 DEF LoopTake
      <3> QED
        BY <1>1, <1>2, <3>1 DEF Executing, Holding, NoTask
    <2>2. CASE ~Parallel
      <3>1. UNCHANGED held /\ worker' = [worker EXCEPT ![1] = [pc |-> "cycle", task |-> t]]
        BY <2>2 DEF LoopTake, BeginRun
      <3>2. Slot = {1} /\ ~Holding(1)
        BY <1>1, <2>2, WorkersAssumption
           DEF Slot, Parallel, Holding, IInv, Discipline, Reserving, LoopState
      <3>3. Holding(1)' /\ worker'[1].task = t
        BY <3>1, <3>2 DEF Holding, IInv, TypeOK
      <3> QED
        BY <1>1, <1>2, <3>1, <3>2, <3>3 DEF Executing, NoTask
    <2> QED
      BY <2>1, <2>2
  <1> QED
    BY <1>2, <1>4, <1>5, <1>6, <1>7 DEF Promise!Start, Owners, Repeating, Executing

(* A worker that stops holding its task finishes it: no other holder has    *)
(* the same task, for holders have different instances.                    *)
LEMMA FinishMaps ==
  ASSUME IInv, NEW w \in Slot,
         Holding(w), ~Holding(w)',
         \A v \in Slot \ {w} : worker'[v] = worker[v],
         UNCHANGED <<queue, task, nextID, held>>,
         NEW j \in TaskId, j = worker[w].task
  PROVE  Promise!Finish(j)
  <1>1. j \in 1..nextID
    BY DEF IInv, Discipline, Reserving, IdsInUse
  <1>2. j \in Executing
    BY <1>1 DEF Executing
  <1>3. \A v \in Slot \ {w} : Holding(v) => worker[v].task # j
    BY DEF IInv, Discipline, Reserving, HoldersDiffer, InstOf
  <1>4. held # j
    BY <1>1 DEF IInv, Discipline, Reserving, HoldersDiffer, InstOf, NoTask
  <1>5. \A v \in Slot \ {w} : Holding(v)' <=> Holding(v)
    BY DEF Holding
  <1>6. Executing' = Executing \ {j}
    BY <1>1, <1>3, <1>4, <1>5 DEF Executing
  <1>7. UNCHANGED <<Owners, Repeating>>
    BY DEF Owners, Repeating, Recurring
  <1> QED
    BY <1>2, <1>6, <1>7 DEF Promise!Finish, Owners, Repeating, Executing

(* The task passes from the loop's hand to a worker: Fleet sees nothing.    *)
LEMMA HandOffMaps ==
  ASSUME IInv, NEW w \in Slot, LoopHandOff(w)
  PROVE  UNCHANGED Promise!fleetVars
  <1>1. /\ worker' = [worker EXCEPT ![w] = [pc |-> "cycle", task |-> held]]
        /\ held' = NoTask
        /\ UNCHANGED <<queue, task, nextID>>
        /\ ~Holding(w)
    BY DEF LoopHandOff, BeginRun, Holding
  <1>2. Holding(w)' /\ worker'[w].task = held
    BY <1>1 DEF Holding, IInv, TypeOK
  <1>3. \A v \in Slot \ {w} : (Holding(v)' <=> Holding(v)) /\ worker'[v].task = worker[v].task
    BY <1>1 DEF Holding, IInv, TypeOK
  <1>4. UNCHANGED Executing
    BY <1>1, <1>2, <1>3 DEF Executing, NoTask
  <1>5. UNCHANGED <<Owners, Repeating>>
    BY <1>1 DEF Owners, Repeating, Recurring
  <1> QED
    BY <1>1, <1>4, <1>5 DEF Promise!fleetVars, Owners, Repeating, Executing

LEMMA WithdrawMaps ==
  ASSUME NEW t \in TaskId, Cancel(t)
  PROVE  Promise!Withdraw(t)
  <1>1. UNCHANGED <<task, nextID, held, worker>>
    BY DEF Cancel, runLocals
  <1>2. UNCHANGED <<Owners, Repeating, Executing>>
    BY <1>1 DEF Owners, Repeating, Executing, Recurring, Holding
  <1> QED
    BY <1>2 DEF Cancel, Promise!Withdraw, Owners, Repeating, Executing

LEMMA WorkerMaps ==
  ASSUME IInv, NEW w \in Slot, WorkerStep(w)
  PROVE  [Promise!FleetNext]_Promise!fleetVars
  <1> USE DEF kernelFields, runLocals
  <1>1. CASE WorkerRecord(w) /\ Parallel
    <2>1. \A v \in Slot : (Holding(v)' <=> Holding(v)) /\ worker'[v].task = worker[v].task
      BY <1>1 DEF WorkerRecord, Holding, IInv, TypeOK
    <2> QED
      BY <1>1, <2>1, SameMapped DEF WorkerRecord, IInv, Discipline, Reserving
  <1>2. ASSUME \/ WorkerRecord(w) /\ ~Parallel
               \/ WorkerRelease(w)
        PROVE  [Promise!FleetNext]_Promise!fleetVars
    <2>1. /\ Holding(w) /\ ~Holding(w)'
          /\ \A v \in Slot \ {w} : worker'[v] = worker[v]
          /\ UNCHANGED <<queue, task, nextID, held>>
      BY <1>2 DEF WorkerRecord, WorkerRelease, Holding, IdleWorker, IInv, TypeOK
    <2>2. PICK j \in TaskId : j = worker[w].task
      BY <2>1, BoundsAssumption DEF IInv, TypeOK, Discipline, Reserving, IdsInUse, TaskId
    <2>3. Promise!Finish(j)
      BY <2>1, <2>2, FinishMaps
    <2> QED
      BY <2>3 DEF Promise!FleetNext
  <1>3. CASE WorkerSignal(w) \/ WorkerExit(w)
    <2>1. \A v \in Slot : (Holding(v)' <=> Holding(v))
                          /\ (Holding(v) => worker'[v].task = worker[v].task)
      BY <1>3 DEF WorkerSignal, WorkerExit, Holding, IdleWorker, IInv, TypeOK
    <2> QED
      BY <1>3, <2>1, SameMapped DEF WorkerSignal, WorkerExit, IInv, Discipline, Reserving
  <1> QED
    BY <1>1, <1>2, <1>3 DEF WorkerStep

(* Steps of the loop that neither take a task nor hand one off. *)
LEMMA IdleLoopMaps ==
  ASSUME IInv, UNCHANGED <<queue, task, nextID, held, worker>>
  PROVE  UNCHANGED Promise!fleetVars
  <1>1. \A w \in Slot : (Holding(w)' <=> Holding(w)) /\ worker'[w].task = worker[w].task
    BY DEF Holding
  <1> QED
    BY <1>1, SameMapped DEF IInv, Discipline, Reserving

LEMMA NextMaps ==
  ASSUME IInv, [Next]_vars
  PROVE  [Promise!FleetNext]_Promise!fleetVars
  <1> USE DEF kernelFields, runLocals
  <1>1. ASSUME NEW c \in Clients, Enqueue(c)
        PROVE  Promise!FleetNext
    <2>1. PICK j \in TaskId : j = nextID + 1
      BY <1>1, BoundsAssumption DEF Enqueue, IInv, TypeOK, TaskId
    <2>2. Promise!Accept(j)
      BY <1>1, <2>1, AcceptMaps
    <2> QED
      BY <2>2 DEF Promise!FleetNext
  <1>2. ASSUME NEW t \in TaskId, LoopTake(t) \/ Cancel(t)
        PROVE  Promise!FleetNext
    BY <1>2, TakeMaps, WithdrawMaps DEF Promise!FleetNext
  <1>3. ASSUME NEW c \in Clients, Stamp(c) \/ Interrupt(c)
        PROVE  UNCHANGED Promise!fleetVars
    BY <1>3, IdleLoopMaps DEF Stamp, Interrupt
  <1>4. CASE RunStart \/ CancelContext \/ ClockTick
    BY <1>4, IdleLoopMaps DEF RunStart, CancelContext, ClockTick
  <1>5. CASE RunTop \/ RunReturn \/ LoopNothingReady \/ PlanSleep
    BY <1>5, IdleLoopMaps DEF RunTop, RunReturn, LoopNothingReady, PlanSleep
  <1>6. CASE WakeOnInterrupt \/ WakeOnTimer \/ WakeOnCancel
    BY <1>6, IdleLoopMaps DEF WakeOnInterrupt, WakeOnTimer, WakeOnCancel
  <1>7. CASE UNCHANGED vars
    BY <1>7, IdleLoopMaps DEF vars
  <1> QED
    BY <1>1, <1>2, <1>3, <1>4, <1>5, <1>6, <1>7, HandOffMaps, WorkerMaps
       DEF Next, ClientStep, LoopStep

------------------------------------------------------------------------------
(* The scheduler implements Fleet, for every pool size, fleet and mix of    *)
(* work: what Kernel's comments promise the instances (kernel.go:49-53,    *)
(* 603-614) is kept by every interleaving of the loop, its goroutines and  *)
(* their callers.                                                          *)
THEOREM KeepsPromise == Spec => FleetPromise
  <1>1. Init => Promise!FleetInit
    BY InitMaps
  <1>2. IInv /\ [Next]_vars => [Promise!FleetNext]_Promise!fleetVars
    BY NextMaps
  <1> QED
    BY <1>1, <1>2, Invariance, PTL DEF Spec, FleetPromise, Promise!FleetSpec

------------------------------------------------------------------------------
(***************************************************************************)
(* Drain's inductive invariant.  Drain reserves and releases instances as  *)
(* Run does, so it keeps the same discipline; what the place of the loop   *)
(* says under Run, the place of Drain says here.                           *)
(***************************************************************************)
DrainState ==
  /\ held # NoTask <=> drain = "handoff"
  /\ drain \in {"handoff", "join"} => Parallel
  /\ drain = "running" => ~Parallel
  /\ drain \in {"idle", "returned"} => CyclesDone
  /\ ~Parallel => /\ inFlight = {}
                  /\ round = 0
                  /\ \A w \in Slot : /\ worker[w].pc \in {"idle", "cycle"}
                                     /\ worker[w].pc = "cycle" <=> drain = "running"

(* The units under way were launched in this round -- a goroutine that has  *)
(* ended is in done and still counted in the round -- so the room the loop *)
(* head found is still there when the task is taken, however many end in   *)
(* between.                                                                *)
Active   == {w \in Slot : worker[w].pc # "idle"}
UnderWay == Cardinality(Active) + Cardinality({held} \ {NoTask})

Units ==
  /\ done + UnderWay <= MaxUnits
  /\ drain = "take" => done + UnderWay < MaxUnits /\ round < MaxUnits
  /\ Parallel => UnderWay <= round
  /\ drain = "idle" => done = 0 /\ round = 0

(* A task that was ready when Drain was called is still ready until it has  *)
(* run or was cancelled; and Drain ends with a look at the queue that found *)
(* none of them, or at the bound.                                          *)
Settled(t) == runs[t] > 0 \/ t \in withdrawn
Ready(t)   == t \in queue /\ task[t].due <= clock

Calls ==
  /\ called \subseteq 1..nextID
  /\ \A t \in called : Settled(t) \/ t = held \/ Ready(t)
  /\ drain = "returned" \/ (drain = "join" /\ round = 0) =>
       (done < MaxUnits => \A t \in called : Settled(t))

DrainIInv == TypeOK /\ DrainTypeOK /\ Reserving /\ DrainState /\ Units /\ Calls

------------------------------------------------------------------------------
(* Goroutines under way *)

LEMMA ActiveFinite ==
  /\ IsFiniteSet(Active) /\ Cardinality(Active) \in Nat
  /\ Cardinality(Active) = 0 <=> CyclesDone
  <1>1. IsFiniteSet(Slot)
    BY FS_Interval, WorkersAssumption DEF Slot
  <1>2. IsFiniteSet(Active)
    BY <1>1, FS_Subset DEF Active
  <1>3. Active = {} <=> CyclesDone
    BY DEF Active, CyclesDone
  <1> QED
    BY <1>2, <1>3, FS_CardinalityType, FS_EmptySet

LEMMA HeldCount ==
  Cardinality({held} \ {NoTask}) = IF held = NoTask THEN 0 ELSE 1
  <1>1. CASE held = NoTask
    <2>1. {held} \ {NoTask} = {}
      BY <1>1
    <2> QED
      BY <1>1, <2>1, FS_EmptySet
  <1>2. CASE held # NoTask
    <2>1. {held} \ {NoTask} = {held}
      BY <1>2
    <2> QED
      BY <1>2, <2>1, FS_Singleton
  <1> QED
    BY <1>1, <1>2

(* How many are under way, as a number. *)
HeldUnits   == IF held = NoTask THEN 0 ELSE 1
ActiveUnits == Cardinality(Active)

Counted ==
  /\ ActiveUnits \in Nat /\ HeldUnits \in {0, 1}
  /\ UnderWay = ActiveUnits + HeldUnits
  /\ ActiveUnits = 0 <=> CyclesDone
  /\ IsFiniteSet(Active)

LEMMA CountedNow == Counted
  BY ActiveFinite, HeldCount DEF Counted, UnderWay, ActiveUnits, HeldUnits

LEMMA CountedNext == Counted'
  BY CountedNow, PTL

(* A goroutine begins, goes on, or ends. *)
LEMMA UnitBegins ==
  ASSUME NEW w \in Slot, worker[w].pc = "idle", worker'[w].pc # "idle",
         \A v \in Slot \ {w} : worker'[v] = worker[v]
  PROVE  ActiveUnits' = ActiveUnits + 1
  <1>1. Active' = Active \cup {w} /\ w \notin Active
    BY DEF Active
  <1> QED
    BY <1>1, CountedNow, FS_AddElement DEF Counted, ActiveUnits

LEMMA UnitEnds ==
  ASSUME NEW w \in Slot, worker[w].pc # "idle", worker'[w].pc = "idle",
         \A v \in Slot \ {w} : worker'[v] = worker[v]
  PROVE  ActiveUnits' = ActiveUnits - 1
  <1>1. Active' = Active \ {w} /\ w \in Active
    BY DEF Active
  <1> QED
    BY <1>1, CountedNow, FS_RemoveElement DEF Counted, ActiveUnits

LEMMA UnitGoesOn ==
  ASSUME \A w \in Slot : worker'[w].pc = "idle" <=> worker[w].pc = "idle"
  PROVE  ActiveUnits' = ActiveUnits
  <1>1. Active' = Active
    BY DEF Active
  <1> QED
    BY <1>1 DEF ActiveUnits

------------------------------------------------------------------------------
(* Steps of Drain as the scheduler sees them *)

(* Types. *)
LEMMA DrainTypes ==
  ASSUME DrainIInv, DrainNext
  PROVE  TypeOK'
  <1>1. TypeOK /\ IdsInUse /\ DrainState
    BY DEF DrainIInv, Reserving
  <1>2. CASE DrainCall \/ DrainRoom \/ DrainNothingReady \/ DrainJoin
    BY <1>1, <1>2 DEF DrainCall, DrainRoom, DrainNothingReady, DrainJoin, vars, TypeOK
  <1>3. ASSUME NEW t \in TaskId, DrainTake(t)
        PROVE  TypeOK'
    <2>1. /\ queue' \subseteq TaskId /\ task' \in [TaskId -> Task] /\ inFlight' \subseteq Names
      BY <1>1, <1>3, TakeTypes DEF DrainTake
    <2>2. CASE Parallel
      BY <1>1, <1>3, <2>1, <2>2 DEF DrainTake, otherVars, TypeOK
    <2>3. CASE ~Parallel
      <3>1. 1 \in Slot
        BY WorkersAssumption DEF Slot
      <3>2. /\ worker' \in [Slot -> [pc : WorkerPC, task : TaskId \cup {NoTask}]]
            /\ runs' \in [TaskId -> Nat]
        BY <1>1, <1>3, <2>3, <3>1, BeginTypes DEF DrainTake
      <3> QED
        BY <1>1, <1>3, <2>1, <2>3, <3>2 DEF DrainTake, otherVars, TypeOK
    <2> QED
      BY <2>2, <2>3
  <1>4. ASSUME NEW w \in Slot, DrainHandOff(w)
        PROVE  TypeOK'
    <2>1. held \in TaskId
      BY <1>1, <1>4 DEF DrainHandOff, DrainState, TypeOK
    <2>2. /\ worker' \in [Slot -> [pc : WorkerPC, task : TaskId \cup {NoTask}]]
          /\ runs' \in [TaskId -> Nat]
      BY <1>1, <1>4, <2>1, BeginTypes DEF DrainHandOff
    <2> QED
      BY <1>1, <1>4, <2>2 DEF DrainHandOff, otherVars, TypeOK
  <1>5. ASSUME NEW w \in Slot, DrainFinish(w)
        PROVE  TypeOK'
    <2>1. CASE Parallel
      BY <1>1, <1>5, <2>1, WorkerTypes DEF DrainFinish, WorkerStep
    <2>2. CASE ~Parallel
      <3>1. worker[w].task \in TaskId
        BY <1>1, <1>5, <2>2, BoundsAssumption
           DEF DrainFinish, IdsInUse, Holding, TypeOK, TaskId
      <3>2. dispatched' \in [TaskId -> Nat]
        BY <1>1, <1>5, <2>2, <3>1 DEF DrainFinish, TypeOK
      <3>3. worker' \in [Slot -> [pc : WorkerPC, task : TaskId \cup {NoTask}]]
        BY <1>1, <1>5, <2>2 DEF DrainFinish, TypeOK, IdleWorker, WorkerPC
      <3> QED
        BY <1>1, <1>5, <2>2, <3>2, <3>3 DEF DrainFinish, otherVars, TypeOK
    <2> QED
      BY <2>1, <2>2
  <1>6. CASE (\E c \in Clients : ClientStep(c)) \/ (\E t \in TaskId : Cancel(t)) \/ ClockTick
    BY <1>1, <1>6, ClientTypes DEF Cancel, ClockTick, TypeOK, kernelFields, runLocals
  <1> QED
    BY <1>2, <1>3, <1>4, <1>5, <1>6 DEF DrainNext, DrainStep

(* What the loop head decides. *)
LEMMA RoomDecides ==
  ASSUME DrainTypeOK, DrainRoom
  PROVE  /\ drain' = "take" \/ (drain' = "join" /\ Parallel) \/ (drain' = "returned" /\ ~Parallel)
         /\ drain' = "take" <=> done + round < MaxUnits
  <1>1. done + round \in Nat /\ MaxUnits \in Nat
    BY UnitsAssumption DEF DrainTypeOK
  <1>2. done + round >= MaxUnits <=> ~(done + round < MaxUnits)
    BY <1>1
  <1>3. CASE done + round < MaxUnits
    BY <1>2, <1>3 DEF DrainRoom
  <1>4. CASE ~(done + round < MaxUnits) /\ Parallel
    BY <1>2, <1>4 DEF DrainRoom
  <1>5. CASE ~(done + round < MaxUnits) /\ ~Parallel
    BY <1>2, <1>5 DEF DrainRoom
  <1> QED
    BY <1>3, <1>4, <1>5

(* Reservations are kept as under Run. *)
LEMMA DrainReserving ==
  ASSUME DrainIInv, DrainNext
  PROVE  Reserving'
  <1>1. TypeOK /\ TypeOK' /\ Reserving /\ DrainState
    BY DrainTypes DEF DrainIInv
  <1>2. CASE DrainCall \/ DrainRoom \/ DrainNothingReady \/ DrainJoin
    BY <1>1, <1>2, ReservingKept DEF DrainCall, DrainRoom, DrainNothingReady, DrainJoin, vars
  <1>3. ASSUME NEW t \in TaskId, DrainTake(t)
        PROVE  Reserving'
    <2>1. held = NoTask /\ TakeReady(t) /\ nextID' = nextID
      BY <1>1, <1>3 DEF DrainTake, DrainState, otherVars
    <2>2. CASE Parallel
      BY <1>1, <1>3, <2>1, <2>2, TakeReserving DEF DrainTake
    <2>3. CASE ~Parallel
      <3>1. Slot = {1}
        BY <2>3, WorkersAssumption DEF Slot, Parallel
      <3>2. t \in 1..nextID /\ queue' \subseteq 1..nextID /\ nextID \in Nat
        BY <1>1, <2>1, BoundsAssumption
           DEF TakeReady, Startable, QueueWithout, Reserving, IdsInUse, TypeOK
      <3>3. inFlight' = {} /\ held' = NoTask
        BY <1>1, <1>3, <2>1, <2>3 DEF DrainTake, TakeReady, DrainState
      <3>4. \A w \in Slot : worker'[w].task = t
        BY <1>1, <1>3, <2>3, <3>1 DEF DrainTake, BeginRun, TypeOK
      <3> QED
        BY <1>1, <2>1, <2>3, <3>2, <3>3, <3>4, SerialReserving
    <2> QED
      BY <2>2, <2>3
  <1>4. ASSUME NEW w \in Slot, DrainHandOff(w)
        PROVE  Reserving'
    <2>1. /\ Parallel /\ BeginRun(w, held) /\ worker[w].pc = "idle"
          /\ held # NoTask /\ held' = NoTask /\ UNCHANGED <<queue, task, inFlight, nextID>>
      BY <1>1, <1>4 DEF DrainHandOff, DrainState, otherVars
    <2> QED
      BY <1>1, <2>1, HandOffReserving
  <1>5. ASSUME NEW w \in Slot, DrainFinish(w)
        PROVE  Reserving'
    <2>1. CASE Parallel
      BY <1>1, <1>5, <2>1, RecordReserving, ReleaseReserving, SignalExitReserving
         DEF DrainFinish
    <2>2. CASE ~Parallel
      <3>1. Slot = {1}
        BY <2>2, WorkersAssumption DEF Slot, Parallel
      <3>2. /\ worker[w].pc = "cycle" /\ worker' = [worker EXCEPT ![w] = IdleWorker]
            /\ UNCHANGED <<queue, inFlight, held, nextID>>
        BY <1>5, <2>2 DEF DrainFinish, otherVars
      <3>3. drain = "running"
        BY <1>1, <2>2, <3>2 DEF DrainState
      <3>4. inFlight' = {} /\ held' = NoTask
        BY <1>1, <2>2, <3>2, <3>3 DEF DrainState
      <3>5. queue' \subseteq 1..nextID' /\ nextID' \in Nat
        BY <1>1, <3>2, BoundsAssumption DEF Reserving, IdsInUse, TypeOK
      <3>6. \A v \in Slot : ~Holding(v)'
        BY <1>1, <3>1, <3>2 DEF Holding, IdleWorker, TypeOK
      <3> QED
        BY <1>1, <2>2, <3>4, <3>5, <3>6, SerialReserving
    <2> QED
      BY <2>1, <2>2
  <1>6. ASSUME NEW c \in Clients, ClientStep(c)
        PROVE  Reserving'
    <2>1. CASE Stamp(c) \/ Interrupt(c)
      BY <1>1, <2>1, ReservingKept DEF Stamp, Interrupt, kernelFields, runLocals
    <2> QED
      BY <1>1, <1>6, <2>1, EnqueueReserving DEF ClientStep
  <1>7. CASE (\E t \in TaskId : Cancel(t)) \/ ClockTick
    BY <1>1, <1>7, ReservingKept DEF Cancel, ClockTick, kernelFields, runLocals
  <1> QED
    BY <1>2, <1>3, <1>4, <1>5, <1>6, <1>7 DEF DrainNext, DrainStep

(* What callers, cancellations and time leave alone. *)
LEMMA OthersStep ==
  ASSUME \/ \E c \in Clients : ClientStep(c)
         \/ \E t \in TaskId : Cancel(t)
         \/ ClockTick
  PROVE  UNCHANGED <<held, inFlight, worker, runs>>
  BY DEF ClientStep, Stamp, Enqueue, Interrupt, Cancel, ClockTick, kernelFields, runLocals

(* A goroutine of the round that has not ended. *)
LEMMA GoesOnStep ==
  ASSUME TypeOK, NEW w \in Slot, WorkerRecord(w) \/ WorkerRelease(w) \/ WorkerSignal(w), Parallel
  PROVE  /\ worker[w].pc # "idle" /\ worker'[w].pc # "idle"
         /\ \A v \in Slot \ {w} : worker'[v] = worker[v]
         /\ UNCHANGED <<held, runs, queue, task, nextID, withdrawn, clock>>
  BY DEF WorkerRecord, WorkerRelease, WorkerSignal, kernelFields, runLocals, TypeOK

LEMMA EndsStep ==
  ASSUME TypeOK, NEW w \in Slot,
         \/ Parallel /\ WorkerExit(w)
         \/ ~Parallel /\ DrainFinish(w)
  PROVE  /\ worker[w].pc # "idle" /\ worker'[w].pc = "idle"
         /\ \A v \in Slot \ {w} : worker'[v] = worker[v]
         /\ UNCHANGED <<held, runs, queue, task, nextID, withdrawn, inFlight, clock>>
  BY DEF WorkerExit, DrainFinish, IdleWorker, kernelFields, runLocals, otherVars, TypeOK

LEMMA DrainStateStep ==
  ASSUME DrainIInv, DrainNext
  PROVE  DrainState'
  <1>1. TypeOK /\ DrainTypeOK /\ Reserving /\ DrainState /\ Units
    BY DEF DrainIInv
  <1>2. CASE DrainCall \/ DrainNothingReady \/ DrainJoin
    <2>1. /\ UNCHANGED <<held, inFlight, worker>>
          /\ round' \in {0, round}
          /\ drain \in {"idle", "take", "join"}
          /\ drain' \in {"room", "join", "returned"}
          /\ drain' = "join" => Parallel
          /\ drain' = "returned" => ~Parallel \/ CyclesDone
      BY <1>2 DEF DrainCall, DrainNothingReady, DrainJoin, vars
    <2>2. held = NoTask
      BY <1>1, <2>1 DEF DrainState
    <2>3. ~Parallel => inFlight = {} /\ round' = 0 /\ CyclesDone
      BY <1>1, <2>1 DEF DrainState, CyclesDone
    <2>4. drain' = "returned" => CyclesDone'
      BY <2>1, <2>3 DEF CyclesDone
    <2> QED
      BY <2>1, <2>2, <2>3, <2>4 DEF DrainState, CyclesDone
  <1>3. CASE DrainRoom
    <2>1. /\ UNCHANGED <<held, inFlight, worker, round>> /\ drain = "room"
          /\ drain' = "take" \/ (drain' = "join" /\ Parallel) \/ (drain' = "returned" /\ ~Parallel)
      BY <1>1, <1>3, RoomDecides DEF DrainRoom, vars
    <2> QED
      BY <1>1, <2>1 DEF DrainState, CyclesDone
  <1>4. ASSUME NEW t \in TaskId, DrainTake(t)
        PROVE  DrainState'
    <2>1. t # NoTask /\ drain = "take" /\ held = NoTask
      BY <1>1, <1>4, BoundsAssumption DEF DrainTake, DrainState, TaskId, NoTask
    <2>2. CASE Parallel
      BY <1>1, <1>4, <2>1, <2>2 DEF DrainTake, DrainState
    <2>3. CASE ~Parallel
      <3>1. Slot = {1}
        BY <2>3, WorkersAssumption DEF Slot, Parallel
      <3>2. worker'[1].pc = "cycle" /\ drain' = "running" /\ UNCHANGED <<held, round>>
        BY <1>1, <1>4, <2>3, <3>1 DEF DrainTake, BeginRun, TypeOK
      <3>3. inFlight' = {}
        BY <1>1, <1>4, <2>3 DEF DrainTake, TakeReady, DrainState
      <3> QED
        BY <1>1, <2>1, <2>3, <3>1, <3>2, <3>3 DEF DrainState
    <2> QED
      BY <2>2, <2>3
  <1>5. ASSUME NEW w \in Slot, DrainHandOff(w)
        PROVE  DrainState'
    <2>1. /\ drain = "handoff" /\ drain' = "room" /\ held' = NoTask
      BY <1>5 DEF DrainHandOff
    <2>2. Parallel
      BY <1>1, <2>1 DEF DrainState
    <2> QED
      BY <2>1, <2>2 DEF DrainState
  <1>6. ASSUME NEW w \in Slot, DrainFinish(w)
        PROVE  DrainState'
    <2>1. CASE Parallel
      <3>1. worker[w].pc # "idle" /\ UNCHANGED <<held, drain>>
        BY <1>1, <1>6, <2>1, GoesOnStep, EndsStep DEF DrainFinish, drainVars
      <3>2. drain \notin {"idle", "returned"}
        BY <1>1, <3>1 DEF DrainState, CyclesDone
      <3> QED
        BY <1>1, <2>1, <3>1, <3>2 DEF DrainState
    <2>2. CASE ~Parallel
      <3>1. Slot = {1}
        BY <2>2, WorkersAssumption DEF Slot, Parallel
      <3>2. worker'[w].pc = "idle" /\ UNCHANGED <<held, inFlight>>
        BY <1>1, <1>6, <2>2, EndsStep
      <3>3. worker[w].pc = "cycle" /\ drain' = "room" /\ round' = round
        BY <1>6, <2>2 DEF DrainFinish
      <3> QED
        BY <1>1, <2>2, <3>1, <3>2, <3>3 DEF DrainState
    <2> QED
      BY <2>1, <2>2
  <1>7. ASSUME \/ \E c \in Clients : ClientStep(c)
               \/ \E t \in TaskId : Cancel(t)
               \/ ClockTick,
               UNCHANGED drainVars
        PROVE  DrainState'
    <2>1. UNCHANGED <<held, inFlight, worker, drain, round>>
      BY <1>7, OthersStep DEF drainVars
    <2> QED
      BY <1>1, <2>1 DEF DrainState, CyclesDone
  <1> QED
    BY <1>2, <1>3, <1>4, <1>5, <1>6, <1>7 DEF DrainNext, DrainStep

------------------------------------------------------------------------------
(* The bound, and what Drain was called for *)

LEMMA UnitsStep ==
  ASSUME DrainIInv, DrainNext
  PROVE  Units' /\ DrainTypeOK'
  <1>1. TypeOK /\ DrainTypeOK /\ DrainState /\ Units /\ Counted /\ Counted'
    BY CountedNow, CountedNext DEF DrainIInv
  <1>2. done \in Nat /\ round \in Nat /\ MaxUnits \in Nat /\ UnderWay \in Nat
    BY <1>1, UnitsAssumption DEF DrainTypeOK, Counted
  <1>3. SUFFICES /\ done' \in Nat /\ round' \in 0..MaxUnits /\ UnderWay' \in Nat
                 /\ drain' \in DrainPC /\ called' \subseteq TaskId
                 /\ Units'
    <2>1. \A a, b, c \in Nat : a + b <= c => a \in 0..c
      OBVIOUS
    <2>2. (done + UnderWay <= MaxUnits)' => done' + UnderWay' <= MaxUnits
      OBVIOUS
    <2> QED
      BY <1>2, <2>1, <2>2 DEF Units, DrainTypeOK
  <1>0. /\ ActiveUnits' \in Nat /\ HeldUnits' \in {0, 1}
        /\ UnderWay' = ActiveUnits' + HeldUnits'
    BY CountedNext DEF Counted
  <1>4. UnderWay' \in Nat
    <2>1. \A a \in Nat, b \in {0, 1} : a + b \in Nat
      OBVIOUS
    <2> QED
      BY <1>0, <2>1
  <1>5. ASSUME UNCHANGED <<held, worker, done, round>>, drain' \in DrainPC,
               called' \subseteq TaskId, drain' # "idle",
               drain' = "take" => done + UnderWay < MaxUnits /\ round < MaxUnits
        PROVE  /\ done' \in Nat /\ round' \in 0..MaxUnits
               /\ drain' \in DrainPC /\ called' \subseteq TaskId
               /\ Units'
    <2>1. UnderWay' = UnderWay
      BY <1>5 DEF UnderWay, Active
    <2> QED
      BY <1>1, <1>5, <2>1 DEF Units, DrainTypeOK
  <1>6. CASE DrainCall
    <2>1. called' \subseteq TaskId
      BY <1>1, <1>6 DEF DrainCall, TypeOK
    <2> QED
      BY <1>4, <1>5, <1>6, <2>1 DEF DrainCall, vars, DrainPC
  <1>7. CASE DrainRoom
    <2>1. /\ UNCHANGED <<held, worker, done, round, called>> /\ drain = "room"
          /\ drain' \in {"take", "join", "returned"}
          /\ drain' = "take" <=> done + round < MaxUnits
      BY <1>1, <1>7, RoomDecides DEF DrainRoom, vars
    <2>2. Parallel => done + UnderWay <= done + round
      BY <1>1, <1>2 DEF Units
    <2>3. ~Parallel => round = 0 /\ UnderWay = 0
      BY <1>1, <2>1 DEF DrainState, Counted, HeldUnits, CyclesDone
    <2>4. drain' = "take" => done + UnderWay < MaxUnits /\ round < MaxUnits
      BY <1>2, <2>1, <2>2, <2>3
    <2> QED
      BY <1>1, <1>4, <1>5, <2>1, <2>4 DEF DrainPC, DrainTypeOK
  <1>8. CASE DrainNothingReady
    BY <1>1, <1>4, <1>5, <1>8 DEF DrainNothingReady, vars, DrainPC, DrainTypeOK
  <1>9. ASSUME NEW t \in TaskId, DrainTake(t)
        PROVE  /\ done' \in Nat /\ round' \in 0..MaxUnits
               /\ drain' \in DrainPC /\ called' \subseteq TaskId
               /\ Units'
    <2>1. /\ drain = "take" /\ held = NoTask /\ t # NoTask
          /\ done + UnderWay < MaxUnits /\ round < MaxUnits
          /\ UNCHANGED <<done, called>> /\ drain' \in {"handoff", "running"}
      BY <1>1, <1>9 DEF DrainTake, DrainState, Units, TaskId, NoTask
    <2>2. CASE Parallel
      <3>1. round' = round + 1 /\ held' # NoTask /\ UNCHANGED worker
        BY <1>9, <2>1, <2>2 DEF DrainTake
      <3>2. ActiveUnits' = ActiveUnits
        BY <3>1, UnitGoesOn
      <3>3. UnderWay' = UnderWay + 1
        BY <1>1, <2>1, <3>1, <3>2 DEF Counted, HeldUnits
      <3>4. UnderWay <= round
        BY <1>1, <2>2 DEF Units
      <3> QED
        BY <1>1, <1>2, <2>1, <3>1, <3>3, <3>4 DEF Units, DrainPC, DrainTypeOK
    <2>3. CASE ~Parallel
      <3>1. 1 \in Slot /\ Slot = {1}
        BY <2>3, WorkersAssumption DEF Slot, Parallel
      <3>2. worker[1].pc = "idle" /\ worker'[1].pc # "idle" /\ UNCHANGED <<held, round>>
        BY <1>1, <1>9, <2>1, <2>3, <3>1 DEF DrainTake, BeginRun, TypeOK, DrainState
      <3>3. ActiveUnits' = ActiveUnits + 1
        BY <3>1, <3>2, UnitBegins
      <3>4. UnderWay' = UnderWay + 1
        BY <1>1, <3>2, <3>3 DEF Counted, HeldUnits
      <3> QED
        BY <1>1, <1>2, <2>1, <2>3, <3>2, <3>4 DEF Units, DrainPC, DrainTypeOK
    <2> QED
      BY <2>2, <2>3
  <1>10. ASSUME NEW w \in Slot, DrainHandOff(w)
         PROVE  /\ done' \in Nat /\ round' \in 0..MaxUnits
                /\ drain' \in DrainPC /\ called' \subseteq TaskId
                /\ Units'
    <2>1. /\ held # NoTask /\ held' = NoTask /\ drain' = "room"
          /\ UNCHANGED <<done, round, called>>
          /\ worker[w].pc = "idle" /\ worker'[w].pc # "idle"
          /\ \A v \in Slot \ {w} : worker'[v] = worker[v]
      BY <1>1, <1>10 DEF DrainHandOff, DrainState, BeginRun, TypeOK
    <2>2. ActiveUnits' = ActiveUnits + 1
      BY <2>1, UnitBegins
    <2>3. UnderWay' = UnderWay
      BY <1>1, <2>1, <2>2 DEF Counted, HeldUnits
    <2> QED
      BY <1>1, <1>2, <2>1, <2>3 DEF Units, DrainPC, DrainTypeOK
  <1>11. CASE DrainJoin
    <2>1. /\ drain = "join" /\ CyclesDone /\ round' = 0 /\ drain' \in {"returned", "room"}
          /\ UNCHANGED <<held, worker, done, called>>
      BY <1>11 DEF DrainJoin, vars
    <2>2. UnderWay' = UnderWay
      BY <2>1 DEF UnderWay, Active
    <2>3. UnderWay = 0
      BY <1>1, <2>1 DEF DrainState, Counted, HeldUnits
    <2> QED
      BY <1>1, <1>2, <1>4, <2>1, <2>2, <2>3 DEF Units, DrainPC, DrainTypeOK
  <1>12. ASSUME NEW w \in Slot, DrainFinish(w)
         PROVE  /\ done' \in Nat /\ round' \in 0..MaxUnits
                /\ drain' \in DrainPC /\ called' \subseteq TaskId
                /\ Units'
    <2>1. worker[w].pc # "idle" /\ drain \notin {"idle", "returned"}
      BY <1>1, <1>12, GoesOnStep, EndsStep DEF DrainFinish, DrainState, CyclesDone
    <2>2. CASE Parallel /\ (WorkerRecord(w) \/ WorkerRelease(w) \/ WorkerSignal(w))
      <3>1. UNCHANGED drainVars
        BY <1>12, <2>2 DEF DrainFinish, WorkerRecord, WorkerRelease, WorkerSignal, WorkerExit
      <3>2. held' = held /\ ActiveUnits' = ActiveUnits
        BY <1>1, <2>2, GoesOnStep, UnitGoesOn
      <3>3. UnderWay' = UnderWay
        BY <1>1, <3>2 DEF Counted, HeldUnits
      <3> QED
        BY <1>1, <1>2, <2>1, <3>1, <3>3 DEF Units, DrainTypeOK, drainVars
    <2>3. CASE ~(Parallel /\ (WorkerRecord(w) \/ WorkerRelease(w) \/ WorkerSignal(w)))
      <3>1. /\ done' = done + 1 /\ UNCHANGED <<round, called>>
            /\ drain' = drain \/ drain' = "room"
            /\ (Parallel /\ WorkerExit(w)) \/ ~Parallel
        BY <1>12, <2>3 DEF DrainFinish
      <3>2. held' = held /\ ActiveUnits' = ActiveUnits - 1
        BY <1>1, <1>12, <3>1, EndsStep, UnitEnds
      <3>3. UnderWay' = UnderWay - 1
        BY <1>1, <3>2 DEF Counted, HeldUnits
      <3> QED
        BY <1>1, <1>2, <1>4, <2>1, <3>1, <3>3 DEF Units, DrainPC, DrainTypeOK
    <2> QED
      BY <2>2, <2>3
  <1>13. ASSUME \/ \E c \in Clients : ClientStep(c)
                \/ \E t \in TaskId : Cancel(t)
                \/ ClockTick,
                UNCHANGED drainVars
         PROVE  /\ done' \in Nat /\ round' \in 0..MaxUnits
                /\ drain' \in DrainPC /\ called' \subseteq TaskId
                /\ Units'
    <2>1. UnderWay' = UnderWay
      BY <1>13, OthersStep DEF UnderWay, Active
    <2> QED
      BY <1>1, <1>2, <1>13, <2>1 DEF Units, DrainTypeOK, drainVars
  <1> QED
    BY <1>4, <1>6, <1>7, <1>8, <1>9, <1>10, <1>11, <1>12, <1>13 DEF DrainNext, DrainStep

LEMMA CallsStep ==
  ASSUME DrainIInv, DrainNext
  PROVE  Calls'
  <1>1. TypeOK /\ DrainTypeOK /\ Reserving /\ DrainState /\ Units /\ Calls /\ Counted
    BY CountedNow DEF DrainIInv
  <1>2. /\ done \in Nat /\ round \in Nat /\ MaxUnits \in Nat /\ nextID \in Nat /\ clock \in Nat
        /\ runs \in [TaskId -> Nat] /\ 1..nextID \subseteq TaskId /\ queue \subseteq 1..nextID
    BY <1>1, UnitsAssumption, BoundsAssumption
       DEF DrainTypeOK, TypeOK, TaskId, Reserving, IdsInUse
  <1>3. \A t \in called : t \in TaskId /\ t # NoTask /\ task[t].due \in Nat
    BY <1>1, <1>2 DEF Calls, TypeOK, Task, NoTask
  <1>4. CASE DrainCall
    BY <1>1, <1>2, <1>4 DEF DrainCall, Calls, Ready, vars
  <1>5. CASE DrainRoom
    <2>1. /\ UNCHANGED <<vars, called, done, round>>
          /\ drain' = "take" \/ drain' = "join" \/ (drain' = "returned" /\ ~Parallel)
          /\ drain' = "take" <=> done + round < MaxUnits
      BY <1>1, <1>5, RoomDecides DEF DrainRoom
    <2>2. drain' = "returned" \/ (drain' = "join" /\ round = 0) => round = 0
      BY <1>1, <2>1 DEF DrainState
    <2>3. drain' = "returned" \/ (drain' = "join" /\ round = 0) => ~(done < MaxUnits)
      BY <1>2, <2>1, <2>2
    <2> QED
      BY <1>1, <2>1, <2>3 DEF Calls, Settled, Ready, vars
  <1>6. ASSUME NEW t \in TaskId, DrainTake(t)
        PROVE  Calls'
    <2>1. /\ held = NoTask /\ TakeReady(t) /\ UNCHANGED <<nextID, withdrawn, clock, called>>
          /\ drain' \in {"handoff", "running"}
      BY <1>1, <1>6 DEF DrainTake, DrainState, otherVars
    <2>2. \A u \in called \ {t} : Ready(u) => Ready(u)'
      BY <1>1, <1>3, <2>1 DEF TakeReady, QueueWithout, Ready, TypeOK
    <2>3. t # held' => runs'[t] > 0
      BY <1>2, <1>6 DEF DrainTake, BeginRun
    <2>4. \A u \in called : Settled(u) => Settled(u)'
      BY <1>2, <1>3, <1>6, <2>1 DEF DrainTake, BeginRun, Settled
    <2>5. \A u \in called : (Settled(u) \/ u = held \/ Ready(u))'
      BY <1>1, <1>3, <2>1, <2>2, <2>3, <2>4 DEF Calls, Settled
    <2> QED
      BY <1>1, <2>1, <2>5 DEF Calls
  <1>7. CASE DrainNothingReady
    <2>1. /\ UNCHANGED <<vars, called, done, round>> /\ drain = "take"
          /\ drain' = IF Parallel THEN "join" ELSE "returned"
          /\ \A t \in queue : ~Startable(t)
      BY <1>7 DEF DrainNothingReady
    <2>2. held = NoTask
      BY <1>1, <2>1 DEF DrainState
    <2>3. round = 0 => inFlight = {}
      <3>1. CASE Parallel
        <4>1. round = 0 => ActiveUnits = 0
          BY <1>1, <3>1 DEF Units, Counted
        <4> QED
          BY <1>1, <2>2, <4>1 DEF Counted, CyclesDone, Reserving, NoLeak, Holding
      <3>2. CASE ~Parallel
        BY <1>1, <3>2 DEF DrainState
      <3> QED
        BY <3>1, <3>2
    <2>4. ~Parallel => round = 0
      BY <1>1 DEF DrainState
    <2>5. round = 0 => \A t \in called : Settled(t)
      BY <1>1, <1>3, <2>1, <2>2, <2>3 DEF Calls, Ready, Startable
    <2> QED
      BY <1>1, <2>1, <2>4, <2>5 DEF Calls, Settled, Ready, vars
  <1>8. ASSUME NEW w \in Slot, DrainHandOff(w)
        PROVE  Calls'
    <2>1. /\ held # NoTask /\ held' = NoTask /\ drain' = "room"
          /\ UNCHANGED <<queue, task, nextID, withdrawn, clock, called>>
          /\ runs' = [runs EXCEPT ![held] = @ + 1]
      BY <1>1, <1>8 DEF DrainHandOff, DrainState, BeginRun, otherVars
    <2>2. \A u \in called : /\ Settled(u) => Settled(u)'
                            /\ u = held => Settled(u)'
                            /\ Ready(u) => Ready(u)'
      BY <1>2, <1>3, <2>1 DEF Settled, Ready
    <2> QED
      BY <1>1, <2>1, <2>2 DEF Calls
  <1>9. CASE DrainJoin
    BY <1>1, <1>9 DEF DrainJoin, Calls, Settled, Ready, vars
  <1>10. ASSUME NEW w \in Slot, DrainFinish(w)
         PROVE  Calls'
    <2>1. /\ UNCHANGED <<held, runs, queue, task, nextID, withdrawn, clock>>
          /\ worker[w].pc # "idle"
      BY <1>1, <1>10, GoesOnStep, EndsStep DEF DrainFinish
    <2>2. /\ UNCHANGED <<called, round>> /\ done' \in {done, done + 1}
          /\ drain' = drain \/ drain' = "room"
      BY <1>10 DEF DrainFinish, drainVars
    <2>3. done' < MaxUnits => done < MaxUnits
      BY <1>2, <2>2
    <2> QED
      BY <1>1, <2>1, <2>2, <2>3 DEF Calls, Settled, Ready
  <1>11. ASSUME NEW c \in Clients, ClientStep(c), UNCHANGED drainVars
         PROVE  Calls'
    <2>1. /\ UNCHANGED <<held, runs, withdrawn, clock, called, drain, done, round>>
          /\ nextID' \in {nextID, nextID + 1} /\ queue \subseteq queue'
          /\ \A u \in 1..nextID : task'[u] = task[u]
      BY <1>1, <1>2, <1>11
         DEF ClientStep, Stamp, Enqueue, Interrupt, kernelFields, runLocals, drainVars, TypeOK
    <2>2. 1..nextID \subseteq 1..nextID'
      BY <1>2, <2>1
    <2>3. \A u \in called : Ready(u) => Ready(u)'
      BY <1>1, <2>1 DEF Calls, Ready
    <2> QED
      BY <1>1, <2>1, <2>2, <2>3 DEF Calls, Settled
  <1>12. ASSUME NEW t \in TaskId, Cancel(t), UNCHANGED drainVars
         PROVE  Calls'
    BY <1>1, <1>12 DEF Cancel, Calls, Settled, Ready, runLocals, drainVars
  <1>13. CASE ClockTick /\ UNCHANGED drainVars
    <2>1. /\ UNCHANGED <<held, runs, withdrawn, called, drain, done, round, nextID, queue, task>>
          /\ clock' = clock + 1
      BY <1>13 DEF ClockTick, kernelFields, runLocals, drainVars
    <2>2. \A u \in called : Ready(u) => Ready(u)'
      BY <1>2, <1>3, <2>1 DEF Ready
    <2> QED
      BY <1>1, <2>1, <2>2 DEF Calls, Settled
  <1> QED
    BY <1>4, <1>5, <1>6, <1>7, <1>8, <1>9, <1>10, <1>11, <1>12, <1>13 DEF DrainNext, DrainStep

------------------------------------------------------------------------------
(* The theorems *)

LEMMA DrainStarts == DrainInit => DrainIInv
  <1> SUFFICES ASSUME DrainInit PROVE DrainIInv
    OBVIOUS
  <1>1. TypeOK /\ Reserving /\ Init
    BY InitTypes, InitDiscipline DEF DrainInit, Discipline
  <1>2. CyclesDone /\ held = NoTask /\ inFlight = {}
    BY <1>1 DEF Init, CyclesDone, IdleWorker
  <1>3. DrainTypeOK
    BY UnitsAssumption DEF DrainInit, DrainTypeOK, DrainPC
  <1>4. DrainState
    BY <1>2 DEF DrainInit, DrainState, CyclesDone
  <1>5. UnderWay = 0
    BY <1>2, CountedNow DEF Counted, HeldUnits
  <1>6. Units
    BY <1>5, UnitsAssumption DEF DrainInit, Units
  <1>7. Calls
    BY DEF DrainInit, Calls
  <1> QED
    BY <1>1, <1>3, <1>4, <1>6, <1>7 DEF DrainIInv

LEMMA DrainStutters ==
  ASSUME DrainIInv, UNCHANGED allVars
  PROVE  DrainIInv'
  BY DEF DrainIInv, allVars, vars, drainVars, TypeOK, DrainTypeOK, Reserving, IdsInUse,
         HoldersReserved, HoldersDiffer, NoLeak, DrainState, CyclesDone, Units, UnderWay,
         Active, Calls, Settled, Ready, Holding, InstOf

(* Every reachable state of a drain (kernel.go:337-449) satisfies the       *)
(* invariant: instances are reserved as under Run, units under way stay    *)
(* within the room, and what was ready is run, cancelled or still ready.   *)
THEOREM DrainInvariance == DrainSpec => []DrainIInv
  <1>1. DrainInit => DrainIInv
    BY DrainStarts
  <1>2. DrainIInv /\ [DrainNext]_allVars => DrainIInv'
    BY DrainTypes, DrainReserving, DrainStateStep, UnitsStep, CallsStep, DrainStutters
       DEF DrainIInv
  <1> QED
    BY <1>1, <1>2, PTL DEF DrainSpec

(* maxUnits bounds the work (kernel.go:338-339), for every pool size: what  *)
(* Drain has collected and what is still under way never exceed it.        *)
THEOREM DrainWithinUnits == DrainSpec => []UnitsBounded
  <1>1. DrainIInv => UnitsBounded
    <2> SUFFICES ASSUME DrainIInv PROVE UnitsBounded
      OBVIOUS
    <2>1. /\ done + UnderWay <= MaxUnits /\ UnderWay = ActiveUnits + HeldUnits
          /\ ActiveUnits \in Nat /\ HeldUnits \in {0, 1} /\ done \in Nat
      BY CountedNow DEF DrainIInv, Units, Counted, DrainTypeOK
    <2>2. done + ActiveUnits + HeldUnits <= MaxUnits
      BY <2>1, UnitsAssumption
    <2> QED
      BY <2>2, HeldCount DEF UnitsBounded, ActiveUnits, Active, HeldUnits
  <1> QED
    BY <1>1, DrainInvariance, PTL

(* When Drain returns (kernel.go:337, 408-449), whatever was ready when it  *)
(* was called has run or was cancelled -- unless the bound stopped it --   *)
(* and no goroutine, task in hand or reservation is left.                  *)
THEOREM DrainIsComplete == DrainSpec => []DrainLeavesNothing
  <1>1. DrainIInv => DrainLeavesNothing
    <2> SUFFICES ASSUME DrainIInv, drain = "returned"
                 PROVE  /\ done < MaxUnits => \A t \in called : runs[t] > 0 \/ t \in withdrawn
                        /\ held = NoTask /\ inFlight = {} /\ CyclesDone
      BY DEF DrainLeavesNothing
    <2>1. done < MaxUnits => \A t \in called : runs[t] > 0 \/ t \in withdrawn
      BY DEF DrainIInv, Calls, Settled
    <2>2. held = NoTask /\ CyclesDone
      BY DEF DrainIInv, DrainState
    <2>3. inFlight = {}
      BY <2>2 DEF DrainIInv, Reserving, NoLeak, CyclesDone, Holding
    <2> QED
      BY <2>1, <2>2, <2>3
  <1> QED
    BY <1>1, DrainInvariance, PTL
==============================================================================
