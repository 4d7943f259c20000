------------------------------- MODULE Kernel --------------------------------
(***************************************************************************)
(* The scheduler of src/kernel.go: a run queue of one-shot and recurring   *)
(* tasks, and the loop Run drives -- dispatch what is ready, otherwise     *)
(* sleep until an interrupt, a timer or cancellation.  With more than one  *)
(* worker the loop hands tasks to goroutines bounded by a semaphore and    *)
(* reserves the instance of each (takeReady with reserve); with one worker *)
(* it runs them itself (Tick).                                             *)
(*                                                                         *)
(* One action is one region of code between two points where another       *)
(* goroutine can interfere: a critical section of k.mu, a channel          *)
(* operation, or the cycle itself.  takeReady reads the clock just before   *)
(* it takes the lock; reading and critical section are one step here.      *)
(*                                                                         *)
(* Abstractions.  A task is known by its ID.  k.queue is the SET of queued *)
(* IDs: Submit appends in the critical section that hands out the next ID  *)
(* and nothing reorders the slice, so slice order is ID order.  The clock  *)
(* is a counter that may advance between any two steps.  A cycle that ran, *)
(* was blocked, failed or panicked is the same to the scheduler, and so is *)
(* a run whose instance is not registered (classifyDispatch words it).     *)
(* Statistics nothing decides on (idleWaits, durations, the trimming of    *)
(* the history) are left out.                                              *)
(***************************************************************************)
EXTENDS Integers, FiniteSets

CONSTANTS
  Names,     \* instance names
  Clients,   \* goroutines that call Submit and Schedule
  Workers,   \* the resolved pool size, workers()
  Work,      \* what clients submit: [inst, every, delay]
  MaxTasks,  \* bound: Submit is called at most this often
  MaxTime    \* bound: the clock stops here

ASSUME WorkersAssumption == Workers \in Nat \ {0}
ASSUME BoundsAssumption  == MaxTasks \in Nat /\ MaxTime \in Nat
ASSUME WorkAssumption    == Work \subseteq [inst : Names, every : Nat, delay : Nat]
ASSUME NamesAssumption   == Names # {}

Parallel == Workers > 1
Slot     == 1..Workers
TaskId   == 1..MaxTasks
NoTask   == 0
Never    == -1

(* A task as Submit builds it; `stamp' is the time.Now() its `due' was      *)
(* computed from.                                                          *)
Task == [inst : Names, every : Nat, delay : Nat, stamp : Nat, due : Nat]

LoopPC   == {"off", "top", "scan", "handoff", "tick", "plan", "sleep", "wait"}
WorkerPC == {"idle", "cycle", "release", "signal", "exit"}
ClientPC == {"idle", "stamped", "queued"}

VARIABLES
  \* the Kernel's fields, guarded by k.mu (and the wake channel)
  queue,       \* the IDs of the queued tasks
  task,        \* the task each ID names
  inFlight,    \* the reserved instances
  nextID,      \* the last ID handed out
  wake,        \* the one token the wake channel can hold
  runs,        \* Task.runs
  \* what Run keeps on its stack
  loop,        \* where the loop is
  held,        \* the task taken and not yet handed to a goroutine
  launched,    \* did this pass of submitReady launch anything
  deadline,    \* when the sleep's timer fires, or Never
  scanned,     \* the `now' of the latest takeReady that found nothing
  ctxDone,     \* is Run's context cancelled
  \* the goroutines
  worker,      \* one per semaphore token
  client,      \* callers of Submit
  \* the rest of the world
  clock,       \* what time.Now() returns
  \* what became of each task (history variables)
  dispatched,  \* how many of its runs record() has entered in the history
  withdrawn    \* the tasks Cancel removed

kernelFields == <<queue, task, inFlight, nextID, wake, runs>>
runLocals    == <<loop, held, launched, deadline, scanned, ctxDone>>
vars == <<queue, task, inFlight, nextID, wake, runs,
          loop, held, launched, deadline, scanned, ctxDone,
          worker, client, clock, dispatched, withdrawn>>

BlankTask  == [inst |-> CHOOSE n \in Names : TRUE, every |-> 0, delay |-> 0,
               stamp |-> 0, due |-> 0]
IdleWorker == [pc |-> "idle", task |-> NoTask]
IdleClient == [pc |-> "idle", task |-> BlankTask]

TypeOK ==
  /\ queue \subseteq TaskId
  /\ task \in [TaskId -> Task]
  /\ inFlight \subseteq Names
  /\ nextID \in 0..MaxTasks
  /\ wake \in BOOLEAN
  /\ runs \in [TaskId -> Nat]
  /\ loop \in LoopPC
  /\ held \in TaskId \cup {NoTask}
  /\ launched \in BOOLEAN
  /\ deadline \in Nat \cup {Never}
  /\ scanned \in Nat \cup {Never}
  /\ ctxDone \in BOOLEAN
  /\ worker \in [Slot -> [pc : WorkerPC, task : TaskId \cup {NoTask}]]
  /\ client \in [Clients -> [pc : ClientPC, task : Task]]
  /\ clock \in Nat
  /\ dispatched \in [TaskId -> Nat]
  /\ withdrawn \subseteq TaskId

Init ==
  /\ queue = {}
  /\ task = [t \in TaskId |-> BlankTask]
  /\ inFlight = {}
  /\ nextID = 0
  /\ wake = FALSE
  /\ runs = [t \in TaskId |-> 0]
  /\ loop = "off"
  /\ held = NoTask
  /\ launched = FALSE
  /\ deadline = Never
  /\ scanned = Never
  /\ ctxDone = FALSE
  /\ worker = [w \in Slot |-> IdleWorker]
  /\ client = [c \in Clients |-> IdleClient]
  /\ clock = 0
  /\ dispatched = [t \in TaskId |-> 0]
  /\ withdrawn = {}

------------------------------------------------------------------------------
(* Submit, in its three steps: read the clock and build the task, append it *)
(* under the lock, raise the interrupt after unlocking.                    *)

Stamp(c) ==
  /\ client[c].pc = "idle"
  /\ nextID < MaxTasks
  /\ \E w \in Work :
       client' = [client EXCEPT ![c] =
         [pc   |-> "stamped",
          task |-> [inst |-> w.inst, every |-> w.every, delay |-> w.delay,
                    stamp |-> clock, due |-> clock + w.delay]]]
  /\ UNCHANGED <<kernelFields, runLocals, worker, clock, dispatched, withdrawn>>

Enqueue(c) ==
  /\ client[c].pc = "stamped"
  /\ nextID < MaxTasks
  /\ nextID' = nextID + 1
  /\ task' = [task EXCEPT ![nextID + 1] = client[c].task]
  /\ queue' = queue \cup {nextID + 1}
  /\ client' = [client EXCEPT ![c].pc = "queued"]
  /\ UNCHANGED <<inFlight, wake, runs, runLocals, worker, clock,
                 dispatched, withdrawn>>

(* Mutant: Submit unlocks and returns without raising the interrupt. *)
InterruptForgotten(c) ==
  /\ client[c].pc = "queued"
  /\ client' = [client EXCEPT ![c] = IdleClient]
  /\ UNCHANGED <<kernelFields, runLocals, worker, clock, dispatched, withdrawn>>

(* interrupt(): the channel holds one token, a second send is dropped.      *)
Interrupt(c) ==
  /\ client[c].pc = "queued"
  /\ wake' = TRUE
  /\ client' = [client EXCEPT ![c] = IdleClient]
  /\ UNCHANGED <<queue, task, inFlight, nextID, runs, runLocals,
                 worker, clock, dispatched, withdrawn>>

Cancel(t) ==
  /\ t \in queue
  /\ queue' = queue \ {t}
  /\ withdrawn' = withdrawn \cup {t}
  /\ UNCHANGED <<task, inFlight, nextID, wake, runs, runLocals,
                 worker, client, clock, dispatched>>

------------------------------------------------------------------------------
(* takeReady(now, reserve): the soonest-due task whose time has come -- the *)
(* first of them in the queue on a tie -- leaves the queue, or is re-armed  *)
(* if it recurs.  With reserve, busy instances are skipped and the taken    *)
(* task's instance is reserved, in the same critical section.              *)

(* Mutant: takeReady skips only tasks that are not due. *)
StartableThoughBusy(t) == t \in queue /\ task[t].due <= clock

Startable(t) ==
  /\ t \in queue
  /\ task[t].due <= clock
  /\ Parallel => task[t].inst \notin inFlight

(* Mutant: the scan keeps the last of the soonest tasks, not the first. *)
SoonerLastWins(t, u) ==
  \/ task[t].due < task[u].due
  \/ task[t].due = task[u].due /\ t >= u

Sooner(t, u) ==
  \/ task[t].due < task[u].due
  \/ task[t].due = task[u].due /\ t <= u

Recurring(t) == task[t].every > 0

(* Mutants: a fired timer is not re-armed; it is re-armed into the past. *)
NextDueUnchanged(t) == task[t].due
NextDueBackwards(t) == IF Recurring(t) THEN clock - task[t].every ELSE task[t].due

NextDue(t) == IF Recurring(t) THEN clock + task[t].every ELSE task[t].due

(* Mutant: one-shot tasks stay in the queue too. *)
QueueUnchanged(t) == queue

QueueWithout(t) == IF Recurring(t) THEN queue ELSE queue \ {t}

(* Mutant: the instance is checked but not reserved in the same section. *)
TakeReadyUnreserved(t) ==
  /\ Startable(t)
  /\ \A u \in queue : Startable(u) => Sooner(t, u)
  /\ task' = [task EXCEPT ![t].due = NextDue(t)]
  /\ queue' = QueueWithout(t)
  /\ inFlight' = inFlight

TakeReady(t) ==
  /\ Startable(t)
  /\ \A u \in queue : Startable(u) => Sooner(t, u)
  /\ task' = [task EXCEPT ![t].due = NextDue(t)]
  /\ queue' = QueueWithout(t)
  /\ inFlight' = IF Parallel THEN inFlight \cup {task[t].inst} ELSE inFlight

------------------------------------------------------------------------------
(* Run.  A second Run returns at once (the compare-and-swap on running), so *)
(* there is one loop; after it returned, Run may be called again.          *)

RunStart ==
  /\ loop = "off"
  /\ loop' = "top"
  /\ ctxDone' = FALSE
  /\ UNCHANGED <<kernelFields, held, launched, deadline, scanned, worker,
                 client, clock, dispatched, withdrawn>>

(* The caller cancels the context Run was given.                            *)
CancelContext ==
  /\ loop # "off"
  /\ ~ctxDone
  /\ ctxDone' = TRUE
  /\ UNCHANGED <<kernelFields, loop, held, launched, deadline, scanned,
                 worker, client, clock, dispatched, withdrawn>>

(* The head of the loop: return once the context is cancelled, after every  *)
(* goroutine is done; otherwise another pass.                              *)
RunTop ==
  /\ loop = "top"
  /\ loop' = IF ctxDone THEN "wait" ELSE "scan"
  /\ UNCHANGED <<kernelFields, held, launched, deadline, scanned, ctxDone,
                 worker, client, clock, dispatched, withdrawn>>

CyclesDone == \A w \in Slot : worker[w].pc = "idle"

(* Mutant: Run does not wait for its goroutines. *)
RunReturnAtOnce ==
  /\ loop = "wait"
  /\ loop' = "off"
  /\ UNCHANGED <<kernelFields, held, launched, deadline, scanned, ctxDone,
                 worker, client, clock, dispatched, withdrawn>>

RunReturn ==
  /\ loop = "wait"
  /\ CyclesDone
  /\ loop' = "off"
  /\ UNCHANGED <<kernelFields, held, launched, deadline, scanned, ctxDone,
                 worker, client, clock, dispatched, withdrawn>>

(* The start of a dispatch on slot w: dispatch counts the run before the    *)
(* cycle begins.  (It also looks the instance up here, and not when the    *)
(* task was taken; a missing one ends the run at once, which the scheduler *)
(* does not tell from a cycle that failed.)                                *)
BeginRun(w, t) ==
  /\ worker' = [worker EXCEPT ![w] = [pc |-> "cycle", task |-> t]]
  /\ runs' = [runs EXCEPT ![t] = @ + 1]

(* submitReady takes and reserves first, then waits for a semaphore token;  *)
(* Tick runs the task on the loop's own goroutine (slot 1).  Tokens have no *)
(* identity: the free slot with the least number stands for any.           *)
LoopTake(t) ==
  /\ loop = "scan"
  /\ TakeReady(t)
  /\ IF Parallel
     THEN loop' = "handoff" /\ held' = t /\ UNCHANGED <<worker, runs>>
     ELSE loop' = "tick" /\ BeginRun(1, t) /\ UNCHANGED held
  /\ UNCHANGED <<nextID, wake, launched, deadline, scanned, ctxDone, client,
                 clock, dispatched, withdrawn>>

LoopHandOff(w) ==
  /\ loop = "handoff"
  /\ worker[w].pc = "idle"
  /\ \A v \in Slot : worker[v].pc = "idle" => w <= v
  /\ BeginRun(w, held)
  /\ loop' = "scan"
  /\ held' = NoTask
  /\ launched' = TRUE
  /\ UNCHANGED <<queue, task, inFlight, nextID, wake, deadline, scanned,
                 ctxDone, client, clock, dispatched, withdrawn>>

(* takeReady returned nil: start over if this pass launched something,      *)
(* otherwise go to sleep.                                                  *)
LoopNothingReady ==
  /\ loop = "scan"
  /\ \A t \in queue : ~Startable(t)
  /\ scanned' = clock
  /\ launched' = FALSE
  /\ loop' = IF launched THEN "top" ELSE "plan"
  /\ UNCHANGED <<kernelFields, held, deadline, ctxDone, worker, client, clock,
                 dispatched, withdrawn>>

(* untilNext reads the clock a second time and looks only at tasks due      *)
(* after that reading; with none the sleep has no timer.                   *)
Timed(t) == t \in queue /\ task[t].due > clock

PlanSleep ==
  /\ loop = "plan"
  /\ loop' = "sleep"
  /\ \/ /\ \A t \in queue : ~Timed(t)
        /\ deadline' = Never
     \/ \E t \in queue :
          /\ Timed(t)
          /\ \A u \in queue : Timed(u) => task[t].due <= task[u].due
          /\ deadline' = task[t].due
  /\ UNCHANGED <<kernelFields, held, launched, scanned, ctxDone, worker,
                 client, clock, dispatched, withdrawn>>

(* The select of sleepUntilInterrupt: an interrupt, the timer, or the       *)
(* context, whichever the runtime picks when several are ready.            *)
WakeOnInterrupt ==
  /\ loop = "sleep"
  /\ wake
  /\ wake' = FALSE
  /\ loop' = "top"
  /\ deadline' = Never
  /\ scanned' = Never
  /\ UNCHANGED <<queue, task, inFlight, nextID, runs, held, launched,
                 ctxDone, worker, client, clock, dispatched, withdrawn>>

WakeOnTimer ==
  /\ loop = "sleep"
  /\ deadline # Never
  /\ deadline <= clock
  /\ loop' = "top"
  /\ deadline' = Never
  /\ scanned' = Never
  /\ UNCHANGED <<kernelFields, held, launched, ctxDone, worker,
                 client, clock, dispatched, withdrawn>>

(* Mutant: the sleep does not select on the context. *)
WakeOnCancelMissing == FALSE

WakeOnCancel ==
  /\ loop = "sleep"
  /\ ctxDone
  /\ loop' = "top"
  /\ deadline' = Never
  /\ scanned' = Never
  /\ UNCHANGED <<kernelFields, held, launched, ctxDone, worker,
                 client, clock, dispatched, withdrawn>>

------------------------------------------------------------------------------
(* The end of a dispatch: the run is recorded, and a goroutine then gives   *)
(* back, in this order, the reservation, an interrupt, and its token.      *)

WorkerRecord(w) ==
  LET t == worker[w].task IN
  /\ worker[w].pc = "cycle"
  /\ dispatched' = [dispatched EXCEPT ![t] = @ + 1]
  /\ IF Parallel
     THEN /\ worker' = [worker EXCEPT ![w].pc = "release"]
          /\ UNCHANGED loop
     ELSE /\ worker' = [worker EXCEPT ![w] = IdleWorker]
          /\ loop' = "top"
  /\ UNCHANGED <<kernelFields, held, launched, deadline, scanned, ctxDone,
                 client, clock, withdrawn>>

(* Mutants: the reservation is never given back; the interrupt after it is  *)
(* not raised.                                                             *)
WorkerReleaseForgotten(w) ==
  /\ worker[w].pc = "release"
  /\ worker' = [worker EXCEPT ![w] = [pc |-> "signal", task |-> NoTask]]
  /\ UNCHANGED <<kernelFields, runLocals, client, clock, dispatched, withdrawn>>

WorkerSignalForgotten(w) ==
  /\ worker[w].pc = "signal"
  /\ worker' = [worker EXCEPT ![w].pc = "exit"]
  /\ UNCHANGED <<kernelFields, runLocals, client, clock, dispatched, withdrawn>>

WorkerRelease(w) ==
  /\ worker[w].pc = "release"
  /\ inFlight' = inFlight \ {task[worker[w].task].inst}
  /\ worker' = [worker EXCEPT ![w] = [pc |-> "signal", task |-> NoTask]]
  /\ UNCHANGED <<queue, task, nextID, wake, runs, runLocals, client,
                 clock, dispatched, withdrawn>>

WorkerSignal(w) ==
  /\ worker[w].pc = "signal"
  /\ wake' = TRUE
  /\ worker' = [worker EXCEPT ![w].pc = "exit"]
  /\ UNCHANGED <<queue, task, inFlight, nextID, runs, runLocals,
                 client, clock, dispatched, withdrawn>>

WorkerExit(w) ==
  /\ worker[w].pc = "exit"
  /\ worker' = [worker EXCEPT ![w] = IdleWorker]
  /\ UNCHANGED <<kernelFields, runLocals, client, clock, dispatched, withdrawn>>

------------------------------------------------------------------------------
(* Time passes between any two steps. *)
ClockTick ==
  /\ clock < MaxTime
  /\ clock' = clock + 1
  /\ UNCHANGED <<kernelFields, runLocals, worker, client, dispatched, withdrawn>>

LoopStep ==
  \/ RunTop \/ RunReturn \/ LoopNothingReady \/ PlanSleep
  \/ WakeOnInterrupt \/ WakeOnTimer \/ WakeOnCancel
  \/ \E t \in TaskId : LoopTake(t)
  \/ \E w \in Slot : LoopHandOff(w)

WorkerStep(w) ==
  WorkerRecord(w) \/ WorkerRelease(w) \/ WorkerSignal(w) \/ WorkerExit(w)

ClientStep(c) == Stamp(c) \/ Enqueue(c) \/ Interrupt(c)

Next ==
  \/ \E c \in Clients : ClientStep(c)
  \/ \E t \in TaskId : Cancel(t)
  \/ RunStart \/ CancelContext \/ LoopStep
  \/ \E w \in Slot : WorkerStep(w)
  \/ ClockTick

Spec == Init /\ [][Next]_vars

(* Every goroutine that can run does: the loop, the workers (their cycles   *)
(* end: the model client retries a bounded number of times, and a tool      *)
(* call has a timeout), a caller between its append and its interrupt, and  *)
(* the clock.  Nobody owes a submission, a cancellation or a restart.      *)
Fairness ==
  /\ WF_vars(LoopStep)
  /\ \A w \in Slot : WF_vars(WorkerStep(w))
  /\ \A c \in Clients : WF_vars(Interrupt(c))
  /\ WF_vars(ClockTick)

FairSpec == Spec /\ Fairness

------------------------------------------------------------------------------
(* Properties *)

Busy(w)    == worker[w].pc = "cycle"
Holding(w) == worker[w].pc \in {"cycle", "release"}
InstOf(w)  == task[worker[w].task].inst

(* kernel.go:49-53: at most one cycle runs per instance, so each instance   *)
(* is the single writer of its memory and trail, whatever the pool size.   *)
OneCyclePerInstance ==
  \A v, w \in Slot : v # w /\ Busy(v) /\ Busy(w) => InstOf(v) # InstOf(w)

(* kernel.go:358-361 and 472-483: a reservation lives exactly as long as    *)
(* its holder -- the task in the loop's hand or a goroutine that has not   *)
(* released it.  A leaked one would starve its instance for ever.          *)
ReservationsOwned ==
  inFlight = IF ~Parallel THEN {}
             ELSE {InstOf(w) : w \in {v \in Slot : Holding(v)}}
                  \cup {task[t].inst : t \in {held} \ {NoTask}}

(* kernel.go:603-605: Run returns only after every in-flight cycle has      *)
(* finished; nothing is half taken and nothing stays reserved.             *)
ReturnedRunIsQuiet ==
  loop = "off" => held = NoTask /\ inFlight = {} /\ CyclesDone

(* A one-shot task is in exactly one place: in the queue, in the hands of   *)
(* the loop or a worker, recorded once, or cancelled.  It is never lost    *)
(* and never runs twice, through any order of Submit, Cancel, dispatch,    *)
(* cancellation and restart of Run.                                        *)
InHand(t) == held = t \/ \E w \in Slot : Busy(w) /\ worker[w].task = t

OneShotAccounted ==
  \A t \in 1..nextID : ~Recurring(t) =>
    LET queued    == IF t \in queue THEN 1 ELSE 0
        inHand    == IF InHand(t) THEN 1 ELSE 0
        cancelled == IF t \in withdrawn THEN 1 ELSE 0
    IN queued + inHand + cancelled + dispatched[t] = 1

(* A task runs on schedule, never early and never twice in one period: by   *)
(* its n-th run, n-1 periods have passed since its first due time.         *)
NeverAheadOfSchedule ==
  \A t \in 1..nextID :
    runs[t] > 0 =>
      task[t].stamp + task[t].delay + (runs[t] - 1) * task[t].every <= clock

(* Two one-shot tasks of one instance start in the order they fell due and, *)
(* on a tie, were submitted: an earlier one is not still queued once a     *)
(* later one has been taken.                                               *)
FifoPerInstance ==
  \A t, u \in 1..nextID :
    /\ task[t].inst = task[u].inst /\ ~Recurring(t) /\ ~Recurring(u)
    /\ t < u /\ task[t].due <= task[u].due
    /\ t \in queue
    => u \in queue \/ u \in withdrawn

(* kernel.go:305-315, 476-480 and 632-638: when the loop is asleep and no   *)
(* interrupt is on its way, there was nothing to do at its latest scan     *)
(* except on reserved instances (whose release will interrupt).  What it   *)
(* can miss fell due between its two readings of the clock, no more.       *)
InterruptComing ==
  \/ wake
  \/ \E c \in Clients : client[c].pc = "queued"
  \/ \E w \in Slot : worker[w].pc = "signal"

SleepsOnlyWhenIdle ==
  loop = "sleep" /\ ~InterruptComing =>
    \A t \in queue : \/ task[t].due > scanned
                     \/ task[t].inst \in inFlight

(* The scheduler implements the promise made to the fleet.                  *)
Promise == INSTANCE Fleet WITH
  Job       <- TaskId,
  owner     <- [t \in TaskId |-> IF t <= nextID THEN task[t].inst ELSE "unowned"],
  repeats   <- {t \in 1..nextID : Recurring(t)},
  pending   <- queue,
  executing <- {t \in 1..nextID :
                  held = t \/ \E w \in Slot : Holding(w) /\ worker[w].task = t}

FleetPromise == Promise!FleetSpec

(* A task due at once starts, whoever else is queued or running and however *)
(* its interrupt races the loop going to sleep -- unless it is cancelled   *)
(* or the loop is told to stop.  (kernel.go:231-233)                       *)
Stopped == ctxDone \/ loop = "off"

PromptTaskStarts ==
  \A t \in TaskId :
    t \in queue /\ ~Recurring(t) /\ task[t].delay = 0 ~> t \notin queue \/ Stopped

(* Cancelling the context ends Run (kernel.go:603-607), from whatever it    *)
(* was doing: asleep with or without a timer, waiting for a token with a   *)
(* task in hand, or with cycles in flight -- unless it never comes back to *)
(* the head of its loop, the only place where it looks at the context.  The *)
(* one way not to is to go on taking tasks: submitReady (454-469) takes     *)
(* until nothing is ready, and recurring work that always leaves something  *)
(* ready keeps a cancelled Run launching cycles.  With the bounds on tasks  *)
(* and time, no behaviour takes tasks for ever and every cancelled Run      *)
(* returns; without them this is what remains true.                         *)
CancelEndsRun ==
  <>[](ctxDone /\ loop # "off") => []<><<\E t \in TaskId : LoopTake(t)>>_vars

(* kernel.go:651-653 says the sleep lasts `until a task is submitted, the   *)
(* next timer is due, or the context is cancelled': a deferred task whose  *)
(* time has come starts.                                                   *)
DueTaskStarts ==
  \A t \in TaskId :
    t \in queue /\ ~Recurring(t) /\ task[t].due <= clock ~> t \notin queue \/ Stopped
==============================================================================
