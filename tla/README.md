# Verification of eargo

TLA+ models of the Enterprise Agentic Runtime in Go (`src/`), the TLC
configurations that check them on small instances, and theorems about them that
TLAPS proves for every instance. The code is the reference: each definition is
translated from it, and `PROJECT.json` names the lines (`map`), the runs, the
hazards each property is for, and the places where code and documentation
disagree (`findings`).

Contents: 1 the system, 2 the modules, 3 the runs, 4 the properties, 5 fairness,
6 proofs, 7 where code and documentation disagree, 8 what is not modelled,
9 plan.

## 1. The system

A deployment is one process. It loads *stacks* (directories of markdown that
describe an enterprise: policies, processes, workflows, memory, tools) into
*runtimes*, registers each as an *instance* with the *kernel*, and runs
reasoning cycles on them: from the command line, from the kernel's schedule, or
for HTTP requests.

| Component (source) | State | Operations | What is hard | What makes it correct |
|---|---|---|---|---|
| Kernel scheduler (`kernel.go`) | process table, run queue, reservations (`inFlight`), ids, the one-token `wake` channel, history; on `Run`'s stack the sleep's deadline | `Submit`, `Schedule`, `Arm`, `Cancel`, `Run` (serial or with a pool), `Tick`, `Drain`, `Register`, `Remove` | callers, loop and workers interleave between short critical sections; two clock readings per pass; interrupts raised after unlocking; cancellation at any time | one scheduled cycle per instance; no task lost or run twice; no lost wake-up; `Run` and `Drain` return, and quietly |
| HTTP server (`server.go`) | `lastIntents`, `lastResults`, the listener; the kernel's table | `create`, `delete`, `submit`, `approve`, listings, `Serve` and its shutdown | handlers run on their own goroutines beside the kernel's cycles; lookups go stale; two locks | parked intents stay approvable; a stop ends, with no standing work left and after a clean one no request either |
| Runtime, pipeline, governance (`runtime.go`, `cycle.go`, `stages.go`, `pipeline.go`, `policy.go`, `judgment.go`) | the cycle in flight, its approval, the plan | `Reason` through fifteen stages, two governance gates, accounting, retention, saving | every stage may fail; four kinds of verdict at two gates; accounting on every exit | no deliberation under a policy neither met nor waived; each cycle accounted once; the trail tells the outcome |
| Reasoning log (`reasoninglog.go`) | cycles of records, chain tip, numbering | `BeginCycle`, `Record`, `Rotate`, `Verify`, resumption | rotation, late records, resumed numbers | what is kept of a cycle is whole and in order |
| Persisted trail (`trailfile.go`) | the file in one of two codecs; per session the tip, last heading, numbering | open and resume, write, close, `VerifyTrail`, `ReadTrail` | crashes inside a write, failing writes, edits, two writers | the chain continues; edits of what it covers show; cycle numbers never repeat; what was written is read back |
| Memory and session store (`memory.go`, `session_store.go`) | working and compressed entries, experience, adaptations; the session file | `Record`, `Compress`, `adapt`, `Save`, `Restore` | capacity, a file emptied before it is filled, two codecs | decisions remembered once, in order; a restart resumes warm |
| Authority envelopes (`authority.go`) | registry of envelopes, the stored blob | certify, change standing, gate, persist, load | fields read after the lock is left; blobs written without it | the gate rules by the registry; a restart goes no further back than the last transition that ran alone and was written |
| MCP client (`mcp_client.go`, `mcp.go`) | pending requests, ids, the pump, the subprocess | connect, request, notify, close | late, reordered, unasked or missing answers; server exit; close against all of it | an answer reaches its own caller or nobody; every wait ends; no process is left over |
| Parallel judging (`concurrent.go`) | none of its own | `parallelMap` | goroutines joined before it returns, each writing its own slot | part of `Cycle`'s `Govern` |
| Tool loop, binder, LLM client (`seams.go`, `tool_reasoning.go`, `tool_binder.go`, `llm_client.go`) | iterations, recoveries, failed calls, the facts gathered; attempts of a completion | reason with tools, `InvokeTool`, `Complete` | bounds inside bounds; a model that repeats itself or answers nothing usable; judges and handlers that fail; cancellation | it ends within its budgets; a failed call is not repeated unchanged; what the model is told is on the trail |
| Panel (`panel.go`) | transcript, seat, whose turn | `Convene` | the model chooses speakers and may conclude early | everyone is heard; turns are bounded |
| Budget and spawner (`budget.go`, `spawner.go`, usage in `runtime.go`, `lm.go`) | spend, thresholds told, subagents; the shared model's history | `recordUsage`, `Add`, `Spawn` | cycles and subagents overlap on one history; alerts outside the lock | usage covers a cycle; a threshold is told once; the limit holds |
| Catalogue stores and library (`store.go`, `store_sql.go`) | named objects in files or a table | read, write, delete, list | writes that are not atomic, names that share a slug | writing is in `Authority`; the rest is planned |
| Identity (`identity.go`) | the claim in a context | `MayActAs`, the check in `Reason` | no claim is permitted, an empty one refused | part of `Cycle`'s `Reason` |
| Monitor (`monitor.go`) | derived from log and kernel history | `InspectRuntime`, `InspectFleet`, `classifyHealth` | records of one gate in several stages; logs that were rotated | a stopped cycle is reported once, a decided one not at all |
| Knowledge, expressions, signatures, command line; the loader but for what it wires | -- | sequential parsing, ranking, printing | -- | not modelled (section 8) |

Interactions. Clients and the loader call the kernel; the kernel calls `Reason`
of a runtime from its loop or a worker. The server calls the kernel's table and
calls `Reason` itself, on the request's goroutine. A cycle judges policies (the
authority gate is one), deliberates, writes the log -- which writes the trail
file through -- and saves the session. Authority transitions come from
operators at any time and share the log. Tools bound from an MCP server share one
client; the cycles of a runtime and of its subagents share one model.

## 2. The modules

| Module | Models | State and actions, in the code's terms |
|---|---|---|
| `Fleet` | the promise of the scheduler (abstract) | who owns which job, what is pending, what is executing; accept, start, finish, withdraw. No queue, clock, pool or loop. |
| `Kernel` | `kernel.go`: `Submit`, `Cancel`, `takeReady`, `Run`, dispatch | One action per region between two points of interference: a critical section of `k.mu`, a channel operation, a cycle. `Submit` is `Stamp` (read the clock), `Enqueue` (lock), `Interrupt`. The loop is a program counter (`top`, `scan`, `handoff`, `tick`, `plan`, `sleep`, `wait`); a worker is `cycle`, `release`, `signal`, `exit`. With `Workers = 1` the loop runs the cycle itself. |
| `KernelDrain` | `Drain`, `drainConcurrent` | EXTENDS `Kernel`, reusing its `takeReady`, `Submit` and `Cancel`; rounds of launches and joins. |
| `ReasoningLog` | `reasoninglog.go` | operators on one log value: `BeginCycle`, `Record`, `Rotate`, `Verify`, resumption |
| `Cycle` | a runtime and its cycles | EXTENDS `ReasoningLog`. `Reason` begins; one action per stage or group of stages that write to the cycle alone; `RecordUsage`, `ApplyRetention` and the two halves of a save follow on every exit; `CrashAndLoad` is a restart. The session file is the sections of a markdown document, any beginning of which may be on disk with its last section cut, or one JSON document. A judge, a model and a human may answer anything the code accepts. |
| `Monitor` | `monitor.go` | EXTENDS `Cycle`; functions of its state: what the records left in the log count up to, and the word for it. |
| `Deliberation` | the reason stage: `seams.go`, `tool_reasoning.go`, `panel.go`, `tool_binder.go`, `llm_client.go` | a program counter for where the stage is, and the completion in flight with its attempt; one action per thing that an answer may be (a decision, a call, neither; a speaker, a conclusion, nobody), per failing request and per loop head. `InvokeTool` judges and runs in one step. |
| `Spending` | usage, budget, spawner | cycles of the runtime and of subagents, each begun, calling, accounting, charging and alerting in any interleaving over one call history. |
| `TrailFile` | the file format and its readers | the file is a sequence of chunks, one per write, which may be whole, without newline, or cut; a hash is the sequence of the records it covers. Faults: a lost or torn last write, a failed write that left nothing or a part, a second writer, an edit by somebody who computes no hash: a record changed, a run of lines taken out (the last ones too), one put in with a hash or without, a heading renumbered. `before` (history) is what `VerifyTrail` accepted before the edit. |
| `Authority` | envelopes, gate, persistence | `mutate` writes standing and signature in two steps; a gate reads them without the lock, twice; `Persist` is collect (locked), marshal per envelope (not locked), write (a table at once, a file emptied then filled). A registry has a log or none: a failed write is told to the log, and without one to nobody. `since` and `ending` (history) are what an agent has held since the last write that settled it, and how the last `Persist` or `Load` ended. |
| `Server` | handlers, `Serve`, process table | a handler is its critical sections (`delete`: look up, out of the table, out of the maps); the kernel is kept as far as it matters: one cycle per name, the runtime looked up at dispatch, the context looked at only at the head of `Run`'s loop (`kernelRun`). A listener that fails makes `Serve` return and leaves the kernel running. `awaiting`, `superseded` and `erased` are history: what was last answered awaiting approval, whose cycle is no longer the one asked last, and where a late `Forget` met a new instance. |
| `McpClient` | `McpClient` and `ConnectMCP`'s handshake | a request is registered, written, waited for and left; the pump reads and hands over; `Close` in its stages; the server process may do anything. |
| `MC*` | instances for TLC | constants that a cfg cannot write, symmetry |
| `Selection` | -- | `Picked`: what a loop over a sequence collects, by the places it keeps |
| `KernelProofs`, `McpProofs`, `ServerProofs`, `TrailProofs`, `CycleProofs`, `DeliberationProofs`, `GovernanceProofs` | -- | the theorems about the module each extends (section 6); `KernelProofs` extends `KernelDrain`, hence `Kernel`, and is about both; `GovernanceProofs` extends and is about `Spending` and `Authority`; `CycleProofs` extends `Monitor`, hence `Cycle` |
| `SequenceLemmas` | -- | what `FlattenSeq`, `Picked`, maxima, removal and insertion are, for the proofs over logs, files and spends |

`KernelDrain` composes with `Kernel` by extension, `Cycle` with `ReasoningLog`
and `Monitor` with both; `Deliberation` is `Cycle`'s action `Deliberate` opened up;
`Kernel` implements `Fleet` through `INSTANCE ... WITH`. `Cycle` relies on
what `Kernel` shows -- scheduled cycles of one runtime do not overlap -- and
`Server` shows where that stops being true (section 7).

What is abstracted, besides wording: a task is its id and the queue the set of
ids (the slice is in id order); a decision is the number of its cycle; a hash is
what it was taken over; a signature is the standing it covers; an instance is
the load that made it; a tool call is its failed-call key; money is calls.

## 3. The runs

`tlc -config <cfg> <module>`. States are distinct states.

| Run | Question | Bounds, and why they are enough |
|---|---|---|
| `kernel` | Do loop, workers, clients and cancellation keep the promise to the fleet? Is a wake-up ever lost; does `Run` return? | 2 workers, 2 instances, 1 client, 2 tasks with a deferred and a recurring one among the kinds, clock 0..1. Two tasks are the fewest with two on one instance; the recurring one comes again as often as time allows; one tick is all that "before" and "after" due need. What these bounds cannot show is standing load under a cancelled `Run`: `CancelEndsRun` excepts it in so many words (section 5). |
| `drain` | Does `Drain` run what was ready, within bounds, and come back? | 2 workers, 3 tasks, `maxUnits` 2: the bound is below the tasks. |
| `kernel_lost_timer` | (expected violation) does a due task start? | 1 worker, 1 task, 2 ticks |
| `trail` | Do the chain, the numbering and the readers survive faults? | 2 sessions opened 3 times, 4 records, any two faults of different kinds; both codecs. Four records are enough for one that is cut, the whole one that runs on from it, and others before and after; or for one taken from the midst of a cycle |
| `cycle` | Are governance, accounting, trail, memory and restart right together? | 2 cycles; a waivable runtime policy, a workflow policy nobody may waive, a workflow without any; memory of capacity 1, so that the second cycle compresses; adaptation at 2; retention of 1 day with 2 days; one crash, one failing save |
| `deliberation` | Does the reason stage end, heed its context, and leave its facts on the trail? | 2 calls, so that failures can alternate; 2 policies; 4 iterations over 2 recoveries, so that each bound can be the one that ends the loop; a panel of 2 with 2 rounds under 3 turns and 1 tool call a turn; a retry after a failed request, 2 failing requests; plans without a panel, with one persona, and with overlapping workflows |
| `spending` | Do overlapping cycles and subagents account, alert and spawn rightly? | 3 cycles of which any may be subagents, 3 calls, a limit of 1, thresholds at 1, 2 and 3, so that one spend may cross several; one denial. Every wiring of price, budget and spawner |
| `server` | Do handlers and shutdown leave the right state? | 2 clients with 1 request at a time, 2 names, 2 intents, 2 loads, 4 requests |
| `server_single_writer` | (expected violation) one cycle per runtime? | 1 name, 3 requests |
| `mcp` | Are answers routed and waits ended? | the opener and 2 callers, 4 requests (2 of them the handshake), 3 frames |
| `authority` | Does the gate rule by the registry; is a transition saved? | 2 agents, 2 operators, 1 gate, 3 transitions, 1 mishap (failed write or restart); file and table, with a log and without. One gate: gates do not write. |
| `authority_lost` | (expected violation) does every transition survive? | the same |

Deadlock is checked where the model always has something to do (`Kernel`'s
`Run` can always be started or cancelled, `Deliberation` steps until it is over);
elsewhere bounded counters and a
returned `Drain`, a stopped server or a closed client end the behaviour, and
the cfg says so.

The pool is the harder case and the one the runs have; the theorems cover every
number of workers, the serial loop included.

Symmetry is used only in runs without liveness, over sets that no property and
no action tells apart.

## 4. The properties

Each is stated at its definition with the code it is about; each has a mutant
of the code in `PROJECT.json` that violates it. Of the type invariants only
`Kernel`'s is in a run; those of the other modules (`ServerTypeOK`,
`McpTypeOK`, `AuthorityTypeOK`, `DrainTypeOK`, `DeliberationTypeOK`, `TrailTypeOK`,
the types in `CycleProofs` and `GovernanceProofs`) are proved, and `CycleTypeOK` is there for
readers.

- Kernel: `OneCyclePerInstance` (one cycle per instance), `ReservationsOwned`
  (a reservation lives as long as its holder), `ReturnedRunIsQuiet`,
  `OneShotAccounted` (queued, in hand, recorded or cancelled: exactly one),
  `FifoPerInstance`, `NeverAheadOfSchedule`, `SleepsOnlyWhenIdle` (no lost
  wake-up), `PromptTaskStarts`, `CancelEndsRun`, `FleetPromise` (refinement).
- Drain: `UnitsBounded`, `DrainLeavesNothing` (neither work nor a cycle that
  runs), `DrainReturns`.
- Trail: `ChainContinues`, `EditsShow`, `CyclesNeverRepeat`,
  `ReadsBackExactly`, each conditional on the faults that do break it. The
  conditions are tight, and are what the trail does not promise: a torn JSON
  line or a failed write leaves a gap that makes `VerifyTrail` fail for good; a
  failed markdown heading can repeat a cycle number; two writers interleave two
  chains. `EditsShow` is about what the chain covers: of a file that verified and
  still does, the chained records are a beginning of what was there, then what
  was written since. `ReadsBackExactly` compares what is read with everything
  that was ever written, and bounds what each fault may cost.
- Cycle: `GovernedDeliberation`, `AccountedOnce`, `TrailTellsOutcome`,
  `WindowIsWhole`, `MemoryFaithful`, `RestartResumesWarm`. A torn markdown
  session restores its beginning, the last entry of it perhaps cut to a
  decision nobody made; `MemoryFaithful` allows one such for each death and
  nothing else that was not decided.
- Monitor: `MonitorMissesNothing`, which relates what is counted to how the
  cycles of `Cycle` really ended: each stop or open question once, and the kind
  of count that the outcome calls for.
- Deliberation: `FailedCallNotRepeated`, `FactsOnTrail`, `WorkBounded` (also
  how little still happens once the context is done), `TableIsHeard`. A stage
  that is bounded and never stuck -- deadlock is checked -- ends.
- Spending: `UsageCoversCycle` (nothing of its own is missing, nothing foreign
  but of cycles it met), `BudgetTellsSpend`, `SpawnsWithinLimit`.
- Server: `ParkedStaysApprovable` (however requests share a name; a delete that
  finishes late is its one exception, see section 7), `StoppedServerReturns` (an
  answer, and what no longer runs by then).
- MCP client: `AnswerIsOwn`, `EndReleasesWaiters`,
  `FailedConnectLeavesNothing`, `EveryWaitEnds`.
- Authority: `RuledByTheRegistry`, `SavedOrTold` (how far back a restart can go,
  with overlapping transitions, failed and torn writes, and registries that tell
  nobody).

## 5. Fairness

- `Kernel`, `KernelDrain`: the loop, the workers, a caller between its append
  and its interrupt, and the clock go on: they are goroutines of a running
  program. A cycle ends because the model client retries a bounded number of
  times under an HTTP timeout and tool calls have timeouts. Nobody owes a
  submission, a cancellation or a restart. No fairness brings `Run` back to the
  head of its loop while something is always ready, so `CancelEndsRun` says: `Run`
  returns, or takes tasks for ever. In its run tasks and time are bounded, and it
  is the former.
- `Server`: the kernel's cycles end and `Shutdown` and `Serve` go on; so does
  `Run` after a stop, by taking what is ready or by coming to the head of its
  loop (`StoppedKernelGoesOn`). It may take for ever, and `StoppedServerReturns`
  excepts that: here standing work does recur without bound. The cycle
  of a request owes nothing: `http.Server.Shutdown` gives up after ten seconds
  (`server.go:536`), which is why `StoppedServerReturns` still holds.
- `McpClient`: timers fire, `Close` and the pump's sends go on. The server
  process owes nothing. A write to its stdin is not under the timeout
  (`mcp_client.go:312-319`), so no fairness is given to `Written`, and
  `EveryWaitEnds` speaks of the wait after it.
- The other modules check safety and assume no fairness.

## 6. Proofs

Each proof module extends the module it is about. Its theorems hold for every
value of the constants under the assumptions that module states, and TLC
evaluates those assumptions on every run.

| Module | Theorems | Assumptions |
|---|---|---|
| `KernelProofs` | `Invariance`, `TypeCorrect`, `SingleWriterPerInstance`, `ReservationsExact`, `ReturnIsQuiet`, `TasksInOrder`, `NoTaskLostOrRunTwice`, `OrderWithinInstance`, `OnSchedule`, `NoWakeUpLost`, `KeepsPromise` | a worker and a name at least, work well typed, bounds natural |
| `KernelProofs`, of `Drain` | `DrainInvariance`, `DrainWithinUnits`, `DrainIsComplete` | those, and `MaxUnits` natural |
| `McpProofs` | `McpInvariance`, `McpTypeCorrect`, `AnswersAreOwn`, `WaitersReleased`, `FailedConnectIsClean` | bounds natural |
| `GovernanceProofs`, of `Authority` | `AuthorityInvariance`, `AuthorityTypeCorrect`, `GateRuledByTheRegistry`, `TransitionsInTurnSaved` | nobody is not an operator |
| `ServerProofs` | `ServerInvariance`, `ServerTypeCorrect`, `ParkedIsApprovable` | bounds natural |
| `TrailProofs` | `TrailInvariance`, `TrailTypeCorrect`, `ChainIsContinued`, `EditsSurface`, `CycleNumbersUnique`, `TrailReadsBack` | records bounded by a natural |
| `CycleProofs` | `CycleInvariance`, `GatesBeforeDeliberation`, `OutcomeOnTheTrail`, `EveryExitAccounted`, `LogKeepsWholeCycles`, `NextSessionResumes`, `DecisionsAreRemembered`, `MonitorSeesTheCycles` | finitely many processes; the policies of a runtime and of a workflow, and the workflows of a process, are sequences; the memory's capacity natural, the interval of adaptation and the days of retention integers |
| `DeliberationProofs` | `DeliberationInvariance`, `DeliberationTypeCorrect`, `WorkIsBounded`, `FailedCallsNotRepeated`, `ToldIsOnTheTrail`, `TableHeard` | plans are sequences of workflows, a workflow's personas are a sequence; the policies are a sequence; budgets and bounds natural |
| `GovernanceProofs`, of `Spending` | `SpendingInvariance`, `UsageIsCovered`, `ThresholdsToldOnce`, `SpawnsAreLimited` | limit and bounds natural; thresholds finitely many, positive |

Besides the invariance and type theorems, the order of tasks and the refinement,
each theorem states an invariant of a run. None is inductive as it stands; each
inductive invariant was first checked by TLC on the instance of its run.

**The scheduler.** `OneCyclePerInstance` needs, besides the types, that IDs in
use were handed out (so that `Enqueue` overwrites nobody's task), that every
holder's instance is reserved, that holders' instances differ, that nothing else
is reserved, and that the loop's place fits its locals. A step that takes a
task needs "every holder has reserved" to know the instance is free; one that
releases needs "holders differ" to know it is not someone else's. The first
four parts are `Reserving`, which `Run` and `Drain` keep by the same lemmas.
The accounting of tasks adds that an ID not handed out has no history, the
schedule adds the due time of a task as a function of how often it was taken,
and the wake-up adds that the claim holds from the scan on, before the loop has
planned its sleep. `KeepsPromise` maps each action to one step of `Fleet` or to
a stutter: `LoopTake` starts a job, whose abstract guard is exactly "the
instance is not reserved"; `WorkerRelease` (with one worker, `WorkerRecord`)
finishes it.

**Drain.** What is collected and what is under way stay within `maxUnits`
because a goroutine that has ended is counted twice, in `done` and in the
round: the room the loop head saw is still there when it takes the task, however
many end in between. A task that was ready stays ready until it has run or was
cancelled, and the round that launches nothing has looked at a queue with no
instance reserved.

**MCP client.** An answer is one's own because a frame bears its id on all of
its way -- what the server may answer, stdout, the pump's hand, the channel --
and an id names one request for ever. Nobody is left to his timer because a
waiter's channel is at every moment registered, in the hands of whoever took it
out, or full.

**Authority.** A gate reads an envelope without the lock, so the invariant
remembers what the registry granted or withheld at the moments of the gate: the
envelope it looks at, and the one the agent has now, were both the registry's
at such a moment. For what a restart may bring back, `Recent`: the registry, every
copy some `Persist` has collected and the stored blob hold for each agent an
envelope it has held since the last transition that ran alone was written. A
transition that runs alone collects the registry and is its only writer, so when
it is written all of these are one (`AloneCollects`); a write that fails or
overlaps settles nothing and leaves the set as it was. None of it asks whether
anybody was told.

**Server.** Requests share names as they like. A cycle that was asked last of
the instance that has its name now finds its intent remembered, unless a late
`Forget` erased it; when it parks, that is what `approve` will run. Everything
newer that is asked of the name marks the cycles in flight on it as
`superseded`, and a cycle of an earlier instance is not mistaken for one of
this, because no runtime is loaded twice.

**Trail.** The invariant has one part for each promise, under the faults that
spare it. The chain: the file's links are a chain, and its tip is the one the
open session holds; a session that resumes takes that tip from the file, and a
crash that takes the last write back leaves a shorter chain and nobody who holds
the longer (`ChainIntact`). Edits: of all the hashes in the file, in the sessions'
hands and before the edit, two that cover the same record have it at the same
place behind the same records (`HashesAgree`), whatever was edited and whoever
resumed from it; and a record read with a hash was in the chain before the edit
or was written since (`EditKnown`). So a file that verifies is the first records
of what was there, and then new ones. What is read back: every fault pays for
the records it costs and for the one that will run on from a line without an end
(`PaidFor`), an account that no later step draws on. The
numbering: the cycle numbers in the file never fall and those of two sessions
differ, and what an open session will write is behind all of it. This is not
inductive alone: a JSON line without its newline hides the next, and a crash
that loses that next line brings it back, so the file without its last chunk is
in order too (`InOrder`); in markdown every number has the heading it is found
by (`HeadedCycles`). `ReadTrail` groups by cycle number, and where the numbers
never fall the groups up to n are the records up to n, by induction over n
(`GroupsInTurn`).

**Cycle.** Both gates and the outcome rest on the numbering: a running cycle
writes under a number that no cycle before it used, whatever retention, failed
saves and restarts did. A cycle in its stages has only favourable records, among
them the rulings of the gates behind it. A trail is described by what it was
and what was appended (`Grows`), never by its length, so a gate over any number
of policies is one step.

**The log in memory.** `Window` says where the log and the trail meet: there are
numbers for the kept cycles, rising, each cycle holds what `Picked` takes from
the trail of this session under its number, and the cycle that is current, if
there is one, is the newest and last. The numbers are not read off the records,
since a cycle that has just been opened has none. A record lands in the last
cycle and at the end of the trail (`RecordWindow`); a rotation takes some of the
numbers out (`RotateKeepsWindow`) and leaves no cycle current, so what is
recorded next opens one under a number of its own; a new session keeps nothing.
As the numbers on the trail never fall, what the cycles hold one after the other
is what the trail has under all their numbers (`WindowRecords`).

**Monitor.** It needs no invariant of its own: its view is a function of the
state. What the log still holds of a cycle that ended in this session is all the
trail has of it (`KeptIsWhole`, from `Window` and the numbering), so what
`TrailTellsOutcome` says of the trail is true of what is counted. That a gate is
counted once rests on the vocabulary: a stage writes only its own markers, hence
what stands in a cycle's way is a stop or a question and never both
(`CountedOnce`). The chain of the log verifies exactly where its records are a
beginning of the session: link i of the session is i, so one cycle missing
before another shifts every link behind it (`VerifyPrefix`).

**Memory and session store.** That a new session resumes is one fact about the
codec: what `renderMarkdown` wrote, `restoreMarkdown` reads back, because the
sections of a kind are a run of the text and `Picked` of a run is the run
(`KindRun`, `RenderedBack`); of the decisions observed only the set comes back,
in whatever order they were written. `Warm` carries that over every step: a file
exists while it is filled, and only a save that fails leaves the memory ahead of
it, which the trail says. `MemoryFaithful` is not inductive, since a crash
replaces the memory by the file: `Faithful` says the same of both, of the file
with one cut more, and counts for the file only cycles that are settled -- the
decision of a cycle that is not yet accounted for is in the memory and not in the
file, and dies with it. The entries are what the summaries flatten to followed by
the working ones; `Compress` moves entries from one to the other and keeps the
whole (`CompressKeeps`), a torn text is a beginning of them and at most one cut
entry (`TornEntries`), and the next decision is greater than all of them by the
numbering of the cycles.

**Deliberation.** The bound at the end is a sum along the way: at every station
the invariant says how much may have been asked and called so far, as the turns
taken times the cost of a turn plus what the turn at hand has cost, so a step is
a comparison of two neighbouring stations (`SingleStep`, `PanelStep`,
`WorkStep`). Once the context is done no station leads back before a call
(`Winding`) or a statement (`Ending`), hence at most one of each. A failed call
is remembered or a later place of the log holds a success; `invoke` is entered
only with a call that is not remembered. The facts are the end of the log
because nothing is told between turns. For the table, the invariant has a
function from turns to seats that moves by one on a rotated turn: as many of
those as there are seats go once around (`GoesAround`). That `panelCall` returns
personas, for any plan, is an induction over what its workflows delegate to.

**Spending.** The usage of a cycle is a window of the shared history; that it
covers the cycle is proved by counting, with the bijection from the window to
its places, and "nothing foreign but of cycles it met" by keeping with each cycle
whom it met. Alerts are due at one place at a time, either with the cycle that
crossed the threshold or delivered.

Induction over data. The library's induction theorems take an operator as a
parameter and cannot be used here. `SequenceLemmas!SetInduction` does without:
it is about the *set* of numbers with a property, which the proof names, and
holds because a non-empty set of naturals has a least element. With it
`Picked`, `FoldLeft` and `FlattenSeq` are unfolded, and `Rising`, which enumerates the
thresholds a spend crosses, exists (by induction over the rank of a threshold).
So the properties are proved for every catalogue, and nothing is assumed of the
operators of the community modules. Two things cannot be expanded at all:
`SelectSeq` and `SortSeq`, which the prover has built in. `AccountedOnce` is
therefore stated over the places of the trail, the properties of `Deliberation`
over the places of its log; `TrailFile`, `Monitor`, and the rotation and the
session store of `Cycle`, collect with `Picked`, and `Spending` enumerates with
`Rising`.

Model-checked only are the liveness properties (`PromptTaskStarts`,
`CancelEndsRun`, `DrainReturns`, `StoppedServerReturns`, `EveryWaitEnds`): there
is no rule for fairness and ENABLED. Every other property of a passing run is
stated by a theorem.

## 7. Where code and documentation disagree

With a run that shows it:

- `kernel_lost_timer`: `takeReady` and `untilNext` read the clock separately
  (`kernel.go:685`). A task that comes due between the two is neither ready for
  the first nor timed for the second, and the loop sleeps until somebody else
  interrupts it, against the comment at `kernel.go:651-653`.
- `server_single_writer`: `submit` reasons on the request's goroutine without a
  reservation (`server.go:327`): cycles of one runtime overlap, against
  `kernel.go:49-53`. The theorem `SingleWriterPerInstance` is about scheduled
  cycles and is not touched by this.
- `authority_lost`: `Persist` marshals and writes after it has left the lock
  (`authority.go:443-452`), so of two overlapping transitions the older blob may
  be written last, and a completed revocation is gone after a restart, against
  `authority.go:428-429`.

Met while modelling, without a run of their own:

- A cancelled `Run` looks at its context at the head of its loop only
  (`kernel.go:627-631`); filling the pool (`kernel.go:454-469`) does not. Standing
  work that always leaves something ready keeps it launching cycles, and `Serve`
  waiting for it, against `kernel.go:603-607`.
- When the listener fails, `Serve` returns (`server.go:543-547`) and its kernel
  goes on running standing work until the caller cancels the context.
- `approve` runs the intent asked last, which may be another caller's, not the
  one whose cycle was parked. A `delete` that finishes after the next `create`
  forgets what the new instance was asked (`server.go:297-301`); a parked cycle
  can then not be approved, against `server.go:71-75`. `ParkedStaysApprovable`
  says what is left: these names (`erased`) are its only exception.
- `VerifyTrail` misses some edits that `trailfile.go:228-231` says surface:
  records taken from the end of the file, the number in a heading, which is
  outside the link (`trailfile.go:151-159`), and a line without a hash, which is
  skipped (`trailfile.go:302-307`) while `ReadTrail` accepts it
  (`trailfile.go:337-346`). `EditsShow` says what the chain does cover.
- A line that lost its end, in a crash or in a write that failed halfway, swallows
  the next one, which was written whole. So the file is
  not the complete archive of `trailfile.go:22-23` and not read back exactly
  (`trailfile.go:323-327`). `ReadsBackExactly` counts what is lost: one record for
  a lost write, two for a torn or a failed one.
- A registry without a log loses a failed write in silence
  (`authority.go:411`): changes of standing (`authority.go:405-406`) and
  `Certify` (`authority.go:356-357`) return no error either. Registries are made
  without one (`authority_test.go:244`) until `EnforceEnvelopes` binds the
  runtime's. `SavedOrTold` allows a transition to be lost when its own write
  failed, told or not, and nothing before it to be lost with it.
- `Rotate` drops the first links and `Verify` starts at genesis
  (`reasoninglog.go:222`): a runtime with a retention window reports a broken
  chain, which `monitor.go:30-32` reserves for a record that cannot be trusted.
  `MonitorMissesNothing` says that this is the only way to be called broken.
- A cycle that is parked because its approver is not on the list counts as
  blocked, with nothing pending, and is healthy (`monitor.go:164-183`), where
  `monitor.go:28-29` has "attention" for what a human must still decide.
  Pending counts gates, not cycles, and stays after an approval. A cycle that
  fails over HTTP is in no kernel history, hence in nobody's failures.
- Overlapping cycles and subagents count one another's calls
  (`runtime.go:271-281`), so a budget may be charged twice for one; calls of the
  auxiliary model are in no usage record. A subagent has no budget. Alerts of
  concurrent spends may arrive in the other order, against
  `budget.go:28-29`. `Runtime.Spawn` makes a missing spawner without a lock
  (`runtime.go:162-164`): concurrent first spawns may each have their own.
- A failed tool call is known by its rendered arguments: those of two calls may
  render alike (`argsKey`), and a result whose text mentions a failure counts
  as one (`toolResultFailed`). Any success forgets every failed call. A turn of
  a panel keeps no such list.
- A panel whose model always names the same persona spends its turns on it.
  A torn markdown session restores a cut decision as if it had been made.
- The handlers of an MCP server's tools keep the context of `ConnectMCP`
  (`mcp_client.go:531-532`): when it is done, every later call fails.

- `approve` reasons again over the last intent submitted, whether or not it is
  parked (`server.go:330-345`), although its comment says that it releases a
  parked cycle. `ParkedStaysApprovable` states what is kept.
- `EnvelopeRegistry` is documented as safe for concurrent use
  (`authority.go:230-232`), but the gate reads fields `mutate` writes in place.
  The outcome is a refusal as "tampered", which `RuledByTheRegistry` allows: it
  never passes an agent it should not.
- Shutdown cuts requests off after ten seconds (`server.go:536`), where
  `server.go:499-501` says that cycles in flight finish.
- Standing work carries no claim (`server.go:240-247`); two instances of one
  stack share a trail file and a session store (`server.go:235`); a failed
  trail write leaves a gap (`trailfile.go:132-163`).
- An MCP request registered after the pump has ended waits for its whole
  timeout. `EndReleasesWaiters` excludes it by name (`late`).

## 8. What is not modelled, and why

- Floating point, ranking and parsing: `knowledge.go`, `librarian.go`,
  `safeeval.go`, the loader's markdown, `signatures.go`. They are sequential
  functions of their input; the models take any of their outcomes.
- What a model is asked and how its answer is worded. A stage's accepted
  answers and its failure are nondeterministic choices.
- Statistics, the trimming of the kernel's history, rendering, the command
  line.
- A chain marker, or a line that starts as a record does, inside a record's own
  text (`trailfile.go:93-95` takes the last marker anywhere).
- Delegation writes the chosen persona into the shared `Step`
  (`stages.go:553`); in `Cycle` it is local to the cycle.
- Reconnecting a closed MCP client.
- The catalogue: reading, listing and loading libraries in dependency order are
  sequential; its writes, to a file or a table, are in `Authority`.
- Requests for the skills of a persona are counted in `Deliberation`, what they
  choose is not; the same holds for the panel's style and the wording of a turn.

## 9. Plan

In this order:

1. `Catalogue`: files against a table, names that share a slug, overlapping
   writers; libraries loaded in dependency order. `Authority` over it.

New runs replace narrower ones rather than adding to them, and a finding whose
code changes frees its run.
