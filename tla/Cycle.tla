-------------------------------- MODULE Cycle --------------------------------
(***************************************************************************)
(* One runtime and its reasoning cycles: Runtime.Reason (src/runtime.go)   *)
(* over the default pipeline (src/cycle.go, src/stages.go), with the two   *)
(* governance gates of src/pipeline.go, the memory layers of               *)
(* src/memory.go, the audit trail of src/reasoninglog.go and the session   *)
(* store of src/session_store.go.                                          *)
(*                                                                         *)
(* A runtime is single-writer: the scheduler (module Kernel) starts a      *)
(* cycle of it only when no other is running, so one cycle runs at a time  *)
(* here.  A model may answer anything a stage accepts, or fail; a runtime  *)
(* without one gives some of these answers and never fails.  A process may *)
(* die between any two steps and be loaded again.                          *)
(*                                                                         *)
(* A decision is known by the number of the cycle that made it.  Of the    *)
(* records of a cycle the model keeps those that a property tells apart:   *)
(* its intent, a refused claim, the rulings of governance, the             *)
(* deliberation, the usage and a failed save.                              *)
(***************************************************************************)
EXTENDS ReasoningLog

CONSTANTS
  Policy, Process, Workflow, Person,
  RuntimePolicies,   \* the runtime-wide policies, in order
  WorkflowsOf,       \* the workflows of a process, in order
  PoliciesOf,        \* the policies of a workflow, in order
  ApprovalRequired,  \* the policies a human may waive
  Approvers,         \* who may waive a policy; {} when nobody is listed
  Capacity,          \* Memory.Capacity
  AdaptEvery,        \* cycles to an adaptation
  RetentionDays,     \* "keep N days"; 0 when undeclared
  MaxCycles,         \* bound: cycles begun
  MaxDays,           \* bound: days that pass
  MaxCrashes,        \* bound: deaths of the process
  MaxSaveFaults      \* bound: saves that fail

(* A catalogue is finite, and its lists are in the order of the files. *)
ASSUME CatalogueAssumption ==
  /\ IsFiniteSet(Process)
  /\ RuntimePolicies \in Seq(Policy)
  /\ WorkflowsOf \in [Process -> Seq(Workflow)]
  /\ PoliciesOf \in [Workflow -> Seq(Policy)]

(* A capacity is taken over only where it is positive (loader.go:508).      *)
ASSUME MemoryAssumption == Capacity \in Nat /\ AdaptEvery \in Int /\ RetentionDays \in Int

VARIABLES
  asMd,      \* the session store's codec
  clock,     \* days
  log,       \* ReasoningLog
  cyc,       \* the Cycle in flight, or none
  mem,       \* Memory, Experience and Adaptations
  store,     \* the session file, if there is one, and what it holds
  ended,     \* the cycles that ended and how (history variable)
  crashes, saveFaults

faultVars == <<crashes, saveFaults>>
cycleVars == <<asMd, clock, log, cyc, mem, store, ended, crashes, saveFaults>>

(* The fifteen stages, those that write to the cycle alone taken together:  *)
(* plan is discover, select, compose and schedule; prepare is delegate,    *)
(* recall and research; elaborate is formalize, evidence, explain and      *)
(* audit.  Nothing outside the cycle changes between the stages of a group,*)
(* so stopping after some of them is like stopping before or after them.   *)
defaultPipeline ==
  <<"govern", "plan", "governWorkflows", "prepare", "reason", "elaborate", "memory">>

NoCycle == [phase |-> "none", at |-> 0, plan |-> <<>>,
            approval |-> [verdict |-> "absent", by |-> "nobody"]]

(* The layers: summaries of the decisions compressed, the entries kept, how  *)
(* many cycles were observed and which decisions, and the impressions, each*)
(* with the observations it was distilled from.                            *)
Fresh == [compressed |-> <<>>, working |-> <<>>, observations |-> 0, counts |-> {},
          impressions |-> <<>>]

(* What a caller may bring: no verdict, a waiver by somebody named, or a    *)
(* rejection, which is the same whoever it is by.                          *)
Approval == [verdict : {"absent", "rejected"}, by : {"nobody"}]
            \cup [verdict : {"approved"}, by : Person]

(* The caller's claim, if its context carries one: whom it may act as,      *)
(* perhaps nobody.                                                         *)
Claim == {[given |-> FALSE, orgs |-> {}]}
         \cup [given : {TRUE}, orgs : SUBSET {"own", "other"}]

MayActAs(claim, org) == ~claim.given \/ org \in claim.orgs

CycleInit ==
  /\ asMd \in BOOLEAN
  /\ clock = 0
  /\ log = NewLog(<<>>)
  /\ cyc = NoCycle
  /\ mem = Fresh
  /\ store = [present |-> FALSE, text |-> <<>>]
  /\ ended = <<>>
  /\ crashes = 0
  /\ saveFaults = 0

------------------------------------------------------------------------------
(* The pipeline *)

Running(stage) == cyc.phase = "stages" /\ defaultPipeline[cyc.at] = stage

(* The stage returns nil: the next one runs. *)
Passes == cyc' = [cyc EXCEPT !.at = @ + 1]

(* Reason returns: the deferred accounting is all that is left. *)
Returns(outcome) ==
  /\ cyc' = [cyc EXCEPT !.phase = "usage"]
  /\ ended' = Append(ended, [cycle |-> log.cycleNo, outcome |-> outcome])

Unstored == UNCHANGED <<mem, store, clock, asMd, faultVars>>

(* Reason begins: the intent is on the trail before the caller's claim is   *)
(* checked, and a refused claim is on it before the stages would start.    *)
Reason(approval, claim) ==
  /\ cyc.phase = "none"
  /\ Len(ended) < MaxCycles
  /\ LET begun == BeginCycle(log, clock)
     IN IF MayActAs(claim, "own")
        THEN /\ log' = begun
             /\ cyc' = [NoCycle EXCEPT !.phase = "stages", !.at = 1, !.approval = approval]
             /\ UNCHANGED ended
        ELSE /\ log' = Record(begun, Step("tenant", {}, "REFUSED", "claim"))
             /\ cyc' = [NoCycle EXCEPT !.phase = "usage"]
             /\ ended' = Append(ended, [cycle |-> begun.cycleNo, outcome |-> "blocked"])
  /\ Unstored

(* The context is done, which the next stage boundary notices, or a stage   *)
(* that asks the model gets an error and returns it.                       *)
StageFails ==
  /\ cyc.phase = "stages"
  /\ Returns("failed")
  /\ UNCHANGED log
  /\ Unstored

------------------------------------------------------------------------------
(* Governance: govern judges every policy and records how it went, enforce  *)
(* turns what is left into a stop.                                         *)

(* Mutant: anybody may waive a policy that lists its approvers. *)
ApproverAllowedAnyone(p, who) == TRUE

ApproverAllowed(p, who) == Approvers[p] = {} \/ who \in Approvers[p]

(* What govern writes of one policy. *)
Ruling(p, complies, approval) ==
  IF complies THEN "complies"
  ELSE IF p \notin ApprovalRequired THEN "VIOLATED"
  ELSE IF approval.verdict = "absent" THEN "PENDING APPROVAL"
  ELSE IF approval.verdict = "rejected" THEN "REJECTED"
  ELSE IF ApproverAllowed(p, approval.by) THEN "approved" ELSE "REFUSED"

GovernedPolicies ==
  IF defaultPipeline[cyc.at] = "govern" THEN RuntimePolicies
  ELSE FlattenSeq([i \in 1..Len(cyc.plan) |-> PoliciesOf[cyc.plan[i]]])

(* Mutant: a rejection is one more reason to ask. *)
EnforceAsksAgain(violations, approval) ==
  IF violations = {} THEN "clear"
  ELSE IF violations \ ApprovalRequired # {} THEN "blocked" ELSE "parked"

(* enforce: blocked by what nobody may waive, or by a human's rejection;    *)
(* parked when only waivable policies are left; clear otherwise.           *)
Enforce(violations, approval) ==
  IF violations = {} THEN "clear"
  ELSE IF violations \ ApprovalRequired # {} \/ approval.verdict = "rejected"
       THEN "blocked" ELSE "parked"

(* parallelMap: every item has its answer, whichever failed, in the order   *)
(* of the items.                                                           *)
parallelMap(items, answer) == [i \in 1..Len(items) |-> answer[items[i]]]

(* judged: how the judge answers for each policy -- it may fail when it is   *)
(* a model, and govern then stops at the first policy it failed for.       *)
Govern(judged) ==
  /\ Running("govern") \/ Running("governWorkflows")
  /\ LET policies   == GovernedPolicies
         answers    == parallelMap(policies, judged)
         rulings    == [i \in 1..Len(policies) |->
                          Ruling(policies[i], answers[i] = "complies", cyc.approval)]
         failed     == {i \in 1..Len(policies) : answers[i] = "error"}
         told       == IF failed = {} THEN Len(policies) ELSE Min(failed) - 1
         stage(i)   == IF rulings[i] \in {"approved", "REFUSED", "REJECTED"}
                       THEN "approval" ELSE "policy"
         recorded   == RecordAll(log, [i \in 1..told |->
                          Step(stage(i), {policies[i]}, rulings[i],
                               IF rulings[i] = "approved" THEN cyc.approval.by ELSE "judge")])
         violations == {policies[i] : i \in {j \in 1..Len(policies) :
                                               rulings[j] \notin {"complies", "approved"}}}
         outcome    == Enforce(violations, cyc.approval)
     IN IF failed # {}
        THEN log' = recorded /\ Returns("failed")
        ELSE /\ log' = IF outcome = "parked"
                       THEN Record(recorded, Step("approval", {}, "PENDING", "enforce"))
                       ELSE recorded
             /\ IF outcome = "clear" THEN Passes /\ UNCHANGED ended ELSE Returns(outcome)
  /\ Unstored

JudgeAnswers == {"complies", "violates", "error"}

(* Judgements of the policies asked about: the rest do not matter. *)
Judgements ==
  LET asked == ToSet(GovernedPolicies)
  IN {j \in [Policy -> JudgeAnswers] : \A p \in Policy \ asked : j[p] = "complies"}

------------------------------------------------------------------------------
(* Planning *)

(* discover and select: some of the processes and, where there are any,     *)
(* never none -- what an intent matches or a model names is resolved       *)
(* against the catalogue, and everything is taken when that leaves nothing.*)
Selections == IF Process = {} THEN {{}} ELSE SUBSET Process \ {{}}

(* compose: the workflows of the selected processes. *)
Composed(selected) ==
  LET processes == SetToSeq(selected)
  IN FlattenSeq([i \in 1..Len(processes) |-> WorkflowsOf[processes[i]]])

(* schedule: a model may reorder the plan, and what it forgets stays in it. *)
Schedules(plan) == SetToSeqs(ToSet(plan))

Plan ==
  /\ Running("plan")
  /\ \E selected \in Selections :
       \E order \in Schedules(Composed(selected)) :
         cyc' = [cyc EXCEPT !.at = @ + 1, !.plan = order]
  /\ UNCHANGED <<log, ended>> /\ Unstored

------------------------------------------------------------------------------
(* Deliberation and its tail *)

(* delegate, recall and research: who takes a step, what is recalled and    *)
(* what is looked up.                                                      *)
Prepare ==
  /\ Running("prepare")
  /\ Passes
  /\ UNCHANGED <<log, ended>> /\ Unstored

(* formalize, evidence, explain and audit: the deliverables of the          *)
(* contracts, the evidence, its explanation and audit.                     *)
Elaborate ==
  /\ Running("elaborate")
  /\ Passes
  /\ UNCHANGED <<log, ended>> /\ Unstored

(* The decision is made and on the trail.  An empty one is rejected, after  *)
(* it was recorded.                                                        *)
Deliberate ==
  /\ Running("reason")
  /\ log' = Record(log, Step("deliberation", ToSet(cyc.plan), "decision", "reasoner"))
  /\ \/ Passes /\ UNCHANGED ended
     \/ Returns("failed")
  /\ Unstored

(* Mutant: the overflow is cut off and not compressed. *)
CompressDropping(m) ==
  IF Len(m.working) <= Capacity THEN m
  ELSE [m EXCEPT !.working = SubSeq(@, Len(@) - Capacity + 1, Len(@))]

(* Memory.Compress: the oldest entries past capacity become one summary.    *)
Compress(m) ==
  LET cut == Len(m.working) - Capacity
  IN IF cut <= 0 THEN m
     ELSE [m EXCEPT !.compressed = Append(@, SubSeq(m.working, 1, cut)),
                    !.working    = SubSeq(@, cut + 1, Len(@))]

(* Memory.Record, which compresses what it overflows. *)
Remember(m, decision) == Compress([m EXCEPT !.working = Append(@, decision)])

(* Experience.ObserveEntry. *)
ObserveEntry(m, decision) ==
  [m EXCEPT !.observations = @ + 1, !.counts = @ \cup {decision}]

(* AdaptationBank.LearnFrom, every AdaptEvery observations: nothing to learn *)
(* where no decision was counted.                                          *)
LearnFrom(m) ==
  IF m.counts = {} THEN m
  ELSE [m EXCEPT !.impressions = Append(@, m.observations)]

Adapt(m) ==
  IF AdaptEvery > 0 /\ m.observations > 0 /\ m.observations % AdaptEvery = 0
  THEN LearnFrom(m) ELSE m

(* The last stage: the decision is remembered, and Reason returns it.       *)
MemoryStage ==
  /\ Running("memory")
  /\ mem' = Adapt(ObserveEntry(Remember(mem, log.cycleNo), log.cycleNo))
  /\ Returns("decided")
  /\ UNCHANGED <<log, store, clock, asMd, faultVars>>

------------------------------------------------------------------------------
(* What Reason defers: accounting, then retention, then the session store.  *)

(* Mutant: a cycle that was stopped is not accounted for. *)
RecordUsageOfDecisions ==
  /\ cyc.phase = "usage"
  /\ log' = IF Last(ended).outcome = "decided"
            THEN Record(log, Step("usage", {}, "accounted", "runtime")) ELSE log
  /\ cyc' = [cyc EXCEPT !.phase = "retention"]
  /\ UNCHANGED ended /\ Unstored

RecordUsage ==
  /\ cyc.phase = "usage"
  /\ log' = Record(log, Step("usage", {}, "accounted", "runtime"))
  /\ cyc' = [cyc EXCEPT !.phase = "retention"]
  /\ UNCHANGED ended /\ Unstored

ApplyRetention ==
  /\ cyc.phase = "retention"
  /\ log' = IF RetentionDays > 0 THEN Rotate(log, clock - RetentionDays) ELSE log
  /\ cyc' = [cyc EXCEPT !.phase = "persist"]
  /\ UNCHANGED ended /\ Unstored

(* The sections of one kind. *)
sections(kind, of) == [k \in 1..Len(of) |-> [kind |-> kind, body |-> of[k]]]

(* The sections of a markdown session, in the order they are written; the   *)
(* decisions observed stand in the order of their texts, which is some     *)
(* order of their numbers.                                                 *)
renderMarkdown(m) ==
  sections("compressed", m.compressed) \o sections("entry", m.working)
  \o sections("experience", <<m.observations>>)
  \o sections("observed", SetToSeq(m.counts))
  \o sections("adaptation", m.impressions)

(* A JSON session is one document.                                          *)
payload(m) ==
  [memory |-> [compressed |-> m.compressed, working |-> m.working],
   experience |-> [observations |-> m.observations, counts |-> m.counts],
   adaptations |-> m.impressions]

Rendered(m) == IF asMd THEN renderMarkdown(m) ELSE <<payload(m)>>

(* What a section comes to that is cut behind its heading: a summary or a   *)
(* decision that nobody made, a count of nothing.                          *)
CutOff == 0
Cut(section) ==
  [section EXCEPT !.body = IF section.kind = "compressed" THEN <<CutOff>> ELSE CutOff]

(* A beginning of the text: the last section of it may be cut. *)
Torn(text) ==
  LET whole(n) == SubSeq(text, 1, n)
  IN {whole(n) : n \in 0..(Len(text) - 1)}
     \cup {Append(whole(n), Cut(text[n + 1])) :
             n \in IF asMd THEN 0..(Len(text) - 1) ELSE {}}

(* os.WriteFile empties the file, then fills it: until it is done, a        *)
(* beginning of the new session is all there is.                           *)
SaveBegins ==
  /\ cyc.phase = "persist"
  /\ \E text \in Torn(Rendered(mem)) : store' = [present |-> TRUE, text |-> text]
  /\ cyc' = [cyc EXCEPT !.phase = "saving"]
  /\ UNCHANGED <<log, mem, clock, ended, asMd, faultVars>>

SaveEnds ==
  /\ cyc.phase = "saving"
  /\ store' = [store EXCEPT !.text = Rendered(mem)]
  /\ cyc' = NoCycle
  /\ UNCHANGED <<log, mem, clock, ended, asMd, faultVars>>

(* The save fails, before the file was emptied or while it was filled: a    *)
(* record on the trail, and the cycle's result stands.                     *)
SaveFails ==
  /\ cyc.phase \in {"persist", "saving"}
  /\ saveFaults < MaxSaveFaults
  /\ saveFaults' = saveFaults + 1
  /\ log' = Record(log, Step("persist", {}, "not saved", "runtime"))
  /\ cyc' = NoCycle
  /\ UNCHANGED <<mem, store, clock, ended, asMd, crashes>>

------------------------------------------------------------------------------
(* Restart *)

(* What the sections of one kind hold, in their order. *)
bodies(text, kind) ==
  LET of == Picked(text, {i \in 1..Len(text) : text[i].kind = kind})
  IN [k \in 1..Len(of) |-> of[k].body]

(* Mutant: what was observed is counted anew in every session. *)
restoreMarkdownUnobserved(text) ==
  [Fresh EXCEPT !.compressed = bodies(text, "compressed"), !.working = bodies(text, "entry"),
                !.counts = ToSet(bodies(text, "observed")),
                !.impressions = bodies(text, "adaptation")]

(* Of markdown whatever is there is read, layer by layer; of the same       *)
(* section twice, the last.                                                *)
restoreMarkdown(text) ==
  LET told == bodies(text, "experience")
  IN [compressed   |-> bodies(text, "compressed"),
      working      |-> bodies(text, "entry"),
      observations |-> IF told = <<>> THEN 0 ELSE Last(told),
      counts       |-> ToSet(bodies(text, "observed")),
      impressions  |-> bodies(text, "adaptation")]

restoreJSON(p) ==
  [compressed   |-> p.memory.compressed,
   working      |-> p.memory.working,
   observations |-> p.experience.observations,
   counts       |-> p.experience.counts,
   impressions  |-> p.adaptations]

(* Restore: without a file, or with one that is not JSON, a session starts  *)
(* without a past.                                                         *)
Restore(s) ==
  CASE ~s.present          -> Fresh
    [] s.present /\ asMd  -> restoreMarkdown(s.text)
    [] s.present /\ ~asMd -> IF s.text = <<>> THEN Fresh ELSE restoreJSON(Head(s.text))

(* The process dies and the stack is loaded again: the log starts empty,    *)
(* numbered from the trail, and the memory from the session store.         *)
CrashAndLoad ==
  /\ crashes < MaxCrashes
  /\ crashes' = crashes + 1
  /\ log' = Resumed(log)
  /\ mem' = Restore(store)
  /\ cyc' = NoCycle
  /\ ended' = LET crashed == [cycle |-> log.cycleNo, outcome |-> "crashed"]
              IN CASE cyc.phase = "stages" -> Append(ended, crashed)
                   [] cyc.phase = "usage"  -> Append(Front(ended), crashed)
                   [] OTHER                -> ended
  /\ UNCHANGED <<store, clock, asMd, saveFaults>>

(* The clock is read when a cycle begins and when the log is rotated: time  *)
(* that passes at another moment passes just before one of these.  It      *)
(* passes in strides longer than the retention window.                     *)
TimePasses ==
  /\ clock + RetentionDays + 1 <= MaxDays
  /\ cyc.phase \in {"none", "retention"}
  /\ clock' = clock + RetentionDays + 1
  /\ UNCHANGED <<log, cyc, mem, store, ended, asMd, faultVars>>

CycleNext ==
  \/ \E a \in Approval, claim \in Claim : Reason(a, claim)
  \/ StageFails
  \/ cyc.phase = "stages" /\ \E j \in Judgements : Govern(j)
  \/ Plan \/ Prepare \/ Elaborate \/ Deliberate \/ MemoryStage
  \/ RecordUsage \/ ApplyRetention
  \/ SaveBegins \/ SaveEnds \/ SaveFails
  \/ CrashAndLoad
  \/ TimePasses

CycleSpec == CycleInit /\ [][CycleNext]_cycleVars

------------------------------------------------------------------------------
(* Properties *)

CycleTypeOK ==
  /\ cyc.phase \in {"none", "stages", "usage", "retention", "persist", "saving"}
  /\ cyc.at \in 0..Len(defaultPipeline)
  /\ cyc.phase = "none" <=> cyc = NoCycle
  /\ ToSet(cyc.plan) \subseteq Workflow
  /\ Len(mem.working) <= Capacity
  /\ mem.observations \in Nat /\ ToSet(mem.working) \subseteq 0..log.cycleNo
  /\ \A i \in 1..Len(log.trail) : log.trail[i].cycle \in 1..log.cycleNo

(* The two gates (stages.go:27-41, pipeline.go:38-42: a judge that fails    *)
(* fails the cycle closed): before anything is deliberated, the same cycle *)
(* has judged every runtime policy and every policy of the workflows it is *)
(* about to run, and each complied or was waived by somebody who may.      *)
GovernedDeliberation ==
  \A i \in 1..Len(log.trail) : log.trail[i].stage = "deliberation" =>
    \A p \in ToSet(RuntimePolicies)
             \cup UNION {ToSet(PoliciesOf[w]) : w \in log.trail[i].about} :
      LET rulings == {j \in 1..(i - 1) : /\ log.trail[j].cycle = log.trail[i].cycle
                                         /\ log.trail[j].stage \in {"policy", "approval"}
                                         /\ log.trail[j].about = {p}}
      IN /\ rulings # {}
         /\ \A j \in rulings :
              \/ log.trail[j].out = "complies"
              \/ /\ log.trail[j].out = "approved"
                 /\ Approvers[p] = {} \/ log.trail[j].by \in Approvers[p]

(* runtime.go:210-217: the accounting is closed on every exit -- decided,    *)
(* blocked, parked, failed or cancelled.  A cycle number belongs to one    *)
(* cycle, opened by its intent and closed by one usage record, after which *)
(* only a failed save is told (and a budget's alerts, not modelled).       *)
AccountedOnce ==
  \A n \in 1..Len(ended) :
    LET records == {i \in 1..Len(log.trail) : log.trail[i].cycle = ended[n].cycle}
        of(stage) == {i \in records : log.trail[i].stage = stage}
    IN \/ ended[n].outcome = "crashed"
       \/ n = Len(ended) /\ cyc.phase = "usage"
       \/ /\ records # {}
          /\ of("intent") = {Min(records)}
          /\ Cardinality(of("usage")) = 1
          /\ \A i \in records : i > Max(of("usage")) => log.trail[i].stage = "persist"

(* The trail alone tells how a cycle ended, which is how the monitor counts *)
(* blocked and pending cycles (monitor.go:125-197): a decision leaves no   *)
(* refusal or open question behind, a parked cycle asks for what a human   *)
(* may still grant and has the gate on record that waits for it, and a     *)
(* human's rejection or a policy nobody may waive is never parked.         *)
TrailTellsOutcome ==
  \A n \in 1..Len(ended) :
    LET outs == {log.trail[i].out : i \in {j \in 1..Len(log.trail) :
                                            log.trail[j].cycle = ended[n].cycle}}
    IN CASE ended[n].outcome = "decided" ->
              outs \cap {"VIOLATED", "REJECTED", "REFUSED", "PENDING APPROVAL", "PENDING"} = {}
         [] ended[n].outcome = "parked" ->
              /\ "PENDING" \in outs /\ outs \cap {"PENDING APPROVAL", "REFUSED"} # {}
              /\ outs \cap {"VIOLATED", "REJECTED"} = {}
         [] ended[n].outcome = "blocked" ->
              "PENDING" \notin outs /\ outs \cap {"VIOLATED", "REJECTED", "REFUSED"} # {}
         [] OTHER -> TRUE

(* reasoninglog.go:111-116: the log in memory is the trail of this session  *)
(* less whole cycles; what it keeps of a cycle is all that was recorded of *)
(* it, in order, under the cycle's own number -- although retention closes *)
(* the current cycle before a failed save is recorded.                     *)
WindowIsWhole ==
  LET numbers(c) == {c.records[k].cycle : k \in 1..Len(c.records)}
      kept == UNION {numbers(log.cycles[i]) : i \in 1..Len(log.cycles)}
  IN /\ \A i \in 1..Len(log.cycles) : Cardinality(numbers(log.cycles[i])) = 1
     /\ \A i, j \in 1..Len(log.cycles) :
          i < j => Max(numbers(log.cycles[i])) < Max(numbers(log.cycles[j]))
     /\ Records(log) = Picked(log.trail, {i \in (log.since + 1)..Len(log.trail) :
                                             log.trail[i].cycle \in kept})

(* memory.go: every decision is remembered once and in order -- in the      *)
(* working entries or in a summary of them -- nothing is remembered that   *)
(* was not decided, and what was observed and learnt agrees with what is   *)
(* remembered.  A torn markdown session restores a beginning, whose last   *)
(* entry may be cut: at most one for each death.  Counts and impressions   *)
(* are its end, and restart from what is left of them.                     *)
MemoryFaithful ==
  LET entries == FlattenSeq(mem.compressed) \o mem.working
      cut     == {i \in 1..Len(entries) : entries[i] = CutOff}
      whole   == (1..Len(entries)) \ cut
  IN /\ \A i, j \in whole : i < j => entries[i] < entries[j]
     /\ \A i \in whole : \E n \in 1..Len(ended) :
          ended[n] = [cycle |-> entries[i], outcome |-> "decided"]
     /\ Cardinality(cut) <= IF asMd THEN crashes ELSE 0
     /\ ~asMd \/ crashes = 0 =>
          /\ mem.observations = Len(entries)
          /\ mem.counts = ToSet(entries)
          /\ AdaptEvery > 0 =>
               mem.impressions = [k \in 1..(mem.observations \div AdaptEvery) |-> k * AdaptEvery]

(* session_store.go:14-19: between cycles, what a new session would restore *)
(* is what this one remembers, unless the trail says that it was not saved;*)
(* and the first save that succeeds after one that failed makes up for it. *)
RestartResumesWarm ==
  cyc.phase = "none" /\ (log.trail # <<>> => Last(log.trail).stage # "persist")
    => Restore(store) = mem

==============================================================================
