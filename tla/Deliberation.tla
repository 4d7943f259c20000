---------------------------- MODULE Deliberation -----------------------------
(***************************************************************************)
(* What happens inside the reason stage of one cycle: a single voice       *)
(* (LMReasoner.Reason of src/seams.go with the tool loop of                *)
(* src/tool_reasoning.go, or DefaultReasoner.Reason without a model) or a  *)
(* panel (Panel.Convene of src/panel.go), over completions that are        *)
(* retried (HTTPClient.Complete of src/llm_client.go) and tool calls that  *)
(* are governed and recorded (Runtime.InvokeTool of src/tool_binder.go).   *)
(*                                                                         *)
(* The model answers anything: an answer is what the loop makes of it -- a *)
(* call of a bound tool, a decision or statement, or neither.  It need not *)
(* heed the context (ScriptedLM does not), so a completion may succeed     *)
(* after the cycle was cancelled.  A call is a tool with its arguments,    *)
(* known by its failed-call key.                                           *)
(***************************************************************************)
EXTENDS Integers, Sequences, SequencesExt, FiniteSets

CONSTANTS
  Call,               \* the calls a model may make of bound tools
  Persona,            \* the agents a workflow may delegate to
  Plans,              \* the scheduled plans: sequences of workflows
  ToolPolicies,       \* the policies judged against each call, in order
  MaxIterations,      \* ToolBinder.MaxIterations
  MaxToolRecoveries,  \* maxToolRecoveries
  TurnToolBudget,     \* turnToolBudget
  Backoffs,           \* len(retryBackoff): attempts after the first
  Rounds, MaxTurns,   \* Panel.Rounds and Panel.MaxTurns
  MaxRankings,        \* bound: personas with skills to rank
  MaxFaults           \* bound: requests to the model that fail

Workflows == [pattern : BOOLEAN, personas : Seq(Persona)]

ASSUME DeliberationAssumption ==
  /\ \A plan \in Plans : plan \in Seq(Workflows)
  /\ Len(ToolPolicies) \in Nat
  /\ {MaxIterations, MaxToolRecoveries, TurnToolBudget, Backoffs} \subseteq Nat
  /\ {Rounds, MaxTurns, MaxRankings, MaxFaults} \subseteq Nat

VARIABLES
  setup,        \* who deliberates, and with what
  pc,           \* where the stage is
  ask,          \* the completion in flight: what for, and its attempt
  i,            \* iterations of the tool loop, of the reasoner or of a turn
  recoveries, failedCalls,
  gathered,     \* the facts the model was told
  call,         \* the call being invoked
  speaker,      \* whose turn it is, and who chose it
  transcript,   \* the turns taken: who spoke, and who chose it
  log,          \* the records of the reason stage
  cancelled,    \* the cycle's context is done
  faults,       \* requests to the model that failed
  asked,        \* completions that ended (history variable)
  late          \* begun since the context is done (history variable)

loopVars == <<i, recoveries, failedCalls, gathered, call>>
deliberationVars ==
  <<setup, pc, ask, loopVars, speaker, transcript, log, cancelled, faults, asked, late>>

Nobody == [index |-> 0, by |-> "rotation"]
NoCall == "none"
NoAsk  == [purpose |-> "none", attempt |-> 0]

(* panelCall: the personas of the workflows that author a pattern, each     *)
(* once, in order.                                                         *)
panelCall(plan) ==
  LET of(w)        == IF w.pattern THEN w.personas ELSE <<>>
      add(seen, p) == IF p \in ToSet(seen) THEN seen ELSE Append(seen, p)
      delegated    == FlattenSeq([w \in 1..Len(plan) |-> of(plan[w])])
      table[n \in 0..Len(delegated)] ==
        IF n = 0 THEN <<>> ELSE add(table[n - 1], delegated[n])
  IN table[Len(delegated)]

Table == panelCall(setup.plan)
Convened == Len(Table) >= 2

(* Without a model nothing is ranked and no tool is used. *)
Init ==
  /\ setup \in [plan : Plans, live : BOOLEAN, tools : BOOLEAN, rankings : 0..MaxRankings]
  /\ ~setup.live => ~setup.tools
  /\ Convened \/ ~setup.live => setup.rankings = 0
  /\ pc = "start"
  /\ ask = NoAsk
  /\ i = 0 /\ recoveries = 0 /\ failedCalls = {} /\ gathered = <<>>
  /\ call = NoCall
  /\ speaker = Nobody /\ transcript = <<>>
  /\ log = <<>>
  /\ cancelled = FALSE
  /\ faults = 0
  /\ asked = 0
  /\ late = [calls |-> 0, turns |-> 0]

Unspoken == UNCHANGED <<setup, speaker, transcript, log, cancelled, faults, asked, late>>

Goes(place) == pc' = place /\ ask' = NoAsk

(* The stage returns an error. *)
Fails == Goes("failed")

------------------------------------------------------------------------------
(* A completion: sent, and sent again after a backoff when the transport    *)
(* failed or the provider was busy.                                        *)

Asks(purpose) == pc' = "asking" /\ ask' = [purpose |-> purpose, attempt |-> 0]

Answered(purpose) ==
  /\ pc = "asking" /\ ask.purpose = purpose
  /\ asked' = asked + 1
  /\ UNCHANGED faults

(* A busy provider or a failed transport is tried again, anything else and  *)
(* the last attempt are errors; while it waits, the client notices that the*)
(* context is done -- unless its timer fired at the same time.  Only the   *)
(* ranking of skills does without an answer.                               *)
GivesUp ==
  /\ asked' = asked + 1
  /\ IF ask.purpose = "rank" THEN Goes("ranking") ELSE Fails

Retries == ask.attempt < Backoffs

PostFails ==
  /\ pc = "asking"
  /\ faults < MaxFaults
  /\ faults' = faults + 1
  /\ \/ Retries /\ ask' = [ask EXCEPT !.attempt = @ + 1] /\ UNCHANGED <<pc, asked>>
     \/ GivesUp
  /\ UNCHANGED <<setup, loopVars, speaker, transcript, log, cancelled, late>>

BackoffCancelled ==
  /\ pc = "asking" /\ ask.attempt > 0 /\ cancelled
  /\ GivesUp
  /\ UNCHANGED <<setup, loopVars, speaker, transcript, log, cancelled, faults, late>>

(* The context of the cycle is cancelled, at any time. *)
Cancel ==
  /\ pc \notin {"done", "failed"} /\ ~cancelled
  /\ cancelled' = TRUE
  /\ UNCHANGED <<setup, pc, ask, loopVars, speaker, transcript, log, faults, asked, late>>

------------------------------------------------------------------------------
(* InvokeTool: the policies rule in order on this call, then its handler    *)
(* runs; either way one record, and a text for the model.                  *)

ToolRecord(c, out, cleared) == [stage |-> "tool", call |-> c, out |-> out, cleared |-> cleared]

(* toolResultFailed reads the text: a handler that succeeds with a text     *)
(* that says it failed counts as failed.                                   *)
toolResultFailed(out) == out \in {"BLOCKED", "FAILED", "complaint"}

(* Mutant: only the last failed call is remembered. *)
OnlyTheLastFailed(c, out) ==
  IF Convened THEN failedCalls ELSE IF toolResultFailed(out) THEN {c} ELSE {}

(* Any success clears the failed calls.  A panel's turn keeps no such list. *)
Failed(c, out) ==
  IF Convened THEN failedCalls
  ELSE IF toolResultFailed(out) THEN failedCalls \cup {c} ELSE {}

(* What the loop makes of a result. *)
Results(c, out) ==
  /\ gathered' = Append(gathered, [call |-> c, out |-> out])
  /\ i' = i + 1
  /\ failedCalls' = Failed(c, out)
  /\ Goes(IF Convened THEN "turnLoop" ELSE "loop")
  /\ UNCHANGED <<setup, recoveries, call, speaker, transcript, cancelled, faults, asked>>

JudgeAnswers == {"complies", "violates", "error"}

(* Mutant: a judge that cannot rule lets the call pass. *)
FirstRefusalFailingOpen(answers) == SelectInSeq(answers, LAMBDA a : a = "violates")

(* A judge that cannot rule blocks the call. *)
FirstRefusal(answers) == SelectInSeq(answers, LAMBDA a : a # "complies")

InvokeTool ==
  /\ pc = "invoke"
  /\ \E answers \in [1..Len(ToolPolicies) -> JudgeAnswers] :
       LET refusal == FirstRefusal(answers)
           cleared == ToSet(answers) \subseteq {"complies"}
       IN IF refusal > 0
          THEN /\ log' = Append(log, ToolRecord(call, "BLOCKED", cleared))
               /\ Results(call, "BLOCKED")
               /\ UNCHANGED late
          ELSE /\ \E out \in {"result", "complaint", "FAILED"} :
                    /\ log' = Append(log, ToolRecord(call, out, cleared))
                    /\ Results(call, out)
               /\ late' = IF cancelled THEN [late EXCEPT !.calls = @ + 1] ELSE late

------------------------------------------------------------------------------
(* A single voice *)

Concludes ==
  /\ log' = Append(log, [stage |-> "deliberation"])
  /\ Goes("done")

(* reasonStage, and how each of the three deliberations begins. *)
Begin ==
  /\ pc = "start"
  /\ CASE Convened              -> Goes("turn") /\ UNCHANGED log
       [] ~Convened /\ cancelled -> Fails /\ UNCHANGED log
       [] OTHER                 -> IF setup.live THEN Goes("ranking") /\ UNCHANGED log
                                                 ELSE Concludes
  /\ UNCHANGED <<setup, loopVars, speaker, transcript, cancelled, faults, asked, late>>

(* renderCapabilities asks for the skills of each persona that has several, *)
(* then the tool loop begins, or the one question of a voice without tools.*)
Rank ==
  /\ pc = "ranking"
  /\ IF i < setup.rankings
     THEN Asks("rank") /\ i' = i + 1
     ELSE /\ IF setup.tools THEN Goes("loop") ELSE Asks("reason")
          /\ i' = 0
  /\ UNCHANGED <<recoveries, failedCalls, gathered, call>> /\ Unspoken

Ranked ==
  /\ Answered("rank")
  /\ Goes("ranking")
  /\ UNCHANGED <<setup, loopVars, speaker, transcript, log, cancelled, late>>

(* Mutant: the loop does not look at its context. *)
LoopHeadHeedless ==
  /\ pc = "loop"
  /\ IF i >= MaxIterations THEN Asks("reason") ELSE Asks("action")
  /\ UNCHANGED loopVars /\ Unspoken

LoopHead ==
  /\ pc = "loop"
  /\ IF i >= MaxIterations THEN Asks("reason")
     ELSE IF cancelled THEN Fails ELSE Asks("action")
  /\ UNCHANGED loopVars /\ Unspoken

(* A decision ends the loop when no bound tool is named. *)
Decides ==
  /\ Answered("action")
  /\ Concludes
  /\ UNCHANGED <<setup, loopVars, speaker, transcript, cancelled, late>>

(* Neither a bound tool nor a decision: corrected a few times, then what    *)
(* was gathered has to do.                                                 *)
Recovers ==
  /\ Answered("action")
  /\ IF recoveries < MaxToolRecoveries
     THEN recoveries' = recoveries + 1 /\ i' = i + 1 /\ Goes("loop")
     ELSE Asks("reason") /\ UNCHANGED <<recoveries, i>>
  /\ UNCHANGED <<setup, failedCalls, gathered, call, speaker, transcript, log, cancelled, late>>

(* Mutant: a refused repeat does not count as an iteration. *)
CallsForFree(c) ==
  /\ Answered("action")
  /\ IF c \in failedCalls
     THEN Goes("loop") /\ UNCHANGED <<i, call>>
     ELSE Goes("invoke") /\ call' = c /\ UNCHANGED i
  /\ UNCHANGED <<setup, recoveries, failedCalls, gathered, speaker, transcript, log, cancelled, late>>

(* A bound tool: an identical call that failed is refused. *)
Calls(c) ==
  /\ Answered("action")
  /\ IF c \in failedCalls
     THEN i' = i + 1 /\ Goes("loop") /\ UNCHANGED call
     ELSE Goes("invoke") /\ call' = c /\ UNCHANGED i
  /\ UNCHANGED <<setup, recoveries, failedCalls, gathered, speaker, transcript, log, cancelled, late>>

(* ReasonAboutIntent answers. *)
Reasons ==
  /\ Answered("reason")
  /\ Concludes
  /\ UNCHANGED <<setup, loopVars, speaker, transcript, cancelled, late>>

------------------------------------------------------------------------------
(* A panel *)

Spoken == {transcript[t].speaker : t \in 1..Len(transcript)}
everyoneSpoke == ToSet(Table) \subseteq Spoken

Budget == IF Rounds * Len(Table) > MaxTurns THEN MaxTurns ELSE Rounds * Len(Table)

(* Mutant: rotation starts over after every turn. *)
RotatedFromTheTop == 1

(* The seat after the one that spoke last. *)
Rotated == (speaker.index % Len(Table)) + 1

(* The turn of a persona: with tools, plainly, or without a model.          *)
Turn(index, by) ==
  /\ speaker' = [index |-> index, by |-> by]
  /\ i' = 0 /\ gathered' = <<>>
  /\ IF setup.tools THEN Goes("turnLoop") ELSE Asks("speak")
  /\ UNCHANGED <<recoveries, failedCalls, call>>

Says(index, by) ==
  /\ transcript' = Append(transcript, [speaker |-> Table[index], by |-> by])
  /\ log' = Append(log, [stage |-> "conversation", speaker |-> Table[index], by |-> by])
  /\ late' = IF cancelled THEN [late EXCEPT !.turns = @ + 1] ELSE late
  /\ gathered' = <<>>

(* The head of Convene's loop: the turns are spent, the context is done, or *)
(* somebody speaks next -- whom the model may choose.                      *)
TurnHead ==
  /\ pc = "turn"
  /\ IF Len(transcript) >= Budget
     THEN /\ IF setup.live THEN Asks("synthesize") /\ UNCHANGED log ELSE Concludes
          /\ UNCHANGED <<speaker, gathered, transcript, late>>
     ELSE IF cancelled THEN Fails /\ UNCHANGED <<speaker, gathered, transcript, log, late>>
     ELSE IF setup.live THEN Asks("speaker") /\ UNCHANGED <<speaker, gathered, transcript, log, late>>
     ELSE /\ Says(Rotated, "rotation")
          /\ speaker' = [index |-> Rotated, by |-> "rotation"]
          /\ Goes("turn")
  /\ UNCHANGED <<setup, i, recoveries, failedCalls, call, cancelled, faults, asked>>

(* The model says the panel is done: honoured when everyone has spoken.     *)
ConcludesEarly ==
  /\ Answered("speaker")
  /\ IF everyoneSpoke
     THEN Asks("synthesize") /\ UNCHANGED <<loopVars, speaker>>
     ELSE Turn(Rotated, "rotation")
  /\ UNCHANGED <<setup, transcript, log, cancelled, late>>

(* It names somebody at the table, or nobody and rotation goes on.          *)
Names(index) ==
  /\ Answered("speaker")
  /\ Turn(index, "model")
  /\ UNCHANGED <<setup, transcript, log, cancelled, late>>

NamesNobody ==
  /\ Answered("speaker")
  /\ Turn(Rotated, "rotation")
  /\ UNCHANGED <<setup, transcript, log, cancelled, late>>

(* speakWithTools: calls for facts, then a statement. *)
TurnLoopHead ==
  /\ pc = "turnLoop"
  /\ IF i >= TurnToolBudget THEN Asks("speak")
     ELSE IF cancelled THEN Fails ELSE Asks("speakOrUse")
  /\ UNCHANGED loopVars /\ Unspoken

UsesTool(c) ==
  /\ Answered("speakOrUse")
  /\ Goes("invoke") /\ call' = c
  /\ UNCHANGED <<setup, i, recoveries, failedCalls, gathered, speaker, transcript, log, cancelled, late>>

Declines ==
  /\ Answered("speakOrUse")
  /\ Asks("speak")
  /\ UNCHANGED <<setup, loopVars, speaker, transcript, log, cancelled, late>>

Speaks ==
  /\ Answered("speak") \/ Answered("speakOrUse")
  /\ Says(speaker.index, speaker.by)
  /\ Goes("turn")
  /\ UNCHANGED <<setup, i, recoveries, failedCalls, call, speaker, cancelled>>

Synthesizes ==
  /\ Answered("synthesize")
  /\ Concludes
  /\ UNCHANGED <<setup, loopVars, speaker, transcript, cancelled, late>>

------------------------------------------------------------------------------
(* The stage is over. *)
Over == pc \in {"done", "failed"} /\ UNCHANGED deliberationVars

Next ==
  \/ Begin \/ Rank \/ Ranked
  \/ LoopHead \/ Decides \/ Recovers \/ (\E c \in Call : Calls(c)) \/ Reasons
  \/ InvokeTool
  \/ TurnHead \/ ConcludesEarly \/ NamesNobody
  \/ (\E index \in 1..Len(Table) : Names(index))
  \/ TurnLoopHead \/ (\E c \in Call : UsesTool(c)) \/ Declines \/ Speaks
  \/ Synthesizes
  \/ PostFails \/ BackoffCancelled \/ Cancel
  \/ Over

DeliberationSpec == Init /\ [][Next]_deliberationVars

------------------------------------------------------------------------------
(* Properties *)

(* The places of the trail that hold a tool record. *)
ToolPlaces == {k \in 1..Len(log) : log[k].stage = "tool"}

(* tool_reasoning.go:22-25, 79-93: an unchanged failed call is not run      *)
(* again until another call has succeeded, however the model alternates    *)
(* between calls, refusals and bad turns.                                  *)
FailedCallNotRepeated ==
  ~Convened =>
    \A a, b \in ToolPlaces :
      /\ a < b
      /\ log[a].call = log[b].call
      /\ log[a].out \in {"FAILED", "BLOCKED"}
      => \E k \in ToolPlaces : a < k /\ k < b /\ log[k].out = "result"

(* tool_binder.go:91-97, panel.go:218-222: what the model reasons from is    *)
(* on the trail.  The facts told to the loop, or to the persona whose turn *)
(* it is, are the last records before the conclusion -- all there is since *)
(* the last statement, in order; and no record but a refusal is of a call  *)
(* that a policy had not cleared.                                          *)
FactsOnTrail ==
  LET told  == IF pc = "done" THEN Len(log) - 1 ELSE Len(log)
      spoke == told - Len(gathered)
  IN /\ spoke >= 0
     /\ spoke > 0 => log[spoke].stage = "conversation"
     /\ \A k \in 1..Len(gathered) :
          /\ log[spoke + k].stage = "tool"
          /\ gathered[k] = [call |-> log[spoke + k].call, out |-> log[spoke + k].out]
     /\ \A k \in ToolPlaces : log[k].cleared <=> log[k].out # "BLOCKED"

(* README.md:365, tool_reasoning.go:11-13, panel.go:37-39, llm_client.go:85: *)
(* bounds inside bounds -- turns of tool loops of retried completions --   *)
(* and none may be stepped over: what the stage asks of the provider and   *)
(* of the tools is bounded before it begins.  With no step but an answer   *)
(* to wait for, it therefore ends; and promptly when its context is done   *)
(* (stage.go:37-42), although neither the handlers nor every model heed    *)
(* it: at most one handler and one statement still happen.                 *)
MostAsked ==
  CASE ~setup.live -> 0
    [] setup.live /\ Convened ->
         Budget * (IF setup.tools THEN TurnToolBudget + 2 ELSE 2) + 1
    [] setup.live /\ ~Convened ->
         setup.rankings + (IF setup.tools THEN MaxIterations ELSE 0) + 1

MostCalls == IF Convened THEN Budget * TurnToolBudget ELSE MaxIterations

WorkBounded ==
  /\ asked <= MostAsked
  /\ ask.attempt <= Backoffs
  /\ Cardinality(ToolPlaces) <= MostCalls
  /\ Len(transcript) <= Budget
  /\ late.calls <= 1 /\ late.turns <= 1

(* panel.go:98-101: nobody is left out -- a panel that ends before its turns *)
(* are spent has heard everyone, and so has any stretch of as many rotated *)
(* turns as there are seats, wherever the model's choices left the seat.   *)
TableIsHeard ==
  Convened =>
    /\ pc = "done" => Len(transcript) = Budget \/ Spoken = ToSet(Table)
    /\ \A t \in 0..(Len(transcript) - Len(Table)) :
         (\A k \in 1..Len(Table) : transcript[t + k].by = "rotation") =>
           {transcript[t + k].speaker : k \in 1..Len(Table)} = ToSet(Table)
==============================================================================
