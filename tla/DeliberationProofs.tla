------------------------- MODULE DeliberationProofs --------------------------
(***************************************************************************)
(* Theorems about the reason stage (module Deliberation), for every plan,  *)
(* every number of calls, personas, policies and retries, and every bound: *)
(* its work is bounded, a failed call is not repeated in between, what the *)
(* model is told is on the trail, and a panel hears its table.             *)
(***************************************************************************)
EXTENDS Deliberation, SequenceLemmas, FiniteSetTheorems

(* Types *)

Choosers == {"rotation", "model"}
Outcomes == {"BLOCKED", "FAILED", "result", "complaint"}
Taken    == [speaker : Persona, by : Choosers]
Facts    == [call : Call, out : Outcomes]
ToolRecords == [stage : {"tool"}, call : Call, out : Outcomes, cleared : BOOLEAN]
Statements  == [stage : {"conversation"}, speaker : Persona, by : Choosers]
Conclusions == [stage : {"deliberation"}]
Written     == ToolRecords \cup Statements \cup Conclusions

Stations == {"start", "ranking", "loop", "turn", "turnLoop", "asking", "invoke",
             "done", "failed"}
Purposes == {"none", "rank", "action", "reason", "speaker", "speak", "speakOrUse",
             "synthesize"}

DeliberationTypeOK ==
  /\ setup \in [plan : Plans, live : BOOLEAN, tools : BOOLEAN, rankings : 0..MaxRankings]
  /\ pc \in Stations
  /\ ask \in [purpose : Purposes, attempt : 0..Backoffs]
  /\ i \in Nat /\ recoveries \in Nat
  /\ failedCalls \subseteq Call
  /\ gathered \in Seq(Facts)
  /\ speaker \in [index : 0..Len(Table), by : Choosers]
  /\ transcript \in Seq(Taken)
  /\ log \in Seq(Written)
  /\ cancelled \in BOOLEAN
  /\ faults \in Nat /\ asked \in Nat
  /\ late \in [calls : Nat, turns : Nat]

(***************************************************************************)
(* The inductive invariant.  A voice and a panel pass different stations;  *)
(* each station says how much of the budget is spent, so the bound at the  *)
(* end is a sum along the way.                                             *)
(***************************************************************************)
Asking(purpose) == pc = "asking" /\ ask.purpose = purpose

Stationed ==
  /\ pc = "asking" <=> ask.purpose # "none"
  /\ setup.tools => setup.live
  /\ pc \in {"ranking", "loop", "turnLoop", "asking", "invoke"} => setup.live
  /\ pc \in {"loop", "turnLoop", "invoke"} \/ Asking("action") \/ Asking("speakOrUse")
       => setup.tools
  /\ pc \in {"ranking", "loop"} \/ Asking("rank") \/ Asking("action") \/ Asking("reason")
       => ~Convened
  /\ \/ pc \in {"turn", "turnLoop"} \/ Asking("speaker") \/ Asking("speak")
     \/ Asking("speakOrUse") \/ Asking("synthesize")
     => Convened
  /\ pc = "invoke" => call \in Call /\ (~Convened => call \notin failedCalls)

Invoked   == Cardinality(ToolPlaces)
LoopSteps == IF setup.tools THEN MaxIterations ELSE 0

(* A single voice: one completion per ranking and per iteration, and one    *)
(* more; one tool per iteration.                                           *)
SingleWork ==
  /\ pc \in {"start", "ranking"} \/ Asking("rank") => Invoked = 0
  /\ pc = "start" => i = 0 /\ asked = 0
  /\ pc = "ranking" => asked = i /\ i <= setup.rankings
  /\ Asking("rank") => asked + 1 = i /\ i <= setup.rankings
  /\ pc = "loop" => asked <= setup.rankings + i /\ i <= MaxIterations /\ Invoked <= i
  /\ Asking("action") => asked <= setup.rankings + i /\ i < MaxIterations /\ Invoked <= i
  /\ pc = "invoke" => asked <= setup.rankings + i + 1 /\ i < MaxIterations /\ Invoked <= i
  /\ Asking("reason") => asked <= setup.rankings + LoopSteps /\ Invoked <= MaxIterations
  /\ pc \in {"done", "failed"} =>
       asked <= setup.rankings + LoopSteps + 1 /\ Invoked <= MaxIterations

(* A panel: what the turns taken may have cost, and what the turn at hand   *)
(* has cost so far.                                                        *)
Turns     == Len(transcript)
PerTurn   == IF setup.tools THEN TurnToolBudget + 2 ELSE 2
AskedBefore   == Turns * PerTurn
InvokedBefore == Turns * TurnToolBudget
AskedAtMost   == Budget * PerTurn
InvokedAtMost == Budget * TurnToolBudget

PanelWork ==
  /\ pc \in {"start", "turn"} \/ Asking("speaker") =>
       asked <= AskedBefore /\ Invoked <= InvokedBefore
  /\ pc = "turnLoop" \/ Asking("speakOrUse") =>
       asked <= AskedBefore + 1 + i /\ Invoked <= InvokedBefore + i
  /\ pc = "invoke" => asked <= AskedBefore + 2 + i /\ Invoked <= InvokedBefore + i
  /\ pc = "turnLoop" => i <= TurnToolBudget
  /\ pc = "invoke" \/ Asking("speakOrUse") => i < TurnToolBudget
  /\ Asking("speak") => /\ asked + 1 <= AskedBefore + PerTurn
                        /\ Invoked <= InvokedBefore + TurnToolBudget
  /\ pc \in {"turnLoop", "asking", "invoke"} /\ ~Asking("synthesize") => Turns < Budget
  /\ Asking("synthesize") => asked <= AskedAtMost /\ Invoked <= InvokedAtMost
  /\ pc \in {"done", "failed"} =>
       asked <= AskedAtMost + 1 /\ Invoked <= InvokedAtMost

Work ==
  /\ ~setup.live => asked = 0
  /\ Turns <= Budget
  /\ ~Convened => SingleWork /\ Turns = 0
  /\ Convened => PanelWork

(* A step that was begun too late is the last of its kind: the stations     *)
(* after it do not lead back before it once the context is done.           *)
Ending  == pc \in {"turn", "done", "failed"} \/ Asking("synthesize")
Winding == Ending \/ pc \in {"loop", "turnLoop"} \/ Asking("reason") \/ Asking("speak")

Late ==
  /\ late.calls \in {0, 1} /\ late.turns \in {0, 1}
  /\ late.calls = 1 => cancelled /\ Winding
  /\ late.turns = 1 => cancelled /\ Ending

(* A call that failed is remembered until another succeeds.                 *)
Failures ==
  ~Convened =>
    \A a \in ToolPlaces : log[a].out \in {"FAILED", "BLOCKED"} =>
      log[a].call \in failedCalls \/ \E k \in ToolPlaces : a < k /\ log[k].out = "result"

(* A panel between turns, and in one. *)
Between  == pc \in {"start", "turn"} \/ Asking("speaker")
Speaking == pc \in {"turnLoop", "invoke"} \/ Asking("speak") \/ Asking("speakOrUse")

(* Nothing is told between turns. *)
Untold == Convened /\ (Between \/ Asking("synthesize")) => gathered = <<>>

(* seat[t] is the seat whose turn the t-th was; rotation moves by one.      *)
NextSeat(index) == IF index = Len(Table) THEN 1 ELSE index + 1

Seating(seat) ==
  /\ seat \in [0..Turns -> 0..Len(Table)]
  /\ \A t \in 1..Turns :
       /\ seat[t] # 0
       /\ transcript[t].speaker = Table[seat[t]]
       /\ transcript[t].by = "rotation" => seat[t] = NextSeat(seat[t - 1])

Placed(seat) ==
  /\ Between => speaker.index = seat[Turns]
  /\ Speaking => /\ speaker.index # 0
                 /\ speaker.by = "rotation" => speaker.index = NextSeat(seat[Turns])

Seated == Convened => \E seat : Seating(seat) /\ Placed(seat)

Heard ==
  Convened /\ (Asking("synthesize") \/ pc = "done") => Turns = Budget \/ everyoneSpoke

DeliberationIInv ==
  /\ DeliberationTypeOK /\ Stationed
  /\ Work /\ Late
  /\ Failures /\ FailedCallNotRepeated
  /\ FactsOnTrail /\ Untold
  /\ Seated /\ Heard

------------------------------------------------------------------------------
(* The table *)

Joins(seen, p) == IF p \in ToSet(seen) THEN seen ELSE Append(seen, p)

(* The function panelCall recurs with. *)
Gathers(f, delegated, n) ==
  f = [m \in 0..n |-> IF m = 0 THEN <<>> ELSE Joins(f[m - 1], delegated[m])]

LEMMA GathersExists ==
  ASSUME NEW delegated, NEW n \in Nat
  PROVE  \E f : Gathers(f, delegated, n)
  <1> DEFINE S == {m \in Nat : \E f : Gathers(f, delegated, m)}
  <1>1. 0 \in S
    <2>1. Gathers([m \in 0..0 |-> <<>>], delegated, 0)
      BY DEF Gathers
    <2> QED
      BY <2>1
  <1>2. ASSUME NEW m \in Nat, m \in S PROVE m + 1 \in S
    <2>1. PICK f : Gathers(f, delegated, m)
      BY <1>2
    <2> DEFINE g == [k \in 0..(m + 1) |-> IF k <= m THEN f[k] ELSE Joins(f[m], delegated[k])]
    <2>2. ASSUME NEW k \in 0..(m + 1)
          PROVE  g[k] = IF k = 0 THEN <<>> ELSE Joins(g[k - 1], delegated[k])
      <3>1. CASE k <= m
        <4>1. k \in 0..m /\ (k # 0 => k - 1 \in 0..m /\ k - 1 \in 0..(m + 1) /\ k - 1 <= m)
          BY <3>1
        <4>2. f[k] = IF k = 0 THEN <<>> ELSE Joins(f[k - 1], delegated[k])
          BY <2>1, <4>1 DEF Gathers
        <4> QED
          BY <3>1, <4>1, <4>2
      <3>2. CASE k = m + 1
        <4>1. k # 0 /\ ~ (k <= m) /\ k - 1 = m /\ m \in 0..(m + 1)
          BY <3>2
        <4> QED
          BY <4>1
      <3> QED
        BY <3>1, <3>2
    <2>3. g = [k \in 0..(m + 1) |-> g[k]]
      OBVIOUS
    <2> HIDE DEF g
    <2>4. Gathers(g, delegated, m + 1)
      BY <2>2, <2>3 DEF Gathers
    <2> QED
      BY <2>4
  <1> HIDE DEF S
  <1>3. n \in S
    BY <1>1, <1>2, SetInduction
  <1> QED
    BY <1>3 DEF S

(* panelCall returns personas. *)
LEMMA PanelCallType ==
  ASSUME NEW plan \in Seq(Workflows)
  PROVE  panelCall(plan) \in Seq(Persona)
  <1> DEFINE named == [w \in 1..Len(plan) |-> IF plan[w].pattern THEN plan[w].personas ELSE <<>>]
  <1> DEFINE delegated == FlattenSeq(named)
  <1> DEFINE n == Len(delegated)
  <1> DEFINE F == CHOOSE f : f = [m \in 0..n |-> IF m = 0 THEN <<>> ELSE Joins(f[m - 1], delegated[m])]
  <1>1. delegated \in Seq(Persona)
    <2>1. Len(plan) \in Nat /\ \A w \in 1..Len(plan) : plan[w] \in Workflows
      OBVIOUS
    <2>2. \A w \in 1..Len(plan) : named[w] \in Seq(Persona)
      BY <2>1 DEF Workflows
    <2>3. named \in Seq(Seq(Persona))
      BY <2>1, <2>2
    <2> HIDE DEF named
    <2> QED
      BY <2>3, FlattenSeqElements
  <1>2. panelCall(plan) = F[n]
    BY DEF panelCall, Joins
  <1> HIDE DEF delegated
  <1>3. n \in Nat /\ \A m \in 1..n : delegated[m] \in Persona
    BY <1>1
  <1> HIDE DEF n
  <1>4. \E f : Gathers(f, delegated, n)
    BY <1>3, GathersExists
  <1>5. Gathers(F, delegated, n)
    BY <1>4 DEF Gathers
  <1> HIDE DEF F
  <1> DEFINE S == {m \in Nat : m <= n => F[m] \in Seq(Persona)}
  <1>6. 0 \in S
    BY <1>3, <1>5 DEF Gathers
  <1>7. ASSUME NEW m \in Nat, m \in S
        PROVE  m + 1 \in S
    <2> SUFFICES ASSUME m + 1 <= n PROVE F[m + 1] \in Seq(Persona)
      OBVIOUS
    <2>1. m + 1 \in 0..n /\ m + 1 # 0 /\ (m + 1) - 1 = m /\ m <= n /\ m + 1 \in 1..n
      BY <1>3
    <2>2. F[m + 1] = Joins(F[m], delegated[m + 1])
      BY <1>5, <2>1 DEF Gathers
    <2>3. F[m] \in Seq(Persona) /\ delegated[m + 1] \in Persona
      BY <1>3, <1>7, <2>1
    <2> QED
      BY <2>2, <2>3 DEF Joins
  <1> HIDE DEF S
  <1>8. n \in S
    BY <1>3, <1>6, <1>7, SetInduction
  <1> QED
    BY <1>2, <1>3, <1>8 DEF S

------------------------------------------------------------------------------
(* What the bounds are, and that they stay *)

LEMMA TableType ==
  ASSUME DeliberationTypeOK
  PROVE  /\ Table \in Seq(Persona) /\ Len(Table) \in Nat
         /\ Budget \in Nat
         /\ setup.rankings \in Nat /\ LoopSteps \in Nat
         /\ PerTurn \in Nat /\ PerTurn >= 2
         /\ setup.tools => PerTurn = TurnToolBudget + 2 /\ LoopSteps = MaxIterations
         /\ {MaxIterations, MaxToolRecoveries, TurnToolBudget, Backoffs} \subseteq Nat
  <1>1. setup.plan \in Seq(Workflows)
    BY DeliberationAssumption DEF DeliberationTypeOK
  <1>2. Table \in Seq(Persona)
    BY <1>1, PanelCallType DEF Table
  <1>3. Len(Table) \in Nat
    BY <1>2
  <1>4. Rounds \in Nat /\ MaxTurns \in Nat
    BY DeliberationAssumption
  <1>5. Rounds * Len(Table) \in Nat
    BY <1>3, <1>4
  <1>6. Budget \in Nat
    BY <1>4, <1>5 DEF Budget
  <1>7. {MaxIterations, MaxToolRecoveries, TurnToolBudget, Backoffs} \subseteq Nat
    BY DeliberationAssumption
  <1>8. setup.rankings \in Nat
    BY DeliberationAssumption DEF DeliberationTypeOK
  <1>9. /\ PerTurn \in Nat /\ PerTurn >= 2 /\ LoopSteps \in Nat
        /\ setup.tools => PerTurn = TurnToolBudget + 2 /\ LoopSteps = MaxIterations
    BY <1>7 DEF LoopSteps, PerTurn
  <1> QED
    BY <1>2, <1>3, <1>6, <1>7, <1>8, <1>9

LEMMA Products ==
  ASSUME NEW c \in Nat, NEW t \in Nat, NEW b \in Nat, t <= b
  PROVE  /\ t * c \in Nat /\ (t + 1) * c = t * c + c
         /\ t * c <= b * c
         /\ t < b => t * c + c <= b * c
  <1>1. /\ t * c \in Nat /\ b * c \in Nat
        /\ (t + 1) * c = t * c + c
    OBVIOUS
  <1>2. PICK d \in Nat : b = t + d
    <2>1. b - t \in Nat /\ b = t + (b - t)
      OBVIOUS
    <2> QED
      BY <2>1
  <1>3. b * c = t * c + d * c /\ d * c \in Nat
    BY <1>2
  <1>4. d # 0 => d * c >= c
    <2>1. d # 0 => d - 1 \in Nat /\ (d - 1) * c \in Nat /\ d * c = (d - 1) * c + c
      OBVIOUS
    <2> QED
      BY <1>3, <2>1
  <1> QED
    BY <1>1, <1>2, <1>3, <1>4

LEMMA Costs ==
  ASSUME DeliberationTypeOK, Turns <= Budget
  PROVE  /\ AskedBefore \in Nat /\ AskedAtMost \in Nat
         /\ InvokedBefore \in Nat /\ InvokedAtMost \in Nat
         /\ AskedBefore <= AskedAtMost /\ InvokedBefore <= InvokedAtMost
         /\ Turns < Budget => AskedBefore + PerTurn <= AskedAtMost
         /\ Turns < Budget => InvokedBefore + TurnToolBudget <= InvokedAtMost
  <1>1. PerTurn \in Nat /\ TurnToolBudget \in Nat /\ Budget \in Nat
    BY TableType
  <1>2. Turns \in Nat
    BY DEF DeliberationTypeOK, Turns
  <1>3. Budget * PerTurn \in Nat /\ Budget * TurnToolBudget \in Nat
    BY <1>1, Products
  <1> QED
    BY <1>1, <1>2, <1>3, Products DEF AskedBefore, AskedAtMost, InvokedBefore, InvokedAtMost

(* Nobody changes who deliberates, and with what. *)
LEMMA SetupStays ==
  ASSUME [Next]_deliberationVars
  PROVE  setup' = setup
  BY DEF Next, deliberationVars, Begin, Rank, Ranked, LoopHead, Decides, Recovers, Calls, Reasons,
         InvokeTool, Results, TurnHead, ConcludesEarly, NamesNobody, Names, TurnLoopHead,
         UsesTool, Declines, Speaks, Synthesizes, PostFails, BackoffCancelled, Cancel, Over,
         Unspoken

LEMMA BoundsStay ==
  ASSUME setup' = setup
  PROVE  /\ Table' = Table /\ Convened' = Convened /\ Budget' = Budget
         /\ LoopSteps' = LoopSteps /\ PerTurn' = PerTurn
         /\ AskedAtMost' = AskedAtMost /\ InvokedAtMost' = InvokedAtMost
  BY DEF Table, Convened, Budget, LoopSteps, PerTurn, AskedAtMost, InvokedAtMost

(* The turn at hand goes on, or is taken. *)
LEMMA TurnStays ==
  ASSUME UNCHANGED <<setup, transcript>>
  PROVE  Turns' = Turns /\ AskedBefore' = AskedBefore /\ InvokedBefore' = InvokedBefore
  BY BoundsStay DEF Turns, AskedBefore, InvokedBefore

LEMMA TurnTaken ==
  ASSUME DeliberationTypeOK, setup' = setup, Turns' = Turns + 1
  PROVE  /\ AskedBefore' = AskedBefore + PerTurn
         /\ InvokedBefore' = InvokedBefore + TurnToolBudget
  <1>1. Turns \in Nat /\ PerTurn \in Nat /\ TurnToolBudget \in Nat
    BY TableType DEF DeliberationTypeOK, Turns
  <1>2. PerTurn' = PerTurn
    BY BoundsStay
  <1>3. AskedBefore' = (Turns + 1) * PerTurn /\ InvokedBefore' = (Turns + 1) * TurnToolBudget
    BY <1>2 DEF AskedBefore, InvokedBefore
  <1> QED
    BY <1>1, <1>3, Products DEF AskedBefore, InvokedBefore

------------------------------------------------------------------------------
(* The log *)

LEMMA InvokedType ==
  ASSUME DeliberationTypeOK
  PROVE  IsFiniteSet(ToolPlaces) /\ Invoked \in Nat /\ ToolPlaces \subseteq 1..Len(log)
  <1>1. Len(log) \in Nat
    BY DEF DeliberationTypeOK
  <1>2. IsFiniteSet(1..Len(log))
    BY <1>1, FS_Interval
  <1>3. ToolPlaces \subseteq 1..Len(log)
    BY DEF ToolPlaces
  <1> QED
    BY <1>2, <1>3, FS_Subset, FS_CardinalityType DEF Invoked

LEMMA LogGrows ==
  ASSUME DeliberationTypeOK, NEW r \in Written, log' = Append(log, r)
  PROVE  /\ log' \in Seq(Written) /\ Len(log) \in Nat /\ Len(log') = Len(log) + 1
         /\ \A k \in 1..Len(log) : log'[k] = log[k]
         /\ log'[Len(log) + 1] = r
         /\ r.stage = "tool" => /\ ToolPlaces' = ToolPlaces \cup {Len(log) + 1}
                                /\ Invoked' = Invoked + 1
         /\ r.stage # "tool" => ToolPlaces' = ToolPlaces /\ Invoked' = Invoked
  <1>1. /\ log' \in Seq(Written) /\ Len(log) \in Nat /\ Len(log') = Len(log) + 1
        /\ \A k \in 1..Len(log) : log'[k] = log[k]
        /\ log'[Len(log) + 1] = r
    <2>1. log \in Seq(Written) /\ Len(log) \in Nat
      BY DEF DeliberationTypeOK
    <2> QED
      BY <2>1, AppendAt
  <1>2. ToolPlaces' = {k \in 1..(Len(log) + 1) : log'[k].stage = "tool"}
    BY <1>1 DEF ToolPlaces
  <1>3. Len(log) + 1 \notin ToolPlaces /\ IsFiniteSet(ToolPlaces)
    BY <1>1, InvokedType
  <1>4. CASE r.stage = "tool"
    <2>1. ToolPlaces' = ToolPlaces \cup {Len(log) + 1}
      BY <1>1, <1>2, <1>4 DEF ToolPlaces
    <2> QED
      BY <1>1, <1>3, <1>4, <2>1, FS_AddElement DEF Invoked
  <1>5. CASE r.stage # "tool"
    <2>1. ToolPlaces' = ToolPlaces
      BY <1>1, <1>2, <1>5 DEF ToolPlaces
    <2> QED
      BY <1>1, <1>5, <2>1 DEF Invoked
  <1> QED
    BY <1>1, <1>4, <1>5

LEMMA LogStays ==
  ASSUME UNCHANGED log
  PROVE  ToolPlaces' = ToolPlaces /\ Invoked' = Invoked
  BY DEF ToolPlaces, Invoked

LEMMA ConclusionWritten == [stage |-> "deliberation"] \in Written
  BY DEF Written, Conclusions

(* A refusal blocks a call; a call that is not refused was cleared.         *)
Invokes(out, cleared) ==
  /\ pc = "invoke"
  /\ log' = Append(log, ToolRecord(call, out, cleared))
  /\ Results(call, out)
  /\ cleared <=> out # "BLOCKED"
  /\ late' = IF cancelled /\ out # "BLOCKED" THEN [late EXCEPT !.calls = @ + 1] ELSE late

LEMMA InvokeOutcome ==
  ASSUME InvokeTool
  PROVE  \E out \in Outcomes, cleared \in BOOLEAN : Invokes(out, cleared)
  <1>1. PICK answers \in [1..Len(ToolPolicies) -> JudgeAnswers] :
          LET refusal == FirstRefusal(answers)
              cleared == ToSet(answers) \subseteq {"complies"}
          IN IF refusal > 0
             THEN /\ log' = Append(log, ToolRecord(call, "BLOCKED", cleared))
                  /\ Results(call, "BLOCKED")
                  /\ UNCHANGED late
             ELSE /\ \E out \in {"result", "complaint", "FAILED"} :
                       /\ log' = Append(log, ToolRecord(call, out, cleared))
                       /\ Results(call, out)
                  /\ late' = IF cancelled THEN [late EXCEPT !.calls = @ + 1] ELSE late
    BY DEF InvokeTool
  <1> DEFINE cleared == ToSet(answers) \subseteq {"complies"}
  <1> DEFINE refusing == {k \in 1..Len(answers) : answers[k] # "complies"}
  <1>2. Len(answers) = Len(ToolPolicies) /\ DOMAIN answers = 1..Len(answers) /\ Len(answers) \in Nat
    BY DeliberationAssumption
  <1>3. cleared <=> refusing = {}
    BY <1>2 DEF ToSet
  <1>4. FirstRefusal(answers) = IF refusing # {} THEN Min(refusing) ELSE 0
    BY DEF FirstRefusal, SelectInSeq
  <1>5. refusing # {} => Min(refusing) > 0
    <2> SUFFICES ASSUME refusing # {} PROVE Min(refusing) > 0
      OBVIOUS
    <2>1. refusing \subseteq Nat /\ \A k \in refusing : k > 0
      BY <1>2
    <2> HIDE DEF refusing
    <2>2. \E k \in refusing : \A m \in refusing : k <= m
      BY <2>1, LeastElement
    <2>3. Min(refusing) \in refusing
      BY <2>2 DEF Min
    <2> QED
      BY <2>1, <2>3
  <1> HIDE DEF cleared, refusing
  <1>6. pc = "invoke" /\ cleared \in BOOLEAN
    BY DEF InvokeTool, cleared
  <1>7. CASE refusing # {}
    <2>1. FirstRefusal(answers) > 0
      BY <1>4, <1>5, <1>7
    <2>2. Invokes("BLOCKED", cleared)
      BY <1>1, <1>3, <1>6, <1>7, <2>1 DEF Invokes, cleared
    <2> QED
      BY <1>6, <2>2 DEF Outcomes
  <1>8. CASE refusing = {}
    <2>1. ~ (FirstRefusal(answers) > 0)
      BY <1>4, <1>8
    <2>2. PICK out \in {"result", "complaint", "FAILED"} :
            /\ log' = Append(log, ToolRecord(call, out, cleared))
            /\ Results(call, out)
            /\ late' = IF cancelled THEN [late EXCEPT !.calls = @ + 1] ELSE late
      BY <1>1, <2>1 DEF cleared
    <2>3. Invokes(out, cleared)
      BY <1>3, <1>6, <1>8, <2>2 DEF Invokes
    <2> QED
      BY <1>6, <2>3 DEF Outcomes
  <1> QED
    BY <1>7, <1>8

------------------------------------------------------------------------------
(* Steps: types *)

(* What the head of a panel's loop decides: to end or to ask on, or, without *)
(* a model, whose turn it is -- taken at once.                             *)
HeadGoesOn ==
  \/ Asks("synthesize") /\ UNCHANGED log /\ setup.live /\ Turns >= Budget
  \/ Concludes /\ ~setup.live /\ Turns >= Budget
  \/ Fails /\ UNCHANGED log /\ cancelled /\ Turns < Budget
  \/ Asks("speaker") /\ UNCHANGED log /\ setup.live /\ ~cancelled /\ Turns < Budget

SpeaksAlone ==
  /\ Says(Rotated, "rotation")
  /\ speaker' = [index |-> Rotated, by |-> "rotation"]
  /\ Goes("turn")
  /\ ~setup.live /\ ~cancelled /\ Turns < Budget

LEMMA HeadCases ==
  ASSUME DeliberationTypeOK, TurnHead
  PROVE  \/ UNCHANGED <<speaker, gathered, transcript, late>> /\ HeadGoesOn
         \/ SpeaksAlone
  <1>1. Turns \in Nat /\ Budget \in Nat
    BY TableType DEF DeliberationTypeOK, Turns
  <1>2. Turns >= Budget <=> ~ (Turns < Budget)
    BY <1>1
  <1>3. Len(transcript) = Turns
    BY DEF Turns
  <1>4. CASE Turns >= Budget
    BY <1>2, <1>3, <1>4 DEF TurnHead, HeadGoesOn
  <1>5. CASE Turns < Budget /\ (cancelled \/ setup.live)
    BY <1>2, <1>3, <1>5 DEF TurnHead, HeadGoesOn
  <1>6. CASE Turns < Budget /\ ~cancelled /\ ~setup.live
    BY <1>2, <1>3, <1>6 DEF TurnHead, SpeaksAlone
  <1> QED
    BY <1>2, <1>4, <1>5, <1>6

LEMMA TypesStart ==
  ASSUME Init
  PROVE  DeliberationTypeOK
  <1>1. setup \in [plan : Plans, live : BOOLEAN, tools : BOOLEAN, rankings : 0..MaxRankings]
    BY DEF Init
  <1>2. setup.plan \in Seq(Workflows)
    BY <1>1, DeliberationAssumption
  <1>3. Table \in Seq(Persona) /\ Len(Table) \in Nat
    BY <1>2, PanelCallType DEF Table
  <1>4. speaker \in [index : 0..Len(Table), by : Choosers]
    BY <1>3 DEF Init, Nobody, Choosers
  <1>5. ask \in [purpose : Purposes, attempt : 0..Backoffs]
    BY DeliberationAssumption DEF Init, NoAsk, Purposes
  <1>6. late \in [calls : Nat, turns : Nat] /\ pc \in Stations
    BY DEF Init, Stations
  <1>7. log \in Seq(Written) /\ gathered \in Seq(Facts) /\ transcript \in Seq(Taken)
    BY DEF Init
  <1> QED
    BY <1>1, <1>4, <1>5, <1>6, <1>7 DEF Init, DeliberationTypeOK

(* Where it goes, and what for. *)
LEMMA AskType ==
  ASSUME ask \in [purpose : Purposes, attempt : 0..Backoffs], pc \in Stations
  PROVE  /\ \A place \in Stations : Goes(place) =>
              pc' \in Stations /\ ask' \in [purpose : Purposes, attempt : 0..Backoffs]
         /\ \A purpose \in Purposes : Asks(purpose) =>
              pc' \in Stations /\ ask' \in [purpose : Purposes, attempt : 0..Backoffs]
  BY DeliberationAssumption DEF Goes, Asks, NoAsk, Stations, Purposes

(* The seat of the next turn. *)
LEMMA RotatedType ==
  ASSUME DeliberationTypeOK, Convened
  PROVE  /\ Rotated \in 1..Len(Table)
         /\ Rotated = NextSeat(speaker.index)
  <1>1. /\ Len(Table) \in Nat /\ Len(Table) >= 2
        /\ speaker.index \in 0..Len(Table)
    BY TableType DEF Convened, DeliberationTypeOK
  <1>2. CASE speaker.index = Len(Table)
    <2>1. speaker.index % Len(Table) = 0
      BY <1>1, <1>2
    <2> QED
      BY <1>1, <1>2, <2>1 DEF Rotated, NextSeat
  <1>3. CASE speaker.index < Len(Table)
    <2>1. speaker.index % Len(Table) = speaker.index
      BY <1>1, <1>3
    <2>2. Rotated = speaker.index + 1
      BY <2>1 DEF Rotated
    <2>3. NextSeat(speaker.index) = speaker.index + 1
      BY <1>1, <1>3 DEF NextSeat
    <2>4. speaker.index + 1 \in 1..Len(Table)
      BY <1>1, <1>3
    <2> QED
      BY <2>2, <2>3, <2>4
  <1> QED
    BY <1>1, <1>2, <1>3

LEMMA TurnType ==
  ASSUME DeliberationTypeOK, Convened, NEW index \in 1..Len(Table), NEW by \in Choosers,
         Turn(index, by)
  PROVE  /\ speaker' \in [index : 0..Len(Table), by : Choosers]
         /\ pc' \in Stations /\ ask' \in [purpose : Purposes, attempt : 0..Backoffs]
         /\ i' = 0 /\ gathered' = <<>>
         /\ UNCHANGED <<recoveries, failedCalls, call>>
  <1>1. ask \in [purpose : Purposes, attempt : 0..Backoffs] /\ pc \in Stations
    BY DEF DeliberationTypeOK
  <1>2. "turnLoop" \in Stations /\ "speak" \in Purposes
    BY DEF Stations, Purposes
  <1>3. pc' \in Stations /\ ask' \in [purpose : Purposes, attempt : 0..Backoffs]
    BY <1>1, <1>2, AskType DEF Turn
  <1>4. index \in 0..Len(Table)
    BY TableType
  <1> QED
    BY <1>3, <1>4 DEF Turn

(* A statement of the seat at index. *)
LEMMA SaysType ==
  ASSUME DeliberationTypeOK, NEW index \in 1..Len(Table), NEW by \in Choosers, Says(index, by)
  PROVE  /\ transcript' \in Seq(Taken) /\ Turns \in Nat /\ Turns' = Turns + 1
         /\ \A t \in 1..Turns : transcript'[t] = transcript[t]
         /\ transcript'[Turns + 1] = [speaker |-> Table[index], by |-> by]
         /\ [stage |-> "conversation", speaker |-> Table[index], by |-> by] \in Written
         /\ gathered' = <<>> /\ gathered' \in Seq(Facts)
         /\ late' \in [calls : Nat, turns : Nat]
  <1>1. Table[index] \in Persona
    BY TableType
  <1>2. [speaker |-> Table[index], by |-> by] \in Taken
    BY <1>1 DEF Taken
  <1>3. transcript \in Seq(Taken) /\ Turns \in Nat
    BY DEF DeliberationTypeOK, Turns
  <1>4. [stage |-> "conversation", speaker |-> Table[index], by |-> by] \in Written
    BY <1>1 DEF Written, Statements
  <1>5. late' \in [calls : Nat, turns : Nat]
    <2>1. late \in [calls : Nat, turns : Nat]
      BY DEF DeliberationTypeOK
    <2>2. late' = late \/ late' = [late EXCEPT !.turns = @ + 1]
      BY DEF Says
    <2> QED
      BY <2>1, <2>2
  <1>6. transcript' = Append(transcript, [speaker |-> Table[index], by |-> by])
    BY DEF Says
  <1>7. /\ transcript' \in Seq(Taken) /\ Len(transcript') = Turns + 1
        /\ \A t \in 1..Turns : transcript'[t] = transcript[t]
        /\ transcript'[Turns + 1] = [speaker |-> Table[index], by |-> by]
    BY <1>2, <1>3, <1>6, AppendAt DEF Turns
  <1> QED
    BY <1>3, <1>4, <1>5, <1>7 DEF Says, Turns

(* A record of the call at hand, and the fact the model is told. *)
LEMMA InvokesType ==
  ASSUME DeliberationTypeOK, Stationed, NEW out \in Outcomes, NEW cleared \in BOOLEAN,
         Invokes(out, cleared)
  PROVE  /\ call \in Call /\ ToolRecord(call, out, cleared) \in Written
         /\ ToolRecord(call, out, cleared).stage = "tool"
         /\ gathered' \in Seq(Facts) /\ Len(gathered) \in Nat
         /\ Len(gathered') = Len(gathered) + 1
         /\ \A k \in 1..Len(gathered) : gathered'[k] = gathered[k]
         /\ gathered'[Len(gathered) + 1] = [call |-> call, out |-> out]
         /\ failedCalls' \subseteq Call
         /\ late' \in [calls : Nat, turns : Nat]
  <1>1. call \in Call
    BY DEF Stationed, Invokes
  <1>2. ToolRecord(call, out, cleared) \in ToolRecords
    BY <1>1 DEF ToolRecord, ToolRecords
  <1>3. [call |-> call, out |-> out] \in Facts
    BY <1>1 DEF Facts
  <1>4. gathered \in Seq(Facts) /\ Len(gathered) \in Nat
    BY DEF DeliberationTypeOK
  <1>5. gathered' = Append(gathered, [call |-> call, out |-> out])
    BY DEF Invokes, Results
  <1>6. failedCalls' \subseteq Call
    BY <1>1 DEF Invokes, Results, Failed, DeliberationTypeOK
  <1>7. late' \in [calls : Nat, turns : Nat]
    <2>1. late \in [calls : Nat, turns : Nat]
      BY DEF DeliberationTypeOK
    <2>2. late' = late \/ late' = [late EXCEPT !.calls = @ + 1]
      BY DEF Invokes
    <2> QED
      BY <2>1, <2>2
  <1>8. /\ gathered' \in Seq(Facts) /\ Len(gathered') = Len(gathered) + 1
        /\ \A k \in 1..Len(gathered) : gathered'[k] = gathered[k]
        /\ gathered'[Len(gathered) + 1] = [call |-> call, out |-> out]
    BY <1>3, <1>4, <1>5, AppendAt
  <1> QED
    BY <1>1, <1>2, <1>4, <1>6, <1>7, <1>8 DEF Written, ToolRecords

LEMMA TypesStep ==
  ASSUME DeliberationIInv, [Next]_deliberationVars
  PROVE  DeliberationTypeOK'
  <1> DEFINE AskOK == ask \in [purpose : Purposes, attempt : 0..Backoffs] /\ pc \in Stations
  <1>1. DeliberationTypeOK /\ Stationed /\ AskOK
    BY DEF DeliberationIInv, DeliberationTypeOK
  <1>2. setup' = setup /\ Table' = Table
    BY SetupStays, BoundsStay
  <1>3. {"start", "ranking", "loop", "turn", "turnLoop", "invoke", "done", "failed"} \subseteq Stations
    BY DEF Stations
  <1>4. {"rank", "action", "reason", "speaker", "speak", "speakOrUse", "synthesize"} \subseteq Purposes
    BY DEF Purposes
  <1>5. ASSUME Concludes
        PROVE  log' \in Seq(Written) /\ AskOK'
    BY <1>1, <1>3, <1>5, AskType, ConclusionWritten, LogGrows DEF Concludes
  <1>6. CASE \/ Rank \/ Ranked \/ LoopHead \/ Recovers \/ TurnLoopHead \/ Declines
             \/ \E c \in Call : UsesTool(c)
             \/ \E c \in Call : Calls(c)
    <2>1. AskOK'
      <3>1. CASE Rank \/ Ranked
        BY <1>1, <1>3, <1>4, <3>1, AskType DEF Rank, Ranked
      <3>2. CASE LoopHead
        BY <1>1, <1>3, <1>4, <3>2, AskType DEF LoopHead, Fails
      <3>3. CASE TurnLoopHead
        BY <1>1, <1>3, <1>4, <3>3, AskType DEF TurnLoopHead, Fails
      <3>4. CASE Recovers \/ Declines
        BY <1>1, <1>3, <1>4, <3>4, AskType DEF Recovers, Declines
      <3>5. CASE (\E c \in Call : UsesTool(c)) \/ \E c \in Call : Calls(c)
        BY <1>1, <1>3, <3>5, AskType DEF UsesTool, Calls
      <3> QED
        BY <1>6, <3>1, <3>2, <3>3, <3>4, <3>5
    <2>2. /\ i' \in Nat /\ recoveries' \in Nat /\ asked' \in Nat
          /\ UNCHANGED <<failedCalls, gathered, speaker, transcript, log, cancelled, faults, late>>
      <3>1. i \in Nat /\ recoveries \in Nat /\ asked \in Nat
        BY <1>1 DEF DeliberationTypeOK
      <3>2. CASE Rank
        <4>1. i' \in Nat
          BY <3>1, <3>2 DEF Rank
        <4> QED
          BY <3>1, <3>2, <4>1 DEF Rank, Unspoken
      <3>7. CASE LoopHead \/ TurnLoopHead
        BY <3>1, <3>7 DEF LoopHead, TurnLoopHead, Unspoken, loopVars
      <3>3. CASE Ranked \/ Declines
        BY <3>1, <3>3 DEF Ranked, Declines, Answered, loopVars
      <3>4. CASE Recovers
        BY <3>1, <3>4 DEF Recovers, Answered
      <3>5. CASE \E c \in Call : UsesTool(c)
        BY <3>1, <3>5 DEF UsesTool, Answered
      <3>6. CASE \E c \in Call : Calls(c)
        BY <3>1, <3>6 DEF Calls, Answered
      <3> QED
        BY <1>6, <3>2, <3>3, <3>4, <3>5, <3>6, <3>7
    <2> QED
      BY <1>1, <1>2, <2>1, <2>2 DEF DeliberationTypeOK
  <1>7. CASE Begin \/ Decides \/ Reasons \/ Synthesizes
    <2>1. AskOK' /\ log' \in Seq(Written)
      <3>1. CASE Concludes
        BY <1>5, <3>1
      <3>2. CASE ~Concludes
        BY <1>1, <1>3, <1>7, <3>2, AskType
           DEF Begin, Decides, Reasons, Synthesizes, Fails, DeliberationTypeOK
      <3> QED
        BY <3>1, <3>2
    <2>2. /\ UNCHANGED <<loopVars, speaker, transcript, cancelled, faults, late>>
          /\ asked' \in Nat
      BY <1>1, <1>7 DEF Begin, Decides, Reasons, Synthesizes, Answered, DeliberationTypeOK
    <2> QED
      BY <1>1, <1>2, <2>1, <2>2 DEF DeliberationTypeOK, loopVars
  <1>8. CASE InvokeTool
    <2>1. PICK out \in Outcomes, cleared \in BOOLEAN : Invokes(out, cleared)
      BY <1>8, InvokeOutcome
    <2>2. /\ ToolRecord(call, out, cleared) \in Written
          /\ gathered' \in Seq(Facts) /\ failedCalls' \subseteq Call
          /\ late' \in [calls : Nat, turns : Nat]
      BY <1>1, <2>1, InvokesType
    <2>3. log' \in Seq(Written)
      BY <1>1, <2>1, <2>2, LogGrows DEF Invokes
    <2>4. AskOK'
      BY <1>1, <1>3, <2>1, AskType DEF Invokes, Results
    <2>5. i' \in Nat /\ UNCHANGED <<recoveries, speaker, transcript, cancelled, faults, asked>>
      <3>1. UNCHANGED <<recoveries, speaker, transcript, cancelled, faults, asked>>
        BY <2>1 DEF Invokes, Results
      <3>2. i' = i + 1 \/ i' = i
        BY <2>1 DEF Invokes, Results
      <3>3. i' \in Nat
        BY <1>1, <3>2 DEF DeliberationTypeOK
      <3> QED
        BY <3>1, <3>3
    <2> QED
      BY <1>1, <1>2, <2>2, <2>3, <2>4, <2>5 DEF DeliberationTypeOK
  <1>9. CASE ConcludesEarly \/ NamesNobody \/ \E index \in 1..Len(Table) : Names(index)
    <2>1. Convened /\ asked' \in Nat /\ UNCHANGED <<transcript, log, cancelled, faults, late>>
      BY <1>1, <1>9
         DEF ConcludesEarly, NamesNobody, Names, Answered, Stationed, Asking, DeliberationTypeOK
    <2>2. CASE \E index \in 1..Len(Table), by \in Choosers : Turn(index, by)
      <3>1. /\ speaker' \in [index : 0..Len(Table), by : Choosers] /\ AskOK'
            /\ i' = 0 /\ gathered' = <<>> /\ UNCHANGED <<recoveries, failedCalls, call>>
        BY <1>1, <2>1, <2>2, TurnType
      <3> QED
        BY <1>1, <1>2, <2>1, <3>1 DEF DeliberationTypeOK
    <2>3. CASE Asks("synthesize") /\ UNCHANGED <<loopVars, speaker>>
      <3>1. AskOK'
        BY <1>1, <1>4, <2>3, AskType
      <3> QED
        BY <1>1, <1>2, <2>1, <2>3, <3>1 DEF DeliberationTypeOK, loopVars
    <2> QED
      BY <1>1, <1>9, <2>1, <2>2, <2>3, RotatedType
         DEF ConcludesEarly, NamesNobody, Names, Choosers
  <1>10. CASE TurnHead
    <2>1. /\ Convened /\ UNCHANGED <<i, recoveries, failedCalls, call, cancelled, faults, asked>>
      BY <1>1, <1>10 DEF TurnHead, Stationed
    <2>2. CASE UNCHANGED <<speaker, gathered, transcript, late>> /\ HeadGoesOn
      <3>1. AskOK' /\ log' \in Seq(Written)
        BY <1>1, <1>3, <1>4, <1>5, <2>2, AskType DEF HeadGoesOn, Fails, DeliberationTypeOK
      <3> QED
        BY <1>1, <1>2, <2>1, <2>2, <3>1 DEF DeliberationTypeOK
    <2>3. CASE SpeaksAlone
      <3>1. Rotated \in 1..Len(Table) /\ Rotated \in 0..Len(Table) /\ "rotation" \in Choosers
        BY <1>1, <2>1, RotatedType, TableType DEF Choosers
      <3>2. /\ transcript' \in Seq(Taken) /\ gathered' \in Seq(Facts)
            /\ late' \in [calls : Nat, turns : Nat]
            /\ [stage |-> "conversation", speaker |-> Table[Rotated], by |-> "rotation"] \in Written
        BY <1>1, <2>3, <3>1, SaysType DEF SpeaksAlone
      <3>3. log' \in Seq(Written)
        BY <1>1, <2>3, <3>2, LogGrows DEF SpeaksAlone, Says
      <3>4. AskOK' /\ speaker' \in [index : 0..Len(Table), by : Choosers]
        BY <1>1, <1>3, <2>3, <3>1, AskType DEF SpeaksAlone
      <3> QED
        BY <1>1, <1>2, <2>1, <3>2, <3>3, <3>4 DEF DeliberationTypeOK
    <2> QED
      BY <1>1, <1>10, <2>2, <2>3, HeadCases
  <1>11. CASE Speaks
    <2>1. Convened /\ Speaking /\ asked' \in Nat
          /\ UNCHANGED <<i, recoveries, failedCalls, call, speaker, cancelled, faults>>
      BY <1>1, <1>11
         DEF Speaks, Answered, Stationed, Asking, Speaking, DeliberationTypeOK
    <2>2. speaker.index \in 1..Len(Table) /\ speaker.by \in Choosers
      <3>1. speaker.index # 0
        BY <2>1 DEF DeliberationIInv, Seated, Placed
      <3> QED
        BY <1>1, <3>1, TableType DEF DeliberationTypeOK
    <2>3. /\ transcript' \in Seq(Taken) /\ gathered' \in Seq(Facts)
          /\ late' \in [calls : Nat, turns : Nat]
          /\ [stage |-> "conversation", speaker |-> Table[speaker.index], by |-> speaker.by] \in Written
      BY <1>1, <1>11, <2>2, SaysType DEF Speaks
    <2>4. log' \in Seq(Written)
      BY <1>1, <1>11, <2>3, LogGrows DEF Speaks, Says
    <2>5. AskOK'
      BY <1>1, <1>3, <1>11, AskType DEF Speaks
    <2> QED
      BY <1>1, <1>2, <2>1, <2>3, <2>4, <2>5 DEF DeliberationTypeOK
  <1>12. CASE PostFails \/ BackoffCancelled
    <2>1. /\ faults' \in Nat /\ asked' \in Nat
          /\ UNCHANGED <<loopVars, speaker, transcript, log, cancelled, late>>
      <3>1. /\ faults' = faults \/ faults' = faults + 1
            /\ asked' = asked \/ asked' = asked + 1
            /\ UNCHANGED <<loopVars, speaker, transcript, log, cancelled, late>>
        BY <1>12 DEF PostFails, BackoffCancelled, GivesUp
      <3>2. faults \in Nat /\ asked \in Nat
        BY <1>1 DEF DeliberationTypeOK
      <3> QED
        BY <3>1, <3>2
    <2>2. AskOK'
      <3>1. CASE GivesUp
        BY <1>1, <1>3, <3>1, AskType DEF GivesUp, Fails
      <3>2. CASE Retries /\ ask' = [ask EXCEPT !.attempt = @ + 1] /\ UNCHANGED pc
        BY <1>1, <3>2, DeliberationAssumption DEF Retries
      <3> QED
        BY <1>12, <3>1, <3>2 DEF PostFails, BackoffCancelled
    <2> QED
      BY <1>1, <1>2, <2>1, <2>2 DEF DeliberationTypeOK, loopVars
  <1>13. CASE Cancel \/ Over \/ UNCHANGED deliberationVars
    BY <1>1, <1>2, <1>13 DEF Cancel, Over, deliberationVars, loopVars, DeliberationTypeOK
  <1> QED
    BY <1>6, <1>7, <1>8, <1>9, <1>10, <1>11, <1>12, <1>13 DEF Next

------------------------------------------------------------------------------
(* Steps: the stations *)

(* An error ends the stage, or at a ranking is put up with. *)
LEMMA FailureSteps ==
  ASSUME DeliberationTypeOK, Stationed, PostFails \/ BackoffCancelled
  PROVE  /\ pc = "asking"
         /\ UNCHANGED <<setup, loopVars, speaker, transcript, log, cancelled, late>>
         /\ \/ /\ asked' = asked + 1
               /\ ask.purpose = "rank" => pc' = "ranking" /\ ask' = NoAsk
               /\ ask.purpose # "rank" => pc' = "failed" /\ ask' = NoAsk
            \/ asked' = asked /\ pc' = pc /\ ask'.purpose = ask.purpose
  <1>1. /\ pc = "asking"
        /\ UNCHANGED <<setup, loopVars, speaker, transcript, log, cancelled, late>>
    BY DEF PostFails, BackoffCancelled
  <1>2. CASE GivesUp
    BY <1>1, <1>2 DEF GivesUp, Goes, Fails
  <1>3. CASE Retries /\ ask' = [ask EXCEPT !.attempt = @ + 1] /\ UNCHANGED <<pc, asked>>
    BY <1>1, <1>3 DEF DeliberationTypeOK
  <1> QED
    BY <1>1, <1>2, <1>3 DEF PostFails, BackoffCancelled

LEMMA StationsStart == Init => Stationed
  BY DEF Init, Stationed, Asking, NoAsk

LEMMA StationsStep ==
  ASSUME DeliberationIInv, [Next]_deliberationVars
  PROVE  Stationed'
  <1>1. DeliberationTypeOK /\ Stationed /\ setup' = setup /\ Convened' = Convened
    BY SetupStays, BoundsStay DEF DeliberationIInv
  <1>2. CASE Begin
    BY <1>1, <1>2 DEF Begin, Stationed, Asking, Concludes, Goes, Fails, NoAsk
  <1>3. CASE Rank \/ Ranked
    BY <1>1, <1>3 DEF Rank, Ranked, Answered, Stationed, Asking, Goes, Asks, NoAsk
  <1>4. CASE LoopHead
    BY <1>1, <1>4 DEF LoopHead, Stationed, Asking, Goes, Asks, Fails, NoAsk
  <1>5. CASE Decides \/ Reasons \/ Synthesizes
    BY <1>1, <1>5 DEF Decides, Reasons, Synthesizes, Concludes, Stationed, Asking, Goes, NoAsk
  <1>6. CASE Recovers
    BY <1>1, <1>6 DEF Recovers, Answered, Stationed, Asking, Goes, Asks, NoAsk
  <1>7. ASSUME NEW c \in Call, Calls(c)
        PROVE  Stationed'
    BY <1>1, <1>7 DEF Calls, Answered, Stationed, Asking, Goes, NoAsk
  <1>8. CASE InvokeTool
    <2>1. PICK out \in Outcomes, cleared \in BOOLEAN : Invokes(out, cleared)
      BY <1>8, InvokeOutcome
    <2>2. pc = "invoke" /\ pc' = (IF Convened THEN "turnLoop" ELSE "loop") /\ ask' = NoAsk
      BY <2>1 DEF Invokes, Results, Goes
    <2> QED
      BY <1>1, <2>2 DEF Stationed, Asking, NoAsk
  <1>9. CASE TurnHead
    <2>1. pc = "turn" /\ (HeadGoesOn \/ SpeaksAlone)
      BY <1>1, <1>9, HeadCases DEF TurnHead
    <2> QED
      BY <1>1, <2>1
         DEF HeadGoesOn, SpeaksAlone, Concludes, Stationed, Asking, Goes, Asks, Fails, NoAsk
  <1>10. CASE ConcludesEarly \/ NamesNobody \/ \E index \in 1..Len(Table) : Names(index)
    <2>1. pc = "asking" /\ ask.purpose = "speaker"
      BY <1>10 DEF ConcludesEarly, NamesNobody, Names, Answered
    <2>2. \/ Asks("synthesize")
          \/ IF setup.tools THEN Goes("turnLoop") ELSE Asks("speak")
      BY <1>10 DEF ConcludesEarly, NamesNobody, Names, Turn
    <2> QED
      BY <1>1, <2>1, <2>2 DEF Stationed, Asking, Goes, Asks, NoAsk
  <1>11. CASE TurnLoopHead
    BY <1>1, <1>11 DEF TurnLoopHead, Stationed, Asking, Goes, Asks, Fails, NoAsk
  <1>12. ASSUME NEW c \in Call, UsesTool(c)
         PROVE  Stationed'
    BY <1>1, <1>12 DEF UsesTool, Answered, Stationed, Asking, Goes, NoAsk
  <1>13. CASE Declines \/ Speaks
    BY <1>1, <1>13 DEF Declines, Speaks, Answered, Stationed, Asking, Goes, Asks, NoAsk
  <1>14. CASE PostFails \/ BackoffCancelled
    <2>1. /\ pc = "asking"
          /\ \/ /\ ask.purpose = "rank" => pc' = "ranking" /\ ask' = NoAsk
                /\ ask.purpose # "rank" => pc' = "failed" /\ ask' = NoAsk
             \/ pc' = pc /\ ask'.purpose = ask.purpose
      BY <1>1, <1>14, FailureSteps
    <2> QED
      BY <1>1, <2>1 DEF Stationed, Asking, NoAsk
  <1>15. CASE Cancel \/ Over \/ UNCHANGED deliberationVars
    BY <1>1, <1>15 DEF Cancel, Over, deliberationVars, loopVars, Stationed, Asking
  <1> QED
    BY <1>2, <1>3, <1>4, <1>5, <1>6, <1>7, <1>8, <1>9, <1>10, <1>11, <1>12, <1>13, <1>14, <1>15
       DEF Next

------------------------------------------------------------------------------
(* Steps: what is spent *)

Numbers ==
  /\ i \in Nat /\ asked \in Nat /\ Invoked \in Nat /\ Turns \in Nat
  /\ Budget \in Nat /\ PerTurn \in Nat /\ PerTurn >= 2
  /\ setup.rankings \in Nat /\ LoopSteps \in Nat
  /\ MaxIterations \in Nat /\ TurnToolBudget \in Nat
  /\ setup.tools => PerTurn = TurnToolBudget + 2 /\ LoopSteps = MaxIterations
  /\ AskedBefore \in Nat /\ AskedAtMost \in Nat
  /\ InvokedBefore \in Nat /\ InvokedAtMost \in Nat
  /\ AskedBefore <= AskedAtMost /\ InvokedBefore <= InvokedAtMost
  /\ Turns < Budget => AskedBefore + PerTurn <= AskedAtMost
  /\ Turns < Budget => InvokedBefore + TurnToolBudget <= InvokedAtMost

LEMMA NumbersNow == DeliberationTypeOK /\ Work => Numbers
  <1> SUFFICES ASSUME DeliberationTypeOK, Work PROVE Numbers
    OBVIOUS
  <1>1. Turns \in Nat /\ i \in Nat /\ asked \in Nat /\ Turns <= Budget
    BY DEF DeliberationTypeOK, Turns, Work
  <1> QED
    BY <1>1, TableType, Costs, InvokedType DEF Numbers

(* The bounds of a step that takes no turn and writes no tool record. *)
SameBounds ==
  /\ setup' = setup /\ Convened' = Convened /\ Budget' = Budget
  /\ LoopSteps' = LoopSteps /\ PerTurn' = PerTurn
  /\ AskedAtMost' = AskedAtMost /\ InvokedAtMost' = InvokedAtMost

SameTurn ==
  /\ SameBounds
  /\ Turns' = Turns /\ AskedBefore' = AskedBefore /\ InvokedBefore' = InvokedBefore

LEMMA WorkStart == Init => Work
  <1> SUFFICES ASSUME Init PROVE Work
    OBVIOUS
  <1>1. DeliberationTypeOK
    BY TypesStart
  <1>2. ToolPlaces = {} /\ Turns = 0
    BY DEF Init, ToolPlaces, Turns
  <1>3. Invoked = 0
    BY <1>2, FS_EmptySet DEF Invoked
  <1>4. Turns <= Budget
    BY <1>1, <1>2, TableType
  <1>5. AskedBefore \in Nat /\ InvokedBefore \in Nat
    BY <1>1, <1>4, Costs
  <1> QED
    BY <1>2, <1>3, <1>4, <1>5
       DEF Init, Work, SingleWork, PanelWork, Asking, NoAsk

LEMMA SingleStep ==
  ASSUME DeliberationIInv, ~Convened, SameBounds,
         \/ Begin \/ Rank \/ Ranked \/ LoopHead \/ Decides \/ Recovers \/ Reasons
         \/ \E c \in Call : Calls(c)
  PROVE  Work'
  <1>1. /\ DeliberationTypeOK /\ Stationed /\ Numbers /\ SingleWork /\ Turns = 0
        /\ ~setup.live => asked = 0
    BY NumbersNow DEF DeliberationIInv, Work
  <1>2. transcript' = transcript /\ (~setup.live => asked' = asked)
    BY <1>1 DEF Begin, Rank, Ranked, LoopHead, Decides, Recovers, Reasons, Calls, Unspoken,
         Answered, Stationed
  <1>3. SameTurn
    BY <1>2, TurnStays DEF SameBounds, SameTurn
  <1>4. Invoked' = Invoked
    <2>1. CASE UNCHANGED log
      BY <2>1, LogStays
    <2>2. CASE Concludes
      BY <1>1, <2>2, ConclusionWritten, LogGrows DEF Concludes
    <2> QED
      BY <2>1, <2>2 DEF Begin, Rank, Ranked, LoopHead, Decides, Recovers, Reasons, Calls, Unspoken
  <1>5. SUFFICES SingleWork'
    BY <1>1, <1>2, <1>3 DEF Work, SameTurn, SameBounds, Numbers
  <1>6. CASE Begin
    BY <1>1, <1>3, <1>4, <1>6
       DEF Begin, Concludes, Goes, Fails, NoAsk, SingleWork, Asking, Numbers, SameTurn, SameBounds,
           loopVars
  <1>7. CASE Rank
    BY <1>1, <1>3, <1>4, <1>7
       DEF Rank, Goes, Asks, NoAsk, SingleWork, Asking, Numbers, SameTurn, SameBounds, Unspoken
  <1>8. CASE Ranked
    BY <1>1, <1>3, <1>4, <1>8
       DEF Ranked, Answered, Goes, NoAsk, SingleWork, Asking, Numbers, SameTurn, SameBounds,
           loopVars
  <1>9. CASE LoopHead
    BY <1>1, <1>3, <1>4, <1>9
       DEF LoopHead, Goes, Asks, Fails, NoAsk, SingleWork, Asking, Stationed, Numbers, SameTurn,
           SameBounds, Unspoken, loopVars
  <1>10. CASE Decides \/ Reasons
    BY <1>1, <1>3, <1>4, <1>10
       DEF Decides, Reasons, Answered, Concludes, Goes, NoAsk, SingleWork, Asking, Stationed,
           Numbers, SameTurn, SameBounds
  <1>11. CASE Recovers
    BY <1>1, <1>3, <1>4, <1>11
       DEF Recovers, Answered, Goes, Asks, NoAsk, SingleWork, Asking, Stationed, Numbers,
           SameTurn, SameBounds
  <1>12. ASSUME NEW c \in Call, Calls(c)
         PROVE  SingleWork'
    BY <1>1, <1>3, <1>4, <1>12
       DEF Calls, Answered, Goes, NoAsk, SingleWork, Asking, Stationed, Numbers, SameTurn,
           SameBounds
  <1> QED
    BY <1>6, <1>7, <1>8, <1>9, <1>10, <1>11, <1>12

LEMMA PanelStep ==
  ASSUME DeliberationIInv, Convened, SameBounds,
         \/ Begin \/ TurnHead \/ ConcludesEarly \/ NamesNobody
         \/ (\E index \in 1..Len(Table) : Names(index))
         \/ TurnLoopHead \/ (\E c \in Call : UsesTool(c)) \/ Declines \/ Synthesizes
  PROVE  Work'
  <1>1. /\ DeliberationTypeOK /\ Stationed /\ Numbers /\ PanelWork /\ Turns <= Budget
        /\ ~setup.live => asked = 0
    BY NumbersNow DEF DeliberationIInv, Work
  <1>2. CASE TurnHead
    <2>1. asked' = asked /\ pc = "turn"
      BY <1>2 DEF TurnHead
    <2>2. CASE UNCHANGED <<speaker, gathered, transcript, late>> /\ HeadGoesOn
      <3>1. SameTurn
        BY <2>2, TurnStays DEF SameBounds, SameTurn
      <3>2. Invoked' = Invoked
        BY <1>1, <2>2, LogStays, ConclusionWritten, LogGrows DEF HeadGoesOn, Concludes
      <3>3. PanelWork'
        BY <1>1, <2>1, <2>2, <3>1, <3>2
           DEF HeadGoesOn, Concludes, Goes, Asks, Fails, NoAsk, PanelWork, Asking, Numbers,
               SameTurn, SameBounds
      <3> QED
        BY <1>1, <2>1, <3>1, <3>3 DEF Work, SameTurn, SameBounds
    <2>3. CASE SpeaksAlone
      <3>1. Rotated \in 1..Len(Table) /\ "rotation" \in Choosers
        BY <1>1, RotatedType DEF Choosers
      <3>2. /\ Turns' = Turns + 1
            /\ [stage |-> "conversation", speaker |-> Table[Rotated], by |-> "rotation"] \in Written
        BY <1>1, <2>3, <3>1, SaysType DEF SpeaksAlone
      <3>3. Invoked' = Invoked
        BY <1>1, <2>3, <3>2, LogGrows DEF SpeaksAlone, Says
      <3>4. AskedBefore' = AskedBefore + PerTurn /\ InvokedBefore' = InvokedBefore + TurnToolBudget
        BY <1>1, <3>2, TurnTaken DEF SameBounds
      <3>5. pc' = "turn" /\ ask' = NoAsk /\ Turns < Budget /\ asked = 0
        BY <1>1, <2>3 DEF SpeaksAlone, Goes
      <3>6. Invoked <= InvokedBefore
        BY <1>1, <2>1 DEF PanelWork
      <3>7. Turns' <= Budget' /\ asked' <= AskedBefore' /\ Invoked' <= InvokedBefore'
        <4>1. Turns + 1 <= Budget /\ 0 <= AskedBefore + PerTurn
              /\ Invoked <= InvokedBefore + TurnToolBudget
          BY <1>1, <3>5, <3>6 DEF Numbers
        <4> QED
          BY <2>1, <3>2, <3>3, <3>4, <3>5, <4>1 DEF SameBounds
      <3> QED
        BY <1>1, <2>1, <3>5, <3>7 DEF Work, PanelWork, Asking, NoAsk, SameBounds
    <2> QED
      BY <1>1, <1>2, <2>2, <2>3, HeadCases
  <1>3. CASE ~TurnHead
    <2>1. transcript' = transcript /\ (~setup.live => asked' = asked)
      BY <1>1, <1>3 DEF Begin, ConcludesEarly, NamesNobody, Names, TurnLoopHead, UsesTool,
           Declines, Synthesizes, Answered, Stationed, Unspoken
    <2>2. SameTurn
      BY <2>1, TurnStays DEF SameBounds, SameTurn
    <2>3. Invoked' = Invoked
      <3>1. CASE UNCHANGED log
        BY <3>1, LogStays
      <3>2. CASE Concludes
        BY <1>1, <3>2, ConclusionWritten, LogGrows DEF Concludes
      <3> QED
        BY <1>3, <3>1, <3>2 DEF Begin, ConcludesEarly, NamesNobody, Names, TurnLoopHead,
             UsesTool, Declines, Synthesizes, Unspoken
    <2>4. SUFFICES PanelWork'
      BY <1>1, <2>1, <2>2 DEF Work, SameTurn, SameBounds
    <2>5. CASE Begin
      BY <1>1, <2>2, <2>3, <2>5
         DEF Begin, Goes, NoAsk, PanelWork, Asking, Numbers, SameTurn, SameBounds
    <2>6. CASE ConcludesEarly \/ NamesNobody \/ \E index \in 1..Len(Table) : Names(index)
      <3>1. pc = "asking" /\ Asking("speaker") /\ ~Asking("synthesize") /\ asked' = asked + 1
        BY <2>6 DEF ConcludesEarly, NamesNobody, Names, Answered, Asking
      <3>2. CASE Asks("synthesize")
        BY <1>1, <2>2, <2>3, <3>1, <3>2
           DEF Asks, PanelWork, Asking, Numbers, SameTurn, SameBounds
      <3>3. CASE i' = 0 /\ IF setup.tools THEN Goes("turnLoop") ELSE Asks("speak")
        BY <1>1, <2>2, <2>3, <3>1, <3>3
           DEF Asks, Goes, NoAsk, PanelWork, Asking, Numbers, SameTurn, SameBounds, PerTurn
      <3> QED
        BY <2>6, <3>2, <3>3 DEF ConcludesEarly, NamesNobody, Names, Turn
    <2>7. CASE TurnLoopHead
      BY <1>1, <2>2, <2>3, <2>7
         DEF TurnLoopHead, Goes, Asks, Fails, NoAsk, PanelWork, Asking, Stationed, Numbers,
             SameTurn, SameBounds, Unspoken, loopVars
    <2>8. ASSUME NEW c \in Call, UsesTool(c)
          PROVE  PanelWork'
      BY <1>1, <2>2, <2>3, <2>8
         DEF UsesTool, Answered, Goes, NoAsk, PanelWork, Asking, Numbers, SameTurn, SameBounds
    <2>9. CASE Declines
      BY <1>1, <2>2, <2>3, <2>9
         DEF Declines, Answered, Asks, PanelWork, Asking, Stationed, Numbers, SameTurn,
             SameBounds, loopVars
    <2>10. CASE Synthesizes
      BY <1>1, <2>2, <2>3, <2>10
         DEF Synthesizes, Answered, Concludes, Goes, NoAsk, PanelWork, Asking, Numbers,
             SameTurn, SameBounds
    <2> QED
      BY <1>3, <2>5, <2>6, <2>7, <2>8, <2>9, <2>10
  <1> QED
    BY <1>2, <1>3

LEMMA WorkStep ==
  ASSUME DeliberationIInv, [Next]_deliberationVars
  PROVE  Work'
  <1>1. /\ DeliberationTypeOK /\ Stationed /\ Work /\ Numbers
    BY NumbersNow DEF DeliberationIInv
  <1>2. SameBounds
    BY SetupStays, BoundsStay DEF SameBounds
  <1>3. CASE InvokeTool
    <2>1. PICK out \in Outcomes, cleared \in BOOLEAN : Invokes(out, cleared)
      BY <1>3, InvokeOutcome
    <2>2. /\ pc = "invoke" /\ i' = i + 1 /\ asked' = asked /\ ask' = NoAsk
          /\ pc' = IF Convened THEN "turnLoop" ELSE "loop"
          /\ transcript' = transcript
      BY <2>1 DEF Invokes, Results, Goes
    <2>3. ToolRecord(call, out, cleared) \in Written /\ ToolRecord(call, out, cleared).stage = "tool"
      BY <1>1, <2>1, InvokesType
    <2>4. Invoked' = Invoked + 1
      BY <1>1, <2>1, <2>3, LogGrows DEF Invokes
    <2>5. SameTurn
      BY <1>2, <2>2, TurnStays DEF SameBounds, SameTurn
    <2>6. CASE Convened
      <3>1. PanelWork
        BY <1>1, <2>6 DEF Work
      <3>2. PanelWork'
        BY <1>1, <2>2, <2>4, <2>5, <2>6, <3>1
           DEF PanelWork, Asking, NoAsk, Numbers, SameTurn, SameBounds
      <3> QED
        BY <1>1, <2>2, <2>5, <2>6, <3>2 DEF Work, SameTurn, SameBounds
    <2>7. CASE ~Convened
      <3>1. SingleWork
        BY <1>1, <2>7 DEF Work
      <3>2. SingleWork'
        BY <1>1, <2>2, <2>4, <2>5, <2>7, <3>1
           DEF SingleWork, Asking, NoAsk, Numbers, SameTurn, SameBounds
      <3> QED
        BY <1>1, <2>2, <2>5, <2>7, <3>2 DEF Work, SameTurn, SameBounds
    <2> QED
      BY <2>6, <2>7
  <1>4. CASE Speaks
    <2>1. /\ pc = "asking" /\ Convened /\ Speaking /\ (Asking("speak") \/ Asking("speakOrUse"))
          /\ asked' = asked + 1 /\ pc' = "turn" /\ ask' = NoAsk
          /\ Says(speaker.index, speaker.by) /\ setup.live
          /\ Asking("speakOrUse") => setup.tools
      BY <1>1, <1>4 DEF Speaks, Answered, Asking, Speaking, Stationed, Goes
    <2>2. PanelWork /\ Turns < Budget
      BY <1>1, <2>1 DEF Work, PanelWork, Asking
    <2>3. speaker.index \in 1..Len(Table) /\ speaker.by \in Choosers
      <3>1. speaker.index # 0
        BY <2>1 DEF DeliberationIInv, Seated, Placed
      <3> QED
        BY <1>1, <3>1, TableType DEF DeliberationTypeOK
    <2>4. /\ Turns' = Turns + 1
          /\ [stage |-> "conversation", speaker |-> Table[speaker.index], by |-> speaker.by] \in Written
      BY <1>1, <2>1, <2>3, SaysType
    <2>5. Invoked' = Invoked
      BY <1>1, <2>1, <2>4, LogGrows DEF Says
    <2>6. AskedBefore' = AskedBefore + PerTurn /\ InvokedBefore' = InvokedBefore + TurnToolBudget
      BY <1>1, <1>2, <2>4, TurnTaken DEF SameBounds
    <2>7. /\ asked + 1 <= AskedBefore + PerTurn /\ Invoked <= InvokedBefore + TurnToolBudget
          /\ Turns + 1 <= Budget
      BY <1>1, <2>1, <2>2 DEF PanelWork, Numbers
    <2>8. Turns' <= Budget' /\ asked' <= AskedBefore' /\ Invoked' <= InvokedBefore'
      BY <1>2, <2>1, <2>4, <2>5, <2>6, <2>7 DEF SameBounds
    <2> QED
      BY <1>2, <2>1, <2>8 DEF Work, PanelWork, Asking, NoAsk, SameBounds
  <1>5. CASE PostFails \/ BackoffCancelled
    <2>1. /\ pc = "asking" /\ setup.live
          /\ UNCHANGED <<loopVars, transcript, log>>
          /\ \/ /\ asked' = asked + 1
                /\ ask.purpose = "rank" => pc' = "ranking" /\ ask' = NoAsk
                /\ ask.purpose # "rank" => pc' = "failed" /\ ask' = NoAsk
             \/ asked' = asked /\ pc' = pc /\ ask'.purpose = ask.purpose
      BY <1>1, <1>5, FailureSteps DEF Stationed
    <2>2. SameTurn /\ Invoked' = Invoked /\ i' = i
      BY <1>2, <2>1, TurnStays, LogStays DEF SameBounds, SameTurn, loopVars
    <2>3. ask.purpose \in Purposes /\ ask.purpose # "none"
      BY <1>1, <2>1 DEF DeliberationTypeOK, Stationed
    <2>4. CASE Convened
      <3>1. PanelWork
        BY <1>1, <2>4 DEF Work
      <3>2. ask.purpose \notin {"rank", "action", "reason"}
        BY <1>1, <2>1, <2>4 DEF Stationed, Asking
      <3>3. PanelWork'
        BY <1>1, <2>1, <2>2, <2>3, <2>4, <3>1, <3>2
           DEF PanelWork, Asking, NoAsk, Numbers, SameTurn, SameBounds, Purposes, Stationed
      <3> QED
        BY <1>1, <2>1, <2>2, <2>4, <3>3 DEF Work, SameTurn, SameBounds
    <2>5. CASE ~Convened
      <3>1. SingleWork
        BY <1>1, <2>5 DEF Work
      <3>2. ask.purpose \in {"rank", "action", "reason"}
        BY <1>1, <2>1, <2>3, <2>5 DEF Stationed, Asking, Purposes
      <3>3. SingleWork'
        BY <1>1, <2>1, <2>2, <2>5, <3>1, <3>2
           DEF SingleWork, Asking, NoAsk, Numbers, SameTurn, SameBounds, Stationed
      <3> QED
        BY <1>1, <2>1, <2>2, <2>5, <3>3 DEF Work, SameTurn, SameBounds
    <2> QED
      BY <2>4, <2>5
  <1>6. CASE Cancel \/ Over \/ UNCHANGED deliberationVars
    <2>1. UNCHANGED <<pc, ask, i, asked, transcript, log>>
      BY <1>6 DEF Cancel, Over, deliberationVars, loopVars
    <2>2. SameTurn /\ Invoked' = Invoked
      BY <1>2, <2>1, TurnStays, LogStays DEF SameBounds, SameTurn
    <2> QED
      BY <1>1, <2>1, <2>2 DEF Work, SingleWork, PanelWork, Asking, SameTurn, SameBounds
  <1>7. ~Convened /\ Next =>
          \/ Begin \/ Rank \/ Ranked \/ LoopHead \/ Decides \/ Recovers \/ Reasons
          \/ (\E c \in Call : Calls(c))
          \/ InvokeTool \/ Speaks \/ PostFails \/ BackoffCancelled \/ Cancel \/ Over
    BY <1>1 DEF Next, TurnHead, ConcludesEarly, NamesNobody, Names, TurnLoopHead, UsesTool,
         Declines, Synthesizes, Answered, Stationed, Asking
  <1>8. Convened /\ Next =>
          \/ Begin \/ TurnHead \/ ConcludesEarly \/ NamesNobody
          \/ (\E index \in 1..Len(Table) : Names(index))
          \/ TurnLoopHead \/ (\E c \in Call : UsesTool(c)) \/ Declines \/ Synthesizes
          \/ InvokeTool \/ Speaks \/ PostFails \/ BackoffCancelled \/ Cancel \/ Over
    BY <1>1 DEF Next, Rank, Ranked, LoopHead, Decides, Recovers, Reasons, Calls, Answered,
         Stationed, Asking
  <1> QED
    BY <1>2, <1>3, <1>4, <1>5, <1>6, <1>7, <1>8, SingleStep, PanelStep

------------------------------------------------------------------------------
(* Steps: what is written and what is told *)

(* The statement of a turn: the speaker was placed, or rotation places him. *)
Takes(index, by) ==
  /\ Convened /\ Says(index, by) /\ pc' = "turn" /\ ask' = NoAsk
  /\ speaker'.index = index /\ cancelled' = cancelled
  /\ \/ pc = "turn" /\ ~cancelled /\ by = "rotation" /\ index = Rotated
     \/ /\ Asking("speak") \/ Asking("speakOrUse")
        /\ index = speaker.index /\ by = speaker.by

WritesNothing ==
  /\ UNCHANGED <<log, transcript, failedCalls, late, gathered>>
  /\ pc' = "done" <=> pc = "done"

WritesConclusion ==
  /\ Concludes /\ pc # "done"
  /\ UNCHANGED <<transcript, failedCalls, late, gathered>>

WritesTurn ==
  /\ \E index \in 1..Len(Table), by \in Choosers : Takes(index, by)
  /\ UNCHANGED failedCalls

Writes == WritesNothing \/ WritesConclusion \/ WritesTurn

LEMMA SpeakerPlaced ==
  ASSUME DeliberationIInv, Speaks
  PROVE  Convened /\ speaker.index \in 1..Len(Table) /\ speaker.by \in Choosers
  <1>1. DeliberationTypeOK /\ Stationed
    BY DEF DeliberationIInv
  <1>2. Convened /\ Speaking
    BY <1>1 DEF Speaks, Answered, Stationed, Asking, Speaking
  <1>3. speaker.index # 0
    BY <1>2 DEF DeliberationIInv, Seated, Placed
  <1> QED
    BY <1>1, <1>2, <1>3, TableType DEF DeliberationTypeOK

LEMMA OtherWrites ==
  ASSUME DeliberationIInv, [Next]_deliberationVars, ~InvokeTool
  PROVE  Writes /\ UNCHANGED setup
  <1>1. DeliberationTypeOK /\ Stationed /\ Untold /\ setup' = setup
    BY SetupStays DEF DeliberationIInv
  <1>2. CASE Begin
    <2>1. pc = "start" /\ UNCHANGED <<transcript, failedCalls, late, gathered>>
      BY <1>2 DEF Begin, loopVars
    <2>2. Concludes \/ (UNCHANGED log /\ pc' \in {"turn", "failed", "ranking"})
      BY <1>2 DEF Begin, Fails, Goes
    <2> QED
      BY <1>1, <2>1, <2>2 DEF Writes, WritesNothing, WritesConclusion
  <1>3. CASE Rank \/ Ranked
    BY <1>3 DEF Rank, Ranked, Answered, Goes, Asks, Unspoken, loopVars, Writes, WritesNothing
  <1>4. CASE LoopHead \/ TurnLoopHead
    BY <1>4 DEF LoopHead, TurnLoopHead, Goes, Asks, Fails, Unspoken, loopVars, Writes,
         WritesNothing
  <1>5. CASE Decides \/ Reasons \/ Synthesizes
    <2>1. /\ pc = "asking" /\ Concludes
          /\ UNCHANGED <<transcript, failedCalls, late, gathered>>
      BY <1>5 DEF Decides, Reasons, Synthesizes, Answered, loopVars
    <2> QED
      BY <1>1, <2>1 DEF Writes, WritesConclusion
  <1>6. CASE Recovers \/ Declines
    BY <1>6 DEF Recovers, Declines, Answered, Goes, Asks, loopVars, Writes, WritesNothing
  <1>7. CASE (\E c \in Call : Calls(c)) \/ \E c \in Call : UsesTool(c)
    BY <1>7 DEF Calls, UsesTool, Answered, Goes, Writes, WritesNothing
  <1>8. CASE TurnHead
    <2>1. /\ Convened /\ pc = "turn" /\ failedCalls' = failedCalls
          /\ cancelled' = cancelled
      BY <1>1, <1>8 DEF TurnHead, Stationed
    <2>2. CASE UNCHANGED <<speaker, gathered, transcript, late>> /\ HeadGoesOn
      BY <1>1, <2>1, <2>2
         DEF HeadGoesOn, Goes, Asks, Fails, Writes, WritesNothing, WritesConclusion
    <2>3. CASE SpeaksAlone
      <3>1. Rotated \in 1..Len(Table) /\ "rotation" \in Choosers
        BY <1>1, <2>1, RotatedType DEF Choosers
      <3>2. Takes(Rotated, "rotation")
        BY <2>1, <2>3 DEF SpeaksAlone, Goes, Takes
      <3> QED
        BY <1>1, <2>1, <3>1, <3>2 DEF Writes, WritesTurn
    <2> QED
      BY <1>1, <1>8, <2>2, <2>3, HeadCases
  <1>9. CASE ConcludesEarly \/ NamesNobody \/ \E index \in 1..Len(Table) : Names(index)
    <2>1. Asking("speaker") /\ Convened /\ gathered = <<>>
      BY <1>1, <1>9
         DEF ConcludesEarly, NamesNobody, Names, Answered, Stationed, Asking, Untold, Between
    <2>2. /\ UNCHANGED <<log, transcript, failedCalls, late>>
          /\ gathered' = gathered /\ pc' \in {"asking", "turnLoop"}
      BY <1>9, <2>1
         DEF ConcludesEarly, NamesNobody, Names, Turn, Goes, Asks, loopVars
    <2> QED
      BY <1>1, <2>1, <2>2 DEF Writes, WritesNothing, Asking
  <1>10. CASE Speaks
    <2>1. Convened /\ speaker.index \in 1..Len(Table) /\ speaker.by \in Choosers
      BY <1>10, SpeakerPlaced
    <2>2. Takes(speaker.index, speaker.by) /\ failedCalls' = failedCalls
      BY <1>10, <2>1 DEF Speaks, Answered, Asking, Goes, Takes
    <2> QED
      BY <1>1, <2>1, <2>2 DEF Writes, WritesTurn
  <1>11. CASE PostFails \/ BackoffCancelled
    BY <1>1, <1>11, FailureSteps DEF Writes, WritesNothing, loopVars
  <1>12. CASE Cancel \/ Over \/ UNCHANGED deliberationVars
    BY <1>12 DEF Cancel, Over, deliberationVars, loopVars, Writes, WritesNothing
  <1> QED
    BY <1>1, <1>2, <1>3, <1>4, <1>5, <1>6, <1>7, <1>8, <1>9, <1>10, <1>11, <1>12 DEF Next

(* Nothing but a tool record makes a place of one. *)
LEMMA ToolPlacesStay ==
  ASSUME DeliberationTypeOK, Writes
  PROVE  ToolPlaces' = ToolPlaces /\ \A k \in ToolPlaces : log'[k] = log[k]
  <1>1. ToolPlaces \subseteq 1..Len(log)
    BY InvokedType
  <1>2. CASE UNCHANGED log
    BY <1>2, LogStays
  <1>3. CASE Concludes
    BY <1>1, <1>3, ConclusionWritten, LogGrows DEF Concludes
  <1>4. ASSUME NEW index \in 1..Len(Table), NEW by \in Choosers, Says(index, by)
        PROVE  ToolPlaces' = ToolPlaces /\ \A k \in ToolPlaces : log'[k] = log[k]
    BY <1>1, <1>4, SaysType, LogGrows DEF Says
  <1> QED
    BY <1>2, <1>3, <1>4 DEF Writes, WritesNothing, WritesConclusion, WritesTurn, Takes

(* A call that was made is the last of the log and of what was told. *)
LEMMA InvokeWrites ==
  ASSUME DeliberationIInv, NEW out \in Outcomes, NEW cleared \in BOOLEAN, Invokes(out, cleared)
  PROVE  /\ pc = "invoke" /\ pc' # "done" /\ setup' = setup
         /\ call \in Call /\ (~Convened => call \notin failedCalls)
         /\ failedCalls' = Failed(call, out)
         /\ Len(log) \in Nat /\ Len(log') = Len(log) + 1
         /\ \A k \in 1..Len(log) : log'[k] = log[k]
         /\ log'[Len(log) + 1] = ToolRecord(call, out, cleared)
         /\ ToolPlaces' = ToolPlaces \cup {Len(log) + 1} /\ ToolPlaces \subseteq 1..Len(log)
         /\ Len(gathered) \in Nat /\ Len(gathered') = Len(gathered) + 1
         /\ \A k \in 1..Len(gathered) : gathered'[k] = gathered[k]
         /\ gathered'[Len(gathered) + 1] = [call |-> call, out |-> out]
  <1>1. DeliberationTypeOK /\ Stationed
    BY DEF DeliberationIInv
  <1>2. /\ pc = "invoke" /\ pc' # "done" /\ failedCalls' = Failed(call, out)
        /\ log' = Append(log, ToolRecord(call, out, cleared)) /\ setup' = setup
    BY DEF Invokes, Results, Goes
  <1>3. call \in Call /\ (~Convened => call \notin failedCalls)
    BY <1>1, <1>2 DEF Stationed
  <1>4. ToolPlaces \subseteq 1..Len(log)
    BY <1>1, InvokedType
  <1> QED
    BY <1>1, <1>2, <1>3, <1>4, InvokesType, LogGrows

LEMMA FailuresStep ==
  ASSUME DeliberationIInv, [Next]_deliberationVars
  PROVE  (Failures /\ FailedCallNotRepeated)'
  <1>1. DeliberationTypeOK /\ Failures /\ FailedCallNotRepeated
    BY DEF DeliberationIInv
  <1>2. Convened' = Convened
    BY SetupStays, BoundsStay
  <1>3. SUFFICES ASSUME ~Convened PROVE (Failures /\ FailedCallNotRepeated)'
    BY <1>2 DEF Failures, FailedCallNotRepeated
  <1>4. CASE InvokeTool
    <2>1. PICK out \in Outcomes, cleared \in BOOLEAN : Invokes(out, cleared)
      BY <1>4, InvokeOutcome
    <2> DEFINE new == Len(log) + 1
    <2>2. /\ call \notin failedCalls /\ failedCalls' = Failed(call, out)
          /\ Len(log) \in Nat
          /\ ToolPlaces' = ToolPlaces \cup {new} /\ ToolPlaces \subseteq 1..Len(log)
          /\ \A k \in 1..Len(log) : log'[k] = log[k]
          /\ log'[new] = ToolRecord(call, out, cleared)
      BY <1>3, <2>1, InvokeWrites
    <2>7. log'[new].call = call /\ log'[new].out = out
      BY <2>2 DEF ToolRecord
    <2>3. \A k \in ToolPlaces : k < new /\ log'[k] = log[k]
      BY <2>2
    <2> HIDE DEF new
    <2>4. ASSUME NEW a \in ToolPlaces, log[a].out \in {"FAILED", "BLOCKED"}
          PROVE  log[a].call \in failedCalls \/ \E k \in ToolPlaces : a < k /\ log[k].out = "result"
      BY <1>1, <1>3, <2>4 DEF Failures
    <2>5. ASSUME NEW a \in ToolPlaces', log'[a].out \in {"FAILED", "BLOCKED"}
          PROVE  \/ log'[a].call \in failedCalls'
                 \/ \E k \in ToolPlaces' : a < k /\ log'[k].out = "result"
      <3>1. CASE a = new
        BY <1>3, <2>2, <2>5, <2>7, <3>1 DEF Failed, toolResultFailed
      <3>2. CASE a \in ToolPlaces /\ out = "result"
        BY <2>2, <2>3, <2>7, <3>2
      <3>3. CASE a \in ToolPlaces /\ out # "result"
        <4>1. failedCalls \subseteq failedCalls'
          BY <1>3, <2>2, <3>3 DEF Failed, toolResultFailed, Outcomes
        <4> QED
          BY <2>2, <2>3, <2>4, <2>5, <3>3, <4>1
      <3> QED
        BY <2>2, <3>1, <3>2, <3>3
    <2>6. ASSUME NEW a \in ToolPlaces', NEW b \in ToolPlaces', a < b,
                 log'[a].call = log'[b].call, log'[a].out \in {"FAILED", "BLOCKED"}
          PROVE  \E k \in ToolPlaces' : a < k /\ k < b /\ log'[k].out = "result"
      <3>1. a # new /\ a \in ToolPlaces
        BY <2>2, <2>3, <2>6
      <3>2. CASE b = new
        <4>1. \E k \in ToolPlaces : a < k /\ log[k].out = "result"
          BY <2>2, <2>3, <2>4, <2>6, <2>7, <3>1, <3>2
        <4> QED
          BY <2>2, <2>3, <3>2, <4>1
      <3>3. CASE b \in ToolPlaces
        <4>1. \E k \in ToolPlaces : a < k /\ k < b /\ log[k].out = "result"
          BY <1>1, <1>3, <2>3, <2>6, <3>1, <3>3 DEF FailedCallNotRepeated
        <4> QED
          BY <2>2, <2>3, <4>1
      <3> QED
        BY <2>2, <3>2, <3>3
    <2> QED
      BY <2>5, <2>6 DEF Failures, FailedCallNotRepeated
  <1>5. CASE ~InvokeTool
    <2>1. /\ ToolPlaces' = ToolPlaces /\ \A k \in ToolPlaces : log'[k] = log[k]
          /\ failedCalls' = failedCalls
      BY <1>1, <1>5, OtherWrites, ToolPlacesStay
         DEF Writes, WritesNothing, WritesConclusion, WritesTurn
    <2> QED
      BY <1>1, <1>3, <2>1 DEF Failures, FailedCallNotRepeated
  <1> QED
    BY <1>4, <1>5

LEMMA FactsStep ==
  ASSUME DeliberationIInv, [Next]_deliberationVars
  PROVE  FactsOnTrail'
  <1> DEFINE told  == IF pc = "done" THEN Len(log) - 1 ELSE Len(log)
  <1> DEFINE spoke == told - Len(gathered)
  <1>1. DeliberationTypeOK /\ FactsOnTrail
    BY DEF DeliberationIInv
  <1>2. /\ Len(log) \in Nat /\ Len(gathered) \in Nat
        /\ \A k \in 1..Len(gathered) : gathered[k] \in Facts
    BY <1>1 DEF DeliberationTypeOK
  <1>3. /\ spoke >= 0
        /\ spoke > 0 => log[spoke].stage = "conversation"
        /\ \A k \in 1..Len(gathered) :
             /\ log[spoke + k].stage = "tool"
             /\ gathered[k] = [call |-> log[spoke + k].call, out |-> log[spoke + k].out]
        /\ \A k \in ToolPlaces : log[k].cleared <=> log[k].out # "BLOCKED"
    BY <1>1 DEF FactsOnTrail
  <1>4. CASE InvokeTool
    <2>1. PICK out \in Outcomes, cleared \in BOOLEAN : Invokes(out, cleared)
      BY <1>4, InvokeOutcome
    <2>2. /\ pc = "invoke" /\ pc' # "done"
          /\ Len(log') = Len(log) + 1 /\ Len(gathered') = Len(gathered) + 1
          /\ \A k \in 1..Len(log) : log'[k] = log[k]
          /\ log'[Len(log) + 1] = ToolRecord(call, out, cleared)
          /\ \A k \in 1..Len(gathered) : gathered'[k] = gathered[k]
          /\ gathered'[Len(gathered) + 1] = [call |-> call, out |-> out]
          /\ ToolPlaces' = ToolPlaces \cup {Len(log) + 1} /\ ToolPlaces \subseteq 1..Len(log)
      BY <2>1, InvokeWrites
    <2>3. cleared <=> out # "BLOCKED"
      BY <2>1 DEF Invokes
    <2> DEFINE new == Len(log) + 1
    <2>4. /\ log'[new].stage = "tool" /\ log'[new].call = call /\ log'[new].out = out
          /\ log'[new].cleared = cleared
      BY <2>2 DEF ToolRecord
    <2>5. /\ told = Len(log) /\ told' = Len(log) + 1
      BY <2>2
    <2>6. spoke' = spoke
      <3>1. spoke' = (Len(log) + 1) - (Len(gathered) + 1)
        BY <2>2, <2>5
      <3> QED
        BY <1>2, <2>5, <3>1
    <2>7. spoke \in Nat /\ spoke <= Len(log) /\ spoke + Len(gathered) = Len(log)
      BY <1>2, <1>3, <2>5
    <2> HIDE DEF told, spoke
    <2>8. spoke > 0 => log'[spoke].stage = "conversation"
      BY <1>3, <2>2, <2>7
    <2>9. ASSUME NEW k \in 1..Len(gathered')
          PROVE  /\ log'[spoke + k].stage = "tool"
                 /\ gathered'[k] = [call |-> log'[spoke + k].call, out |-> log'[spoke + k].out]
      <3>1. CASE k \in 1..Len(gathered)
        <4>1. spoke + k \in 1..Len(log)
          BY <1>2, <2>7, <3>1
        <4> QED
          BY <1>3, <2>2, <3>1, <4>1
      <3>2. CASE k = Len(gathered) + 1
        <4>1. spoke + k = new
          BY <1>2, <2>7, <3>2
        <4> QED
          BY <2>2, <2>4, <3>2, <4>1
      <3>3. k \in 1..(Len(gathered) + 1)
        BY <2>2
      <3> QED
        BY <1>2, <3>1, <3>2, <3>3
    <2>10. \A k \in ToolPlaces' : log'[k].cleared <=> log'[k].out # "BLOCKED"
      BY <1>3, <2>2, <2>3, <2>4
    <2>11. /\ spoke' >= 0
           /\ spoke' > 0 => log'[spoke'].stage = "conversation"
           /\ \A k \in 1..Len(gathered') :
                /\ log'[spoke' + k].stage = "tool"
                /\ gathered'[k] = [call |-> log'[spoke' + k].call, out |-> log'[spoke' + k].out]
      BY <1>3, <2>6, <2>8, <2>9
    <2> QED
      BY <2>10, <2>11 DEF FactsOnTrail, told, spoke
  <1>5. CASE ~InvokeTool
    <2>1. Writes /\ ToolPlaces' = ToolPlaces /\ \A k \in ToolPlaces : log'[k] = log[k]
      BY <1>1, <1>5, OtherWrites, ToolPlacesStay
    <2>2. \A k \in ToolPlaces' : log'[k].cleared <=> log'[k].out # "BLOCKED"
      BY <1>3, <2>1
    <2>3. CASE UNCHANGED <<log, gathered>> /\ (pc' = "done" <=> pc = "done")
      <3>1. told' = told /\ spoke' = spoke
        BY <2>3
      <3> HIDE DEF told, spoke
      <3> QED
        BY <1>3, <2>2, <2>3, <3>1 DEF FactsOnTrail, told, spoke
    <2>4. CASE Concludes /\ pc # "done" /\ UNCHANGED gathered
      <3>1. /\ Len(log') = Len(log) + 1 /\ pc' = "done"
            /\ \A k \in 1..Len(log) : log'[k] = log[k]
        BY <1>1, <2>4, ConclusionWritten, LogGrows DEF Concludes, Goes
      <3>2. told' = told /\ told = Len(log)
        BY <1>2, <2>4, <3>1
      <3>3. spoke' = spoke
        BY <2>4, <3>2
      <3>4. spoke \in Nat /\ spoke <= Len(log) /\ spoke + Len(gathered) = Len(log)
        BY <1>2, <1>3, <3>2
      <3> HIDE DEF told, spoke
      <3>5. \A k \in 1..Len(gathered) : log'[spoke + k] = log[spoke + k]
        BY <1>2, <3>1, <3>4
      <3>6. spoke > 0 => log'[spoke] = log[spoke]
        BY <1>2, <3>1, <3>4
      <3> QED
        BY <1>3, <2>2, <2>4, <3>3, <3>5, <3>6 DEF FactsOnTrail, told, spoke
    <2>5. ASSUME NEW index \in 1..Len(Table), NEW by \in Choosers, Takes(index, by)
          PROVE  FactsOnTrail'
      <3>1. /\ gathered' = <<>> /\ pc' = "turn"
            /\ log' = Append(log, [stage |-> "conversation", speaker |-> Table[index], by |-> by])
            /\ [stage |-> "conversation", speaker |-> Table[index], by |-> by] \in Written
        BY <1>1, <2>5, SaysType DEF Takes, Says
      <3>2. Len(log') = Len(log) + 1 /\ log'[Len(log) + 1].stage = "conversation"
        BY <1>1, <3>1, LogGrows
      <3>3. Len(gathered') = 0 /\ told' = Len(log')
        BY <3>1
      <3>4. spoke' = Len(log) + 1
        <4>1. spoke' = (Len(log) + 1) - 0
          BY <3>2, <3>3
        <4> QED
          BY <1>2, <4>1
      <3> HIDE DEF told, spoke
      <3>5. spoke' >= 0 /\ log'[spoke'].stage = "conversation" /\ 1..Len(gathered') = {}
        BY <1>2, <3>2, <3>3, <3>4
      <3> QED
        BY <2>2, <3>5 DEF FactsOnTrail, told, spoke
    <2> QED
      BY <2>1, <2>3, <2>4, <2>5 DEF Writes, WritesNothing, WritesConclusion, WritesTurn
  <1> QED
    BY <1>4, <1>5

------------------------------------------------------------------------------
(* Steps: nothing is told between turns, little is begun too late, and the  *)
(* table                                                                    *)

(* Where a step leads that is no call of a tool and no statement: from a     *)
(* station of a turn to one of the same turn, or to the end.               *)
LEMMA Leads ==
  ASSUME DeliberationIInv, [Next]_deliberationVars, ~InvokeTool, ~WritesTurn
  PROVE  /\ Convened /\ Between' => Between /\ speaker' = speaker
         /\ Convened /\ Asking("synthesize")' =>
              (Between /\ (Turns >= Budget \/ everyoneSpoke)) \/ Asking("synthesize")
         /\ Convened /\ pc' = "done" =>
              \/ pc = "done" \/ Asking("synthesize") \/ (pc = "turn" /\ Turns >= Budget)
         /\ Convened /\ Speaking' =>
              \/ Speaking /\ speaker' = speaker
              \/ /\ Asking("speaker")
                 /\ \E index \in 1..Len(Table), by \in Choosers :
                      /\ speaker' = [index |-> index, by |-> by]
                      /\ by = "rotation" => index = Rotated
         /\ cancelled => cancelled' /\ (Ending => Ending') /\ (Winding => Winding')
  <1>1. DeliberationTypeOK /\ Stationed /\ (pc = "asking" => ask.purpose \in Purposes)
    BY DEF DeliberationIInv, DeliberationTypeOK
  <1> USE DEF Between, Winding, Ending, Speaking, Asking
  <1>2. CASE Begin
    BY <1>1, <1>2 DEF Begin, Concludes, Goes, Fails, NoAsk
  <1>3. CASE Rank \/ Ranked
    BY <1>1, <1>3 DEF Rank, Ranked, Answered, Goes, Asks, NoAsk, Unspoken, Stationed
  <1>4. CASE LoopHead
    BY <1>1, <1>4 DEF LoopHead, Goes, Asks, Fails, NoAsk, Unspoken, Stationed
  <1>5. CASE Decides \/ Reasons
    BY <1>1, <1>5 DEF Decides, Reasons, Answered, Concludes, Goes, NoAsk, Stationed
  <1>6. CASE Recovers
    BY <1>1, <1>6 DEF Recovers, Answered, Goes, Asks, NoAsk, Stationed
  <1>7. CASE (\E c \in Call : Calls(c)) \/ \E c \in Call : UsesTool(c)
    BY <1>1, <1>7 DEF Calls, UsesTool, Answered, Goes, NoAsk, Stationed
  <1>8. CASE TurnHead
    <2>1. pc = "turn" /\ Convened /\ cancelled' = cancelled
      BY <1>1, <1>8 DEF TurnHead, Stationed
    <2>2. ~SpeaksAlone
      <3>1. Rotated \in 1..Len(Table) /\ "rotation" \in Choosers
        BY <1>1, <2>1, RotatedType DEF Choosers
      <3>2. UNCHANGED failedCalls
        BY <1>8 DEF TurnHead
      <3>3. SpeaksAlone => Takes(Rotated, "rotation")
        BY <2>1 DEF SpeaksAlone, Goes, Takes
      <3> QED
        BY <3>1, <3>2, <3>3 DEF WritesTurn
    <2>3. UNCHANGED <<speaker, gathered, transcript, late>> /\ HeadGoesOn
      BY <1>1, <1>8, <2>2, HeadCases
    <2> QED
      BY <2>1, <2>3 DEF HeadGoesOn, Concludes, Goes, Asks, Fails, NoAsk
  <1>9. CASE ConcludesEarly \/ NamesNobody \/ \E index \in 1..Len(Table) : Names(index)
    <2>1. /\ pc = "asking" /\ ask.purpose = "speaker" /\ cancelled' = cancelled /\ Convened
      BY <1>1, <1>9 DEF ConcludesEarly, NamesNobody, Names, Answered, Stationed
    <2>2. \/ Asks("synthesize") /\ everyoneSpoke /\ UNCHANGED speaker
          \/ \E index \in 1..Len(Table), by \in Choosers :
               Turn(index, by) /\ (by = "rotation" => index = Rotated)
      BY <1>1, <1>9, <2>1, RotatedType DEF ConcludesEarly, NamesNobody, Names, Choosers
    <2> QED
      BY <2>1, <2>2 DEF Turn, Goes, Asks, NoAsk
  <1>10. CASE TurnLoopHead
    BY <1>1, <1>10 DEF TurnLoopHead, Goes, Asks, Fails, NoAsk, Unspoken, Stationed
  <1>11. CASE Declines \/ Synthesizes
    BY <1>1, <1>11
       DEF Declines, Synthesizes, Answered, Concludes, Goes, Asks, NoAsk, Stationed
  <1>12. CASE Speaks
    <2>1. Convened /\ speaker.index \in 1..Len(Table) /\ speaker.by \in Choosers
      BY <1>12, SpeakerPlaced
    <2>2. Takes(speaker.index, speaker.by) /\ failedCalls' = failedCalls
      BY <1>12, <2>1 DEF Speaks, Answered, Goes, Takes
    <2> QED
      BY <2>1, <2>2 DEF WritesTurn
  <1>13. CASE PostFails \/ BackoffCancelled
    <2>1. /\ pc = "asking" /\ UNCHANGED <<speaker, cancelled>>
          /\ \/ /\ ask.purpose = "rank" => pc' = "ranking" /\ ask' = NoAsk
                /\ ask.purpose # "rank" => pc' = "failed" /\ ask' = NoAsk
             \/ pc' = pc /\ ask'.purpose = ask.purpose
      BY <1>1, <1>13, FailureSteps
    <2> QED
      BY <1>1, <2>1 DEF NoAsk, Stationed
  <1>14. CASE Cancel \/ Over \/ UNCHANGED deliberationVars
    BY <1>1, <1>14 DEF Cancel, Over, deliberationVars, loopVars, DeliberationTypeOK
  <1> QED
    BY <1>2, <1>3, <1>4, <1>5, <1>6, <1>7, <1>8, <1>9, <1>10, <1>11, <1>12, <1>13, <1>14 DEF Next

LEMMA InvokeLeads ==
  ASSUME NEW out \in Outcomes, NEW cleared \in BOOLEAN, Invokes(out, cleared)
  PROVE  /\ pc = "invoke" /\ pc' \in {"loop", "turnLoop"}
         /\ UNCHANGED <<speaker, transcript, cancelled>>
         /\ late' = late \/ (cancelled /\ late' = [late EXCEPT !.calls = @ + 1])
  BY DEF Invokes, Results, Goes

LEMMA LateStep ==
  ASSUME DeliberationIInv, [Next]_deliberationVars
  PROVE  Late'
  <1>1. DeliberationTypeOK /\ Late /\ late \in [calls : Nat, turns : Nat]
    BY DEF DeliberationIInv, DeliberationTypeOK
  <1>2. CASE InvokeTool
    <2>1. PICK out \in Outcomes, cleared \in BOOLEAN : Invokes(out, cleared)
      BY <1>2, InvokeOutcome
    <2>2. /\ pc = "invoke" /\ pc' \in {"loop", "turnLoop"} /\ cancelled' = cancelled
          /\ late' = late \/ (cancelled /\ late' = [late EXCEPT !.calls = @ + 1])
      BY <2>1, InvokeLeads
    <2>3. late.calls = 0 /\ late.turns = 0
      BY <1>1, <2>2 DEF Late, Ending, Winding, Asking
    <2>4. late'.turns = 0 /\ late'.calls \in {0, 1} /\ (late'.calls = 1 => cancelled)
      BY <1>1, <2>2, <2>3
    <2> QED
      BY <2>2, <2>4 DEF Late, Winding
  <1>3. CASE WritesTurn
    <2>1. PICK index \in 1..Len(Table), by \in Choosers : Takes(index, by)
      BY <1>3 DEF WritesTurn
    <2>2. /\ pc' = "turn"
          /\ late' = IF cancelled THEN [late EXCEPT !.turns = @ + 1] ELSE late
          /\ \/ ~cancelled \/ Asking("speak") \/ Asking("speakOrUse")
      BY <2>1 DEF Takes, Says
    <2>3. cancelled => late.turns = 0
      BY <1>1, <2>2 DEF Late, Ending, Asking
    <2>4. cancelled' = cancelled
      BY <2>1 DEF Takes
    <2> QED
      BY <1>1, <2>2, <2>3, <2>4 DEF Late, Winding, Ending
  <1>4. CASE ~InvokeTool /\ ~WritesTurn
    <2>1. late' = late
      BY <1>4, OtherWrites DEF Writes, WritesNothing, WritesConclusion
    <2>2. cancelled => cancelled' /\ (Ending => Ending') /\ (Winding => Winding')
      BY <1>4, Leads
    <2> QED
      BY <1>1, <2>1, <2>2 DEF Late
  <1> QED
    BY <1>2, <1>3, <1>4

LEMMA UntoldStep ==
  ASSUME DeliberationIInv, [Next]_deliberationVars
  PROVE  Untold'
  <1>1. DeliberationTypeOK /\ Untold /\ Convened' = Convened
    BY SetupStays, BoundsStay DEF DeliberationIInv
  <1>2. SUFFICES ASSUME Convened, (Between \/ Asking("synthesize"))'
                 PROVE  gathered' = <<>>
    BY <1>1 DEF Untold
  <1>3. CASE InvokeTool
    <2>1. pc' \in {"loop", "turnLoop"}
      BY <1>3, InvokeOutcome, InvokeLeads
    <2> QED
      BY <1>2, <2>1 DEF Between, Asking
  <1>4. CASE WritesTurn
    BY <1>4 DEF WritesTurn, Takes, Says
  <1>5. CASE ~InvokeTool /\ ~WritesTurn
    <2>1. gathered' = gathered
      BY <1>5, OtherWrites DEF Writes, WritesNothing, WritesConclusion
    <2>2. Between \/ Asking("synthesize")
      BY <1>2, <1>5, Leads
    <2> QED
      BY <1>1, <1>2, <2>1, <2>2 DEF Untold
  <1> QED
    BY <1>3, <1>4, <1>5

LEMMA SeatedStep ==
  ASSUME DeliberationIInv, [Next]_deliberationVars
  PROVE  Seated'
  <1>1. /\ DeliberationTypeOK /\ Stationed /\ Seated
        /\ Convened' = Convened /\ Table' = Table
    BY SetupStays, BoundsStay DEF DeliberationIInv
  <1>2. SUFFICES ASSUME Convened PROVE \E seat : (Seating(seat) /\ Placed(seat))'
    BY <1>1 DEF Seated
  <1>3. PICK seat : Seating(seat) /\ Placed(seat)
    BY <1>1, <1>2 DEF Seated
  <1>4. Len(Table) \in Nat /\ Len(Table) >= 2 /\ Turns \in Nat
    BY <1>1, <1>2, TableType DEF Convened, DeliberationTypeOK, Turns
  <1>5. CASE InvokeTool
    <2>1. /\ pc = "invoke" /\ pc' \in {"loop", "turnLoop"}
          /\ speaker' = speaker /\ transcript' = transcript
      BY <1>5, InvokeOutcome, InvokeLeads
    <2>2. Seating(seat)'
      BY <1>1, <1>3, <2>1 DEF Seating, Turns, NextSeat
    <2>3. Placed(seat)'
      BY <1>1, <1>3, <2>1 DEF Placed, Between, Speaking, Asking, Turns, NextSeat
    <2> QED
      BY <2>2, <2>3
  <1>6. CASE WritesTurn
    <2>1. PICK index \in 1..Len(Table), by \in Choosers : Takes(index, by)
      BY <1>6 DEF WritesTurn
    <2>2. /\ Turns' = Turns + 1
          /\ \A t \in 1..Turns : transcript'[t] = transcript[t]
          /\ transcript'[Turns + 1] = [speaker |-> Table[index], by |-> by]
      BY <1>1, <2>1, SaysType DEF Takes
    <2>3. pc' = "turn" /\ speaker'.index = index
      BY <2>1 DEF Takes
    <2>4. by = "rotation" => index = NextSeat(seat[Turns])
      <3>1. CASE pc = "turn" /\ index = Rotated
        <4>1. speaker.index = seat[Turns]
          BY <1>3, <3>1 DEF Placed, Between
        <4> QED
          BY <1>1, <1>2, <3>1, <4>1, RotatedType DEF NextSeat
      <3>2. CASE /\ Asking("speak") \/ Asking("speakOrUse")
                 /\ index = speaker.index /\ by = speaker.by
        BY <1>3, <3>2 DEF Placed, Speaking
      <3> QED
        BY <2>1, <3>1, <3>2 DEF Takes
    <2>5. PICK next \in [0..(Turns + 1) -> 0..Len(Table)] :
            /\ next[Turns + 1] = index
            /\ \A t \in 0..Turns : next[t] = seat[t]
      <3>1. LET given == [t \in 0..(Turns + 1) |-> IF t = Turns + 1 THEN index ELSE seat[t]]
            IN  /\ given \in [0..(Turns + 1) -> 0..Len(Table)]
                /\ given[Turns + 1] = index
                /\ \A t \in 0..Turns : given[t] = seat[t]
        BY <1>3, <1>4 DEF Seating
      <3> QED
        BY <3>1
    <2>6. ASSUME NEW t \in 1..Turns'
          PROVE  /\ next[t] # 0
                 /\ transcript'[t].speaker = Table[next[t]]
                 /\ transcript'[t].by = "rotation" => next[t] = NextSeat(next[t - 1])
      <3>1. CASE t = Turns + 1
        <4>1. t - 1 = Turns /\ Turns \in 0..Turns
          BY <1>4, <3>1
        <4>2. transcript'[t].speaker = Table[index] /\ transcript'[t].by = by
          BY <2>2, <3>1
        <4> QED
          BY <1>4, <2>4, <2>5, <3>1, <4>1, <4>2
      <3>2. CASE t \in 1..Turns
        <4>1. t \in 0..Turns /\ t - 1 \in 0..Turns
          BY <1>4, <3>2
        <4> QED
          BY <1>3, <2>2, <2>5, <3>2, <4>1 DEF Seating
      <3>3. t \in 1..(Turns + 1)
        BY <2>2
      <3> QED
        BY <1>4, <3>1, <3>2, <3>3
    <2>7. Seating(next)'
      BY <1>1, <2>2, <2>5, <2>6 DEF Seating, NextSeat
    <2>8. Placed(next)'
      BY <2>2, <2>3, <2>5 DEF Placed, Between, Speaking, Asking
    <2> QED
      BY <2>7, <2>8
  <1>7. CASE ~InvokeTool /\ ~WritesTurn
    <2>1. transcript' = transcript
      BY <1>7, OtherWrites DEF Writes, WritesNothing, WritesConclusion
    <2>2. Seating(seat)'
      BY <1>1, <1>3, <2>1 DEF Seating, Turns, NextSeat
    <2>3. Between' => speaker'.index = seat[Turns]
      BY <1>2, <1>3, <1>7, Leads DEF Placed
    <2>4. ASSUME Speaking'
          PROVE  /\ speaker'.index # 0
                 /\ speaker'.by = "rotation" => speaker'.index = NextSeat(seat[Turns])
      <3>1. CASE Speaking /\ speaker' = speaker
        BY <1>3, <3>1 DEF Placed
      <3>2. CASE /\ Asking("speaker")
                 /\ \E index \in 1..Len(Table), by \in Choosers :
                      /\ speaker' = [index |-> index, by |-> by]
                      /\ by = "rotation" => index = Rotated
        <4>1. speaker.index = seat[Turns]
          BY <1>3, <3>2 DEF Placed, Between
        <4>2. Rotated = NextSeat(seat[Turns])
          BY <1>1, <1>2, <4>1, RotatedType DEF NextSeat
        <4> QED
          BY <1>4, <3>2, <4>2
      <3> QED
        BY <1>2, <1>7, <2>4, <3>1, <3>2, Leads
    <2>5. Turns' = Turns /\ \A index : NextSeat(index)' = NextSeat(index)
      BY <1>1, <2>1 DEF Turns, NextSeat
    <2>6. Placed(seat)'
      BY <1>1, <2>3, <2>4, <2>5 DEF Placed, NextSeat
    <2> QED
      BY <2>2, <2>6
  <1> QED
    BY <1>5, <1>6, <1>7

LEMMA HeardStep ==
  ASSUME DeliberationIInv, [Next]_deliberationVars
  PROVE  Heard'
  <1>1. /\ DeliberationTypeOK /\ Stationed /\ Heard /\ Turns <= Budget
        /\ Convened' = Convened /\ Table' = Table /\ Budget' = Budget
    BY SetupStays, BoundsStay DEF DeliberationIInv, Work
  <1>2. SUFFICES ASSUME Convened, Asking("synthesize")' \/ pc' = "done"
                 PROVE  Turns' = Budget \/ everyoneSpoke'
    BY <1>1 DEF Heard
  <1>3. CASE InvokeTool
    <2>1. pc' \in {"loop", "turnLoop"}
      BY <1>3, InvokeOutcome, InvokeLeads
    <2> QED
      BY <1>2, <2>1 DEF Asking
  <1>4. CASE WritesTurn
    BY <1>2, <1>4 DEF WritesTurn, Takes, Asking
  <1>5. CASE ~InvokeTool /\ ~WritesTurn
    <2>1. transcript' = transcript
      BY <1>5, OtherWrites DEF Writes, WritesNothing, WritesConclusion
    <2>2. Turns >= Budget => Turns = Budget
      <3>1. Turns \in Nat /\ Budget \in Nat
        BY <1>1, TableType DEF Turns, DeliberationTypeOK
      <3> QED
        BY <1>1, <3>1
    <2>3. Turns = Budget \/ everyoneSpoke
      BY <1>1, <1>2, <1>5, <2>2, Leads DEF Heard
    <2> QED
      BY <1>1, <2>1, <2>3 DEF Turns, everyoneSpoke, Spoken
  <1> QED
    BY <1>3, <1>4, <1>5

------------------------------------------------------------------------------
(* What the invariant says of the properties *)

LEMMA SpentWithin ==
  ASSUME DeliberationIInv
  PROVE  WorkBounded
  <1>1. /\ DeliberationTypeOK /\ Stationed /\ Work /\ Late /\ Numbers
        /\ pc \in Stations /\ ask \in [purpose : Purposes, attempt : 0..Backoffs]
    BY NumbersNow DEF DeliberationIInv, DeliberationTypeOK
  <1>2. ask.attempt <= Backoffs /\ late.calls <= 1 /\ late.turns <= 1
    BY <1>1, DeliberationAssumption DEF Late
  <1>3. CASE Convened
    <2>1. PanelWork
      BY <1>1, <1>3 DEF Work
    <2>2. asked <= AskedAtMost + 1 /\ Invoked <= InvokedAtMost
      <3>1. CASE pc \in {"start", "turn"} \/ Asking("speaker")
        BY <1>1, <2>1, <3>1 DEF PanelWork, Numbers
      <3>2. CASE pc \in {"turnLoop", "invoke"} \/ Asking("speakOrUse")
        <4>1. setup.tools /\ Turns < Budget
          BY <1>1, <2>1, <3>2 DEF PanelWork, Stationed, Asking
        <4>2. /\ asked <= AskedBefore + 2 + i /\ Invoked <= InvokedBefore + i
              /\ i <= TurnToolBudget
          BY <1>1, <2>1, <3>2 DEF PanelWork, Numbers
        <4> QED
          BY <1>1, <4>1, <4>2 DEF Numbers
      <3>3. CASE Asking("speak")
        <4>1. Turns < Budget
          BY <2>1, <3>3 DEF PanelWork, Asking
        <4> QED
          BY <1>1, <2>1, <3>3, <4>1 DEF PanelWork, Numbers
      <3>4. CASE Asking("synthesize") \/ pc \in {"done", "failed"}
        BY <1>1, <2>1, <3>4 DEF PanelWork, Numbers
      <3> QED
        BY <1>1, <1>3, <3>1, <3>2, <3>3, <3>4 DEF Stationed, Stations, Purposes, Asking
    <2>3. MostCalls = InvokedAtMost /\ (setup.live => MostAsked = AskedAtMost + 1)
      BY <1>3 DEF MostCalls, InvokedAtMost, MostAsked, AskedAtMost, PerTurn
    <2>4. ~setup.live => asked = 0 /\ MostAsked = 0
      BY <1>1 DEF Work, MostAsked
    <2>5. asked <= MostAsked
      BY <2>2, <2>3, <2>4
    <2> QED
      BY <1>1, <1>2, <2>2, <2>3, <2>5 DEF WorkBounded, Work, Invoked, Turns
  <1>4. CASE ~Convened
    <2>1. SingleWork
      BY <1>1, <1>4 DEF Work
    <2>2. asked <= setup.rankings + LoopSteps + 1 /\ Invoked <= MaxIterations
      <3>1. CASE pc \in {"start", "ranking"} \/ Asking("rank")
        BY <1>1, <2>1, <3>1 DEF SingleWork, Numbers
      <3>2. CASE pc \in {"loop", "invoke"} \/ Asking("action")
        <4>1. setup.tools
          BY <1>1, <3>2 DEF Stationed
        <4> QED
          BY <1>1, <2>1, <3>2, <4>1 DEF SingleWork, Numbers
      <3>3. CASE Asking("reason") \/ pc \in {"done", "failed"}
        BY <1>1, <2>1, <3>3 DEF SingleWork, Numbers
      <3> QED
        BY <1>1, <1>4, <3>1, <3>2, <3>3 DEF Stationed, Stations, Purposes, Asking
    <2>3. MostCalls = MaxIterations
      BY <1>4 DEF MostCalls
    <2>4. setup.live => MostAsked = setup.rankings + LoopSteps + 1
      BY <1>4 DEF MostAsked, LoopSteps
    <2>5. ~setup.live => asked = 0 /\ MostAsked = 0
      BY <1>1 DEF Work, MostAsked
    <2>6. asked <= MostAsked
      BY <2>2, <2>4, <2>5
    <2> QED
      BY <1>1, <1>2, <2>2, <2>3, <2>6 DEF WorkBounded, Work, Invoked, Turns
  <1> QED
    BY <1>3, <1>4

(* Rotation from a seat goes once around the table.                         *)
RotatesFrom(seat, t, n) ==
  \A k \in 1..n : seat[t + k] = IF seat[t + k - 1] = n THEN 1 ELSE seat[t + k - 1] + 1

VisitsAll(seat, t, n) == \A s \in 1..n : \E k \in 1..n : seat[t + k] = s

LEMMA GoesAround ==
  ASSUME NEW n \in Nat, n >= 2, NEW T \in Nat, NEW t \in Nat, t + n <= T,
         NEW seat \in [0..T -> 0..n],
         RotatesFrom(seat, t, n)
  PROVE  VisitsAll(seat, t, n)
  <1> DEFINE Round(k) == IF seat[t] + k <= n THEN seat[t] + k ELSE seat[t] + k - n
  <1> DEFINE S == {k \in Nat : k <= n => seat[t + k] = Round(k)}
  <1>1. seat[t] \in 0..n
    OBVIOUS
  <1>2. 0 \in S
    BY <1>1
  <1>3. ASSUME NEW k \in Nat, k \in S
        PROVE  k + 1 \in S
    <2> SUFFICES ASSUME k + 1 <= n PROVE seat[t + (k + 1)] = Round(k + 1)
      OBVIOUS
    <2>1. seat[t + k] = Round(k)
      BY <1>3
    <2>2. k + 1 \in 1..n /\ t + (k + 1) - 1 = t + k
      OBVIOUS
    <2>3. seat[t + (k + 1)] = IF Round(k) = n THEN 1 ELSE Round(k) + 1
      BY <2>1, <2>2 DEF RotatesFrom
    <2>4. CASE seat[t] + k < n
      <3>1. Round(k) = seat[t] + k /\ Round(k) # n
        BY <1>1, <2>4
      <3>2. Round(k + 1) = Round(k) + 1
        BY <1>1, <2>4
      <3> QED
        BY <2>3, <3>1, <3>2
    <2>5. CASE seat[t] + k = n
      BY <1>1, <2>3, <2>5
    <2>6. CASE seat[t] + k > n
      <3>1. Round(k) = seat[t] + k - n /\ Round(k) # n
        BY <1>1, <2>6
      <3>2. Round(k + 1) = Round(k) + 1
        BY <1>1, <2>6
      <3> QED
        BY <2>3, <3>1, <3>2
    <2> QED
      BY <1>1, <2>4, <2>5, <2>6
  <1> HIDE DEF S
  <1>4. \A k \in Nat : k \in S
    BY <1>2, <1>3, SetInduction
  <1>5. \A k \in 1..n : seat[t + k] = Round(k)
    BY <1>4 DEF S
  <1>6. ASSUME NEW s \in 1..n
        PROVE  \E k \in 1..n : Round(k) = s
    <2>1. CASE s > seat[t]
      <3>1. s - seat[t] \in 1..n /\ Round(s - seat[t]) = s
        BY <1>1, <2>1
      <3> QED
        BY <3>1
    <2>2. CASE s <= seat[t]
      <3>1. s - seat[t] + n \in 1..n /\ Round(s - seat[t] + n) = s
        BY <1>1, <2>2
      <3> QED
        BY <3>1
    <2> QED
      BY <1>1, <2>1, <2>2
  <1> HIDE DEF Round
  <1> QED
    BY <1>5, <1>6 DEF VisitsAll

LEMMA HearsTheTable ==
  ASSUME DeliberationIInv
  PROVE  TableIsHeard
  <1> SUFFICES ASSUME Convened PROVE TableIsHeard
    BY DEF TableIsHeard
  <1>1. DeliberationTypeOK /\ Seated /\ Heard
    BY DEF DeliberationIInv
  <1>2. /\ Table \in Seq(Persona) /\ Len(Table) \in Nat /\ Len(Table) >= 2
        /\ Turns \in Nat
    BY <1>1, TableType DEF Convened, DeliberationTypeOK, Turns
  <1>3. PICK seat : Seating(seat)
    BY <1>1 DEF Seated
  <1>4. /\ seat \in [0..Turns -> 0..Len(Table)]
        /\ \A k \in 1..Turns :
             /\ seat[k] \in 1..Len(Table)
             /\ transcript[k].speaker = Table[seat[k]]
             /\ transcript[k].by = "rotation" => seat[k] = NextSeat(seat[k - 1])
    BY <1>2, <1>3 DEF Seating
  <1>5. ToSet(Table) = {Table[s] : s \in 1..Len(Table)}
    BY <1>2 DEF ToSet
  <1>6. Spoken \subseteq ToSet(Table)
    BY <1>4, <1>5 DEF Spoken, Turns
  <1>7. pc = "done" => Len(transcript) = Budget \/ Spoken = ToSet(Table)
    BY <1>1, <1>6 DEF Heard, everyoneSpoke, Turns
  <1>8. ASSUME NEW t \in 0..(Turns - Len(Table)),
               \A k \in 1..Len(Table) : transcript[t + k].by = "rotation"
        PROVE  {transcript[t + k].speaker : k \in 1..Len(Table)} = ToSet(Table)
    <2> DEFINE n == Len(Table)
    <2>1. /\ t \in Nat /\ t + n <= Turns
          /\ n \in Nat /\ n >= 2 /\ Turns \in Nat
      BY <1>2
    <2>2. \A k \in 1..Len(Table) : t + k \in 1..Turns
      BY <1>2, <2>1
    <2>3. \A k \in 1..Len(Table) :
            /\ seat[t + k] \in 1..Len(Table)
            /\ transcript[t + k].speaker = Table[seat[t + k]]
            /\ seat[t + k] = NextSeat(seat[t + k - 1])
      BY <1>4, <1>8, <2>2
    <2>4. \A s \in 1..Len(Table) : \E k \in 1..Len(Table) : seat[t + k] = s
      <3>1. RotatesFrom(seat, t, n)
        BY <2>3 DEF NextSeat, RotatesFrom
      <3>2. seat \in [0..Turns -> 0..n]
        BY <1>4
      <3> HIDE DEF n
      <3>3. VisitsAll(seat, t, n)
        BY ONLY <2>1, <3>1, <3>2, GoesAround
      <3> QED
        BY <3>3 DEF VisitsAll, n
    <2>5. {transcript[t + k].speaker : k \in 1..Len(Table)} \subseteq ToSet(Table)
      BY <1>5, <2>3
    <2>6. ASSUME NEW s \in 1..Len(Table)
          PROVE  Table[s] \in {transcript[t + k].speaker : k \in 1..Len(Table)}
      <3>1. PICK k \in 1..Len(Table) : seat[t + k] = s
        BY <2>4, <2>6
      <3>2. transcript[t + k].speaker = Table[s]
        BY <2>3, <3>1
      <3> QED
        BY <3>2
    <2> QED
      BY <1>5, <2>5, <2>6
  <1> QED
    BY <1>7, <1>8 DEF TableIsHeard, Turns

------------------------------------------------------------------------------
(* Theorems *)

LEMMA DeliberationStart == Init => DeliberationIInv
  <1> SUFFICES ASSUME Init PROVE DeliberationIInv
    OBVIOUS
  <1>1. DeliberationTypeOK /\ Stationed /\ Work
    BY TypesStart, StationsStart, WorkStart
  <1>2. Late
    BY DEF Init, Late
  <1>3. ToolPlaces = {} /\ Len(log) = 0 /\ Len(gathered) = 0 /\ pc = "start" /\ Turns = 0
    BY DEF Init, ToolPlaces, Turns
  <1>4. Failures /\ FailedCallNotRepeated
    BY <1>3 DEF Failures, FailedCallNotRepeated
  <1>5. FactsOnTrail
    BY <1>3 DEF FactsOnTrail
  <1>6. Untold /\ Heard
    BY <1>3 DEF Init, NoAsk, Untold, Heard, Asking
  <1>7. Seated
    <2>1. Len(Table) \in Nat /\ speaker.index = 0
      BY <1>1, TableType DEF Init, Nobody
    <2>2. Seating([t \in 0..0 |-> 0]) /\ Placed([t \in 0..0 |-> 0])
      BY <1>3, <2>1 DEF Init, NoAsk, Seating, Placed, Speaking, Asking
    <2> QED
      BY <2>2 DEF Seated
  <1> QED
    BY <1>1, <1>2, <1>4, <1>5, <1>6, <1>7 DEF DeliberationIInv

(* The work of every station, the facts told and the seats taken are what    *)
(* the inductive invariant says, at every step of the tool loop            *)
(* (tool_reasoning.go:39-94), of a turn and of the panel (panel.go:83-250).*)
THEOREM DeliberationInvariance == DeliberationSpec => []DeliberationIInv
  <1>1. Init => DeliberationIInv
    BY DeliberationStart
  <1>2. DeliberationIInv /\ [Next]_deliberationVars => DeliberationIInv'
    <2> SUFFICES ASSUME DeliberationIInv, [Next]_deliberationVars PROVE DeliberationIInv'
      OBVIOUS
    <2>1. DeliberationTypeOK' /\ Stationed'
      BY TypesStep, StationsStep DEF DeliberationIInv
    <2>2. Work' /\ Late'
      BY WorkStep, LateStep
    <2>3. (Failures /\ FailedCallNotRepeated)' /\ FactsOnTrail'
      BY FailuresStep, FactsStep
    <2>4. Untold' /\ Seated' /\ Heard'
      BY UntoldStep, SeatedStep, HeardStep
    <2> QED
      BY <2>1, <2>2, <2>3, <2>4 DEF DeliberationIInv
  <1> QED
    BY <1>1, <1>2, PTL DEF DeliberationSpec

(* Every variable keeps its type: the log holds tool records, statements of  *)
(* personas at the table and a conclusion (panel.go, tool_binder.go:91-97). *)
THEOREM DeliberationTypeCorrect == DeliberationSpec => []DeliberationTypeOK
  BY DeliberationInvariance, PTL DEF DeliberationIInv

(* What a reason stage asks of the provider and of the tools is bounded      *)
(* before it begins, for every budget of iterations, of turns, of tools in *)
(* a turn and of retries (tool_reasoning.go:11-13, panel.go:37-39,         *)
(* llm_client.go:85), and after its context is done at most one handler    *)
(* and one statement still happen (stage.go:37-42).                        *)
THEOREM WorkIsBounded == DeliberationSpec => []WorkBounded
  <1>1. DeliberationIInv => WorkBounded
    BY SpentWithin
  <1> QED
    BY <1>1, DeliberationInvariance, PTL

(* A failed call is not run again unchanged before another succeeded         *)
(* (tool_reasoning.go:22-25, 79-93), however long the loop runs.           *)
THEOREM FailedCallsNotRepeated == DeliberationSpec => []FailedCallNotRepeated
  <1>1. DeliberationIInv => FailedCallNotRepeated
    BY DEF DeliberationIInv
  <1> QED
    BY <1>1, DeliberationInvariance, PTL

(* What the model was told is what the trail holds, record by record, and no *)
(* handler ran on a call that a policy had not cleared                     *)
(* (tool_binder.go:91-97, panel.go:218-222).                               *)
THEOREM ToldIsOnTheTrail == DeliberationSpec => []FactsOnTrail
  <1>1. DeliberationIInv => FactsOnTrail
    BY DEF DeliberationIInv
  <1> QED
    BY <1>1, DeliberationInvariance, PTL

(* A panel of any size that ends before its turns are spent has heard        *)
(* everyone, and so has any stretch of rotated turns as long as the table  *)
(* (panel.go:87, 95-101).                                                  *)
THEOREM TableHeard == DeliberationSpec => []TableIsHeard
  <1>1. DeliberationIInv => TableIsHeard
    BY HearsTheTable
  <1> QED
    BY <1>1, DeliberationInvariance, PTL
==============================================================================
