---------------------------- MODULE GovernanceProofs ---------------------------
(***************************************************************************)
(* Theorems about what governs a cycle beside the pipeline itself: the     *)
(* accounts it is charged to (module Spending) and the authority envelope  *)
(* its actor holds (module Authority).  The two parts share nothing but    *)
(* the lemmas they cite; first the accounts, then the envelopes.           *)
(*                                                                         *)
(* Of the accounts: that the usage record of a cycle covers it, that the   *)
(* budget tells what was spent, and that spawning stays within its limit,  *)
(* for every limit, set of thresholds and number of cycles and calls.      *)
(*                                                                         *)
(* Of the envelopes, for any number of agents, operators and gates: what a *)
(* gate answers while the registry changes under it, and what the backend  *)
(* has when transitions follow one another.                                *)
(***************************************************************************)
EXTENDS Spending, Authority, SequenceLemmas, FunctionTheorems, FiniteSetTheorems

------------------------------------------------------------------------------
(* The accounts: the inductive invariant *)

Phases == {"reserved", "running", "charging", "alerting", "ended"}
Alert  == [threshold : Nat, spent : Nat]
Cycle  == [of : {"desk", "subagent"}, phase : Phases, before : Nat,
           met : SUBSET Nat, usage : Seq(Nat), due : Seq(Alert)]

Types ==
  /\ setup \in Wirings
  /\ history \in Seq(Nat)
  /\ cycles \in Seq(Cycle)
  /\ spawned \in Seq(Nat)
  /\ denials \in SUBSET Nat
  /\ spent \in Nat
  /\ fired \in SUBSET Thresholds
  /\ alerts \in Seq(Alert)

(* Calls are made by cycles that have begun, and by no other; what was      *)
(* called since a cycle began and is not its own was called by a cycle it  *)
(* met, and two cycles that run have met.                                  *)
CalledSince(c) ==
  /\ cycles[c].before <= Len(history)
  /\ \A k \in 1..Len(history) : history[k] = c => k > cycles[c].before
  /\ \A k \in 1..Len(history) :
       k > cycles[c].before => history[k] = c \/ history[k] \in cycles[c].met

CallsMade ==
  /\ \A k \in 1..Len(history) : history[k] \in 1..Len(cycles)
  /\ \A c \in At("reserved") : \A k \in 1..Len(history) : history[k] # c
  /\ \A c \in At("running") : CalledSince(c)
  /\ \A c, d \in At("running") : c # d => d \in cycles[c].met

(* The alerts of each crossing are told at one place: delivered, or still   *)
(* with the cycle that is to deliver them.                                 *)
AlertsDue ==
  /\ \A c \in 1..Len(cycles) : cycles[c].phase # "alerting" => cycles[c].due = <<>>
  /\ \A c \in 1..Len(cycles) : cycles[c].phase = "alerting" => cycles[c].due # <<>>

ToldApart ==
  /\ \A i, j \in 1..Len(alerts) : alerts[i].threshold = alerts[j].threshold => i = j
  /\ \A c, d \in 1..Len(cycles) :
       \A i \in 1..Len(cycles[c].due), j \in 1..Len(cycles[d].due) :
         cycles[c].due[i].threshold = cycles[d].due[j].threshold => c = d /\ i = j
  /\ \A i \in 1..Len(alerts), c \in 1..Len(cycles) :
       \A j \in 1..Len(cycles[c].due) :
         alerts[i].threshold # cycles[c].due[j].threshold

Reached(a) == a.threshold \in fired /\ a.threshold <= a.spent /\ a.spent <= spent

ToldReached ==
  /\ fired = {t \in Thresholds : setup.capped /\ t <= spent}
  /\ \A i \in 1..Len(alerts) : Reached(alerts[i])
  /\ \A c \in 1..Len(cycles) : \A i \in 1..Len(cycles[c].due) : Reached(cycles[c].due[i])
  /\ \A t \in fired :
       \/ \E i \in 1..Len(alerts) : alerts[i].threshold = t
       \/ \E c \in 1..Len(cycles) : \E i \in 1..Len(cycles[c].due) :
            cycles[c].due[i].threshold = t

(* What was charged covers the calls of the cycles that were charged.       *)
Charged == {c \in At("alerting") \cup At("ended") : cycles[c].of = "desk"}
Called  == {k \in 1..Len(history) : history[k] \in Charged}
NoneMet == \A c \in 1..Len(cycles) : cycles[c].met = {}

Charges ==
  /\ \A c \in At("charging") : cycles[c].of = "desk"
  /\ \A c \in At("reserved") : cycles[c].met = {}
  /\ ~setup.priced => spent = 0
  /\ setup.priced => /\ spent >= Cardinality(Called)
                     /\ NoneMet => spent = Cardinality(Called)

SpendingIInv ==
  /\ Types /\ CallsMade /\ UsageCoversCycle /\ SpawnsWithinLimit
  /\ AlertsDue /\ ToldApart /\ ToldReached /\ Charges
------------------------------------------------------------------------------
(* What the actions do to the cycles *)

CyclesAs(f, n) ==
  /\ n \in Nat
  /\ f \in [1..n -> Cycle]

(* The cycles as a function, and back. *)
LEMMA CyclesFunction ==
  ASSUME Types
  PROVE  /\ CyclesAs(cycles, Len(cycles))
         /\ \A c \in 1..Len(cycles) : cycles[c] \in Cycle
  <1>1. cycles \in Seq(Cycle)
    BY DEF Types
  <1>2. Len(cycles) \in Nat /\ cycles \in [1..Len(cycles) -> Cycle]
    BY <1>1, LenProperties
  <1> QED
    BY <1>2 DEF CyclesAs

LEMMA FunctionIsSeq ==
  ASSUME NEW S, NEW n \in Nat, NEW f \in [1..n -> S]
  PROVE  f \in Seq(S) /\ Len(f) = n
  <1>1. f \in Seq(S)
    BY SeqDef
  <1>2. DOMAIN f = 1..n /\ Len(f) \in Nat /\ DOMAIN f = 1..Len(f)
    BY <1>1, LenProperties
  <1> QED
    BY <1>1, <1>2

(* One cycle changes, and no other. *)
CycleBecomes(c, r) ==
  /\ cycles' \in Seq(Cycle)
  /\ Len(cycles') = Len(cycles)
  /\ cycles'[c] = r
  /\ \A d \in 1..Len(cycles) : d # c => cycles'[d] = cycles[d]

LEMMA OneCycleBecomes ==
  ASSUME Types, NEW c \in 1..Len(cycles), NEW r \in Cycle,
         cycles' = [cycles EXCEPT ![c] = r]
  PROVE  CycleBecomes(c, r)
  <1>1. cycles \in Seq(Cycle)
    BY DEF Types
  <1>2. /\ cycles' \in Seq(Cycle)
        /\ Len(cycles') = Len(cycles)
        /\ \A j \in 1..Len(cycles) : cycles'[j] = IF j = c THEN r ELSE cycles[j]
    BY <1>1, ExceptSeq
  <1> QED
    BY <1>2 DEF CycleBecomes

(* A cycle is added, and no other changes. *)
Joins(r) ==
  /\ cycles' \in Seq(Cycle)
  /\ Len(cycles') = Len(cycles) + 1
  /\ cycles'[Len(cycles) + 1] = r
  /\ \A d \in 1..Len(cycles) : cycles'[d] = cycles[d]

Fresh(of) == [of |-> of, phase |-> "reserved", before |-> 0, met |-> {},
              usage |-> <<>>, due |-> <<>>]

LEMMA FreshIsCycle ==
  ASSUME NEW of \in {"desk", "subagent"}
  PROVE  Fresh(of) \in Cycle
  <1>1. <<>> \in Seq(Nat) /\ <<>> \in Seq(Alert)
    BY EmptySeq
  <1> QED
    BY <1>1 DEF Fresh, Cycle, Phases

LEMMA StartedAppends ==
  ASSUME Types, NEW of \in {"desk", "subagent"}
  PROVE  /\ Started(of) \in Seq(Cycle)
         /\ Len(Started(of)) = Len(cycles) + 1
         /\ Started(of)[Len(cycles) + 1] = Fresh(of)
         /\ \A d \in 1..Len(cycles) : Started(of)[d] = cycles[d]
  <1>1. cycles \in Seq(Cycle) /\ Fresh(of) \in Cycle
    BY FreshIsCycle DEF Types
  <1>2. Started(of) = Append(cycles, Fresh(of))
    BY DEF Started, Fresh
  <1> QED
    BY <1>1, <1>2, AppendProperties

(* A cycle begins: one that was reserved, or one that is new.               *)
CycleBegins(c) ==
  /\ cycles' \in Seq(Cycle)
  /\ c \in 1..Len(cycles')
  /\ Len(cycles) \in Nat /\ Len(cycles') \in Nat
  /\ 1..Len(cycles') = 1..Len(cycles) \cup {c}
  /\ c \in 1..Len(cycles) => cycles[c].phase = "reserved" /\ cycles'[c].of = cycles[c].of
  /\ cycles'[c].phase = "running"
  /\ cycles'[c].before = Len(history)
  /\ cycles'[c].met = At("running")
  /\ cycles'[c].due = IF c \in 1..Len(cycles) THEN cycles[c].due ELSE <<>>
  /\ \A d \in At("running") : cycles'[d] = [cycles[d] EXCEPT !.met = @ \cup {c}]
  /\ \A d \in 1..Len(cycles) : d \notin At("running") /\ d # c => cycles'[d] = cycles[d]

BegunIs(f, all, m, c) ==
  /\ f \in [1..m -> Cycle]
  /\ f[c] = [all[c] EXCEPT !.phase = "running", !.before = Len(history),
                          !.met = At("running") \ {c}]
  /\ \A k \in 1..m : k # c =>
       f[k] = IF k \in At("running") THEN [all[k] EXCEPT !.met = @ \cup {c}] ELSE all[k]

LEMMA BegunAt ==
  ASSUME Types, NEW m \in Nat, NEW all \in [1..m -> Cycle], NEW c \in 1..m, Len(all) = m
  PROVE  BegunIs(Begun(all, c), all, m, c)
  <1> DEFINE running == At("running") \ {c}
  <1>1. running \in SUBSET Nat /\ c \in Nat /\ Len(history) \in Nat
    <2>1. Len(cycles) \in Nat /\ Len(history) \in Nat
      BY LenProperties DEF Types
    <2> QED
      BY <2>1 DEF At
  <1> DEFINE one(k) == IF k = c THEN [all[k] EXCEPT !.phase = "running", !.before = Len(history),
                                                    !.met = running]
                       ELSE IF k \in running THEN [all[k] EXCEPT !.met = @ \cup {c}] ELSE all[k]
  <1>2. Begun(all, c) = [k \in 1..m |-> one(k)]
    BY DEF Begun
  <1> HIDE DEF running
  <1>3. ASSUME NEW k \in 1..m PROVE one(k) \in Cycle
    <2>1. all[k] \in Cycle
      OBVIOUS
    <2>2. [all[k] EXCEPT !.phase = "running", !.before = Len(history), !.met = running] \in Cycle
      BY <1>1, <2>1 DEF Cycle, Phases
    <2>3. all[k].met \cup {c} \in SUBSET Nat
      BY <1>1, <2>1 DEF Cycle
    <2>4. [all[k] EXCEPT !.met = @ \cup {c}] \in Cycle
      BY <2>1, <2>3 DEF Cycle
    <2> QED
      BY <2>1, <2>2, <2>4
  <1> HIDE DEF one
  <1>4. /\ Begun(all, c) \in [1..m -> Cycle]
        /\ \A k \in 1..m : Begun(all, c)[k] = one(k)
    BY <1>2, <1>3
  <1> QED
    BY <1>4 DEF one, running, BegunIs

LEMMA ReasonBeginsEffect ==
  ASSUME Types, ReasonBegins
  PROVE  CycleBegins(Len(cycles) + 1) /\ cycles'[Len(cycles) + 1].of = "desk"
  <1> DEFINE all == Started("desk")
  <1>1. PICK n \in Nat : n = Len(cycles)
    BY CyclesFunction DEF CyclesAs
  <1>2. /\ all \in Seq(Cycle) /\ Len(all) = n + 1 /\ all[n + 1] = Fresh("desk")
        /\ \A d \in 1..n : all[d] = cycles[d]
    BY <1>1, StartedAppends
  <1> HIDE DEF all
  <1>3. all \in [1..(n+1) -> Cycle] /\ n + 1 \in 1..(n+1) /\ n + 1 \in Nat
    BY <1>2, LenProperties
  <1>4. cycles' = Begun(all, n + 1)
    BY <1>1 DEF ReasonBegins, all
  <1>a. BegunIs(cycles', all, n + 1, n + 1)
    BY <1>2, <1>3, <1>4, BegunAt
  <1>5. /\ cycles' \in [1..(n+1) -> Cycle]
        /\ cycles'[n+1] = [all[n+1] EXCEPT !.phase = "running", !.before = Len(history),
                                           !.met = At("running") \ {n+1}]
        /\ \A k \in 1..(n+1) : k # n+1 =>
              cycles'[k] = IF k \in At("running") THEN [all[k] EXCEPT !.met = @ \cup {n+1}]
                           ELSE all[k]
    BY <1>a DEF BegunIs
  <1>6. cycles' \in Seq(Cycle) /\ Len(cycles') = n + 1
    BY <1>3, <1>5, FunctionIsSeq
  <1>7. At("running") \ {n+1} = At("running") /\ At("running") \subseteq 1..n
    BY <1>1 DEF At
  <1>b. all[n+1] \in Cycle /\ all[n+1].of = "desk" /\ all[n+1].due = <<>>
    BY <1>2, FreshIsCycle DEF Fresh
  <1>c. cycles'[n+1] = [all[n+1] EXCEPT !.phase = "running", !.before = Len(history),
                                        !.met = At("running")]
    BY <1>5, <1>7
  <1>8. /\ cycles'[n+1].phase = "running" /\ cycles'[n+1].before = Len(history)
        /\ cycles'[n+1].met = At("running") /\ cycles'[n+1].due = <<>>
        /\ cycles'[n+1].of = "desk"
    BY <1>b, <1>c DEF Cycle
  <1>9. 1..(n+1) = 1..n \cup {n+1} /\ \A d \in 1..n : d # n+1 /\ d \in 1..(n+1)
    OBVIOUS
  <1> QED
    <2>1. /\ cycles' \in Seq(Cycle) /\ n + 1 \in 1..Len(cycles')
          /\ n \in Nat /\ Len(cycles') \in Nat /\ 1..Len(cycles') = 1..n \cup {n+1} /\ n + 1 \notin 1..n
      BY <1>6, <1>9
    <2>2. /\ cycles'[n+1].phase = "running" /\ cycles'[n+1].before = Len(history)
          /\ cycles'[n+1].met = At("running") /\ cycles'[n+1].due = <<>>
          /\ cycles'[n+1].of = "desk"
      BY <1>8
    <2>3. \A d \in At("running") : cycles'[d] = [cycles[d] EXCEPT !.met = @ \cup {n+1}]
      BY <1>2, <1>5, <1>7, <1>9
    <2>4. \A d \in 1..n : d \notin At("running") /\ d # n+1 => cycles'[d] = cycles[d]
      BY <1>2, <1>5, <1>9
    <2> QED
      BY <1>1, <2>1, <2>2, <2>3, <2>4 DEF CycleBegins

LEMMA SubagentBeginsEffect ==
  ASSUME Types, NEW c, SubagentBegins(c)
  PROVE  CycleBegins(c)
  <1>1. PICK n \in Nat : n = Len(cycles) /\ cycles \in [1..n -> Cycle]
    BY CyclesFunction DEF CyclesAs
  <1>2. c \in 1..n /\ cycles[c].phase = "reserved" /\ cycles' = Begun(cycles, c)
    BY <1>1 DEF SubagentBegins, At
  <1>a. BegunIs(cycles', cycles, n, c)
    BY <1>1, <1>2, BegunAt
  <1>3. /\ cycles' \in [1..n -> Cycle]
        /\ cycles'[c] = [cycles[c] EXCEPT !.phase = "running", !.before = Len(history),
                                          !.met = At("running") \ {c}]
        /\ \A k \in 1..n : k # c =>
              cycles'[k] = IF k \in At("running") THEN [cycles[k] EXCEPT !.met = @ \cup {c}]
                           ELSE cycles[k]
    BY <1>a DEF BegunIs
  <1>4. cycles' \in Seq(Cycle) /\ Len(cycles') = n
    BY <1>3, FunctionIsSeq
  <1>5. At("running") \ {c} = At("running") /\ At("running") \subseteq 1..n /\ c \notin At("running")
    BY <1>1, <1>2 DEF At
  <1>6. cycles[c] \in Cycle
    BY <1>1, <1>2
  <1>7. /\ cycles'[c].phase = "running" /\ cycles'[c].before = Len(history)
        /\ cycles'[c].met = At("running") /\ cycles'[c].due = cycles[c].due
        /\ cycles'[c].of = cycles[c].of
    BY <1>3, <1>5, <1>6 DEF Cycle
  <1>8. 1..n = 1..n \cup {c}
    BY <1>2
  <1> QED
    BY <1>1, <1>2, <1>3, <1>4, <1>5, <1>7, <1>8 DEF CycleBegins

LEMMA SpawnEffect ==
  ASSUME Types, NEW parent, Spawn(parent)
  PROVE  \/ Joins(Fresh("subagent"))
         \/ UNCHANGED cycles
  BY StartedAppends DEF Spawn, Joins

LEMMA RecordUsageEffect ==
  ASSUME Types, NEW c, RecordUsage(c)
  PROVE  /\ c \in At("running")
         /\ cycleCalls(c) \in Seq(Nat)
         /\ \E p \in {"charging", "ended"} :
              /\ CycleBecomes(c, [cycles[c] EXCEPT !.usage = cycleCalls(c), !.phase = p])
              /\ p = "charging" <=> cycles[c].of = "desk" /\ Dollars(cycleCalls(c)) > 0
  <1>1. PICK n \in Nat : n = Len(cycles) /\ cycles \in [1..n -> Cycle]
    BY CyclesFunction DEF CyclesAs
  <1>2. c \in At("running") /\ c \in 1..n /\ cycles[c] \in Cycle
    BY <1>1 DEF RecordUsage, At
  <1>3. cycleCalls(c) \in Seq(Nat)
    <2>1. cycles[c].before \in Nat /\ history \in Seq(Nat)
      BY <1>2 DEF Cycle, Types
    <2>2. Len(history) \in Nat /\ cycles[c].before + 1 \in Int
          /\ \A i \in (cycles[c].before + 1)..Len(history) : history[i] \in Nat
      BY <2>1, LenProperties
    <2> QED
      BY <2>2, SubSeqProperties DEF cycleCalls
  <1> DEFINE charges == cycles[c].of = "desk" /\ Dollars(cycleCalls(c)) > 0
  <1>4. PICK p \in {"charging", "ended"} : (p = "charging" <=> charges)
                 /\ p = IF charges THEN "charging" ELSE "ended"
    OBVIOUS
  <1>5. cycles' = [cycles EXCEPT ![c].usage = cycleCalls(c), ![c].phase = p]
    BY <1>4 DEF RecordUsage
  <1> HIDE DEF charges
  <1> DEFINE r == [cycles[c] EXCEPT !.usage = cycleCalls(c), !.phase = p]
  <1>6. r \in Cycle
    BY <1>2, <1>3 DEF Cycle, Phases
  <1>7. cycles' = [cycles EXCEPT ![c] = r]
    BY <1>1, <1>2, <1>5
  <1> HIDE DEF r
  <1>8. CycleBecomes(c, r)
    BY <1>1, <1>2, <1>6, <1>7, OneCycleBecomes
  <1> QED
    BY <1>2, <1>3, <1>4, <1>8 DEF r, charges

------------------------------------------------------------------------------
(* The thresholds in ascending order *)

LEMMA RisingEnumerates ==
  ASSUME NEW S \in SUBSET Nat, IsFiniteSet(S)
  PROVE  /\ Rising(S) \in [1..Cardinality(S) -> S]
         /\ \A i, j \in 1..Cardinality(S) : i < j => Rising(S)[i] < Rising(S)[j]
         /\ \A t \in S : \E i \in 1..Cardinality(S) : Rising(S)[i] = t
  <1> DEFINE n == Cardinality(S)
             Below(x) == {y \in S : y <= x}
             rank == [x \in S |-> Cardinality(Below(x))]
  <1>1. n \in Nat /\ IsFiniteSet(1..n) /\ Cardinality(1..n) = n
    BY FS_CardinalityType, FS_Interval
  <1>2. ASSUME NEW x \in S
        PROVE  IsFiniteSet(Below(x)) /\ Cardinality(Below(x)) \in 1..n
    <2>1. Below(x) \in SUBSET S /\ x \in Below(x)
      OBVIOUS
    <2> HIDE DEF Below
    <2>2. IsFiniteSet(Below(x)) /\ Cardinality(Below(x)) <= n
      BY <2>1, FS_Subset
    <2>3. Cardinality(Below(x)) \in Nat /\ Cardinality(Below(x)) # 0
      BY <2>1, <2>2, FS_CardinalityType, FS_EmptySet
    <2> QED
      BY <1>1, <2>2, <2>3
  <1>3. ASSUME NEW x \in S, NEW z \in S, x < z
        PROVE  Cardinality(Below(x)) < Cardinality(Below(z))
    <2>a. x \in Nat /\ z \in Nat /\ \A y \in S : y \in Nat
      OBVIOUS
    <2>b. \A y \in S : y <= x => y <= z
      BY <1>3, <2>a
    <2>1. Below(x) \in SUBSET Below(z) /\ z \in Below(z) /\ z \notin Below(x)
      <3>1. Below(x) \subseteq Below(z)
        BY <2>b
      <3>2. z <= z /\ ~ (z <= x)
        BY <1>3, <2>a
      <3>3. z \in Below(z) /\ z \notin Below(x)
        BY <3>2
      <3> QED
        BY <3>1, <3>3
    <2> HIDE DEF Below
    <2>2. /\ IsFiniteSet(Below(z)) /\ Cardinality(Below(z)) \in Nat
          /\ Cardinality(Below(x)) \in Nat
      BY <1>2
    <2>3. /\ Cardinality(Below(x)) <= Cardinality(Below(z))
          /\ Cardinality(Below(z)) = Cardinality(Below(x)) => Below(z) = Below(x)
      BY <2>1, <2>2, FS_Subset
    <2> QED
      BY <2>1, <2>2, <2>3
  <1> HIDE DEF Below
  <1>4. rank \in [S -> 1..n]
    BY <1>2
  <1>5. \A x, z \in S : x < z => rank[x] < rank[z]
    BY <1>3
  <1> HIDE DEF n, rank
  <1>6. \A x, z \in S : rank[x] = rank[z] => x = z
    <2> SUFFICES ASSUME NEW x \in S, NEW z \in S, rank[x] = rank[z], x # z
                 PROVE  FALSE
      OBVIOUS
    <2>1. x < z \/ z < x
      OBVIOUS
    <2>2. rank[x] \in 1..n /\ rank[z] \in 1..n
      BY <1>4
    <2> QED
      BY <1>5, <2>1, <2>2
  <1>7. rank \in Injection(S, 1..n)
    BY <1>4, <1>6, Fun_IsInj
  <1>8. rank \in Surjection(S, 1..n)
    BY <1>1, <1>7, FS_Injection DEF n
  <1>9. rank \in Bijection(S, 1..n)
    BY <1>7, <1>8 DEF Bijection
  <1> DEFINE due == Inverse(rank, S, 1..n)
  <1>10. due \in Bijection(1..n, S) /\ \A x \in S : due[rank[x]] = x
    BY <1>9, Fun_BijInverse
  <1> HIDE DEF due
  <1>11. due \in [1..n -> S]
    BY <1>10, Fun_BijectionProperties
  <1>12. \A i \in 1..n : \E x \in S : rank[x] = i
    BY <1>8, Fun_SurjectionProperties
  <1>13. ASSUME NEW i \in 1..n, NEW j \in 1..n, i < j
         PROVE  due[i] < due[j]
    <2>1. PICK x \in S : rank[x] = i
      BY <1>12
    <2>2. PICK z \in S : rank[z] = j
      BY <1>12
    <2>3. due[i] = x /\ due[j] = z
      BY <1>10, <2>1, <2>2
    <2>4. ~ (z < x) /\ z # x
      BY <1>5, <1>13, <2>1, <2>2
    <2> QED
      BY <2>3, <2>4
  <1> DEFINE Ordered(f) == \A i, j \in 1..n : i < j => f[i] < f[j]
  <1>14. due \in [1..n -> S] /\ Ordered(due)
    BY <1>11, <1>13
  <1>15. Rising(S) = CHOOSE f \in [1..n -> S] : Ordered(f)
    BY DEF Rising, n
  <1> HIDE DEF Ordered
  <1>16. Rising(S) \in [1..n -> S] /\ Ordered(Rising(S))
    BY <1>14, <1>15
  <1> DEFINE f == Rising(S)
  <1>17. f \in [1..n -> S] /\ \A i, j \in 1..n : i < j => f[i] < f[j]
    BY <1>16 DEF Ordered
  <1> HIDE DEF f
  <1>18. \A i, j \in 1..n : f[i] = f[j] => i = j
    <2> SUFFICES ASSUME NEW i \in 1..n, NEW j \in 1..n, f[i] = f[j], i # j
                 PROVE  FALSE
      OBVIOUS
    <2>1. i < j \/ j < i
      OBVIOUS
    <2>2. f[i] \in Nat /\ f[j] \in Nat
      BY <1>17
    <2> QED
      BY <1>17, <2>1, <2>2
  <1>19. f \in Injection(1..n, S)
    BY <1>17, <1>18, Fun_IsInj
  <1>20. f \in Surjection(1..n, S)
    BY <1>1, <1>19, FS_Injection DEF n
  <1>21. \A t \in S : \E i \in 1..n : f[i] = t
    BY <1>20 DEF Surjection
  <1> QED
    BY <1>17, <1>21 DEF f, n

(* What Add does: the thresholds it crosses become the alerts it owes, each *)
(* once and with the spend that reached it.                                *)
Owes(due, crossed, total) ==
  /\ due \in Seq(Alert)
  /\ \A i \in 1..Len(due) : due[i].threshold \in crossed /\ due[i].spent = total
  /\ \A i, j \in 1..Len(due) : due[i].threshold = due[j].threshold => i = j
  /\ \A t \in crossed : \E i \in 1..Len(due) : due[i].threshold = t
  /\ due = <<>> <=> crossed = {}

LEMMA AlertsOfCrossed ==
  ASSUME NEW crossed \in SUBSET Nat, IsFiniteSet(crossed), NEW total \in Nat
  PROVE  LET due == Rising(crossed)
         IN Owes([k \in 1..Len(due) |-> [threshold |-> due[k], spent |-> total]], crossed, total)
  <1> DEFINE due == Rising(crossed)
             n == Cardinality(crossed)
             owed == [k \in 1..n |-> [threshold |-> due[k], spent |-> total]]
  <1>1. n \in Nat /\ (n = 0 <=> crossed = {})
    BY FS_CardinalityType, FS_EmptySet
  <1>2. /\ due \in [1..n -> crossed]
        /\ \A i, j \in 1..n : i < j => due[i] < due[j]
        /\ \A t \in crossed : \E i \in 1..n : due[i] = t
    BY RisingEnumerates
  <1> HIDE DEF due, n
  <1>3. Len(due) = n
    BY <1>1, <1>2, FunctionIsSeq
  <1>4. owed \in [1..n -> Alert]
    BY <1>2 DEF Alert
  <1>5. owed \in Seq(Alert) /\ Len(owed) = n
    BY <1>1, <1>4, FunctionIsSeq
  <1>6. \A i \in 1..n : owed[i].threshold = due[i] /\ owed[i].spent = total
    OBVIOUS
  <1> HIDE DEF owed
  <1>7. \A i \in 1..n : owed[i].threshold \in crossed /\ owed[i].spent = total
    BY <1>2, <1>6
  <1>8. ASSUME NEW i \in 1..n, NEW j \in 1..n, owed[i].threshold = owed[j].threshold
        PROVE  i = j
    <2>1. due[i] \in Nat /\ due[i] = due[j]
      BY <1>2, <1>6, <1>8
    <2>2. ~ (i < j) /\ ~ (j < i)
      BY <1>2, <2>1
    <2> QED
      BY <2>2
  <1>9. \A t \in crossed : \E i \in 1..n : owed[i].threshold = t
    BY <1>2, <1>6
  <1>10. owed = <<>> <=> n = 0
    BY <1>5, EmptySeq
  <1>11. Owes(owed, crossed, total)
    BY <1>1, <1>5, <1>7, <1>8, <1>9, <1>10 DEF Owes
  <1> QED
    BY <1>3, <1>11 DEF owed, due

LEMMA AddEffect ==
  ASSUME Types, NEW c, Add(c)
  PROVE  LET crossed == Crossed(spent')
         IN /\ c \in At("charging")
            /\ spent' = spent + Dollars(cycles[c].usage) /\ Dollars(cycles[c].usage) \in Nat
            /\ fired' = fired \cup crossed
            /\ \E due \in Seq(Alert), p \in {"ended", "alerting"} :
                 /\ p = IF crossed = {} THEN "ended" ELSE "alerting"
                 /\ Owes(due, crossed, spent')
                 /\ CycleBecomes(c, [cycles[c] EXCEPT !.due = due, !.phase = p])
  <1>1. PICK n \in Nat : n = Len(cycles) /\ cycles \in [1..n -> Cycle]
    BY CyclesFunction DEF CyclesAs
  <1>2. c \in At("charging") /\ c \in 1..n /\ cycles[c] \in Cycle
    BY <1>1 DEF Add, At
  <1>3. Dollars(cycles[c].usage) \in Nat
    <2>1. cycles[c].usage \in Seq(Nat)
      BY <1>2 DEF Cycle
    <2>2. Len(cycles[c].usage) \in Nat
      BY <2>1, LenProperties
    <2> QED
      BY <2>2 DEF Dollars
  <1> DEFINE total == spent + Dollars(cycles[c].usage)
             crossed == Crossed(total)
             rising == Rising(crossed)
             due == [k \in 1..Len(rising) |-> [threshold |-> rising[k], spent |-> total]]
             p == IF crossed = {} THEN "ended" ELSE "alerting"
  <1>4. total \in Nat
    BY <1>3 DEF Types
  <1>5. /\ spent' = total /\ fired' = fired \cup crossed
        /\ cycles' = [cycles EXCEPT ![c].due = due, ![c].phase = p]
    BY DEF Add
  <1>6. crossed \in SUBSET Nat /\ IsFiniteSet(crossed)
    <2>1. crossed \in SUBSET Thresholds
      BY DEF Crossed
    <2> HIDE DEF crossed
    <2> QED
      BY <2>1, SpendingAssumption, FS_Subset
  <1> HIDE DEF crossed, total
  <1>7. Owes(due, crossed, total)
    BY <1>4, <1>6, AlertsOfCrossed
  <1> HIDE DEF due, rising
  <1>8. due \in Seq(Alert) /\ p \in {"ended", "alerting"}
    BY <1>7 DEF Owes
  <1> HIDE DEF p
  <1> DEFINE r == [cycles[c] EXCEPT !.due = due, !.phase = p]
  <1>9. r \in Cycle
    BY <1>2, <1>8 DEF Cycle, Phases
  <1>10. cycles' = [cycles EXCEPT ![c] = r]
    BY <1>1, <1>2, <1>5
  <1> HIDE DEF r
  <1>11. CycleBecomes(c, r)
    BY <1>1, <1>2, <1>9, <1>10, OneCycleBecomes
  <1>12. p = IF crossed = {} THEN "ended" ELSE "alerting"
    BY DEF p
  <1>13. spent' = spent + Dollars(cycles[c].usage) /\ crossed = Crossed(spent')
    BY <1>5 DEF total, crossed
  <1>14. \E d \in Seq(Alert), q \in {"ended", "alerting"} :
            /\ q = IF crossed = {} THEN "ended" ELSE "alerting"
            /\ Owes(d, crossed, spent')
            /\ CycleBecomes(c, [cycles[c] EXCEPT !.due = d, !.phase = q])
    BY <1>5, <1>7, <1>8, <1>11, <1>12 DEF r
  <1> QED
    BY <1>2, <1>3, <1>5, <1>13, <1>14

LEMMA DeliverEffect ==
  ASSUME Types, AlertsDue, NEW c, Deliver(c)
  PROVE  /\ c \in At("alerting")
         /\ cycles[c].due # <<>> /\ Head(cycles[c].due) \in Alert
         /\ alerts' = Append(alerts, Head(cycles[c].due))
         /\ \E p \in {"ended", "alerting"} :
              /\ p = "ended" <=> Len(cycles[c].due) = 1
              /\ CycleBecomes(c, [cycles[c] EXCEPT !.due = Tail(cycles[c].due), !.phase = p])
  <1>1. PICK n \in Nat : n = Len(cycles) /\ cycles \in [1..n -> Cycle]
    BY CyclesFunction DEF CyclesAs
  <1>2. c \in At("alerting") /\ c \in 1..n /\ cycles[c] \in Cycle /\ cycles[c].phase = "alerting"
    BY <1>1 DEF Deliver, At
  <1>3. cycles[c].due # <<>> /\ cycles[c].due \in Seq(Alert)
    BY <1>1, <1>2 DEF AlertsDue, Cycle
  <1>4. Head(cycles[c].due) \in Alert /\ Tail(cycles[c].due) \in Seq(Alert)
    BY <1>3, HeadTailProperties
  <1> DEFINE p == IF Len(cycles[c].due) = 1 THEN "ended" ELSE cycles[c].phase
  <1>5. /\ alerts' = Append(alerts, Head(cycles[c].due))
        /\ cycles' = [cycles EXCEPT ![c].due = Tail(@),
                              ![c].phase = IF Len(cycles[c].due) = 1 THEN "ended" ELSE @]
    BY DEF Deliver
  <1>6. p \in {"ended", "alerting"} /\ (p = "ended" <=> Len(cycles[c].due) = 1)
    BY <1>2
  <1> DEFINE r == [cycles[c] EXCEPT !.due = Tail(cycles[c].due), !.phase = p]
  <1>7. cycles' = [cycles EXCEPT ![c] = r]
    BY <1>1, <1>2, <1>5
  <1> HIDE DEF p
  <1>8. r \in Cycle
    BY <1>2, <1>4, <1>6 DEF Cycle, Phases
  <1> HIDE DEF r
  <1>9. CycleBecomes(c, r)
    BY <1>1, <1>2, <1>7, <1>8, OneCycleBecomes
  <1> QED
    BY <1>2, <1>3, <1>4, <1>5, <1>6, <1>9 DEF r

------------------------------------------------------------------------------
(* Types *)

LEMMA TypesStep ==
  ASSUME SpendingIInv, [SpendingNext]_spendingVars
  PROVE  Types'
  <1>1. Types /\ AlertsDue
    BY DEF SpendingIInv
  <1>2. At("running") \subseteq Nat
    <2>1. Len(cycles) \in Nat
      BY <1>1, CyclesFunction DEF CyclesAs
    <2> QED
      BY <2>1 DEF At
  <1>3. CASE ReasonBegins
    BY <1>1, <1>3, ReasonBeginsEffect DEF ReasonBegins, CycleBegins, Types, budgetVars
  <1>4. ASSUME NEW parent \in {0} \cup At("running"), Spawn(parent)
        PROVE  Types'
    <2>1. cycles' \in Seq(Cycle)
      BY <1>1, <1>4, SpawnEffect DEF Joins, Types
    <2>2. parent \in Nat /\ spawned \in Seq(Nat) /\ Len(spawned) \in Nat
      BY <1>1, <1>2, LenProperties DEF Types
    <2>3. spawned' \in Seq(Nat)
      <3>1. Append(spawned, parent) \in Seq(Nat)
        BY <2>2, AppendProperties
      <3> QED
        BY <1>4, <2>2, <3>1 DEF Spawn
    <2>4. denials' \in SUBSET Nat
      BY <1>1, <1>4, <2>2 DEF Spawn, Types
    <2> QED
      BY <1>1, <1>4, <2>1, <2>3, <2>4 DEF Spawn, Types, budgetVars
  <1>5. ASSUME NEW c \in 1..Len(cycles), SubagentBegins(c)
        PROVE  Types'
    BY <1>1, <1>5, SubagentBeginsEffect DEF SubagentBegins, CycleBegins, Types, budgetVars
  <1>6. ASSUME NEW c \in 1..Len(cycles), Completes(c)
        PROVE  Types'
    <2>1. history' \in Seq(Nat)
      BY <1>1, <1>2, <1>6, AppendProperties DEF Completes, Types
    <2> QED
      BY <1>1, <1>6, <2>1 DEF Completes, Types, budgetVars
  <1>7. ASSUME NEW c \in 1..Len(cycles), RecordUsage(c)
        PROVE  Types'
    <2>1. cycles' \in Seq(Cycle)
      BY <1>1, <1>7, RecordUsageEffect DEF CycleBecomes
    <2> QED
      BY <1>1, <1>7, <2>1 DEF RecordUsage, Types, budgetVars
  <1>8. ASSUME NEW c \in 1..Len(cycles), Add(c)
        PROVE  Types'
    <2>1. cycles' \in Seq(Cycle)
      BY <1>1, <1>8, AddEffect DEF CycleBecomes
    <2>2. spent' \in Nat
      <3>1. spent' = spent + Dollars(cycles[c].usage) /\ Dollars(cycles[c].usage) \in Nat
        BY <1>1, <1>8, AddEffect
      <3>2. spent \in Nat
        BY <1>1 DEF Types
      <3> QED
        BY <3>1, <3>2
    <2>3. fired' \in SUBSET Thresholds
      <3>1. fired' = fired \cup Crossed(spent')
        BY <1>1, <1>8, AddEffect
      <3> QED
        BY <1>1, <3>1 DEF Crossed, Types
    <2> QED
      BY <1>1, <1>8, <2>1, <2>2, <2>3 DEF Add, Types
  <1>9. ASSUME NEW c \in 1..Len(cycles), Deliver(c)
        PROVE  Types'
    <2>1. cycles' \in Seq(Cycle)
      BY <1>1, <1>9, DeliverEffect DEF CycleBecomes
    <2>2. alerts' \in Seq(Alert)
      <3>1. alerts' = Append(alerts, Head(cycles[c].due)) /\ Head(cycles[c].due) \in Alert
        BY <1>1, <1>9, DeliverEffect
      <3>2. alerts \in Seq(Alert)
        BY <1>1 DEF Types
      <3> QED
        BY <3>1, <3>2, AppendProperties
    <2> QED
      BY <1>1, <1>9, <2>1, <2>2 DEF Deliver, Types
  <1>10. CASE UNCHANGED spendingVars
    BY <1>1, <1>10 DEF spendingVars, budgetVars, Types
  <1> QED
    BY <1>3, <1>4, <1>5, <1>6, <1>7, <1>8, <1>9, <1>10 DEF SpendingNext

------------------------------------------------------------------------------
(* Calls *)

LEMMA CallsWhenCycleBegins ==
  ASSUME Types, CallsMade, NEW c, CycleBegins(c), UNCHANGED history
  PROVE  CallsMade'
  <1> DEFINE n == Len(cycles)
             h == Len(history)
  <1>1. /\ n \in Nat /\ Len(cycles') \in Nat /\ 1..Len(cycles') = 1..n \cup {c}
        /\ h \in Nat /\ \A d \in 1..n : cycles[d] \in Cycle
    BY CyclesFunction, LenProperties DEF CyclesAs, CycleBegins, Types
  <1>2. \A d \in At("running") : /\ d \in 1..n /\ d # c
                                 /\ cycles'[d].phase = "running"
                                 /\ cycles'[d].before = cycles[d].before
                                 /\ cycles'[d].met = cycles[d].met \cup {c}
    BY <1>1 DEF CycleBegins, At, Cycle
  <1>3. \A d \in 1..n : d \notin At("running") /\ d # c => cycles'[d] = cycles[d]
    BY DEF CycleBegins
  <1>4. At("reserved")' \subseteq At("reserved") \ {c}
    BY <1>1, <1>2, <1>3 DEF At, CycleBegins
  <1>5. At("running")' = At("running") \cup {c}
    BY <1>1, <1>2, <1>3 DEF At, CycleBegins
  <1>6. \A k \in 1..h : history[k] # c
    <2> SUFFICES ASSUME NEW k \in 1..h, history[k] = c PROVE FALSE
      OBVIOUS
    <2>1. c \in 1..n
      BY DEF CallsMade
    <2>2. c \in At("reserved")
      BY <2>1 DEF CycleBegins, At
    <2> QED
      BY <2>2 DEF CallsMade
  <1>7. \A k \in 1..h : history[k] \in 1..Len(cycles')
    BY <1>1 DEF CallsMade
  <1>8. CalledSince(c)'
    <2>1. cycles'[c].before = h
      BY DEF CycleBegins
    <2> QED
      BY <1>1, <1>6, <2>1 DEF CalledSince
  <1>9. ASSUME NEW d \in At("running")
        PROVE  CalledSince(d)'
    <2>1. CalledSince(d)
      BY DEF CallsMade
    <2> QED
      BY <1>2, <2>1 DEF CalledSince
  <1>10. ASSUME NEW d \in At("running")', NEW e \in At("running")', d # e
         PROVE  e \in cycles'[d].met
    <2>1. CASE d = c
      BY <1>5, <1>10, <2>1 DEF CycleBegins
    <2>2. CASE d # c /\ e = c
      BY <1>2, <1>5, <2>2
    <2>3. CASE d # c /\ e # c
      BY <1>2, <1>5, <1>10, <2>3 DEF CallsMade
    <2> QED
      BY <2>1, <2>2, <2>3
  <1> QED
    BY <1>4, <1>5, <1>7, <1>8, <1>9, <1>10 DEF CallsMade

LEMMA CallsWhenCycleJoins ==
  ASSUME Types, CallsMade, Joins(Fresh("subagent")), UNCHANGED history
  PROVE  CallsMade'
  <1> DEFINE n == Len(cycles)
  <1>1. /\ n \in Nat /\ Len(cycles') = n + 1
        /\ cycles'[n + 1].phase = "reserved"
        /\ \A d \in 1..n : cycles'[d] = cycles[d]
    BY CyclesFunction DEF CyclesAs, Joins, Fresh
  <1>2. 1..(n + 1) = 1..n \cup {n + 1} /\ n + 1 \notin 1..n
    BY <1>1
  <1>3. At("running")' = At("running") /\ At("running") \subseteq 1..n
    BY <1>1, <1>2 DEF At
  <1>4. At("reserved")' = At("reserved") \cup {n + 1}
    BY <1>1, <1>2 DEF At
  <1>5. \A k \in 1..Len(history) : history[k] \in 1..n /\ history[k] # n + 1
    BY <1>2 DEF CallsMade
  <1>6. \A d \in At("running") : cycles'[d] = cycles[d] /\ CalledSince(d)
    BY <1>1, <1>3 DEF CallsMade
  <1>7. \A d \in At("running") : CalledSince(d)'
    BY <1>6 DEF CalledSince
  <1>8. \A d, e \in At("running") : d # e => e \in cycles'[d].met
    BY <1>6 DEF CallsMade
  <1>9. \A k \in 1..Len(history) : history[k] \in 1..Len(cycles')
    BY <1>1, <1>2, <1>5
  <1>10. \A d \in At("reserved")' : \A k \in 1..Len(history) : history[k] # d
    BY <1>4, <1>5 DEF CallsMade
  <1> QED
    BY <1>3, <1>7, <1>8, <1>9, <1>10 DEF CallsMade

LEMMA CallsWhenCycleCalls ==
  ASSUME Types, CallsMade, NEW c, Completes(c)
  PROVE  CallsMade'
  <1> DEFINE h == Len(history)
  <1>1. /\ h \in Nat /\ history' = Append(history, c) /\ UNCHANGED cycles
        /\ c \in At("running") /\ c \in 1..Len(cycles) /\ c \in Nat
    <2>1. Len(cycles) \in Nat /\ h \in Nat
      BY LenProperties DEF Types
    <2> QED
      BY <2>1 DEF Completes, At
  <1>2. /\ Len(history') = h + 1 /\ history'[h + 1] = c
        /\ \A k \in 1..h : history'[k] = history[k]
    BY <1>1, AppendProperties DEF Types
  <1>3. 1..(h + 1) = 1..h \cup {h + 1} /\ \A k \in 1..h : k # h + 1
    BY <1>1
  <1>4. \A d : UNCHANGED At(d)
    BY <1>1 DEF At
  <1>5. \A k \in 1..Len(history') : history'[k] \in 1..Len(cycles')
    BY <1>1, <1>2, <1>3 DEF CallsMade
  <1>6. \A d \in At("reserved") : d # c
    BY <1>1 DEF At
  <1>7. \A d \in At("reserved") : \A k \in 1..Len(history') : history'[k] # d
    BY <1>2, <1>3, <1>6 DEF CallsMade
  <1>8. ASSUME NEW d \in At("running")
        PROVE  CalledSince(d)'
    <2>1. CalledSince(d) /\ cycles[d].before \in Nat
      BY CyclesFunction DEF CallsMade, At, Cycle
    <2>2. cycles[d].before <= h + 1 /\ h + 1 > cycles[d].before
      BY <1>1, <2>1 DEF CalledSince
    <2>3. c = d \/ c \in cycles[d].met
      BY <1>1 DEF CallsMade
    <2>4. \A k \in 1..(h+1) : history'[k] = d => k > cycles[d].before
      BY <1>2, <1>3, <2>1, <2>2 DEF CalledSince
    <2>5. \A k \in 1..(h+1) : k > cycles[d].before => history'[k] = d \/ history'[k] \in cycles[d].met
      BY <1>2, <1>3, <2>1, <2>3 DEF CalledSince
    <2> QED
      BY <1>1, <1>2, <2>2, <2>4, <2>5 DEF CalledSince
  <1>9. At("running")' = At("running") /\ At("reserved")' = At("reserved")
    BY <1>1 DEF At
  <1>10. \A d, e \in At("running") : d # e => e \in cycles'[d].met
    BY <1>1 DEF CallsMade
  <1> QED
    BY <1>5, <1>7, <1>8, <1>9, <1>10 DEF CallsMade

(* A cycle that stops running leaves the others as they were.               *)
LEMMA CallsWhenCycleStops ==
  ASSUME Types, CallsMade, NEW c \in 1..Len(cycles), NEW r, CycleBecomes(c, r),
         r.phase \notin {"reserved", "running"}, UNCHANGED history
  PROVE  CallsMade'
  <1>1. Len(cycles') = Len(cycles)
    BY DEF CycleBecomes
  <1>2. At("running")' \subseteq At("running") /\ c \notin At("running")'
    BY <1>1 DEF At, CycleBecomes
  <1>3. At("reserved")' \subseteq At("reserved")
    BY <1>1 DEF At, CycleBecomes
  <1>4. \A d \in At("running")' : cycles'[d] = cycles[d] /\ CalledSince(d)
    BY <1>1, <1>2 DEF At, CycleBecomes, CallsMade
  <1>5. \A d \in At("running")' : CalledSince(d)'
    BY <1>4 DEF CalledSince
  <1>6. \A d, e \in At("running")' : d # e => e \in cycles'[d].met
    BY <1>2, <1>4 DEF CallsMade
  <1>7. \A k \in 1..Len(history) : history[k] \in 1..Len(cycles')
    BY <1>1 DEF CallsMade
  <1> QED
    BY <1>3, <1>5, <1>6, <1>7 DEF CallsMade

LEMMA CallsMadeStep ==
  ASSUME SpendingIInv, [SpendingNext]_spendingVars
  PROVE  CallsMade'
  <1>1. Types /\ AlertsDue /\ CallsMade /\ \A c \in 1..Len(cycles) : cycles[c] \in Cycle
    BY CyclesFunction DEF SpendingIInv
  <1>2. CASE ReasonBegins
    BY <1>1, <1>2, ReasonBeginsEffect, CallsWhenCycleBegins DEF ReasonBegins
  <1>3. ASSUME NEW parent \in {0} \cup At("running"), Spawn(parent)
        PROVE  CallsMade'
    <2>1. UNCHANGED history
      BY <1>3 DEF Spawn
    <2>2. CASE Joins(Fresh("subagent"))
      BY <1>1, <2>1, <2>2, CallsWhenCycleJoins
    <2>3. CASE UNCHANGED cycles
      BY <1>1, <2>1, <2>3 DEF CallsMade, At, CalledSince
    <2> QED
      BY <1>1, <1>3, <2>2, <2>3, SpawnEffect
  <1>4. ASSUME NEW c \in 1..Len(cycles), SubagentBegins(c)
        PROVE  CallsMade'
    BY <1>1, <1>4, SubagentBeginsEffect, CallsWhenCycleBegins DEF SubagentBegins
  <1>5. ASSUME NEW c \in 1..Len(cycles), Completes(c)
        PROVE  CallsMade'
    BY <1>1, <1>5, CallsWhenCycleCalls
  <1>6. ASSUME NEW c \in 1..Len(cycles), RecordUsage(c)
        PROVE  CallsMade'
    <2>1. PICK p \in {"charging", "ended"} :
            CycleBecomes(c, [cycles[c] EXCEPT !.usage = cycleCalls(c), !.phase = p])
      BY <1>1, <1>6, RecordUsageEffect
    <2>2. [cycles[c] EXCEPT !.usage = cycleCalls(c), !.phase = p].phase = p
      BY <1>1 DEF Cycle
    <2>3. UNCHANGED history
      BY <1>6 DEF RecordUsage
    <2> QED
      BY <1>1, <2>1, <2>2, <2>3, CallsWhenCycleStops
  <1>7. ASSUME NEW c \in 1..Len(cycles), Add(c)
        PROVE  CallsMade'
    <2>1. PICK due \in Seq(Alert), p \in {"ended", "alerting"} :
            CycleBecomes(c, [cycles[c] EXCEPT !.due = due, !.phase = p])
      BY <1>1, <1>7, AddEffect
    <2>2. [cycles[c] EXCEPT !.due = due, !.phase = p].phase = p
      BY <1>1 DEF Cycle
    <2>3. UNCHANGED history
      BY <1>7 DEF Add
    <2> QED
      BY <1>1, <2>1, <2>2, <2>3, CallsWhenCycleStops
  <1>8. ASSUME NEW c \in 1..Len(cycles), Deliver(c)
        PROVE  CallsMade'
    <2>1. PICK p \in {"ended", "alerting"} :
            CycleBecomes(c, [cycles[c] EXCEPT !.due = Tail(cycles[c].due), !.phase = p])
      BY <1>1, <1>8, DeliverEffect
    <2>2. [cycles[c] EXCEPT !.due = Tail(cycles[c].due), !.phase = p].phase = p
      BY <1>1 DEF Cycle
    <2>3. UNCHANGED history
      BY <1>8 DEF Deliver
    <2> QED
      BY <1>1, <2>1, <2>2, <2>3, CallsWhenCycleStops
  <1>9. CASE UNCHANGED spendingVars
    BY <1>1, <1>9 DEF spendingVars, CallsMade, At, CalledSince
  <1> QED
    BY <1>2, <1>3, <1>4, <1>5, <1>6, <1>7, <1>8, <1>9 DEF SpendingNext

------------------------------------------------------------------------------
(* Usage *)

LEMMA ByFinite ==
  ASSUME NEW calls \in Seq(Nat), NEW c
  PROVE  IsFiniteSet(By(c, calls)) /\ Cardinality(By(c, calls)) \in Nat
  <1>1. Len(calls) \in Nat
    BY LenProperties
  <1>2. IsFiniteSet(1..Len(calls))
    BY <1>1, FS_Interval
  <1>3. By(c, calls) \in SUBSET (1..Len(calls))
    BY DEF By
  <1> QED
    BY <1>2, <1>3, FS_Subset, FS_CardinalityType

(* The usage a running cycle would record now. *)
LEMMA UsageOfCycle ==
  ASSUME Types, CallsMade, NEW c \in At("running")
  PROVE  /\ cycleCalls(c) \in Seq(Nat)
         /\ Cardinality(By(c, cycleCalls(c))) = Cardinality(By(c, history))
         /\ ToSet(cycleCalls(c)) \subseteq {c} \cup cycles[c].met
  <1> DEFINE h == Len(history)
             b == cycles[c].before
             u == cycleCalls(c)
  <1>1. /\ history \in Seq(Nat) /\ h \in Nat /\ c \in 1..Len(cycles) /\ cycles[c] \in Cycle
        /\ \A i \in 1..h : history[i] \in Nat
    BY CyclesFunction, LenProperties DEF Types, At
  <1>2. b \in Nat /\ b <= h
    BY <1>1 DEF CallsMade, CalledSince, Cycle
  <1>3. \A k \in 1..h : history[k] = c => k > b
    BY DEF CallsMade, CalledSince
  <1>4. \A k \in 1..h : k > b => history[k] \in {c} \cup cycles[c].met
    BY DEF CallsMade, CalledSince
  <1>5. u \in Seq(Nat) /\ Len(u) = h - b /\ \A i \in 1..(h - b) : u[i] = history[b + i]
    <2>1. u = SubSeq(history, b + 1, h)
      BY DEF cycleCalls
    <2> HIDE DEF u, b, h
    <2>2. b + 1 \in Int /\ h \in Int /\ \A i \in (b+1)..h : history[i] \in Nat
      BY <1>1, <1>2
    <2>3. /\ u \in Seq(Nat)
          /\ Len(u) = IF b + 1 <= h THEN h - (b + 1) + 1 ELSE 0
          /\ \A i \in 1..(h - (b + 1) + 1) : u[i] = history[(b + 1) + i - 1]
      BY <2>1, <2>2, SubSeqProperties
    <2>4. Len(u) = h - b /\ h - (b + 1) + 1 = h - b
      BY <1>1, <1>2, <2>3
    <2>5. \A i \in 1..(h - b) : (b + 1) + i - 1 = b + i
      BY <1>1, <1>2
    <2> QED
      BY <2>3, <2>4, <2>5
  <1> HIDE DEF u, b, h
  <1>6. By(c, u) = {k \in 1..(h - b) : history[b + k] = c}
    BY <1>5 DEF By
  <1>7. By(c, history) = {k \in 1..h : history[k] = c}
    BY DEF By, h
  <1> DEFINE f == [k \in By(c, u) |-> b + k]
  <1>8. \A k \in By(c, u) : k \in Nat /\ b + k \in By(c, history)
    BY <1>1, <1>2, <1>6, <1>7
  <1>9. f \in [By(c, u) -> By(c, history)]
    BY <1>8
  <1>10. \A k, l \in By(c, u) : f[k] = f[l] => k = l
    BY <1>2, <1>8
  <1>11. ASSUME NEW m \in By(c, history) PROVE \E k \in By(c, u) : f[k] = m
    <2>1. m \in 1..h /\ history[m] = c /\ m > b
      BY <1>3, <1>7 DEF h
    <2>2. m - b \in 1..(h - b) /\ b + (m - b) = m
      BY <1>1, <1>2, <2>1
    <2>3. m - b \in By(c, u)
      BY <1>6, <2>1, <2>2
    <2> QED
      BY <2>2, <2>3
  <1> HIDE DEF f
  <1>12. f \in Bijection(By(c, u), By(c, history))
    BY <1>9, <1>10, <1>11, Fun_IsBij
  <1>13. Cardinality(By(c, u)) = Cardinality(By(c, history))
    <2>1. ExistsBijection(By(c, u), By(c, history))
      BY <1>12 DEF ExistsBijection
    <2>2. IsFiniteSet(By(c, u))
      BY <1>5, ByFinite
    <2> QED
      BY <2>1, <2>2, FS_Bijection
  <1>14. ToSet(u) \subseteq {c} \cup cycles[c].met
    <2>1. ASSUME NEW i \in 1..(h - b) PROVE u[i] \in {c} \cup cycles[c].met
      <3>1. b + i \in 1..h /\ b + i > b
        BY <1>1, <1>2
      <3>2. u[i] = history[b + i]
        BY <1>5
      <3> QED
        BY <1>4, <3>1, <3>2 DEF h, b
    <2>2. DOMAIN u = 1..(h - b)
      BY <1>5, LenProperties
    <2> QED
      BY <2>1, <2>2 DEF ToSet
  <1> QED
    BY <1>5, <1>13, <1>14 DEF u

(* The record of a cycle covers it. *)
Covers(c, usage, met, calls) ==
  /\ Cardinality(By(c, usage)) = Cardinality(By(c, calls))
  /\ ToSet(usage) \subseteq {c} \cup met

LEMMA CoversEachAccounted ==
  /\ UsageCoversCycle <=>
       \A c \in Accounted : Covers(c, cycles[c].usage, cycles[c].met, history)
  /\ UsageCoversCycle' <=>
       \A c \in Accounted' : Covers(c, cycles'[c].usage, cycles'[c].met, history')
  BY DEF UsageCoversCycle, Covers

(* Of the accounted cycles nothing is rewritten, and the history is kept.   *)
LEMMA UsageKept ==
  ASSUME UsageCoversCycle, UNCHANGED history,
         \A c \in Accounted' : /\ c \in Accounted
                               /\ cycles'[c].usage = cycles[c].usage
                               /\ cycles'[c].met = cycles[c].met
  PROVE  UsageCoversCycle'
  BY CoversEachAccounted

LEMMA UsageWhenCycleBegins ==
  ASSUME Types, UsageCoversCycle, NEW c, CycleBegins(c), UNCHANGED history
  PROVE  UsageCoversCycle'
  <1>1. \A d \in At("running") : cycles[d] \in Cycle
    BY CyclesFunction DEF At
  <1>2. \A d \in At("running") : cycles'[d].phase = "running"
    BY <1>1 DEF CycleBegins, At, Cycle
  <1>3. ASSUME NEW d \in Accounted'
        PROVE  d \in Accounted /\ cycles'[d] = cycles[d]
    <2>1. d \in 1..Len(cycles') /\ cycles'[d].phase \in {"charging", "alerting", "ended"}
      BY DEF Accounted, At
    <2>2. d # c /\ d \in 1..Len(cycles)
      BY <2>1 DEF CycleBegins
    <2>3. d \notin At("running")
      BY <1>2, <2>1
    <2>4. cycles'[d] = cycles[d]
      BY <2>2, <2>3 DEF CycleBegins
    <2> QED
      BY <2>1, <2>2, <2>4 DEF Accounted, At
  <1> QED
    BY <1>3, UsageKept

LEMMA UsageWhenCycleJoins ==
  ASSUME Types, UsageCoversCycle, Joins(Fresh("subagent")), UNCHANGED history
  PROVE  UsageCoversCycle'
  <1> DEFINE n == Len(cycles)
  <1>1. /\ n \in Nat /\ Len(cycles') = n + 1
        /\ cycles'[n + 1].phase = "reserved"
        /\ \A d \in 1..n : cycles'[d] = cycles[d]
    BY CyclesFunction DEF CyclesAs, Joins, Fresh
  <1>2. 1..(n + 1) = 1..n \cup {n + 1}
    BY <1>1
  <1>3. \A d \in Accounted' : d \in Accounted /\ cycles'[d] = cycles[d]
    BY <1>1, <1>2 DEF Accounted, At
  <1> QED
    BY <1>3, UsageKept

LEMMA UsageWhenCycleCalls ==
  ASSUME Types, UsageCoversCycle, NEW b, Completes(b)
  PROVE  UsageCoversCycle'
  <1> DEFINE h == Len(history)
  <1>1. /\ h \in Nat /\ history' = Append(history, b) /\ UNCHANGED cycles
        /\ b \in At("running") /\ b \in Nat
    <2>1. Len(cycles) \in Nat /\ h \in Nat
      BY LenProperties DEF Types
    <2> QED
      BY <2>1 DEF Completes, At
  <1>2. /\ Len(history') = h + 1 /\ history'[h + 1] = b
        /\ \A k \in 1..h : history'[k] = history[k]
    BY <1>1, AppendProperties DEF Types
  <1>3. 1..(h + 1) = 1..h \cup {h + 1}
    BY <1>1
  <1>4. ASSUME NEW c \in Accounted
        PROVE  By(c, history') = By(c, history)
    <2>1. c # b
      BY <1>1 DEF Accounted, At
    <2> QED
      BY <1>2, <1>3, <2>1 DEF By
  <1>5. Accounted' = Accounted
    BY <1>1 DEF Accounted, At
  <1>6. \A c \in Accounted : Covers(c, cycles[c].usage, cycles[c].met, history)
    BY CoversEachAccounted
  <1>7. \A c \in Accounted : Covers(c, cycles[c].usage, cycles[c].met, history')
    BY <1>4, <1>6 DEF Covers
  <1> QED
    BY <1>1, <1>5, <1>7, CoversEachAccounted

LEMMA UsageWhenRecorded ==
  ASSUME Types, CallsMade, UsageCoversCycle, NEW c \in 1..Len(cycles), RecordUsage(c)
  PROVE  UsageCoversCycle'
  <1>1. PICK p \in {"charging", "ended"} :
          CycleBecomes(c, [cycles[c] EXCEPT !.usage = cycleCalls(c), !.phase = p])
    BY RecordUsageEffect
  <1>2. c \in At("running") /\ cycles[c] \in Cycle /\ UNCHANGED history
    BY CyclesFunction DEF RecordUsage
  <1>3. cycles'[c].usage = cycleCalls(c) /\ cycles'[c].met = cycles[c].met
    BY <1>1, <1>2 DEF CycleBecomes, Cycle
  <1>4. Covers(c, cycles'[c].usage, cycles'[c].met, history')
    BY <1>2, <1>3, UsageOfCycle DEF Covers
  <1>5. ASSUME NEW d \in Accounted', d # c
        PROVE  Covers(d, cycles'[d].usage, cycles'[d].met, history')
    <2>1. d \in Accounted /\ cycles'[d] = cycles[d]
      BY <1>1, <1>5 DEF CycleBecomes, Accounted, At
    <2> QED
      BY <1>2, <2>1, CoversEachAccounted
  <1> QED
    BY <1>4, <1>5, CoversEachAccounted

LEMMA UsageWhenAccounted ==
  ASSUME Types, UsageCoversCycle, NEW c \in Accounted, NEW r, CycleBecomes(c, r),
         r.usage = cycles[c].usage, r.met = cycles[c].met, UNCHANGED history
  PROVE  UsageCoversCycle'
  <1>1. ASSUME NEW d \in Accounted'
        PROVE  /\ d \in Accounted
               /\ cycles'[d].usage = cycles[d].usage
               /\ cycles'[d].met = cycles[d].met
    <2>1. CASE d = c
      BY <2>1 DEF CycleBecomes
    <2>2. CASE d # c
      BY <1>1, <2>2 DEF CycleBecomes, Accounted, At
    <2> QED
      BY <2>1, <2>2
  <1> QED
    BY <1>1, UsageKept

LEMMA UsageStep ==
  ASSUME SpendingIInv, [SpendingNext]_spendingVars
  PROVE  UsageCoversCycle'
  <1>1. /\ Types /\ AlertsDue /\ CallsMade /\ UsageCoversCycle
        /\ \A c \in 1..Len(cycles) : cycles[c] \in Cycle
    BY CyclesFunction DEF SpendingIInv
  <1>2. CASE ReasonBegins
    BY <1>1, <1>2, ReasonBeginsEffect, UsageWhenCycleBegins DEF ReasonBegins
  <1>3. ASSUME NEW parent \in {0} \cup At("running"), Spawn(parent)
        PROVE  UsageCoversCycle'
    <2>1. UNCHANGED history
      BY <1>3 DEF Spawn
    <2>2. CASE Joins(Fresh("subagent"))
      BY <1>1, <2>1, <2>2, UsageWhenCycleJoins
    <2>3. CASE UNCHANGED cycles
      <3>1. Accounted' = Accounted
        BY <2>3 DEF Accounted, At
      <3> QED
        BY <1>1, <2>1, <2>3, <3>1, UsageKept
    <2> QED
      BY <1>1, <1>3, <2>2, <2>3, SpawnEffect
  <1>4. ASSUME NEW c \in 1..Len(cycles), SubagentBegins(c)
        PROVE  UsageCoversCycle'
    BY <1>1, <1>4, SubagentBeginsEffect, UsageWhenCycleBegins DEF SubagentBegins
  <1>5. ASSUME NEW c \in 1..Len(cycles), Completes(c)
        PROVE  UsageCoversCycle'
    BY <1>1, <1>5, UsageWhenCycleCalls
  <1>6. ASSUME NEW c \in 1..Len(cycles), RecordUsage(c)
        PROVE  UsageCoversCycle'
    BY <1>1, <1>6, UsageWhenRecorded
  <1>7. ASSUME NEW c \in 1..Len(cycles), Add(c)
        PROVE  UsageCoversCycle'
    <2>1. PICK due \in Seq(Alert), p \in {"ended", "alerting"} :
            CycleBecomes(c, [cycles[c] EXCEPT !.due = due, !.phase = p])
      BY <1>1, <1>7, AddEffect
    <2> DEFINE r == [cycles[c] EXCEPT !.due = due, !.phase = p]
    <2>2. r.usage = cycles[c].usage /\ r.met = cycles[c].met
      BY <1>1 DEF Cycle
    <2>3. UNCHANGED history /\ c \in Accounted
      BY <1>7 DEF Add, Accounted
    <2> QED
      BY <1>1, <2>1, <2>2, <2>3, UsageWhenAccounted
  <1>8. ASSUME NEW c \in 1..Len(cycles), Deliver(c)
        PROVE  UsageCoversCycle'
    <2>1. PICK p \in {"ended", "alerting"} :
            CycleBecomes(c, [cycles[c] EXCEPT !.due = Tail(cycles[c].due), !.phase = p])
      BY <1>1, <1>8, DeliverEffect
    <2> DEFINE r == [cycles[c] EXCEPT !.due = Tail(cycles[c].due), !.phase = p]
    <2>2. r.usage = cycles[c].usage /\ r.met = cycles[c].met
      BY <1>1 DEF Cycle
    <2>3. UNCHANGED history /\ c \in Accounted
      BY <1>8 DEF Deliver, Accounted
    <2> QED
      BY <1>1, <2>1, <2>2, <2>3, UsageWhenAccounted
  <1>9. CASE UNCHANGED spendingVars
    <2>1. UNCHANGED <<history, cycles>>
      BY <1>9 DEF spendingVars
    <2>2. Accounted' = Accounted
      BY <2>1 DEF Accounted, At
    <2> QED
      BY <1>1, <2>1, <2>2, UsageKept
  <1> QED
    BY <1>2, <1>3, <1>4, <1>5, <1>6, <1>7, <1>8, <1>9 DEF SpendingNext

------------------------------------------------------------------------------
(* Spawns *)

Subagents == {c \in 1..Len(cycles) : cycles[c].of = "subagent"}

LEMMA SubagentsFinite ==
  ASSUME Types
  PROVE  IsFiniteSet(Subagents) /\ Cardinality(Subagents) \in Nat
  <1>1. IsFiniteSet(1..Len(cycles))
    BY CyclesFunction, FS_Interval DEF CyclesAs
  <1>2. Subagents \in SUBSET (1..Len(cycles))
    BY DEF Subagents
  <1> QED
    BY <1>1, <1>2, FS_Subset, FS_CardinalityType

(* Where nobody spawns, the subagents are the same. *)
LEMMA SpawnsKept ==
  ASSUME SpawnsWithinLimit, UNCHANGED <<setup, spawned, denials>>, Subagents' = Subagents
  PROVE  SpawnsWithinLimit'
  BY DEF SpawnsWithinLimit, Subagents

LEMMA SubagentsWhenCycleBegins ==
  ASSUME Types, NEW c, CycleBegins(c), c \notin 1..Len(cycles) => cycles'[c].of = "desk"
  PROVE  Subagents' = Subagents
  <1>1. \A d \in 1..Len(cycles) : cycles[d] \in Cycle /\ (d \in At("running") <=> cycles[d].phase = "running")
    BY CyclesFunction DEF At
  <1>2. ASSUME NEW d \in 1..Len(cycles)
        PROVE  cycles'[d].of = cycles[d].of
    <2>1. CASE d \in At("running")
      <3>1. cycles'[d] = [cycles[d] EXCEPT !.met = @ \cup {c}] /\ cycles[d] \in Cycle
        BY <1>1, <2>1 DEF CycleBegins
      <3> QED
        BY <3>1 DEF Cycle
    <2>2. CASE d \notin At("running") /\ d # c
      BY <2>2 DEF CycleBegins
    <2>3. CASE d = c
      BY <2>3 DEF CycleBegins
    <2> QED
      BY <2>1, <2>2, <2>3
  <1> QED
    BY <1>2 DEF Subagents, CycleBegins

LEMMA SubagentsWhenCycleChanges ==
  ASSUME Types, NEW c, NEW r, CycleBecomes(c, r), r.of = cycles[c].of
  PROVE  Subagents' = Subagents
  BY DEF CycleBecomes, Subagents

LEMMA SpawnsStep ==
  ASSUME SpendingIInv, [SpendingNext]_spendingVars
  PROVE  SpawnsWithinLimit'
  <1>1. /\ Types /\ AlertsDue /\ SpawnsWithinLimit
        /\ \A c \in 1..Len(cycles) : cycles[c] \in Cycle
    BY CyclesFunction DEF SpendingIInv
  <1>2. CASE ReasonBegins
    <2>1. Subagents' = Subagents
      BY <1>1, <1>2, ReasonBeginsEffect, SubagentsWhenCycleBegins
    <2> QED
      BY <1>1, <1>2, <2>1, SpawnsKept DEF ReasonBegins
  <1>3. ASSUME NEW parent \in {0} \cup At("running"), Spawn(parent)
        PROVE  SpawnsWithinLimit'
    <2> DEFINE n == Len(cycles)
               m == Len(spawned)
    <2>1. /\ m \in Nat /\ spawned \in Seq(Nat) /\ n \in Nat /\ parent \in Nat
          /\ setup.subagents \in {"unconfigured", "enabled", "disabled"}
          /\ UNCHANGED setup
      <3>1. n \in Nat /\ m \in Nat
        BY <1>1, LenProperties DEF Types
      <3> QED
        BY <1>1, <1>3, <3>1 DEF Types, Wirings, Spawn, At
    <2>2. CASE setup.subagents # "disabled" /\ ~Full(parent)
      <3>1. /\ cycles' = Started("subagent") /\ spawned' = Append(spawned, parent)
            /\ UNCHANGED denials
        BY <1>3, <2>2 DEF Spawn
      <3>2. Len(spawned') = m + 1
        BY <2>1, <3>1, AppendProperties
      <3>3. /\ Len(cycles') = n + 1 /\ cycles'[n + 1] = Fresh("subagent")
            /\ \A d \in 1..n : cycles'[d] = cycles[d]
        BY <1>1, <3>1, StartedAppends
      <3>4. 1..(n + 1) = 1..n \cup {n + 1} /\ n + 1 \notin 1..n
        BY <2>1
      <3>5. Subagents' = Subagents \cup {n + 1} /\ n + 1 \notin Subagents
        BY <3>3, <3>4 DEF Subagents, Fresh
      <3>6. Cardinality(Subagents') = Cardinality(Subagents) + 1
        BY <1>1, <3>5, SubagentsFinite, FS_AddElement
      <3>7. m = Cardinality(Subagents)
        BY <1>1 DEF SpawnsWithinLimit, Subagents
      <3>8. Len(spawned') = Cardinality(Subagents')
        BY <3>2, <3>6, <3>7
      <3>9. CASE setup.subagents = "enabled"
        <4>1. Limit > 0 => m < Limit /\ denials \subseteq {Limit}
          BY <1>1, <2>1, <2>2, <3>9, SpendingAssumption DEF Full, SpawnLimit, SpawnsWithinLimit
        <4>2. Limit > 0 => m + 1 <= Limit
          BY <2>1, <4>1, SpendingAssumption
        <4> QED
          BY <2>1, <3>1, <3>2, <3>8, <3>9, <4>1, <4>2 DEF SpawnsWithinLimit, Subagents
      <3>10. CASE setup.subagents = "unconfigured"
        BY <1>1, <2>1, <3>1, <3>8, <3>10 DEF SpawnsWithinLimit, Subagents
      <3> QED
        BY <2>1, <2>2, <3>9, <3>10
    <2>3. CASE ~ (setup.subagents # "disabled" /\ ~Full(parent))
      <3>1. /\ denials' = denials \cup {m} /\ UNCHANGED <<spawned, cycles>>
        BY <1>3, <2>3 DEF Spawn
      <3>2. Subagents' = Subagents
        BY <3>1 DEF Subagents
      <3>3. CASE setup.subagents = "disabled"
        BY <1>1, <2>1, <3>1, <3>2, <3>3 DEF SpawnsWithinLimit, Subagents
      <3>4. CASE setup.subagents = "unconfigured"
        BY <2>3, <3>4 DEF Full, SpawnLimit
      <3>5. CASE setup.subagents = "enabled"
        <4>1. Full(parent) /\ SpawnLimit = Limit
          BY <2>3, <3>5 DEF SpawnLimit
        <4>2. Limit > 0 /\ m >= Limit /\ m <= Limit /\ denials \subseteq {Limit}
          BY <1>1, <3>5, <4>1 DEF Full, SpawnsWithinLimit
        <4>3. m = Limit
          BY <2>1, <4>2, SpendingAssumption
        <4> QED
          BY <1>1, <2>1, <3>1, <3>2, <3>5, <4>2, <4>3 DEF SpawnsWithinLimit, Subagents
      <3> QED
        BY <2>1, <3>3, <3>4, <3>5
    <2> QED
      BY <2>2, <2>3
  <1>4. ASSUME NEW c \in 1..Len(cycles), SubagentBegins(c)
        PROVE  SpawnsWithinLimit'
    <2>1. Subagents' = Subagents
      BY <1>1, <1>4, SubagentBeginsEffect, SubagentsWhenCycleBegins
    <2> QED
      BY <1>1, <1>4, <2>1, SpawnsKept DEF SubagentBegins
  <1>5. ASSUME NEW c \in 1..Len(cycles), Completes(c)
        PROVE  SpawnsWithinLimit'
    <2>1. Subagents' = Subagents
      BY <1>5 DEF Completes, Subagents
    <2> QED
      BY <1>1, <1>5, <2>1, SpawnsKept DEF Completes
  <1>6. ASSUME NEW c \in 1..Len(cycles), RecordUsage(c)
        PROVE  SpawnsWithinLimit'
    <2>1. PICK p \in {"charging", "ended"} :
            CycleBecomes(c, [cycles[c] EXCEPT !.usage = cycleCalls(c), !.phase = p])
      BY <1>1, <1>6, RecordUsageEffect
    <2>2. [cycles[c] EXCEPT !.usage = cycleCalls(c), !.phase = p].of = cycles[c].of
      BY <1>1 DEF Cycle
    <2>3. Subagents' = Subagents
      BY <1>1, <2>1, <2>2, SubagentsWhenCycleChanges
    <2> QED
      BY <1>1, <1>6, <2>3, SpawnsKept DEF RecordUsage
  <1>7. ASSUME NEW c \in 1..Len(cycles), Add(c)
        PROVE  SpawnsWithinLimit'
    <2>1. PICK due \in Seq(Alert), p \in {"ended", "alerting"} :
            CycleBecomes(c, [cycles[c] EXCEPT !.due = due, !.phase = p])
      BY <1>1, <1>7, AddEffect
    <2>2. [cycles[c] EXCEPT !.due = due, !.phase = p].of = cycles[c].of
      BY <1>1 DEF Cycle
    <2>3. Subagents' = Subagents
      BY <1>1, <2>1, <2>2, SubagentsWhenCycleChanges
    <2> QED
      BY <1>1, <1>7, <2>3, SpawnsKept DEF Add
  <1>8. ASSUME NEW c \in 1..Len(cycles), Deliver(c)
        PROVE  SpawnsWithinLimit'
    <2>1. PICK p \in {"ended", "alerting"} :
            CycleBecomes(c, [cycles[c] EXCEPT !.due = Tail(cycles[c].due), !.phase = p])
      BY <1>1, <1>8, DeliverEffect
    <2>2. [cycles[c] EXCEPT !.due = Tail(cycles[c].due), !.phase = p].of = cycles[c].of
      BY <1>1 DEF Cycle
    <2>3. Subagents' = Subagents
      BY <1>1, <2>1, <2>2, SubagentsWhenCycleChanges
    <2> QED
      BY <1>1, <1>8, <2>3, SpawnsKept DEF Deliver
  <1>9. CASE UNCHANGED spendingVars
    <2>1. Subagents' = Subagents
      BY <1>9 DEF spendingVars, Subagents
    <2> QED
      BY <1>1, <1>9, <2>1, SpawnsKept DEF spendingVars
  <1> QED
    BY <1>2, <1>3, <1>4, <1>5, <1>6, <1>7, <1>8, <1>9 DEF SpendingNext

------------------------------------------------------------------------------
(* Alerts *)

(* No alert comes up and none is delivered.                                 *)
DuesKept ==
  /\ 1..Len(cycles) \subseteq 1..Len(cycles')
  /\ \A c \in 1..Len(cycles) : cycles'[c].due = cycles[c].due
  /\ \A c \in 1..Len(cycles') : c \notin 1..Len(cycles) => cycles'[c].due = <<>>
  /\ \A c \in 1..Len(cycles') :
       cycles'[c].phase = "alerting" <=> c \in 1..Len(cycles) /\ cycles[c].phase = "alerting"

LEMMA ToldKept ==
  ASSUME AlertsDue, ToldApart, ToldReached, DuesKept,
         UNCHANGED <<setup, alerts, fired, spent>>
  PROVE  AlertsDue' /\ ToldApart' /\ ToldReached'
  <1>1. Len(<<>>) = 0
    OBVIOUS
  <1>2. \A c \in 1..Len(cycles') : Len(cycles'[c].due) # 0 => c \in 1..Len(cycles)
    BY <1>1 DEF DuesKept
  <1>3. \A c \in 1..Len(cycles') : \A i \in 1..Len(cycles'[c].due) :
          c \in 1..Len(cycles) /\ cycles'[c].due = cycles[c].due
    <2> SUFFICES ASSUME NEW c \in 1..Len(cycles'), NEW i \in 1..Len(cycles'[c].due)
                 PROVE  c \in 1..Len(cycles) /\ cycles'[c].due = cycles[c].due
      OBVIOUS
    <2>1. Len(cycles'[c].due) # 0
      OBVIOUS
    <2> QED
      BY <1>2, <2>1 DEF DuesKept
  <1>4. AlertsDue'
    <2>1. ASSUME NEW c \in 1..Len(cycles'), cycles'[c].phase # "alerting"
          PROVE  cycles'[c].due = <<>>
      BY <2>1 DEF AlertsDue, DuesKept
    <2>2. ASSUME NEW c \in 1..Len(cycles'), cycles'[c].phase = "alerting"
          PROVE  cycles'[c].due # <<>>
      BY <2>2 DEF AlertsDue, DuesKept
    <2> QED
      BY <2>1, <2>2 DEF AlertsDue
  <1>5. ToldApart'
    <2>1. \A i, j \in 1..Len(alerts') : alerts'[i].threshold = alerts'[j].threshold => i = j
      BY DEF ToldApart
    <2>2. ASSUME NEW c \in 1..Len(cycles'), NEW d \in 1..Len(cycles'),
                 NEW i \in 1..Len(cycles'[c].due), NEW j \in 1..Len(cycles'[d].due),
                 cycles'[c].due[i].threshold = cycles'[d].due[j].threshold
          PROVE  c = d /\ i = j
      <3>1. /\ c \in 1..Len(cycles) /\ cycles'[c].due = cycles[c].due
            /\ d \in 1..Len(cycles) /\ cycles'[d].due = cycles[d].due
        BY <1>3
      <3> QED
        BY <2>2, <3>1 DEF ToldApart
    <2>3. ASSUME NEW i \in 1..Len(alerts'), NEW c \in 1..Len(cycles'),
                 NEW j \in 1..Len(cycles'[c].due)
          PROVE  alerts'[i].threshold # cycles'[c].due[j].threshold
      <3>1. c \in 1..Len(cycles) /\ cycles'[c].due = cycles[c].due
        BY <1>3
      <3> QED
        BY <3>1 DEF ToldApart
    <2> QED
      BY <2>1, <2>2, <2>3 DEF ToldApart
  <1>6. ToldReached'
    <2>1. \A a : Reached(a) => Reached(a)'
      BY DEF Reached
    <2>2. \A i \in 1..Len(alerts') : Reached(alerts[i])'
      BY <2>1 DEF ToldReached, Reached
    <2>3. ASSUME NEW c \in 1..Len(cycles'), NEW i \in 1..Len(cycles'[c].due)
          PROVE  Reached(cycles[c].due[i])'
      <3>1. c \in 1..Len(cycles) /\ cycles'[c].due = cycles[c].due
        BY <1>3
      <3>2. Reached(cycles[c].due[i])
        BY <3>1 DEF ToldReached
      <3> QED
        BY <3>1, <3>2 DEF Reached
    <2>4. ASSUME NEW t \in fired'
          PROVE  \/ \E i \in 1..Len(alerts') : alerts'[i].threshold = t
                 \/ \E c \in 1..Len(cycles') : \E i \in 1..Len(cycles'[c].due) :
                      cycles'[c].due[i].threshold = t
      <3>1. CASE \E i \in 1..Len(alerts) : alerts[i].threshold = t
        BY <3>1
      <3>2. CASE \E c \in 1..Len(cycles) : \E i \in 1..Len(cycles[c].due) :
                   cycles[c].due[i].threshold = t
        BY <3>2 DEF DuesKept
      <3> QED
        BY <3>1, <3>2 DEF ToldReached
    <2>5. fired' = {t \in Thresholds : setup'.capped /\ t <= spent'}
      BY DEF ToldReached
    <2> QED
      BY <2>2, <2>3, <2>4, <2>5 DEF ToldReached
  <1> QED
    BY <1>4, <1>5, <1>6

LEMMA DuesWhenCycleBegins ==
  ASSUME Types, AlertsDue, NEW c, CycleBegins(c)
  PROVE  DuesKept
  <1>1. \A d \in 1..Len(cycles) : cycles[d] \in Cycle /\ (d \in At("running") <=> cycles[d].phase = "running")
    BY CyclesFunction DEF At
  <1>2. ASSUME NEW d \in 1..Len(cycles)
        PROVE  /\ cycles'[d].due = cycles[d].due
               /\ cycles'[d].phase = "alerting" <=> cycles[d].phase = "alerting"
    <2>1. CASE d \in At("running")
      <3>1. cycles'[d] = [cycles[d] EXCEPT !.met = @ \cup {c}] /\ cycles[d] \in Cycle
        BY <1>1, <2>1 DEF CycleBegins
      <3> QED
        BY <3>1 DEF Cycle
    <2>2. CASE d \notin At("running") /\ d # c
      BY <2>2 DEF CycleBegins
    <2>3. CASE d = c
      BY <2>3 DEF CycleBegins
    <2> QED
      BY <2>1, <2>2, <2>3
  <1>3. c \notin 1..Len(cycles) => cycles'[c].due = <<>> /\ cycles'[c].phase = "running"
    BY DEF CycleBegins
  <1>4. 1..Len(cycles') = 1..Len(cycles) \cup {c}
    BY DEF CycleBegins
  <1> QED
    BY <1>2, <1>3, <1>4 DEF DuesKept

LEMMA DuesWhenCycleJoins ==
  ASSUME Types, Joins(Fresh("subagent"))
  PROVE  DuesKept
  <1> DEFINE n == Len(cycles)
  <1>1. /\ n \in Nat /\ Len(cycles') = n + 1
        /\ cycles'[n + 1].phase = "reserved" /\ cycles'[n + 1].due = <<>>
        /\ \A d \in 1..n : cycles'[d] = cycles[d]
    BY CyclesFunction DEF CyclesAs, Joins, Fresh
  <1>2. 1..(n + 1) = 1..n \cup {n + 1} /\ n + 1 \notin 1..n
    BY <1>1
  <1> QED
    BY <1>1, <1>2 DEF DuesKept

LEMMA DuesWhenCycleChanges ==
  ASSUME NEW c, NEW r, CycleBecomes(c, r), r.due = cycles[c].due,
         r.phase = "alerting" <=> cycles[c].phase = "alerting"
  PROVE  DuesKept
  BY DEF CycleBecomes, DuesKept

(* Add: what it owes has not been told, and everything told stays reached.  *)
LEMMA ToldWhenAdded ==
  ASSUME Types, AlertsDue, ToldApart, ToldReached, NEW c \in 1..Len(cycles), Add(c)
  PROVE  AlertsDue' /\ ToldApart' /\ ToldReached'
  <1> DEFINE crossed == Crossed(spent')
  <1>1. PICK due \in Seq(Alert), p \in {"ended", "alerting"} :
          /\ p = IF crossed = {} THEN "ended" ELSE "alerting"
          /\ Owes(due, crossed, spent')
          /\ CycleBecomes(c, [cycles[c] EXCEPT !.due = due, !.phase = p])
    BY AddEffect
  <1>2. /\ fired' = fired \cup crossed /\ UNCHANGED <<setup, alerts>>
        /\ spent \in Nat /\ spent' \in Nat /\ spent <= spent'
    <2>1. spent' = spent + Dollars(cycles[c].usage) /\ Dollars(cycles[c].usage) \in Nat
      BY AddEffect
    <2>2. fired' = fired \cup crossed
      BY AddEffect
    <2>3. spent \in Nat
      BY DEF Types
    <2> QED
      BY <2>1, <2>2, <2>3 DEF Add
  <1>3. /\ crossed = {t \in Thresholds \ fired : setup.capped /\ spent' >= t}
        /\ Thresholds \subseteq Nat
    BY SpendingAssumption DEF Crossed
  <1>4. cycles[c] \in Cycle /\ cycles[c].phase = "charging"
    BY CyclesFunction DEF Add, At
  <1> HIDE DEF crossed
  <1>5. cycles'[c].due = due /\ cycles'[c].phase = p
    BY <1>1, <1>4 DEF CycleBecomes, Cycle
  <1>6. /\ Len(cycles') = Len(cycles)
        /\ \A d \in 1..Len(cycles) : d # c => cycles'[d] = cycles[d]
    BY <1>1 DEF CycleBecomes
  <1>7. /\ \A i \in 1..Len(due) : due[i].threshold \in crossed /\ due[i].spent = spent'
        /\ \A i, j \in 1..Len(due) : due[i].threshold = due[j].threshold => i = j
        /\ \A t \in crossed : \E i \in 1..Len(due) : due[i].threshold = t
        /\ due = <<>> <=> crossed = {}
    BY <1>1 DEF Owes
  <1>8. AlertsDue'
    BY <1>1, <1>5, <1>6, <1>7 DEF AlertsDue
  <1>9. \A d \in 1..Len(cycles) : \A i \in 1..Len(cycles[d].due) : cycles[d].due[i].threshold \in fired
    BY DEF ToldReached, Reached
  <1>10. \A i \in 1..Len(alerts) : alerts[i].threshold \in fired
    BY DEF ToldReached, Reached
  <1>11. ToldApart'
    <2>1. \A i, j \in 1..Len(alerts') : alerts'[i].threshold = alerts'[j].threshold => i = j
      BY <1>2 DEF ToldApart
    <2>2. ASSUME NEW d \in 1..Len(cycles'), NEW e \in 1..Len(cycles'),
                 NEW i \in 1..Len(cycles'[d].due), NEW j \in 1..Len(cycles'[e].due),
                 cycles'[d].due[i].threshold = cycles'[e].due[j].threshold
          PROVE  d = e /\ i = j
      <3>1. CASE d = c /\ e = c
        BY <1>5, <1>7, <2>2, <3>1
      <3>2. CASE d # c /\ e # c
        <4>1. /\ d \in 1..Len(cycles) /\ e \in 1..Len(cycles)
              /\ cycles'[d].due = cycles[d].due /\ cycles'[e].due = cycles[e].due
          BY <1>6, <2>2, <3>2
        <4>2. /\ i \in 1..Len(cycles[d].due) /\ j \in 1..Len(cycles[e].due)
              /\ cycles[d].due[i].threshold = cycles[e].due[j].threshold
          BY <2>2, <4>1
        <4> QED
          BY <4>1, <4>2 DEF ToldApart
      <3>3. CASE d = c /\ e # c
        <4>1. cycles'[d].due[i].threshold \in crossed
          BY <1>5, <1>7, <3>3
        <4>2. cycles'[e].due[j].threshold \in fired
          BY <1>6, <1>9, <3>3
        <4> QED
          BY <1>3, <2>2, <4>1, <4>2
      <3>4. CASE d # c /\ e = c
        <4>1. cycles'[e].due[j].threshold \in crossed
          BY <1>5, <1>7, <3>4
        <4>2. cycles'[d].due[i].threshold \in fired
          BY <1>6, <1>9, <3>4
        <4> QED
          BY <1>3, <2>2, <4>1, <4>2
      <3> QED
        BY <3>1, <3>2, <3>3, <3>4
    <2>3. ASSUME NEW i \in 1..Len(alerts'), NEW d \in 1..Len(cycles'),
                 NEW j \in 1..Len(cycles'[d].due)
          PROVE  alerts'[i].threshold # cycles'[d].due[j].threshold
      <3>1. CASE d = c
        <4>1. cycles'[d].due[j].threshold \in crossed
          BY <1>5, <1>7, <3>1
        <4> QED
          BY <1>2, <1>3, <1>10, <4>1
      <3>2. CASE d # c
        BY <1>2, <1>6, <3>2 DEF ToldApart
      <3> QED
        BY <3>1, <3>2
    <2> QED
      BY <2>1, <2>2, <2>3 DEF ToldApart
  <1>12. ToldReached'
    <2>1. \A t \in Thresholds : t \in Nat
      BY <1>3
    <2>2. fired = {t \in Thresholds : setup.capped /\ t <= spent}
      BY DEF ToldReached
    <2>3. fired' = {t \in Thresholds : setup'.capped /\ t <= spent'}
      <3>1. \A t \in Thresholds : t \in fired' <=> setup.capped /\ t <= spent'
        BY <1>2, <1>3, <2>1, <2>2
      <3>2. fired' \subseteq Thresholds
        BY <1>2, <1>3, <2>2
      <3> QED
        BY <1>2, <3>1, <3>2
    <2>4. \A a \in Alert : Reached(a) => Reached(a)'
      BY <1>2 DEF Reached, Alert
    <2>5. \A i \in 1..Len(alerts) : alerts[i] \in Alert
      BY ElementOfSeq DEF Types
    <2>6. \A i \in 1..Len(alerts') : Reached(alerts[i])'
      <3> SUFFICES ASSUME NEW i \in 1..Len(alerts) PROVE Reached(alerts[i])'
        BY <1>2
      <3>1. Reached(alerts[i]) /\ alerts[i] \in Alert
        BY <2>5 DEF ToldReached
      <3> QED
        BY <1>2, <3>1 DEF Reached, Alert
    <2>7. ASSUME NEW d \in 1..Len(cycles'), NEW i \in 1..Len(cycles'[d].due)
          PROVE  Reached(cycles[d].due[i])'
      <3>1. CASE d = c
        <4>1. /\ cycles'[d].due[i].threshold \in crossed /\ cycles'[d].due[i].spent = spent'
          BY <1>5, <1>7, <3>1
        <4>2. cycles'[d].due[i].threshold <= spent'
          BY <1>2, <1>3, <4>1
        <4> QED
          BY <1>2, <4>1, <4>2 DEF Reached
      <3>2. CASE d # c
        <4>1. cycles'[d] = cycles[d] /\ d \in 1..Len(cycles)
          BY <1>6, <3>2
        <4>2. cycles[d].due \in Seq(Alert)
          BY <4>1, CyclesFunction DEF Cycle
        <4>3. cycles[d].due[i] \in Alert /\ Reached(cycles[d].due[i])
          BY <4>1, <4>2, ElementOfSeq DEF ToldReached
        <4> QED
          BY <1>2, <4>1, <4>3 DEF Reached, Alert
      <3> QED
        BY <3>1, <3>2
    <2>8. ASSUME NEW t \in fired'
          PROVE  \/ \E i \in 1..Len(alerts') : alerts'[i].threshold = t
                 \/ \E d \in 1..Len(cycles') : \E i \in 1..Len(cycles'[d].due) :
                      cycles'[d].due[i].threshold = t
      <3>1. CASE t \in crossed
        <4>1. \E i \in 1..Len(cycles'[c].due) : cycles'[c].due[i].threshold = t
          BY <1>5, <1>7, <3>1
        <4>2. c \in 1..Len(cycles')
          BY <1>6
        <4> QED
          BY <4>1, <4>2
      <3>2. CASE t \in fired
        <4>1. CASE \E i \in 1..Len(alerts) : alerts[i].threshold = t
          BY <1>2, <4>1
        <4>2. CASE \E d \in 1..Len(cycles) : \E i \in 1..Len(cycles[d].due) :
                     cycles[d].due[i].threshold = t
          <5>1. PICK d \in 1..Len(cycles) : \E i \in 1..Len(cycles[d].due) :
                     cycles[d].due[i].threshold = t
            BY <4>2
          <5>2. d # c
            <6>1. cycles[c].due = <<>> /\ Len(<<>>) = 0
              BY <1>4 DEF AlertsDue
            <6> QED
              BY <5>1, <6>1
          <5> QED
            BY <1>6, <5>1, <5>2
        <4> QED
          BY <3>2, <4>1, <4>2 DEF ToldReached
      <3> QED
        BY <1>2, <3>1, <3>2
    <2> QED
      BY <2>3, <2>6, <2>7, <2>8 DEF ToldReached
  <1> QED
    BY <1>8, <1>11, <1>12

(* Deliver: the first alert a cycle owes moves behind those delivered.      *)
LEMMA ToldWhenDelivered ==
  ASSUME Types, AlertsDue, ToldApart, ToldReached, NEW c \in 1..Len(cycles), Deliver(c)
  PROVE  AlertsDue' /\ ToldApart' /\ ToldReached'
  <1> DEFINE due == cycles[c].due
             m == Len(due)
             h == Len(alerts)
  <1>1. PICK p \in {"ended", "alerting"} :
          /\ p = "ended" <=> Len(cycles[c].due) = 1
          /\ CycleBecomes(c, [cycles[c] EXCEPT !.due = Tail(cycles[c].due), !.phase = p])
    BY DeliverEffect
  <1>2. /\ due # <<>> /\ alerts' = Append(alerts, Head(due)) /\ Head(due) \in Alert
        /\ UNCHANGED <<setup, fired, spent>>
    BY DeliverEffect DEF Deliver
  <1>3. cycles[c] \in Cycle /\ due \in Seq(Alert) /\ alerts \in Seq(Alert)
    BY CyclesFunction DEF Cycle, Types
  <1>4. /\ m \in Nat /\ m >= 1 /\ Len(Tail(due)) = m - 1
        /\ \A i \in 1..(m - 1) : Tail(due)[i] = due[i + 1]
        /\ Head(due) = due[1] /\ Tail(due) \in Seq(Alert)
    <2>1. m \in Nat \ {0}
      BY <1>2, <1>3, EmptySeq
    <2>2. Len(Tail(due)) = m - 1 /\ \A i \in 1..Len(Tail(due)) : Tail(due)[i] = due[i + 1]
      BY <1>2, <1>3, HeadTailProperties
    <2>3. Tail(due) \in Seq(Alert)
      BY <1>2, <1>3, HeadTailProperties
    <2>4. Head(due) = due[1]
      BY <1>3 
    <2> QED
      BY <2>1, <2>2, <2>3, <2>4
  <1>5. /\ h \in Nat /\ Len(alerts') = h + 1 /\ alerts'[h + 1] = due[1]
        /\ \A i \in 1..h : alerts'[i] = alerts[i]
    <2>1. h \in Nat
      BY <1>3, LenProperties
    <2>2. /\ Len(alerts') = h + 1 /\ alerts'[h + 1] = Head(due)
          /\ \A i \in 1..h : alerts'[i] = alerts[i]
      BY <1>2, <1>3, AppendProperties
    <2> QED
      BY <1>4, <2>1, <2>2
  <1>6. cycles'[c].due = Tail(due) /\ cycles'[c].phase = p
    BY <1>1, <1>3 DEF CycleBecomes, Cycle
  <1>7. /\ Len(cycles') = Len(cycles)
        /\ \A d \in 1..Len(cycles) : d # c => cycles'[d] = cycles[d]
    BY <1>1 DEF CycleBecomes
  <1>8. 1..(h + 1) = 1..h \cup {h + 1} /\ h + 1 \notin 1..h
    BY <1>5
  (* Where what is owed after the step was before it. *)
  <1>9. \A i \in 1..(m - 1) : i + 1 \in 1..m /\ i + 1 # 1
    BY <1>4
  <1>10. Len(cycles'[c].due) = m - 1 /\ \A i \in 1..(m - 1) : cycles'[c].due[i] = due[i + 1]
    BY <1>4, <1>6
  <1>11. 1 \in 1..m /\ \A i \in 1..m : i = 1 \/ (i - 1 \in 1..(m - 1) /\ (i - 1) + 1 = i)
    BY <1>4
  <1>12. AlertsDue'
    <2>1. p = "alerting" => Tail(due) # <<>>
      <3>1. p = "alerting" => m # 1
        BY <1>1
      <3>2. m # 1 => Len(Tail(due)) # 0
        BY <1>4
      <3>3. Len(<<>>) = 0
        OBVIOUS
      <3> QED
        BY <3>1, <3>2, <3>3, Zenon
    <2>2. p # "alerting" => Tail(due) = <<>>
      <3>1. p # "alerting" => m = 1
        BY <1>1
      <3>2. Len(Tail(due)) = 0 => Tail(due) = <<>>
        BY <1>4, EmptySeq
      <3> QED
        BY <1>4, <3>1, <3>2
    <2>3. ASSUME NEW d \in 1..Len(cycles'), cycles'[d].phase # "alerting"
          PROVE  cycles'[d].due = <<>>
      BY <1>6, <1>7, <2>2, <2>3 DEF AlertsDue
    <2>4. ASSUME NEW d \in 1..Len(cycles'), cycles'[d].phase = "alerting"
          PROVE  cycles'[d].due # <<>>
      BY <1>6, <1>7, <2>1, <2>4 DEF AlertsDue
    <2> QED
      BY <2>3, <2>4 DEF AlertsDue
  <1> HIDE DEF h, m, due
  <1>13. ToldApart'
    <2>1. \A i \in 1..h : alerts[i].threshold # due[1].threshold
      BY <1>11 DEF ToldApart, h, due, m
    <2>2. ASSUME NEW i \in 1..Len(alerts'), NEW j \in 1..Len(alerts'),
                 alerts'[i].threshold = alerts'[j].threshold
          PROVE  i = j
      <3>1. CASE i \in 1..h /\ j \in 1..h
        BY <1>5, <2>2, <3>1 DEF ToldApart, h
      <3>2. CASE i = h + 1 /\ j \in 1..h
        BY <1>5, <2>1, <2>2, <3>2
      <3>3. CASE i \in 1..h /\ j = h + 1
        BY <1>5, <2>1, <2>2, <3>3
      <3>4. CASE i = h + 1 /\ j = h + 1
        BY <3>4
      <3> QED
        BY <1>5, <1>8, <3>1, <3>2, <3>3, <3>4
    <2>3. ASSUME NEW d \in 1..Len(cycles'), NEW e \in 1..Len(cycles'),
                 NEW i \in 1..Len(cycles'[d].due), NEW j \in 1..Len(cycles'[e].due),
                 cycles'[d].due[i].threshold = cycles'[e].due[j].threshold
          PROVE  d = e /\ i = j
      <3>1. CASE d = c /\ e = c
        <4>1. /\ i \in 1..(m - 1) /\ j \in 1..(m - 1)
              /\ due[i + 1].threshold = due[j + 1].threshold
          BY <1>10, <2>3, <3>1
        <4>2. i + 1 = j + 1
          BY <1>9, <4>1 DEF ToldApart, due, m
        <4> QED
          BY <1>4, <3>1, <4>1, <4>2
      <3>2. CASE d # c /\ e # c
        BY <1>7, <2>3, <3>2 DEF ToldApart
      <3>3. CASE d = c /\ e # c
        <4>1. i \in 1..(m - 1) /\ cycles'[d].due[i] = due[i + 1]
          BY <1>10, <3>3
        <4>2. cycles'[e] = cycles[e] /\ e \in 1..Len(cycles)
          BY <1>7, <3>3
        <4>3. i + 1 \in 1..Len(cycles[c].due) /\ j \in 1..Len(cycles[e].due)
          BY <1>9, <4>1, <4>2 DEF due, m
        <4>4. cycles[c].due[i + 1].threshold = cycles[e].due[j].threshold
          BY <2>3, <3>3, <4>1, <4>2 DEF due
        <4>5. c = e
          BY <4>2, <4>3, <4>4 DEF ToldApart
        <4> QED
          BY <3>3, <4>5
      <3>4. CASE d # c /\ e = c
        <4>1. j \in 1..(m - 1) /\ cycles'[e].due[j] = due[j + 1]
          BY <1>10, <3>4
        <4>2. cycles'[d] = cycles[d] /\ d \in 1..Len(cycles)
          BY <1>7, <3>4
        <4>3. j + 1 \in 1..Len(cycles[c].due) /\ i \in 1..Len(cycles[d].due)
          BY <1>9, <4>1, <4>2 DEF due, m
        <4>4. cycles[c].due[j + 1].threshold = cycles[d].due[i].threshold
          BY <2>3, <3>4, <4>1, <4>2 DEF due
        <4>5. c = d
          BY <4>2, <4>3, <4>4 DEF ToldApart
        <4> QED
          BY <3>4, <4>5
      <3> QED
        BY <3>1, <3>2, <3>3, <3>4
    <2>4. ASSUME NEW i \in 1..Len(alerts'), NEW d \in 1..Len(cycles'),
                 NEW j \in 1..Len(cycles'[d].due)
          PROVE  alerts'[i].threshold # cycles'[d].due[j].threshold
      <3>1. CASE i \in 1..h /\ d = c
        <4>1. j \in 1..(m - 1) /\ cycles'[d].due[j] = due[j + 1]
          BY <1>10, <3>1
        <4> QED
          BY <1>5, <1>9, <3>1, <4>1 DEF ToldApart, due, m, h
      <3>2. CASE i \in 1..h /\ d # c
        BY <1>5, <1>7, <3>2 DEF ToldApart, h
      <3>3. CASE i = h + 1 /\ d = c
        <4>1. j \in 1..(m - 1) /\ cycles'[d].due[j] = due[j + 1]
          BY <1>10, <3>3
        <4> QED
          BY <1>5, <1>9, <1>11, <3>3, <4>1 DEF ToldApart, due, m
      <3>4. CASE i = h + 1 /\ d # c
        <4>1. cycles'[d] = cycles[d] /\ d \in 1..Len(cycles)
          BY <1>7, <3>4
        <4> QED
          BY <1>5, <1>11, <3>4, <4>1 DEF ToldApart, due, m
      <3> QED
        BY <1>5, <1>8, <3>1, <3>2, <3>3, <3>4
    <2> QED
      BY <2>2, <2>3, <2>4 DEF ToldApart
  <1>14. ToldReached'
    <2>1. \A i \in 1..m : Reached(due[i])
      BY DEF ToldReached, due, m
    <2>2. ASSUME NEW i \in 1..Len(alerts')
          PROVE  Reached(alerts[i])'
      <3>1. CASE i \in 1..h
        <4>1. Reached(alerts[i])
          BY <3>1 DEF ToldReached, h
        <4> QED
          BY <1>2, <1>5, <3>1, <4>1 DEF Reached
      <3>2. CASE i = h + 1
        <4>1. Reached(due[1])
          BY <1>11, <2>1
        <4> QED
          BY <1>2, <1>5, <3>2, <4>1 DEF Reached
      <3> QED
        BY <1>5, <1>8, <3>1, <3>2
    <2>3. ASSUME NEW d \in 1..Len(cycles'), NEW i \in 1..Len(cycles'[d].due)
          PROVE  Reached(cycles[d].due[i])'
      <3>1. CASE d = c
        <4>1. i \in 1..(m - 1) /\ cycles'[d].due[i] = due[i + 1]
          BY <1>10, <3>1
        <4>2. Reached(due[i + 1])
          BY <1>9, <2>1, <4>1
        <4> QED
          BY <1>2, <4>1, <4>2 DEF Reached
      <3>2. CASE d # c
        <4>1. cycles'[d] = cycles[d] /\ d \in 1..Len(cycles)
          BY <1>7, <3>2
        <4>2. Reached(cycles[d].due[i])
          BY <4>1 DEF ToldReached
        <4> QED
          BY <1>2, <4>1, <4>2 DEF Reached
      <3> QED
        BY <3>1, <3>2
    <2>4. ASSUME NEW t \in fired'
          PROVE  \/ \E i \in 1..Len(alerts') : alerts'[i].threshold = t
                 \/ \E d \in 1..Len(cycles') : \E i \in 1..Len(cycles'[d].due) :
                      cycles'[d].due[i].threshold = t
      <3>1. CASE \E i \in 1..Len(alerts) : alerts[i].threshold = t
        BY <1>5, <1>8, <3>1 DEF h
      <3>2. CASE \E d \in 1..Len(cycles) : \E i \in 1..Len(cycles[d].due) :
                   cycles[d].due[i].threshold = t
        <4>0. PICK d \in 1..Len(cycles) : \E i \in 1..Len(cycles[d].due) :
                 cycles[d].due[i].threshold = t
          BY <3>2
        <4>1. PICK i \in 1..Len(cycles[d].due) : cycles[d].due[i].threshold = t
          BY <4>0
        <4>2. CASE d # c
          BY <1>7, <4>1, <4>2
        <4>3. CASE d = c /\ i = 1
          BY <1>5, <1>8, <4>1, <4>3 DEF due
        <4>4. CASE d = c /\ i # 1
          <5>1. i \in 1..m /\ due[i].threshold = t
            BY <4>1, <4>4 DEF due, m
          <5>2. i - 1 \in 1..(m - 1) /\ (i - 1) + 1 = i
            BY <1>11, <4>4, <5>1
          <5>3. cycles'[c].due[i - 1] = due[i] /\ i - 1 \in 1..Len(cycles'[c].due)
            BY <1>10, <5>2
          <5> QED
            BY <1>7, <5>1, <5>3
        <4> QED
          BY <4>2, <4>3, <4>4
      <3> QED
        BY <1>2, <3>1, <3>2 DEF ToldReached
    <2>5. fired' = {t \in Thresholds : setup'.capped /\ t <= spent'}
      BY <1>2 DEF ToldReached
    <2> QED
      BY <2>2, <2>3, <2>4, <2>5 DEF ToldReached
  <1> QED
    BY <1>12, <1>13, <1>14

LEMMA ToldStep ==
  ASSUME SpendingIInv, [SpendingNext]_spendingVars
  PROVE  AlertsDue' /\ ToldApart' /\ ToldReached'
  <1>1. /\ Types /\ AlertsDue /\ ToldApart /\ ToldReached
        /\ \A c \in 1..Len(cycles) : cycles[c] \in Cycle
    BY CyclesFunction DEF SpendingIInv
  <1>2. CASE ReasonBegins
    <2>1. DuesKept
      BY <1>1, <1>2, ReasonBeginsEffect, DuesWhenCycleBegins
    <2> QED
      BY <1>1, <1>2, <2>1, ToldKept DEF ReasonBegins, budgetVars
  <1>3. ASSUME NEW parent \in {0} \cup At("running"), Spawn(parent)
        PROVE  AlertsDue' /\ ToldApart' /\ ToldReached'
    <2>1. UNCHANGED cycles => DuesKept
      BY DEF DuesKept
    <2>2. Joins(Fresh("subagent")) => DuesKept
      BY <1>1, DuesWhenCycleJoins
    <2>3. DuesKept
      BY <1>1, <1>3, <2>1, <2>2, SpawnEffect
    <2> QED
      BY <1>1, <1>3, <2>3, ToldKept DEF Spawn, budgetVars
  <1>4. ASSUME NEW c \in 1..Len(cycles), SubagentBegins(c)
        PROVE  AlertsDue' /\ ToldApart' /\ ToldReached'
    <2>1. DuesKept
      BY <1>1, <1>4, SubagentBeginsEffect, DuesWhenCycleBegins
    <2> QED
      BY <1>1, <1>4, <2>1, ToldKept DEF SubagentBegins, budgetVars
  <1>5. ASSUME NEW c \in 1..Len(cycles), Completes(c)
        PROVE  AlertsDue' /\ ToldApart' /\ ToldReached'
    <2>1. DuesKept
      BY <1>5 DEF Completes, DuesKept
    <2> QED
      BY <1>1, <1>5, <2>1, ToldKept DEF Completes, budgetVars
  <1>6. ASSUME NEW c \in 1..Len(cycles), RecordUsage(c)
        PROVE  AlertsDue' /\ ToldApart' /\ ToldReached'
    <2>1. PICK p \in {"charging", "ended"} :
            CycleBecomes(c, [cycles[c] EXCEPT !.usage = cycleCalls(c), !.phase = p])
      BY <1>1, <1>6, RecordUsageEffect
    <2> DEFINE r == [cycles[c] EXCEPT !.usage = cycleCalls(c), !.phase = p]
    <2>2. r.due = cycles[c].due /\ r.phase = p
      BY <1>1 DEF Cycle
    <2>3. cycles[c].phase = "running"
      BY <1>6 DEF RecordUsage, At
    <2> HIDE DEF r
    <2>4. CycleBecomes(c, r)
      BY <2>1 DEF r
    <2>5. DuesKept
      BY <2>2, <2>3, <2>4, DuesWhenCycleChanges
    <2> QED
      BY <1>1, <1>6, <2>5, ToldKept DEF RecordUsage, budgetVars
  <1>7. ASSUME NEW c \in 1..Len(cycles), Add(c)
        PROVE  AlertsDue' /\ ToldApart' /\ ToldReached'
    BY <1>1, <1>7, ToldWhenAdded
  <1>8. ASSUME NEW c \in 1..Len(cycles), Deliver(c)
        PROVE  AlertsDue' /\ ToldApart' /\ ToldReached'
    BY <1>1, <1>8, ToldWhenDelivered
  <1>9. CASE UNCHANGED spendingVars
    <2>1. DuesKept
      BY <1>9 DEF spendingVars, DuesKept
    <2> QED
      BY <1>1, <1>9, <2>1, ToldKept DEF spendingVars, budgetVars
  <1> QED
    BY <1>2, <1>3, <1>4, <1>5, <1>6, <1>7, <1>8, <1>9 DEF SpendingNext

------------------------------------------------------------------------------
(* Spend *)

LEMMA CalledFinite ==
  ASSUME Types
  PROVE  /\ IsFiniteSet(1..Len(history))
         /\ IsFiniteSet(Called) /\ Cardinality(Called) \in Nat
  <1>1. Len(history) \in Nat
    BY LenProperties DEF Types
  <1>2. IsFiniteSet(1..Len(history))
    BY <1>1, FS_Interval
  <1>3. Called \in SUBSET (1..Len(history))
    BY DEF Called
  <1> QED
    BY <1>2, <1>3, FS_Subset, FS_CardinalityType

(* Nothing more is charged. *)
LEMMA ChargesKept ==
  ASSUME Charges, UNCHANGED <<setup, spent>>, Called' = Called, NoneMet' => NoneMet,
         \A c \in At("charging")' : cycles'[c].of = "desk",
         \A c \in At("reserved")' : cycles'[c].met = {}
  PROVE  Charges'
  BY DEF Charges

LEMMA ChargesWhenCycleBegins ==
  ASSUME Types, Charges, NEW c, CycleBegins(c), UNCHANGED <<setup, history, spent>>
  PROVE  Charges'
  <1>1. \A d \in 1..Len(cycles) : cycles[d] \in Cycle /\ (d \in At("running") <=> cycles[d].phase = "running")
    BY CyclesFunction DEF At
  <1>2. ASSUME NEW d \in At("running")
        PROVE  /\ cycles'[d].phase = "running" /\ cycles'[d].met = cycles[d].met \cup {c}
               /\ d \in 1..Len(cycles') /\ d # c
    <2>1. cycles'[d] = [cycles[d] EXCEPT !.met = @ \cup {c}] /\ cycles[d] \in Cycle /\ d \in 1..Len(cycles)
      BY <1>1 DEF CycleBegins, At
    <2>2. cycles'[d].phase = "running" /\ cycles'[d].met = cycles[d].met \cup {c}
      BY <1>1, <2>1 DEF Cycle
    <2> QED
      BY <1>1, <2>1, <2>2 DEF CycleBegins
  <1>3. \A d \in 1..Len(cycles) : d \notin At("running") /\ d # c => cycles'[d] = cycles[d]
    BY DEF CycleBegins
  <1>4. cycles'[c].phase = "running" /\ 1..Len(cycles') = 1..Len(cycles) \cup {c}
        /\ (c \in 1..Len(cycles) => cycles[c].phase = "reserved")
    BY DEF CycleBegins
  <1>5. \A d \in 1..Len(cycles') : cycles'[d].phase # "running" =>
          d \in 1..Len(cycles) /\ cycles'[d] = cycles[d]
    BY <1>2, <1>3, <1>4
  <1>6. \A d \in 1..Len(cycles) : cycles[d].phase \notin {"running", "reserved"} =>
          d \in 1..Len(cycles') /\ cycles'[d] = cycles[d]
    BY <1>1, <1>3, <1>4
  <1>7. Charged' = Charged
    BY <1>5, <1>6 DEF Charged, At
  <1>8. Called' = Called
    BY <1>7 DEF Called
  <1>9. NoneMet' => NoneMet
    <2> SUFFICES ASSUME NoneMet', NEW d \in 1..Len(cycles) PROVE cycles[d].met = {}
      BY DEF NoneMet
    <2>1. cycles'[d].met = {}
      BY <1>4 DEF NoneMet
    <2>2. CASE d \in At("running")
      BY <1>2, <2>1, <2>2
    <2>3. CASE d = c
      BY <1>4, <2>3 DEF Charges, At
    <2>4. CASE d \notin At("running") /\ d # c
      BY <1>3, <2>1, <2>4
    <2> QED
      BY <2>2, <2>3, <2>4
  <1>10. \A d \in At("charging")' : cycles'[d].of = "desk"
    BY <1>5 DEF Charges, At
  <1>11. \A d \in At("reserved")' : cycles'[d].met = {}
    BY <1>5 DEF Charges, At
  <1> QED
    BY <1>8, <1>9, <1>10, <1>11, ChargesKept

LEMMA ChargesWhenCycleJoins ==
  ASSUME Types, Charges, Joins(Fresh("subagent")), UNCHANGED <<setup, history, spent>>
  PROVE  Charges'
  <1> DEFINE n == Len(cycles)
  <1>1. /\ n \in Nat /\ Len(cycles') = n + 1
        /\ cycles'[n + 1].phase = "reserved" /\ cycles'[n + 1].met = {}
        /\ \A d \in 1..n : cycles'[d] = cycles[d]
    BY CyclesFunction DEF CyclesAs, Joins, Fresh
  <1>2. 1..(n + 1) = 1..n \cup {n + 1}
    BY <1>1
  <1>3. Charged' = Charged
    BY <1>1, <1>2 DEF Charged, At
  <1>4. Called' = Called
    BY <1>3 DEF Called
  <1>5. NoneMet' => NoneMet
    BY <1>1, <1>2 DEF NoneMet
  <1>6. \A d \in At("charging")' : cycles'[d].of = "desk"
    BY <1>1, <1>2 DEF Charges, At
  <1>7. \A d \in At("reserved")' : cycles'[d].met = {}
    BY <1>1, <1>2 DEF Charges, At
  <1> QED
    BY <1>4, <1>5, <1>6, <1>7, ChargesKept

LEMMA ChargesWhenCycleCalls ==
  ASSUME Types, Charges, NEW b, Completes(b)
  PROVE  Charges'
  <1> DEFINE h == Len(history)
  <1>1. /\ h \in Nat /\ history' = Append(history, b) /\ UNCHANGED <<cycles, setup, spent>>
        /\ b \in At("running") /\ b \in Nat
    <2>1. Len(cycles) \in Nat /\ h \in Nat
      BY LenProperties DEF Types
    <2> QED
      BY <2>1 DEF Completes, At, budgetVars
  <1>2. /\ Len(history') = h + 1 /\ history'[h + 1] = b
        /\ \A k \in 1..h : history'[k] = history[k]
    BY <1>1, AppendProperties DEF Types
  <1>3. 1..(h + 1) = 1..h \cup {h + 1}
    BY <1>1
  <1>4. Charged' = Charged /\ b \notin Charged
    BY <1>1 DEF Charged, At
  <1>5. Called' = Called
    BY <1>2, <1>3, <1>4 DEF Called
  <1> QED
    BY <1>1, <1>5, ChargesKept DEF Charges, NoneMet, At

(* One more cycle is charged for. *)
LEMMA OneMoreCharged ==
  ASSUME Types, NEW c, Charged' = Charged \cup {c}, c \notin Charged, UNCHANGED history
  PROVE  /\ Called' = Called \cup By(c, history)
         /\ Cardinality(Called') = Cardinality(Called) + Cardinality(By(c, history))
  <1>1. Called' = Called \cup By(c, history)
    BY DEF Called, By
  <1>2. Called \cap By(c, history) = {}
    BY DEF Called, By
  <1>3. /\ IsFiniteSet(Called) /\ Cardinality(Called) \in Nat
        /\ IsFiniteSet(By(c, history)) /\ Cardinality(By(c, history)) \in Nat
    BY CalledFinite, ByFinite DEF Types
  <1>4. Cardinality(Called \cup By(c, history)) =
          Cardinality(Called) + Cardinality(By(c, history)) - Cardinality({})
    BY <1>2, <1>3, FS_Union
  <1>5. Cardinality({}) = 0
    BY FS_EmptySet
  <1> QED
    BY <1>1, <1>3, <1>4, <1>5

(* The calls of a cycle in a usage are no more than the usage is long.      *)
LEMMA ByWithin ==
  ASSUME NEW calls \in Seq(Nat), NEW c
  PROVE  /\ Cardinality(By(c, calls)) <= Len(calls)
         /\ ToSet(calls) \subseteq {c} => Cardinality(By(c, calls)) = Len(calls)
  <1>1. Len(calls) \in Nat /\ DOMAIN calls = 1..Len(calls)
    BY LenProperties
  <1>2. IsFiniteSet(1..Len(calls)) /\ Cardinality(1..Len(calls)) = Len(calls)
    <2>1. \A n \in Nat : IsFiniteSet(1..n) /\ Cardinality(1..n) = IF 1 > n THEN 0 ELSE n - 1 + 1
      BY FS_Interval
    <2>2. \A n \in Nat : IsFiniteSet(1..n) /\ Cardinality(1..n) = n
      BY <2>1
    <2> QED
      BY <1>1, <2>2
  <1>3. By(c, calls) \in SUBSET (1..Len(calls))
    BY DEF By
  <1>4. ToSet(calls) \subseteq {c} => By(c, calls) = 1..Len(calls)
    BY <1>1 DEF By, ToSet
  <1>5. Cardinality(By(c, calls)) <= Cardinality(1..Len(calls))
    BY <1>2, <1>3, FS_Subset
  <1> QED
    BY <1>2, <1>4, <1>5

LEMMA ChargesWhenRecorded ==
  ASSUME Types, CallsMade, Charges, NEW c \in 1..Len(cycles), RecordUsage(c)
  PROVE  Charges'
  <1> DEFINE u == cycleCalls(c)
  <1>1. PICK p \in {"charging", "ended"} :
          /\ CycleBecomes(c, [cycles[c] EXCEPT !.usage = u, !.phase = p])
          /\ p = "charging" <=> cycles[c].of = "desk" /\ Dollars(u) > 0
    BY RecordUsageEffect
  <1>2. /\ c \in At("running") /\ cycles[c] \in Cycle /\ cycles[c].phase = "running"
        /\ UNCHANGED <<setup, history, spent>>
    BY CyclesFunction DEF RecordUsage, At, budgetVars
  <1>3. u \in Seq(Nat) /\ Cardinality(By(c, u)) = Cardinality(By(c, history))
    BY <1>2, UsageOfCycle
  <1> HIDE DEF u
  <1>4. /\ cycles'[c].phase = p /\ cycles'[c].of = cycles[c].of /\ cycles'[c].met = cycles[c].met
        /\ Len(cycles') = Len(cycles)
        /\ \A d \in 1..Len(cycles) : d # c => cycles'[d] = cycles[d]
    BY <1>1, <1>2 DEF CycleBecomes, Cycle
  <1>5. NoneMet' => NoneMet
    BY <1>4 DEF NoneMet
  <1>6. \A d \in At("charging")' : cycles'[d].of = "desk"
    BY <1>1, <1>4 DEF Charges, At
  <1>7. \A d \in At("reserved")' : cycles'[d].met = {}
    BY <1>4 DEF Charges, At
  <1>8. c \notin Charged
    BY <1>2 DEF Charged, At
  <1>9. CASE p = "charging" \/ cycles[c].of # "desk"
    <2>1. Charged' = Charged
      BY <1>2, <1>4, <1>9 DEF Charged, At
    <2>2. Called' = Called
      BY <1>2, <1>4, <2>1 DEF Called
    <2> QED
      BY <1>2, <1>5, <1>6, <1>7, <2>2, ChargesKept
  <1>10. CASE p = "ended" /\ cycles[c].of = "desk"
    <2>1. Charged' = Charged \cup {c}
      BY <1>4, <1>10 DEF Charged, At
    <2>2. CASE setup.priced
      <3>1. Len(u) \in Nat /\ ~ (Dollars(u) > 0)
        BY <1>1, <1>3, <1>10, LenProperties
      <3>2. Len(u) = 0
        BY <2>2, <3>1 DEF Dollars
      <3>3. By(c, u) = {}
        BY <3>2 DEF By
      <3>4. IsFiniteSet(By(c, history)) /\ Cardinality(By(c, history)) = 0
        BY <1>3, <3>3, FS_EmptySet, ByFinite DEF Types
      <3>5. By(c, history) = {}
        BY <3>4, FS_EmptySet
      <3>6. Called' = Called
        BY <1>2, <1>8, <2>1, <3>5, OneMoreCharged
      <3> QED
        BY <1>2, <1>5, <1>6, <1>7, <3>6, ChargesKept
    <2>3. CASE ~setup.priced
      BY <1>2, <1>6, <1>7, <2>3 DEF Charges
    <2> QED
      BY <2>2, <2>3
  <1> QED
    BY <1>9, <1>10

LEMMA ChargesWhenAdded ==
  ASSUME Types, UsageCoversCycle, Charges, NEW c \in 1..Len(cycles), Add(c)
  PROVE  Charges'
  <1> DEFINE u == cycles[c].usage
  <1>1. PICK due \in Seq(Alert), p \in {"ended", "alerting"} :
            CycleBecomes(c, [cycles[c] EXCEPT !.due = due, !.phase = p])
    BY AddEffect
  <1>2. /\ c \in At("charging") /\ cycles[c] \in Cycle /\ cycles[c].phase = "charging"
        /\ UNCHANGED <<setup, history>>
    BY CyclesFunction DEF Add, At
  <1>3. /\ cycles'[c].phase = p /\ cycles'[c].of = cycles[c].of /\ cycles'[c].met = cycles[c].met
        /\ Len(cycles') = Len(cycles)
        /\ \A d \in 1..Len(cycles) : d # c => cycles'[d] = cycles[d]
    BY <1>1, <1>2 DEF CycleBecomes, Cycle
  <1>4. spent' = spent + Dollars(u) /\ spent \in Nat
    BY DEF Add, Types
  <1>5. u \in Seq(Nat) /\ Len(u) \in Nat
    <2>1. u \in Seq(Nat)
      BY <1>2 DEF Cycle
    <2> QED
      BY <2>1, LenProperties
  <1>6. NoneMet' => NoneMet
    BY <1>3 DEF NoneMet
  <1>7. \A d \in At("charging")' : cycles'[d].of = "desk"
    BY <1>1, <1>3 DEF Charges, At
  <1>8. \A d \in At("reserved")' : cycles'[d].met = {}
    BY <1>3 DEF Charges, At
  <1>9. Charged' = Charged \cup {c} /\ c \notin Charged
    <2>1. cycles[c].of = "desk"
      BY <1>2 DEF Charges
    <2> QED
      BY <1>2, <1>3, <2>1 DEF Charged, At
  <1>10. /\ Cardinality(By(c, u)) = Cardinality(By(c, history))
         /\ ToSet(u) \subseteq {c} \cup cycles[c].met
    BY <1>2 DEF UsageCoversCycle, Accounted
  <1> HIDE DEF u
  <1>11. /\ Cardinality(Called') = Cardinality(Called) + Cardinality(By(c, u))
         /\ Cardinality(Called) \in Nat /\ Cardinality(By(c, u)) \in Nat
    BY <1>2, <1>5, <1>9, <1>10, OneMoreCharged, CalledFinite, ByFinite
  <1>12. Cardinality(By(c, u)) <= Len(u)
    BY <1>5, ByWithin
  <1>13. NoneMet => Cardinality(By(c, u)) = Len(u)
    <2>1. NoneMet => ToSet(u) \subseteq {c}
      BY <1>10 DEF NoneMet
    <2> QED
      BY <1>5, <2>1, ByWithin
  <1>14. CASE setup.priced
    <2>1. spent' = spent + Len(u)
      BY <1>4, <1>14 DEF Dollars
    <2>2. spent >= Cardinality(Called) /\ (NoneMet => spent = Cardinality(Called))
      BY <1>14 DEF Charges
    <2>3. spent' >= Cardinality(Called')
      BY <1>4, <1>5, <1>11, <1>12, <2>1, <2>2
    <2>4. NoneMet' => spent' = Cardinality(Called')
      BY <1>4, <1>6, <1>11, <1>13, <2>1, <2>2
    <2> QED
      BY <1>2, <1>7, <1>8, <1>14, <2>3, <2>4 DEF Charges
  <1>15. CASE ~setup.priced
    <2>1. spent' = 0
      BY <1>4, <1>15 DEF Charges, Dollars
    <2> QED
      BY <1>2, <1>7, <1>8, <1>15, <2>1 DEF Charges
  <1> QED
    BY <1>14, <1>15

LEMMA ChargesWhenDelivered ==
  ASSUME Types, AlertsDue, Charges, NEW c \in 1..Len(cycles), Deliver(c)
  PROVE  Charges'
  <1>1. PICK p \in {"ended", "alerting"} :
          CycleBecomes(c, [cycles[c] EXCEPT !.due = Tail(cycles[c].due), !.phase = p])
    BY DeliverEffect
  <1>2. /\ cycles[c] \in Cycle /\ cycles[c].phase = "alerting"
        /\ UNCHANGED <<setup, history, spent>>
    BY CyclesFunction DEF Deliver, At
  <1>3. /\ cycles'[c].phase = p /\ cycles'[c].of = cycles[c].of /\ cycles'[c].met = cycles[c].met
        /\ Len(cycles') = Len(cycles)
        /\ \A d \in 1..Len(cycles) : d # c => cycles'[d] = cycles[d]
    BY <1>1, <1>2 DEF CycleBecomes, Cycle
  <1>4. Charged' = Charged
    BY <1>2, <1>3 DEF Charged, At
  <1>5. Called' = Called
    BY <1>2, <1>4 DEF Called
  <1>6. NoneMet' => NoneMet
    BY <1>3 DEF NoneMet
  <1>7. \A d \in At("charging")' : cycles'[d].of = "desk"
    BY <1>1, <1>3 DEF Charges, At
  <1>8. \A d \in At("reserved")' : cycles'[d].met = {}
    BY <1>3 DEF Charges, At
  <1> QED
    BY <1>2, <1>5, <1>6, <1>7, <1>8, ChargesKept

LEMMA ChargesStep ==
  ASSUME SpendingIInv, [SpendingNext]_spendingVars
  PROVE  Charges'
  <1>1. Types /\ AlertsDue /\ CallsMade /\ UsageCoversCycle /\ Charges
    BY DEF SpendingIInv
  <1>2. CASE ReasonBegins
    BY <1>1, <1>2, ReasonBeginsEffect, ChargesWhenCycleBegins DEF ReasonBegins, budgetVars
  <1>3. ASSUME NEW parent \in {0} \cup At("running"), Spawn(parent)
        PROVE  Charges'
    <2>1. UNCHANGED <<setup, history, spent>>
      BY <1>3 DEF Spawn, budgetVars
    <2>2. CASE Joins(Fresh("subagent"))
      BY <1>1, <2>1, <2>2, ChargesWhenCycleJoins
    <2>3. CASE UNCHANGED cycles
      <3>1. Called' = Called
        BY <2>1, <2>3 DEF Called, Charged, At
      <3> QED
        BY <1>1, <2>1, <2>3, <3>1, ChargesKept DEF Charges, NoneMet, At
    <2> QED
      BY <1>1, <1>3, <2>2, <2>3, SpawnEffect
  <1>4. ASSUME NEW c \in 1..Len(cycles), SubagentBegins(c)
        PROVE  Charges'
    BY <1>1, <1>4, SubagentBeginsEffect, ChargesWhenCycleBegins DEF SubagentBegins, budgetVars
  <1>5. ASSUME NEW c \in 1..Len(cycles), Completes(c)
        PROVE  Charges'
    BY <1>1, <1>5, ChargesWhenCycleCalls
  <1>6. ASSUME NEW c \in 1..Len(cycles), RecordUsage(c)
        PROVE  Charges'
    BY <1>1, <1>6, ChargesWhenRecorded
  <1>7. ASSUME NEW c \in 1..Len(cycles), Add(c)
        PROVE  Charges'
    BY <1>1, <1>7, ChargesWhenAdded
  <1>8. ASSUME NEW c \in 1..Len(cycles), Deliver(c)
        PROVE  Charges'
    BY <1>1, <1>8, ChargesWhenDelivered
  <1>9. CASE UNCHANGED spendingVars
    <2>1. UNCHANGED <<setup, history, cycles, spent>>
      BY <1>9 DEF spendingVars, budgetVars
    <2>2. Called' = Called
      BY <2>1 DEF Called, Charged, At
    <2> QED
      BY <1>1, <2>1, <2>2, ChargesKept DEF Charges, NoneMet, At
  <1> QED
    BY <1>2, <1>3, <1>4, <1>5, <1>6, <1>7, <1>8, <1>9 DEF SpendingNext

------------------------------------------------------------------------------
(* What the invariant says of the alerts, place by place, holds of them all *)
(* in one sequence.                                                        *)

LEMMA BudgetFromInvariant ==
  ASSUME SpendingIInv
  PROVE  BudgetTellsSpend
  <1> DEFINE dues == [c \in 1..Len(cycles) |-> cycles[c].due]
             due  == FlattenSeq(dues)
             said == alerts \o due
             h    == Len(alerts)
             d    == Len(due)
  <1>1. /\ Types /\ ToldApart /\ ToldReached /\ Charges
        /\ alerts \in Seq(Alert) /\ Len(cycles) \in Nat
    BY CyclesFunction DEF SpendingIInv, Types, CyclesAs
  <1>2. /\ dues \in Seq(Seq(Alert)) /\ Len(dues) = Len(cycles)
        /\ \A c \in 1..Len(cycles) : dues[c] = cycles[c].due
    <2>1. \A c \in 1..Len(cycles) : cycles[c].due \in Seq(Alert)
      BY <1>1, CyclesFunction DEF Cycle
    <2>2. dues \in [1..Len(cycles) -> Seq(Alert)]
      BY <2>1
    <2>3. \A c \in 1..Len(cycles) : dues[c] = cycles[c].due
      OBVIOUS
    <2> HIDE DEF dues
    <2>4. dues \in Seq(Seq(Alert)) /\ Len(dues) = Len(cycles)
      BY <1>1, <2>2, FunctionIsSeq
    <2> QED
      BY <2>3, <2>4
  <1> HIDE DEF dues
  <1>3. due \in Seq(Alert) /\ \E outer, inner : Places(due, dues, Len(cycles), outer, inner)
    BY <1>2, FlattenSeqPlaces
  <1>4. ToSet(due) = UNION {ToSet(dues[c]) : c \in 1..Len(cycles)}
    BY <1>2, FlattenSeqElements
  <1> HIDE DEF due
  <1>5. PICK outer, inner : Places(due, dues, Len(cycles), outer, inner)
    BY <1>3
  <1>6. /\ \A k \in 1..d : /\ outer[k] \in 1..Len(cycles)
                           /\ inner[k] \in 1..Len(cycles[outer[k]].due)
                           /\ due[k] = cycles[outer[k]].due[inner[k]]
        /\ \A k, l \in 1..d : outer[k] = outer[l] /\ inner[k] = inner[l] => k = l
    BY <1>2, <1>5 DEF Places
  <1>7. /\ h \in Nat /\ d \in Nat /\ said \in Seq(Alert) /\ Len(said) = h + d
        /\ \A k \in 1..(h + d) : said[k] = IF k <= h THEN alerts[k] ELSE due[k - h]
    BY <1>1, <1>3, ConcatProperties, LenProperties
  <1> HIDE DEF said, h, d
  <1>8. \A k \in 1..(h + d) :
          \/ k \in 1..h /\ said[k] = alerts[k]
          \/ k \notin 1..h /\ k - h \in 1..d /\ said[k] = due[k - h]
    BY <1>7
  <1>9. ASSUME NEW k \in 1..(h + d), NEW m \in 1..(h + d), said[k].threshold = said[m].threshold
        PROVE  k = m
    <2>1. CASE k \in 1..h /\ m \in 1..h
      BY <1>1, <1>8, <1>9, <2>1 DEF ToldApart, h
    <2>2. CASE k \notin 1..h /\ m \notin 1..h
      <3>1. /\ k - h \in 1..d /\ m - h \in 1..d
            /\ due[k - h].threshold = due[m - h].threshold
        BY <1>8, <1>9, <2>2
      <3>2. outer[k - h] = outer[m - h] /\ inner[k - h] = inner[m - h]
        <4>1. /\ outer[k - h] \in 1..Len(cycles) /\ inner[k - h] \in 1..Len(cycles[outer[k - h]].due)
              /\ due[k - h] = cycles[outer[k - h]].due[inner[k - h]]
          BY <1>6, <3>1
        <4>2. /\ outer[m - h] \in 1..Len(cycles) /\ inner[m - h] \in 1..Len(cycles[outer[m - h]].due)
              /\ due[m - h] = cycles[outer[m - h]].due[inner[m - h]]
          BY <1>6, <3>1
        <4>3. cycles[outer[k - h]].due[inner[k - h]].threshold =
                cycles[outer[m - h]].due[inner[m - h]].threshold
          BY <3>1, <4>1, <4>2
        <4>4. \A b, c \in 1..Len(cycles) :
                \A i \in 1..Len(cycles[b].due), j \in 1..Len(cycles[c].due) :
                  cycles[b].due[i].threshold = cycles[c].due[j].threshold => b = c /\ i = j
          BY <1>1 DEF ToldApart
        <4>5. PICK b \in 1..Len(cycles) : b = outer[k - h]
          BY <4>1
        <4>6. PICK c \in 1..Len(cycles) : c = outer[m - h]
          BY <4>2
        <4>7. PICK i \in 1..Len(cycles[b].due) : i = inner[k - h]
          BY <4>1, <4>5
        <4>8. PICK j \in 1..Len(cycles[c].due) : j = inner[m - h]
          BY <4>2, <4>6
        <4>9. cycles[b].due[i].threshold = cycles[c].due[j].threshold
          BY <4>3, <4>5, <4>6, <4>7, <4>8
        <4>10. b = c /\ i = j
          BY <4>4, <4>9
        <4> QED
          BY <4>5, <4>6, <4>7, <4>8, <4>10
      <3>3. k - h = m - h
        BY <1>6, <3>1, <3>2
      <3> QED
        BY <1>7, <3>3
    <2>3. CASE k \in 1..h /\ m \notin 1..h
      <3>1. m - h \in 1..d /\ alerts[k].threshold = due[m - h].threshold
        BY <1>8, <1>9, <2>3
      <3>2. /\ outer[m - h] \in 1..Len(cycles) /\ inner[m - h] \in 1..Len(cycles[outer[m - h]].due)
            /\ due[m - h] = cycles[outer[m - h]].due[inner[m - h]]
        BY <1>6, <3>1
      <3> QED
        BY <1>1, <2>3, <3>1, <3>2, SMTT(30) DEF ToldApart, h
    <2>4. CASE k \notin 1..h /\ m \in 1..h
      <3>1. k - h \in 1..d /\ alerts[m].threshold = due[k - h].threshold
        BY <1>8, <1>9, <2>4
      <3>2. /\ outer[k - h] \in 1..Len(cycles) /\ inner[k - h] \in 1..Len(cycles[outer[k - h]].due)
            /\ due[k - h] = cycles[outer[k - h]].due[inner[k - h]]
        BY <1>6, <3>1
      <3> QED
        BY <1>1, <2>4, <3>1, <3>2, SMTT(30) DEF ToldApart, h
    <2> QED
      BY <2>1, <2>2, <2>3, <2>4
  <1>10. \A k \in 1..(h + d) : Reached(said[k])
    <2> SUFFICES ASSUME NEW k \in 1..(h + d) PROVE Reached(said[k])
      OBVIOUS
    <2>1. CASE k \in 1..h
      BY <1>1, <1>8, <2>1 DEF ToldReached, h
    <2>2. CASE k \notin 1..h
      <3>1. k - h \in 1..d /\ said[k] = due[k - h]
        BY <1>8, <2>2
      <3>2. Reached(due[k - h])
        BY <1>1, <1>6, <3>1 DEF ToldReached
      <3> QED
        BY <3>1, <3>2
    <2> QED
      BY <2>1, <2>2
  <1>11. ASSUME NEW t \in fired
         PROVE  \E k \in 1..(h + d) : said[k].threshold = t
    <2>1. CASE \E i \in 1..Len(alerts) : alerts[i].threshold = t
      <3>1. PICK i \in 1..h : alerts[i].threshold = t
        BY <2>1 DEF h
      <3>2. i \in 1..(h + d) /\ said[i] = alerts[i]
        BY <1>7, <3>1
      <3> QED
        BY <3>1, <3>2
    <2>2. CASE \E c \in 1..Len(cycles) : \E i \in 1..Len(cycles[c].due) :
                 cycles[c].due[i].threshold = t
      <3>1. PICK c \in 1..Len(cycles) : \E i \in 1..Len(cycles[c].due) :
                 cycles[c].due[i].threshold = t
        BY <2>2
      <3>2. PICK i \in 1..Len(cycles[c].due) : cycles[c].due[i].threshold = t
        BY <3>1
      <3>3. cycles[c].due[i] \in ToSet(dues[c])
        <4>1. dues[c] = cycles[c].due /\ DOMAIN dues[c] = 1..Len(cycles[c].due)
          BY <1>2, LenProperties
        <4> QED
          BY <4>1 DEF ToSet
      <3>4. cycles[c].due[i] \in ToSet(due)
        BY <1>4, <3>3
      <3>5. PICK k \in 1..d : due[k] = cycles[c].due[i]
        BY <1>3, <3>4, LenProperties DEF ToSet, d
      <3>6. h + k \in 1..(h + d) /\ ~ (h + k <= h) /\ (h + k) - h = k
        BY <1>7
      <3>7. said[h + k] = due[k]
        BY <1>7, <3>6
      <3> QED
        BY <3>2, <3>5, <3>6, <3>7
    <2> QED
      BY <1>1, <2>1, <2>2 DEF ToldReached
  <1>12. {said[k].threshold : k \in 1..Len(said)} = {t \in Thresholds : setup.capped /\ t <= spent}
    <2>1. \A k \in 1..Len(said) : said[k].threshold \in fired
      BY <1>7, <1>10 DEF Reached
    <2>2. \A t \in fired : \E k \in 1..Len(said) : said[k].threshold = t
      BY <1>7, <1>11
    <2>3. {said[k].threshold : k \in 1..Len(said)} = fired
      BY <2>1, <2>2
    <2> QED
      BY <1>1, <2>3 DEF ToldReached
  <1>13. \A k \in 1..Len(said) : said[k].threshold <= said[k].spent /\ said[k].spent <= spent
    BY <1>7, <1>10 DEF Reached
  <1>14. \A k, m \in 1..Len(said) : said[k].threshold = said[m].threshold => k = m
    BY <1>7, <1>9
  <1>15. IF ~setup.priced THEN spent = 0
         ELSE /\ spent >= Cardinality(Called)
              /\ (\A c \in 1..Len(cycles) : cycles[c].met = {}) => spent = Cardinality(Called)
    BY <1>1 DEF Charges, NoneMet
  <1> QED
    BY <1>12, <1>13, <1>14, <1>15 DEF BudgetTellsSpend, Called, Charged, said, due, dues

------------------------------------------------------------------------------
(* Theorems *)

LEMMA SpendingInvariantInit ==
  ASSUME SpendingInit
  PROVE  SpendingIInv
  <1>1. /\ Len(cycles) = 0 /\ Len(history) = 0 /\ Len(alerts) = 0 /\ Len(spawned) = 0
        /\ cycles = <<>> /\ 1..0 = {}
    BY DEF SpendingInit
  <1>2. Types
    BY SpendingAssumption, EmptySeq DEF SpendingInit, Types
  <1>3. \A phase : At(phase) = {}
    BY <1>1 DEF At
  <1>4. CallsMade
    BY <1>1, <1>3 DEF CallsMade
  <1>5. UsageCoversCycle
    BY <1>3 DEF UsageCoversCycle, Accounted
  <1>6. SpawnsWithinLimit
    <2>1. {c \in 1..Len(cycles) : cycles[c].of = "subagent"} = {} /\ Cardinality({}) = 0
      BY <1>1, FS_EmptySet
    <2>2. setup.subagents \in {"unconfigured", "enabled", "disabled"}
      BY DEF SpendingInit, Wirings
    <2>3. Len(spawned) = Cardinality({c \in 1..Len(cycles) : cycles[c].of = "subagent"})
      BY <1>1, <2>1
    <2>4. spawned = <<>> /\ denials = {} /\ Len(spawned) <= Limit
      BY <1>1, SpendingAssumption DEF SpendingInit
    <2>5. CASE setup.subagents = "disabled"
      BY <2>3, <2>4, <2>5 DEF SpawnsWithinLimit
    <2>6. CASE setup.subagents = "unconfigured"
      BY <2>3, <2>4, <2>6 DEF SpawnsWithinLimit
    <2>7. CASE setup.subagents = "enabled"
      BY <2>3, <2>4, <2>7 DEF SpawnsWithinLimit
    <2> QED
      BY <2>2, <2>5, <2>6, <2>7
  <1>7. AlertsDue /\ ToldApart
    BY <1>1 DEF AlertsDue, ToldApart
  <1>8. ToldReached
    <2>1. \A t \in Thresholds : t \in Nat \ {0}
      BY SpendingAssumption
    <2>2. fired = {} /\ spent = 0
      BY DEF SpendingInit
    <2>3. fired = {t \in Thresholds : setup.capped /\ t <= spent}
      <3>1. \A t \in Thresholds : ~ (t <= spent)
        BY <2>1, <2>2
      <3> QED
        BY <2>2, <3>1
    <2> QED
      BY <1>1, <2>2, <2>3 DEF ToldReached
  <1>9. Charges
    <2>1. Called = {} /\ Cardinality({}) = 0
      BY <1>1, FS_EmptySet DEF Called
    <2> QED
      BY <1>3, <2>1 DEF Charges, SpendingInit
  <1> QED
    BY <1>2, <1>4, <1>5, <1>6, <1>7, <1>8, <1>9 DEF SpendingIInv

LEMMA SpendingInvariantStep ==
  ASSUME SpendingIInv, [SpendingNext]_spendingVars
  PROVE  SpendingIInv'
  BY TypesStep, CallsMadeStep, UsageStep, SpawnsStep, ToldStep, ChargesStep DEF SpendingIInv

(* The cycles, their calls, what they were charged for and the alerts that   *)
(* came of it keep the invariant, on whatever goroutines they interleave   *)
(* (runtime.go:203-341, budget.go:56-82, spawner.go:55-66).                *)
THEOREM SpendingInvariance == SpendingSpec => []SpendingIInv
  <1>1. SpendingInit => SpendingIInv
    BY SpendingInvariantInit
  <1>2. SpendingIInv /\ [SpendingNext]_spendingVars => SpendingIInv'
    BY SpendingInvariantStep
  <1> QED
    BY <1>1, <1>2, PTL DEF SpendingSpec

(* Every usage record has all the calls of its cycle and no call of a cycle *)
(* it did not meet (recordUsage, runtime.go:255-341).                      *)
THEOREM UsageIsCovered == SpendingSpec => []UsageCoversCycle
  <1>1. SpendingIInv => UsageCoversCycle
    BY DEF SpendingIInv
  <1> QED
    BY <1>1, SpendingInvariance, PTL

(* Each threshold the spend has reached is told once, whichever cycle       *)
(* crosses it and however the deliveries interleave, and the spend covers  *)
(* what was called (BudgetMonitor.Add, budget.go:56-82).                   *)
THEOREM ThresholdsToldOnce == SpendingSpec => []BudgetTellsSpend
  <1>1. SpendingIInv => BudgetTellsSpend
    BY BudgetFromInvariant
  <1> QED
    BY <1>1, SpendingInvariance, PTL

(* Nested and concurrent spawns stay within the limit (Spawner.Spawn,       *)
(* spawner.go:51-66).                                                      *)
THEOREM SpawnsAreLimited == SpendingSpec => []SpawnsWithinLimit
  <1>1. SpendingIInv => SpawnsWithinLimit
    BY DEF SpendingIInv
  <1> QED
    BY <1>1, SpendingInvariance, PTL

------------------------------------------------------------------------------
(* The authority envelopes: the inductive invariant *)

(* Who changes an agent's envelope changes one that is there, and a blob    *)
(* that is being written holds no pointer.                                 *)
OperatorState ==
  \A o \in Operator :
    /\ op[o].at = "signing" => /\ op[o].agent \in Agent
                               /\ registry[op[o].agent] \in Envelope
    /\ op[o].at = "writing" => \A a \in Agent : op[o].list[a] # Current

(* A gate that has not answered looks at an envelope: the agent's, or the   *)
(* one that was the agent's until it was replaced.                         *)
Looking(g) == gate[g].at \in {"standing", "signature", "again", "judge"}

GateState ==
  \A g \in Gate : Looking(g) =>
    /\ gate[g].agent \in Agent /\ gate[g].scope \in Scope
    /\ registry[gate[g].agent] \in Envelope
    /\ gate[g].envelope \in Envelope \cup {Current}

(* What the registry granted or withheld at a moment of the gate counts:    *)
(* both the envelope the gate looks at and the one the agent has now were   *)
(* the registry's at such a moment.                                        *)
Seen(g, env) ==
  /\ Grants(env, gate[g].scope, gate[g].offline) => gate[g].granted
  /\ Withholds(env, gate[g].scope, gate[g].offline) => gate[g].withheld

Remembered ==
  \A g \in Gate : Looking(g) => Seen(g, Held(g)) /\ Seen(g, registry[gate[g].agent])

(* What each place of the gate has established.  Past the standing, its     *)
(* envelope was in good standing at some moment, so that it was granted if  *)
(* what it covers, which never changes, has what is asked.                 *)
Established ==
  \A g \in Gate :
    /\ gate[g].at = "signature" =>
         ((gate[g].offline => gate[g].scope \in Held(g).covers) => gate[g].granted)
    /\ Looking(g) /\ (gate[g].look = "facts" \/ gate[g].at \in {"again", "judge"}) =>
         (~gate[g].offline => gate[g].granted)
    /\ gate[g].at = "judge" /\ gate[g].offline =>
         IF gate[g].fits THEN gate[g].granted ELSE gate[g].withheld

GateInv == GateState /\ Remembered /\ Established /\ RuledByTheRegistry

AuthorityIInv == AuthorityTypeOK /\ OperatorState /\ GateInv

(* A transition that runs alone: what it collected is the registry, and so  *)
(* is the blob it writes.                                                  *)
Alone(o) == ~overlapped /\ op[o].at # "idle"

OneAtATime ==
  /\ \A o, p \in Operator : Alone(o) /\ Alone(p) => o = p
  /\ \A o \in Operator : Alone(o) =>
       /\ ~op[o].mixed
       /\ op[o].at \in {"marshal", "writing"} =>
            \A a \in Agent : op[o].list[a] \in {Current, registry[a]}

InTurn == Quiet /\ ~overlapped => Saved \/ ending # "done"

SavedInv == OneAtATime /\ InTurn

(* What can still reach the blob: the registry itself, and the copies that  *)
(* operators have taken of it, are no older than the last transition that   *)
(* ran alone and was written.                                              *)
Recent ==
  /\ \A a \in Agent : registry[a] \in since[a]
  /\ \A o \in Operator : op[o].at \in {"marshal", "writing"} =>
       \A a \in Agent : op[o].list[a] \in {Current} \cup since[a]
  /\ disk.whole => \A a \in Agent : disk.blob[a] \in since[a]

------------------------------------------------------------------------------
(* Values *)

OpType   == [at : OpPC, agent : Agent \cup {Nobody}, list : [Agent -> Pointer], mixed : BOOLEAN]
GateType == [at : GatePC, agent : Agent \cup {Nobody},
             scope : Scope \cup {"none"}, look : {"floor", "facts"},
             envelope : Pointer, offline : BOOLEAN, fits : BOOLEAN,
             granted : BOOLEAN, withheld : BOOLEAN]

(* What is registered, what is missing and what is pointed to differ. *)
LEMMA Envelopes ==
  /\ NoEnvelope \notin Envelope /\ Current \notin Registered /\ NoEnvelope # Current
  /\ Current \notin Envelope
  /\ Envelope \subseteq Registered /\ Registered \subseteq Pointer
  /\ NoEnvelope \in Registered /\ Current \in Pointer
  /\ \A env \in Envelope : env.status \in Standing
  BY DEF NoEnvelope, Envelope, Current, Registered, Pointer, Standing

LEMMA Idles ==
  /\ EmptyBlob \in [Agent -> Registered]
  /\ IdleOp \in OpType /\ IdleOp.at = "idle" /\ ~IdleOp.mixed
  /\ IdleGate \in GateType /\ IdleGate.at = "idle"
  <1>1. EmptyBlob \in [Agent -> Registered] /\ EmptyBlob \in [Agent -> Pointer]
    BY DEF EmptyBlob, Registered, Pointer
  <1>2. IdleGate \in GateType
    BY Envelopes DEF IdleGate, GateType, GatePC
  <1> QED
    BY <1>1, <1>2 DEF IdleOp, OpType, OpPC, IdleGate

(* How a gate in progress sees the registry move. *)
LEMMA WatchedProperties ==
  ASSUME AuthorityTypeOK, GateState, NEW r \in [Agent -> Registered], NEW replaced
  PROVE  /\ Watched(r, replaced) \in [Gate -> GateType]
         /\ \A g \in Gate : ~Looking(g) => Watched(r, replaced)[g] = gate[g]
         /\ \A g \in Gate : Looking(g) =>
              LET w   == Watched(r, replaced)[g]
                  env == r[gate[g].agent]
              IN /\ w.at = gate[g].at /\ w.agent = gate[g].agent
                 /\ w.scope = gate[g].scope /\ w.look = gate[g].look
                 /\ w.offline = gate[g].offline /\ w.fits = gate[g].fits
                 /\ w.granted = (gate[g].granted \/ Grants(env, gate[g].scope, gate[g].offline))
                 /\ w.withheld = (gate[g].withheld \/ Withholds(env, gate[g].scope, gate[g].offline))
                 /\ w.envelope = IF gate[g].agent \in replaced /\ gate[g].envelope = Current
                                 THEN registry[gate[g].agent] ELSE gate[g].envelope
  <1> DEFINE W == Watched(r, replaced)
  <1>1. \A g \in Gate : gate[g] \in GateType
    BY DEF AuthorityTypeOK, GateType
  <1>2. \A g \in Gate : Looking(g) <=> gate[g].at \notin {"idle", "passed", "refused"}
    BY <1>1 DEF GateType, GatePC, Looking
  <1>3. \A g \in Gate : ~Looking(g) => W[g] = gate[g]
    BY <1>2 DEF Watched
  <1>4. ASSUME NEW g \in Gate, Looking(g)
        PROVE  LET env == r[gate[g].agent]
               IN W[g] = [gate[g] EXCEPT
                    !.granted  = @ \/ Grants(env, gate[g].scope, gate[g].offline),
                    !.withheld = @ \/ Withholds(env, gate[g].scope, gate[g].offline),
                    !.envelope = IF gate[g].agent \in replaced /\ @ = Current
                                 THEN registry[gate[g].agent] ELSE @]
    BY <1>2, <1>4 DEF Watched
  <1>5. ASSUME NEW g \in Gate, Looking(g)
        PROVE  /\ Grants(r[gate[g].agent], gate[g].scope, gate[g].offline) \in BOOLEAN
               /\ Withholds(r[gate[g].agent], gate[g].scope, gate[g].offline) \in BOOLEAN
               /\ registry[gate[g].agent] \in Pointer
    BY <1>5, Envelopes DEF Grants, Withholds, GateState
  <1>6. ASSUME NEW g \in Gate
        PROVE  W[g] \in GateType
    <2>1. CASE ~Looking(g)
      BY <1>1, <1>3, <2>1
    <2>2. CASE Looking(g)
      <3> DEFINE env == r[gate[g].agent]
      <3> DEFINE granted == gate[g].granted \/ Grants(env, gate[g].scope, gate[g].offline)
      <3> DEFINE withheld == gate[g].withheld \/ Withholds(env, gate[g].scope, gate[g].offline)
      <3> DEFINE new == IF gate[g].agent \in replaced /\ gate[g].envelope = Current
                        THEN registry[gate[g].agent] ELSE gate[g].envelope
      <3>1. W[g] = [gate[g] EXCEPT !.granted = granted, !.withheld = withheld, !.envelope = new]
        BY <1>4, <2>2
      <3>2. granted \in BOOLEAN /\ withheld \in BOOLEAN
        OBVIOUS
      <3>3. new \in Pointer
        BY <1>1, <1>5, <2>2 DEF GateType
      <3> HIDE DEF granted, withheld, new, W
      <3> QED
        BY <1>1, <3>1, <3>2, <3>3 DEF GateType
    <2> QED
      BY <2>1, <2>2
  <1>7. W \in [Gate -> GateType]
    BY <1>6 DEF Watched
  <1>8. ASSUME NEW g \in Gate, Looking(g)
        PROVE  LET w   == W[g]
                   env == r[gate[g].agent]
               IN /\ w.at = gate[g].at /\ w.agent = gate[g].agent
                  /\ w.scope = gate[g].scope /\ w.look = gate[g].look
                  /\ w.offline = gate[g].offline /\ w.fits = gate[g].fits
                  /\ w.granted = (gate[g].granted \/ Grants(env, gate[g].scope, gate[g].offline))
                  /\ w.withheld = (gate[g].withheld \/ Withholds(env, gate[g].scope, gate[g].offline))
                  /\ w.envelope = IF gate[g].agent \in replaced /\ gate[g].envelope = Current
                                  THEN registry[gate[g].agent] ELSE gate[g].envelope
    <2> HIDE DEF W
    <2> QED
      BY <1>1, <1>4, <1>8, ZenonT(40) DEF GateType
  <1> QED
    BY <1>3, <1>7, <1>8

------------------------------------------------------------------------------
(* Types *)

LEMMA InitTypes == AuthorityInit => AuthorityTypeOK /\ OperatorState
  <1> SUFFICES ASSUME AuthorityInit PROVE AuthorityTypeOK /\ OperatorState
    OBVIOUS
  <1>1. /\ op \in [Operator -> OpType] /\ gate \in [Gate -> GateType]
        /\ registry \in [Agent -> Registered]
        /\ disk \in [blob : [Agent -> Registered], whole : BOOLEAN]
        /\ \A o \in Operator : op[o].at = "idle"
    BY Idles DEF AuthorityInit
  <1>2. transitions \in 0..MaxTransitions /\ mishaps \in 0..MaxMishaps
    BY BoundsAssumption DEF AuthorityInit
  <1>3. \A o \in Operator : op[o].at = "signing" <=> writer = o
    BY <1>1, NamesAssumption DEF AuthorityInit
  <1>4. since \in [Agent -> SUBSET Registered] /\ ending \in Endings
    BY Envelopes DEF AuthorityInit, Endings
  <1> QED
    BY <1>1, <1>2, <1>3, <1>4 DEF AuthorityInit, AuthorityTypeOK, OperatorState, OpType, GateType

(* The registry, once a transition writes to it.  *)
LEMMA RegistryTypes ==
  ASSUME AuthorityTypeOK, OperatorState, NEW o \in Operator,
         \/ \E a \in Agent, covers \in SUBSET Scope : Certify(o, a, covers)
         \/ \E a \in Agent : setStatus(o, a) \/ SetTrust(o, a)
         \/ Sign(o)
  PROVE  /\ registry' \in [Agent -> Registered]
         /\ \A a \in Agent : registry[a] \in Envelope => registry'[a] \in Envelope
         /\ \E replaced \in SUBSET Agent :
              /\ gate' = Watched(registry', replaced)
              /\ \A a \in Agent \ replaced : registry'[a].covers = registry[a].covers
         /\ UNCHANGED persistVars
  <1>1. ASSUME NEW a \in Agent, NEW covers \in SUBSET Scope, Certify(o, a, covers)
        PROVE  /\ registry' \in [Agent -> Registered]
               /\ \A b \in Agent : registry[b] \in Envelope => registry'[b] \in Envelope
               /\ gate' = Watched(registry', {a})
               /\ \A b \in Agent \ {a} : registry'[b].covers = registry[b].covers
               /\ UNCHANGED persistVars
    <2>1. [covers |-> covers, status |-> "active", signature |-> "active"] \in Envelope
      BY DEF Envelope, Standing
    <2> QED
      BY <1>1, <2>1, Envelopes DEF Certify, AuthorityTypeOK
  <1>2. ASSUME NEW a \in Agent, NEW status \in Standing, Mutate(o, a, status)
        PROVE  /\ registry' \in [Agent -> Registered]
               /\ \A b \in Agent : registry[b] \in Envelope => registry'[b] \in Envelope
               /\ gate' = Watched(registry', {})
               /\ \A b \in Agent : registry'[b].covers = registry[b].covers
               /\ UNCHANGED persistVars
    <2>1. registry[a] \in Envelope
      BY <1>2 DEF Mutate, AuthorityTypeOK, Registered
    <2>2. [registry[a] EXCEPT !.status = status] \in Envelope
          /\ [registry[a] EXCEPT !.status = status].covers = registry[a].covers
      BY <2>1 DEF Envelope
    <2>3. registry' = [registry EXCEPT ![a] = [registry[a] EXCEPT !.status = status]]
      BY <1>2 DEF Mutate, AuthorityTypeOK
    <2> QED
      BY <1>2, <2>2, <2>3, Envelopes, ZenonT(40) DEF Mutate, AuthorityTypeOK
  <1>3. ASSUME NEW a \in Agent, SetTrust(o, a)
        PROVE  Mutate(o, a, registry[a].status) /\ registry[a].status \in Standing
    <2>1. registry[a] \in Envelope
      BY <1>3 DEF SetTrust, Mutate, AuthorityTypeOK, Registered
    <2> QED
      BY <1>3, <2>1, Envelopes DEF SetTrust
  <1>4. CASE Sign(o)
    <2> DEFINE a == op[o].agent
    <2>1. a \in Agent /\ registry[a] \in Envelope
      BY <1>4 DEF Sign, OperatorState
    <2>2. [registry[a] EXCEPT !.signature = registry[a].status] \in Envelope
          /\ [registry[a] EXCEPT !.signature = registry[a].status].covers = registry[a].covers
      BY <2>1 DEF Envelope
    <2>3. registry' = [registry EXCEPT ![a] = [registry[a] EXCEPT !.signature = registry[a].status]]
      BY <1>4, <2>1 DEF Sign, AuthorityTypeOK
    <2>4. /\ registry' \in [Agent -> Registered]
          /\ \A b \in Agent : registry[b] \in Envelope => registry'[b] \in Envelope
          /\ \A b \in Agent : registry'[b].covers = registry[b].covers
      BY <2>1, <2>2, <2>3, Envelopes DEF AuthorityTypeOK
    <2>5. gate' = Watched(registry', {}) /\ UNCHANGED persistVars
      BY <1>4 DEF Sign
    <2> QED
      BY <2>4, <2>5
  <1>5. ASSUME NEW a \in Agent, NEW status \in Standing, Mutate(o, a, status)
        PROVE  \E replaced \in SUBSET Agent :
                 /\ gate' = Watched(registry', replaced)
                 /\ \A b \in Agent \ replaced : registry'[b].covers = registry[b].covers
    <2>1. {} \in SUBSET Agent /\ Agent \ {} = Agent
      OBVIOUS
    <2> QED
      BY <1>2, <1>5, <2>1
  <1>6. CASE \E a \in Agent, covers \in SUBSET Scope : Certify(o, a, covers)
    <2>1. PICK a \in Agent, covers \in SUBSET Scope : Certify(o, a, covers)
      BY <1>6
    <2>2. {a} \in SUBSET Agent
      OBVIOUS
    <2> QED
      BY <1>1, <2>1, <2>2
  <1>7. CASE \E a \in Agent : setStatus(o, a) \/ SetTrust(o, a)
    <2>1. PICK a \in Agent, status \in Standing : Mutate(o, a, status)
      BY <1>3, <1>7 DEF setStatus
    <2> QED
      BY <1>2, <1>5, <2>1
  <1> QED
    BY <1>4, <1>6, <1>7

(* What an operator's step makes of the operators. *)
OperatorsOK ==
  /\ op \in [Operator -> OpType] /\ writer \in Operator \cup {Nobody}
  /\ \A o \in Operator : op[o].at = "signing" <=> writer = o
  /\ OperatorState

LEMMA CertifyOperators ==
  ASSUME AuthorityTypeOK, OperatorState, NEW o \in Operator,
         NEW a \in Agent, NEW covers \in SUBSET Scope, Certify(o, a, covers)
  PROVE  OperatorsOK'
  <1>1. op \in [Operator -> OpType] /\ registry[a] \in Pointer /\ registry[a] # Current
    BY Envelopes DEF AuthorityTypeOK, OpType
  <1>2. writer' = Nobody /\ \A p \in Operator : op[p].at # "signing"
    BY NamesAssumption DEF Certify, AuthorityTypeOK
  <1>3. ASSUME NEW p \in Operator, p # o
        PROVE  /\ op'[p] \in OpType /\ op'[p].at = op[p].at
               /\ op[p].at = "writing" => \A b \in Agent : op'[p].list[b] # Current
    <2> DEFINE list == [op[p].list EXCEPT ![a] = IF op[p].list[a] = Current THEN registry[a]
                                                 ELSE op[p].list[a]]
    <2>1. op[p] \in OpType /\ op[p].list \in [Agent -> Pointer]
      BY <1>1 DEF OpType
    <2>2. list \in [Agent -> Pointer]
      BY <1>1, <2>1
    <2>3. op'[p] = [op[p] EXCEPT !.list = list]
      BY <1>3, <2>1 DEF Certify, OpType
    <2>4. op[p].at = "writing" => \A b \in Agent : list[b] # Current
      BY <1>1, <2>1 DEF OperatorState
    <2> HIDE DEF list
    <2> QED
      BY <2>1, <2>2, <2>3, <2>4 DEF OpType
  <1>4. op'[o] \in OpType /\ op'[o].at = "collect"
    <2>1. op'[o] = [IdleOp EXCEPT !.at = "collect"]
      BY DEF Certify
    <2> QED
      BY <2>1, Idles DEF OpType, OpPC
  <1>5. op' \in [Operator -> OpType]
    BY <1>3, <1>4 DEF Certify
  <1>6. OperatorState'
    BY <1>2, <1>3, <1>4 DEF OperatorState
  <1> QED
    BY <1>2, <1>3, <1>4, <1>5, <1>6, NamesAssumption DEF OperatorsOK

LEMMA MutateOperators ==
  ASSUME AuthorityTypeOK, OperatorState, NEW o \in Operator,
         NEW a \in Agent, NEW status \in Standing, Mutate(o, a, status)
  PROVE  OperatorsOK'
  <1>1. writer' = o /\ \A p \in Operator : op[p].at # "signing"
    BY NamesAssumption DEF Mutate, AuthorityTypeOK
  <1>2. [IdleOp EXCEPT !.at = "signing", !.agent = a] \in OpType
    BY Idles DEF OpType, OpPC
  <1>3. /\ op'[o].at = "signing" /\ op'[o].agent = a
        /\ \A p \in Operator : p # o => op'[p] = op[p]
        /\ op' \in [Operator -> OpType]
    BY <1>2, Idles DEF Mutate, AuthorityTypeOK, OpType
  <1>4. registry[a] \in Envelope
    BY DEF Mutate, AuthorityTypeOK, Registered
  <1>5. registry'[a] \in Envelope
    BY <1>4, RegistryTypes DEF setStatus
  <1>6. OperatorState'
    BY <1>1, <1>3, <1>5 DEF OperatorState
  <1> QED
    BY <1>1, <1>3, <1>6 DEF OperatorsOK

LEMMA PersistOperators ==
  ASSUME AuthorityTypeOK, OperatorState, NEW o \in Operator,
         \/ Sign(o) \/ Collect(o) \/ \E a \in Agent : Marshal(o, a)
         \/ WriteTable(o) \/ WriteBegins(o) \/ WriteEnds(o) \/ WriteFails(o)
  PROVE  OperatorsOK'
  <1>1. op \in [Operator -> OpType] /\ op[o] \in OpType
    BY DEF AuthorityTypeOK, OpType
  <1>2. CASE Sign(o)
    <2>1. writer = o /\ writer' = Nobody /\ \A p \in Operator : p # o => op[p].at # "signing"
      BY <1>2 DEF Sign, AuthorityTypeOK
    <2>3. [IdleOp EXCEPT !.at = "collect"] \in OpType
      BY Idles DEF OpType, OpPC
    <2>2. /\ op' \in [Operator -> OpType] /\ op'[o].at = "collect"
          /\ \A p \in Operator : p # o => op'[p] = op[p]
      BY <1>1, <1>2, <2>3, Idles DEF Sign, OpType
    <2> QED
      BY <2>1, <2>2, NamesAssumption DEF OperatorsOK, OperatorState
  <1>3. CASE Collect(o)
    <2> DEFINE list == [a \in Agent |-> IF registry[a] = NoEnvelope THEN NoEnvelope ELSE Current]
    <2>1. list \in [Agent -> Pointer]
      BY Envelopes
    <2>2. op' = [op EXCEPT ![o] = [op[o] EXCEPT !.at = "marshal", !.list = list]]
      BY <1>1, <1>3 DEF Collect
    <2> DEFINE new == [op[o] EXCEPT !.at = "marshal", !.list = list]
    <2> HIDE DEF list
    <2>4. new \in OpType /\ new.at = "marshal"
      BY <1>1, <2>1 DEF OpType, OpPC
    <2> HIDE DEF new
    <2>3. /\ op' \in [Operator -> OpType] /\ op'[o].at = "marshal" /\ op[o].at = "collect"
          /\ \A p \in Operator : p # o => op'[p] = op[p]
      BY <1>1, <1>3, <2>2, <2>4 DEF Collect, new
    <2> QED
      BY <1>3, <2>3 DEF Collect, OperatorsOK, OperatorState, AuthorityTypeOK
  <1>4. ASSUME NEW a \in Agent, Marshal(o, a)
        PROVE  OperatorsOK'
    <2> DEFINE list == [op[o].list EXCEPT ![a] = registry[a]]
    <2>1. list \in [Agent -> Pointer]
      BY <1>1, Envelopes DEF OpType, AuthorityTypeOK
    <2>2. op' = [op EXCEPT ![o] = [op[o] EXCEPT !.list = list]]
      BY <1>1, <1>4 DEF Marshal
    <2> DEFINE new == [op[o] EXCEPT !.list = list]
    <2> HIDE DEF list
    <2>4. new \in OpType /\ new.at = op[o].at
      BY <1>1, <2>1 DEF OpType
    <2> HIDE DEF new
    <2>3. /\ op' \in [Operator -> OpType] /\ op'[o].at = "marshal" /\ op[o].at = "marshal"
          /\ \A p \in Operator : p # o => op'[p] = op[p]
      BY <1>1, <1>4, <2>2, <2>4 DEF Marshal, new
    <2> QED
      BY <1>4, <2>3 DEF Marshal, OperatorsOK, OperatorState, AuthorityTypeOK
  <1>5. CASE WriteBegins(o)
    <2>1. /\ op' \in [Operator -> OpType] /\ op'[o].at = "writing" /\ op'[o].list = op[o].list
          /\ \A p \in Operator : p # o => op'[p] = op[p]
      BY <1>1, <1>5 DEF WriteBegins, OpType, OpPC
    <2> QED
      BY <1>5, <2>1 DEF WriteBegins, Marshalled, OperatorsOK, OperatorState, AuthorityTypeOK
  <1>6. ASSUME NEW failed, PersistEnds(o, failed), op[o].at # "signing"
        PROVE  OperatorsOK'
    <2>1. ASSUME NEW p \in Operator, p # o
          PROVE  /\ op'[p] \in OpType /\ op'[p].at = op[p].at /\ op'[p].agent = op[p].agent
                 /\ op'[p].list = op[p].list
      <3>1. op'[p] = [op[p] EXCEPT !.mixed = @ \/ (op[p].at = "writing" /\ op[o].at = "writing")]
        BY <1>6, <2>1 DEF PersistEnds
      <3> QED
        BY <1>1, <3>1 DEF OpType
    <2>2. op'[o] = IdleOp /\ UNCHANGED <<registry, writer>>
      BY <1>6 DEF PersistEnds
    <2>3. op' \in [Operator -> OpType]
      BY <1>6, <2>1, <2>2, Idles DEF PersistEnds
    <2>4. OperatorState'
      BY <1>6, <2>1, <2>2, Idles DEF OperatorState
    <2>5. \A p \in Operator : op'[p].at = "signing" <=> writer' = p
      BY <1>6, <2>1, <2>2, Idles DEF AuthorityTypeOK
    <2>6. writer' \in Operator \cup {Nobody}
      BY <2>2 DEF AuthorityTypeOK
    <2> QED
      BY <2>3, <2>4, <2>5, <2>6 DEF OperatorsOK
  <1> QED
    BY <1>2, <1>3, <1>4, <1>5, <1>6 DEF WriteTable, WriteEnds, WriteFails, Marshalled

(* A step of a gate concerns its own record alone. *)
LEMMA GateStepTypes ==
  ASSUME AuthorityTypeOK, GateState, NEW g \in Gate, GateStep(g)
  PROVE  /\ gate' \in [Gate -> GateType] /\ \A h \in Gate : h # g => gate'[h] = gate[h]
         /\ GateOnly
  <1>1. gate \in [Gate -> GateType] /\ gate[g] \in GateType
    BY DEF AuthorityTypeOK, GateType
  <1>2. ASSUME NEW new \in GateType, Becomes(g, new)
        PROVE  gate' \in [Gate -> GateType] /\ \A h \in Gate : h # g => gate'[h] = gate[h]
    BY <1>1, <1>2 DEF Becomes
  <1>3. ASSUME NEW a \in Agent, NEW scope \in Scope, NEW offline \in BOOLEAN,
               GateBegins(g, a, scope, offline)
        PROVE  \E new \in GateType : Becomes(g, new)
    <2> DEFINE at == IF registry[a] = NoEnvelope THEN "refused" ELSE "standing"
    <2> DEFINE envelope == IF registry[a] = NoEnvelope THEN NoEnvelope ELSE Current
    <2> DEFINE granted == Grants(registry[a], scope, offline)
    <2> DEFINE withheld == Withholds(registry[a], scope, offline)
    <2> DEFINE new == [IdleGate EXCEPT !.at = at, !.agent = a, !.scope = scope,
                         !.offline = offline, !.envelope = envelope,
                         !.granted = granted, !.withheld = withheld]
    <2>1. at \in GatePC /\ envelope \in Pointer /\ granted \in BOOLEAN /\ withheld \in BOOLEAN
      BY Envelopes DEF GatePC, Grants, Withholds
    <2>2. Becomes(g, new)
      BY <1>3 DEF GateBegins
    <2> HIDE DEF at, envelope, granted, withheld
    <2>3. new \in GateType
      BY <2>1, Idles DEF GateType
    <2> QED
      BY <2>2, <2>3
  <1>4. /\ \A at \in GatePC : [gate[g] EXCEPT !.at = at] \in GateType
        /\ \A fits \in BOOLEAN : [gate[g] EXCEPT !.at = "judge", !.fits = fits] \in GateType
        /\ [gate[g] EXCEPT !.at = "standing", !.look = "facts", !.envelope = Current] \in GateType
    BY <1>1, Envelopes DEF GateType, GatePC
  <1>5. CASE ReadStanding(g) \/ ReadSignature(g)
    <2>1. Fails(g) => \E new \in GateType : Becomes(g, new)
      BY <1>4 DEF Fails, GatePC
    <2>2. (gate[g].scope \in Held(g).covers) \in BOOLEAN
      OBVIOUS
    <2> QED
      BY <1>2, <1>4, <1>5, <2>1, <2>2 DEF ReadStanding, ReadSignature, GatePC
  <1>6. CASE GetAgain(g) \/ Judge(g) \/ GateReturns(g)
    BY <1>2, <1>4, <1>6, Idles DEF GetAgain, Judge, GateReturns, GatePC
  <1>7. GateOnly
    BY DEF GateStep, GateBegins, ReadStanding, ReadSignature, GetAgain, Judge, GateReturns
  <1> QED
    BY <1>2, <1>3, <1>5, <1>6, <1>7 DEF GateStep

(* What an operator's step leaves or writes: the registry and the gates, or *)
(* the blob, and its own counters.                                         *)
RegistryStep(o) ==
  \/ \E a \in Agent, covers \in SUBSET Scope : Certify(o, a, covers)
  \/ \E a \in Agent : setStatus(o, a) \/ SetTrust(o, a)
  \/ Sign(o)

BlobStep(o) ==
  \/ Collect(o) \/ \E a \in Agent : Marshal(o, a)
  \/ WriteTable(o) \/ WriteBegins(o) \/ WriteEnds(o) \/ WriteFails(o)

LEMMA OperatorStepSplit ==
  ASSUME NEW o \in Operator
  PROVE  OperatorStep(o) <=> RegistryStep(o) \/ BlobStep(o)
  BY DEF OperatorStep, RegistryStep, BlobStep

LEMMA OperatorTypes ==
  ASSUME AuthorityTypeOK, OperatorState, NEW o \in Operator, OperatorStep(o)
  PROVE  OperatorsOK'
  <1>1. ASSUME NEW a \in Agent, SetTrust(o, a)
        PROVE  OperatorsOK'
    <2>1. registry[a].status \in Standing
      BY <1>1, Envelopes DEF SetTrust, Mutate, AuthorityTypeOK, Registered
    <2> QED
      BY <1>1, <2>1, MutateOperators DEF SetTrust
  <1> QED
    BY <1>1, CertifyOperators, MutateOperators, PersistOperators DEF OperatorStep, setStatus

LEMMA BlobTypes ==
  ASSUME AuthorityTypeOK, OperatorState, NEW o \in Operator, BlobStep(o)
  PROVE  /\ UNCHANGED <<registry, log, gate, backend, transitions, overlapped>>
         /\ disk' \in [blob : [Agent -> Registered], whole : BOOLEAN]
         /\ mishaps' \in 0..MaxMishaps /\ ending' \in Endings
         /\ since' \in [Agent -> SUBSET Registered]
  <1> USE DEF persistVars, historyVars
  <1>1. op[o] \in OpType
    BY DEF AuthorityTypeOK, OpType
  <1>2. ASSUME Marshalled(o) \/ op[o].at = "writing"
        PROVE  op[o].list \in [Agent -> Registered]
    <2>1. op[o].list \in [Agent -> Pointer] /\ \A a \in Agent : op[o].list[a] # Current
      BY <1>1, <1>2 DEF OpType, Marshalled, OperatorState
    <2> QED
      BY <2>1 DEF Pointer
  <1>3. UNCHANGED <<registry, log, gate, backend, transitions, overlapped>>
    BY DEF BlobStep, Collect, Marshal, WriteTable, WriteBegins, WriteEnds, WriteFails, PersistEnds
  <1>4. mishaps' \in 0..MaxMishaps
    <2>1. mishaps' = mishaps \/ (mishaps < MaxMishaps /\ mishaps' = mishaps + 1)
      BY DEF BlobStep, Collect, Marshal, WriteTable, WriteBegins, WriteEnds, WriteFails
    <2> QED
      BY <2>1, BoundsAssumption DEF AuthorityTypeOK
  <1>5. ending' \in Endings
    BY DEF BlobStep, Collect, Marshal, WriteTable, WriteBegins, WriteEnds,
           WriteFails, PersistEnds, AuthorityTypeOK, Endings
  <1>8. since' \in [Agent -> SUBSET Registered]
    <2>1. UNCHANGED since \/ since' = [a \in Agent |-> {registry[a]}]
      BY DEF BlobStep, Collect, Marshal, WriteTable, WriteBegins, WriteEnds,
             WriteFails, PersistEnds, Settles
    <2> QED
      BY <2>1 DEF AuthorityTypeOK
  <1>7. EmptyBlob \in [Agent -> Registered]
    BY Idles
  <1>6. disk' \in [blob : [Agent -> Registered], whole : BOOLEAN]
    <2>1. CASE WriteTable(o)
      <3>1. op[o].list \in [Agent -> Registered] /\ disk' = [blob |-> op[o].list, whole |-> TRUE]
        BY <1>2, <2>1 DEF WriteTable
      <3> QED
        BY <3>1
    <2>2. CASE WriteBegins(o)
      BY <2>2, Idles DEF WriteBegins
    <2>3. CASE WriteEnds(o)
      <3>1. op[o].list \in [Agent -> Registered]
        BY <1>2, <2>3 DEF WriteEnds
      <3>2. \/ disk' = [blob |-> op[o].list, whole |-> TRUE]
            \/ disk' = [blob |-> EmptyBlob, whole |-> FALSE]
        BY <2>3 DEF WriteEnds
      <3> QED
        <4>1. [blob |-> op[o].list, whole |-> TRUE] \in [blob : [Agent -> Registered], whole : BOOLEAN]
          BY <3>1
        <4>2. [blob |-> EmptyBlob, whole |-> FALSE] \in [blob : [Agent -> Registered], whole : BOOLEAN]
          BY <1>7
        <4> QED
          BY <3>2, <4>1, <4>2, Zenon
    <2>4. CASE Collect(o) \/ (\E a \in Agent : Marshal(o, a)) \/ WriteFails(o)
      <3>1. UNCHANGED disk
        BY <2>4 DEF Collect, Marshal, WriteFails
      <3> QED
        BY <3>1 DEF AuthorityTypeOK
    <2> QED
      BY <2>1, <2>2, <2>3, <2>4 DEF BlobStep
  <1> QED
    BY <1>3, <1>4, <1>5, <1>6, <1>8

(* What a step that writes to the registry notes, and what it makes of the  *)
(* copies that others hold.                                                *)
LEMMA RegistryNotes ==
  ASSUME AuthorityTypeOK, OperatorState, NEW o \in Operator, RegistryStep(o)
  PROVE  /\ \E a \in Agent : /\ since' = [since EXCEPT ![a] = @ \cup {registry'[a]}]
                             /\ \A b \in Agent : b # a => registry'[b] = registry[b]
         /\ \A p \in Operator : op'[p].at \in {"marshal", "writing"} =>
              /\ op'[p].at = op[p].at
              /\ \A b \in Agent : op'[p].list[b] \in {op[p].list[b], registry[b]}
         /\ UNCHANGED disk
  <1>1. op \in [Operator -> OpType]
    BY DEF AuthorityTypeOK, OpType
  <1> DEFINE Copies == \A p \in Operator : op'[p].at \in {"marshal", "writing"} =>
                         /\ op'[p].at = op[p].at
                         /\ \A b \in Agent : op'[p].list[b] \in {op[p].list[b], registry[b]}
  <1> DEFINE Noted == \E a \in Agent : /\ since' = [since EXCEPT ![a] = @ \cup {registry'[a]}]
                                       /\ \A b \in Agent : b # a => registry'[b] = registry[b]
  <1>2. ASSUME NEW a \in Agent, NEW covers \in SUBSET Scope, Certify(o, a, covers)
        PROVE  Copies /\ Noted
    <2>1. Noted
      BY <1>2 DEF Certify, Notes, AuthorityTypeOK
    <2>2. op'[o].at = "collect"
      <3>1. op'[o] = [IdleOp EXCEPT !.at = "collect"]
        BY <1>2 DEF Certify
      <3> QED
        BY <3>1, Idles DEF OpType
    <2>3. ASSUME NEW p \in Operator, p # o
          PROVE  /\ op'[p].at = op[p].at
                 /\ \A b \in Agent : op'[p].list[b] \in {op[p].list[b], registry[b]}
      <3>1. op'[p] = [op[p] EXCEPT !.list[a] = IF @ = Current THEN registry[a] ELSE @]
        BY <1>2, <2>3 DEF Certify
      <3> QED
        BY <1>1, <3>1 DEF OpType
    <2> QED
      BY <2>1, <2>2, <2>3
  <1>3. ASSUME NEW a \in Agent, NEW status, Mutate(o, a, status)
        PROVE  Copies /\ Noted
    <2>1. Noted
      BY <1>3 DEF Mutate, Notes, AuthorityTypeOK
    <2>2. op' = [op EXCEPT ![o] = [IdleOp EXCEPT !.at = "signing", !.agent = a]]
      BY <1>3 DEF Mutate
    <2>3. op'[o].at = "signing" /\ \A p \in Operator : p # o => op'[p] = op[p]
      BY <1>1, <2>2, Idles DEF OpType
    <2> QED
      BY <2>1, <2>3
  <1>4. CASE Sign(o)
    <2>1. op[o].agent \in Agent
      BY <1>4 DEF Sign, OperatorState
    <2>2. Noted
      BY <1>4, <2>1 DEF Sign, Notes, AuthorityTypeOK
    <2>3. op'[o].at = "collect" /\ \A p \in Operator : p # o => op'[p] = op[p]
      BY <1>1, <1>4, Idles DEF Sign, OpType
    <2> QED
      BY <2>2, <2>3, <1>4 DEF Sign, persistVars
  <1>5. UNCHANGED disk
    BY DEF RegistryStep, Certify, setStatus, SetTrust, Mutate, Sign, persistVars
  <1> QED
    BY <1>2, <1>3, <1>4, <1>5 DEF RegistryStep, setStatus, SetTrust

LEMMA NextTypes ==
  ASSUME AuthorityTypeOK, OperatorState, GateState, [AuthorityNext]_authorityVars
  PROVE  AuthorityTypeOK' /\ OperatorState'
  <1> USE DEF persistVars, historyVars
  <1>1. ASSUME NEW o \in Operator, RegistryStep(o)
        PROVE  AuthorityTypeOK' /\ OperatorState'
    <2>1. OperatorsOK'
      BY <1>1, OperatorTypes, OperatorStepSplit
    <2>2. /\ registry' \in [Agent -> Registered]
          /\ \E replaced \in SUBSET Agent : gate' = Watched(registry', replaced)
          /\ UNCHANGED persistVars
      BY <1>1, RegistryTypes DEF RegistryStep
    <2>3. gate' \in [Gate -> GateType]
      BY <2>2, WatchedProperties
    <2>4. transitions' \in 0..MaxTransitions /\ overlapped' \in BOOLEAN
      <3>1. \/ transitions < MaxTransitions /\ transitions' = transitions + 1 /\ overlapped' \in BOOLEAN
            \/ UNCHANGED <<transitions, overlapped>>
        BY <1>1 DEF RegistryStep, Certify, setStatus, SetTrust, Mutate, Sign, Begins
      <3> QED
        BY <3>1, BoundsAssumption DEF AuthorityTypeOK
    <2>5. UNCHANGED <<log, backend, disk, mishaps, ending>>
      BY <2>2
    <2>6. since' \in [Agent -> SUBSET Registered]
      BY <1>1, <2>2, RegistryNotes DEF AuthorityTypeOK
    <2> QED
      BY <2>1, <2>2, <2>3, <2>4, <2>5, <2>6 DEF OperatorsOK, AuthorityTypeOK, OpType, GateType
  <1>2. ASSUME NEW o \in Operator, BlobStep(o)
        PROVE  AuthorityTypeOK' /\ OperatorState'
    <2>1. OperatorsOK'
      BY <1>2, OperatorTypes, OperatorStepSplit
    <2> QED
      BY <1>2, <2>1, BlobTypes DEF OperatorsOK, AuthorityTypeOK, OpType
  <1>3. ASSUME NEW g \in Gate, GateStep(g)
        PROVE  AuthorityTypeOK' /\ OperatorState'
    <2>1. gate' \in [Gate -> GateType]
          /\ UNCHANGED <<registry, log, writer, op, backend, disk, mishaps, ending,
                         transitions, overlapped, since>>
      BY <1>3, GateStepTypes DEF GateOnly
    <2> QED
      BY <2>1 DEF AuthorityTypeOK, OperatorState, GateType
  <1>4. CASE RestartAndLoad
    <2>1. /\ op' \in [Operator -> OpType] /\ gate' \in [Gate -> GateType]
          /\ \A o \in Operator : op'[o].at = "idle"
          /\ writer' = Nobody
      BY <1>4, Idles DEF RestartAndLoad
    <2>2. mishaps' \in 0..MaxMishaps
      BY <1>4, BoundsAssumption DEF RestartAndLoad, AuthorityTypeOK
    <2>3. \A o \in Operator : op'[o].at = "signing" <=> writer' = o
      BY <2>1, NamesAssumption
    <2>4. since' \in [Agent -> SUBSET Registered] /\ ending' \in Endings
      BY <1>4 DEF RestartAndLoad, Settles, Endings, AuthorityTypeOK
    <2> QED
      BY <1>4, <2>1, <2>2, <2>3, <2>4 DEF RestartAndLoad, AuthorityTypeOK, OperatorState, OpType, GateType
  <1>5. CASE UNCHANGED authorityVars
    BY <1>5 DEF authorityVars, AuthorityTypeOK, OperatorState
  <1>6. CASE EnforceEnvelopes
    BY <1>6 DEF EnforceEnvelopes, AuthorityTypeOK, OperatorState
  <1> QED
    BY <1>1, <1>2, <1>3, <1>4, <1>5, <1>6, OperatorStepSplit DEF AuthorityNext

------------------------------------------------------------------------------
(* The gate *)

LEMMA IdleGates ==
  ASSUME gate = [g \in Gate |-> IdleGate]
  PROVE  GateInv
  BY Idles DEF GateInv, GateState, Remembered, Established, RuledByTheRegistry, Looking

(* The registry moves under a gate: what the gate looks at is what it was,  *)
(* or the agent's envelope, of which the gate sees what it now answers.     *)
LEMMA RegistryKeepsGate ==
  ASSUME AuthorityTypeOK, OperatorState, GateInv, NEW o \in Operator, RegistryStep(o)
  PROVE  GateInv'
  <1>1. /\ registry' \in [Agent -> Registered]
        /\ \A a \in Agent : registry[a] \in Envelope => registry'[a] \in Envelope
        /\ \E replaced \in SUBSET Agent :
             /\ gate' = Watched(registry', replaced)
             /\ \A a \in Agent \ replaced : registry'[a].covers = registry[a].covers
    BY RegistryTypes DEF RegistryStep
  <1>2. PICK replaced \in SUBSET Agent :
             /\ gate' = Watched(registry', replaced)
             /\ \A a \in Agent \ replaced : registry'[a].covers = registry[a].covers
    BY <1>1
  <1>3. ASSUME NEW g \in Gate, ~Looking(g)
        PROVE  gate'[g] = gate[g]
    BY <1>1, <1>2, <1>3, WatchedProperties DEF GateInv
  <1>4. ASSUME NEW g \in Gate, Looking(g)
        PROVE  LET env == registry'[gate[g].agent]
               IN /\ gate'[g].at = gate[g].at /\ gate'[g].agent = gate[g].agent
                  /\ gate'[g].scope = gate[g].scope /\ gate'[g].look = gate[g].look
                  /\ gate'[g].offline = gate[g].offline /\ gate'[g].fits = gate[g].fits
                  /\ gate'[g].granted = (gate[g].granted \/ Grants(env, gate[g].scope, gate[g].offline))
                  /\ gate'[g].withheld = (gate[g].withheld \/ Withholds(env, gate[g].scope, gate[g].offline))
                  /\ gate'[g].envelope = IF gate[g].agent \in replaced /\ gate[g].envelope = Current
                                         THEN registry[gate[g].agent] ELSE gate[g].envelope
    BY <1>1, <1>2, <1>4, WatchedProperties DEF GateInv
  <1>5. \A g \in Gate : Looking(g)' <=> Looking(g)
    BY <1>3, <1>4 DEF Looking
  <1>6. ASSUME NEW g \in Gate, Looking(g)
        PROVE  /\ gate[g].agent \in Agent /\ gate[g].scope \in Scope
               /\ registry[gate[g].agent] \in Envelope
               /\ registry'[gate[g].agent] \in Envelope
               /\ gate[g].envelope \in Envelope \cup {Current}
    BY <1>1, <1>6 DEF GateInv, GateState
  <1>7. GateState'
    BY <1>4, <1>5, <1>6 DEF GateState
  <1>8. ASSUME NEW g \in Gate, Looking(g)
        PROVE  /\ Held(g)' = Held(g) \/ Held(g)' = registry'[gate[g].agent]
               /\ Held(g)'.covers = Held(g).covers
    <2>1. CASE gate[g].envelope = Current /\ gate[g].agent \in replaced
      <3>1. gate'[g].envelope = registry[gate[g].agent] /\ gate'[g].envelope # Current
        BY <1>4, <1>6, <1>8, <2>1, Envelopes
      <3> QED
        BY <2>1, <3>1 DEF Held
    <2>2. CASE gate[g].envelope = Current /\ gate[g].agent \notin replaced
      <3>1. Held(g)' = registry'[gate[g].agent] /\ Held(g) = registry[gate[g].agent]
        BY <1>4, <1>8, <2>2 DEF Held
      <3> QED
        BY <1>2, <1>6, <1>8, <2>2, <3>1
    <2>3. CASE gate[g].envelope # Current
      BY <1>4, <1>8, <2>3 DEF Held
    <2> QED
      BY <2>1, <2>2, <2>3
  <1>9. ASSUME NEW g \in Gate, Looking(g)
        PROVE  /\ (gate[g].granted => gate'[g].granted) /\ (gate[g].withheld => gate'[g].withheld)
               /\ Seen(g, registry[gate[g].agent])' /\ Seen(g, Held(g))'
    <2>1. /\ (gate[g].granted => gate'[g].granted) /\ (gate[g].withheld => gate'[g].withheld)
          /\ Grants(registry'[gate[g].agent], gate[g].scope, gate[g].offline) => gate'[g].granted
          /\ Withholds(registry'[gate[g].agent], gate[g].scope, gate[g].offline) => gate'[g].withheld
          /\ gate'[g].agent = gate[g].agent /\ gate'[g].scope = gate[g].scope
          /\ gate'[g].offline = gate[g].offline
      BY <1>4, <1>9
    <2>2. Seen(g, registry[gate[g].agent])'
      BY <2>1 DEF Seen
    <2>3. Seen(g, Held(g))
      BY <1>9 DEF GateInv, Remembered
    <2>4. CASE Held(g)' = Held(g)
      BY <2>1, <2>3, <2>4 DEF Seen
    <2>5. CASE Held(g)' = registry'[gate[g].agent]
      BY <2>1, <2>5 DEF Seen
    <2> QED
      BY <1>8, <1>9, <2>1, <2>2, <2>4, <2>5
  <1>10. Remembered'
    BY <1>5, <1>9 DEF Remembered
  <1>11. Established'
    <2> SUFFICES ASSUME NEW g \in Gate, Looking(g)
                 PROVE  /\ gate'[g].at = "signature" =>
                             ((gate'[g].offline => gate'[g].scope \in Held(g)'.covers) => gate'[g].granted)
                        /\ (gate'[g].look = "facts" \/ gate'[g].at \in {"again", "judge"}) =>
                             (~gate'[g].offline => gate'[g].granted)
                        /\ gate'[g].at = "judge" /\ gate'[g].offline =>
                             IF gate'[g].fits THEN gate'[g].granted ELSE gate'[g].withheld
      BY <1>5 DEF Established, Looking
    <2> QED
      BY <1>4, <1>8, <1>9 DEF GateInv, Established
  <1>12. RuledByTheRegistry'
    <2>1. \A g \in Gate : Looking(g) => gate'[g].at \notin {"passed", "refused"}
      BY <1>4 DEF Looking
    <2> QED
      BY <1>3, <2>1 DEF GateInv, RuledByTheRegistry
  <1> QED
    BY <1>7, <1>10, <1>11, <1>12 DEF GateInv

(* The same, of one gate. *)
GateOK(g) ==
  /\ Looking(g) =>
       /\ gate[g].agent \in Agent /\ gate[g].scope \in Scope
       /\ registry[gate[g].agent] \in Envelope
       /\ gate[g].envelope \in Envelope \cup {Current}
       /\ Seen(g, Held(g)) /\ Seen(g, registry[gate[g].agent])
  /\ gate[g].at = "signature" =>
       ((gate[g].offline => gate[g].scope \in Held(g).covers) => gate[g].granted)
  /\ Looking(g) /\ (gate[g].look = "facts" \/ gate[g].at \in {"again", "judge"}) =>
       (~gate[g].offline => gate[g].granted)
  /\ gate[g].at = "judge" /\ gate[g].offline =>
       IF gate[g].fits THEN gate[g].granted ELSE gate[g].withheld
  /\ gate[g].at = "passed" => gate[g].granted
  /\ gate[g].at = "refused" /\ gate[g].offline => gate[g].withheld

LEMMA GateInvSplit == GateInv <=> \A g \in Gate : GateOK(g)
  BY DEF GateInv, GateOK, GateState, Remembered, Established, RuledByTheRegistry

LEMMA OtherGates ==
  ASSUME GateInv, UNCHANGED registry, NEW g \in Gate,
         \A h \in Gate : h # g => gate'[h] = gate[h], GateOK(g)'
  PROVE  GateInv'
  <1>1. ASSUME NEW h \in Gate, h # g
        PROVE  GateOK(h)'
    <2>1. gate'[h] = gate[h] /\ registry' = registry /\ GateOK(h)
      BY <1>1, GateInvSplit
    <2>2. (Looking(h)' <=> Looking(h)) /\ Held(h)' = Held(h)
      BY <2>1 DEF Looking, Held
    <2> QED
      BY <2>1, <2>2 DEF GateOK, Seen
  <1>2. \A h \in Gate : GateOK(h)'
    BY <1>1
  <1>3. GateInv' <=> \A h \in Gate : GateOK(h)'
    BY DEF GateInv, GateOK, GateState, Remembered, Established, RuledByTheRegistry
  <1> QED
    BY <1>2, <1>3

(* A gate's own step: the floor, the facts, and what the judge makes of     *)
(* them.                                                                   *)
LEMMA GateStepKeepsGate ==
  ASSUME AuthorityTypeOK, GateInv, NEW g \in Gate, GateStep(g)
  PROVE  GateInv'
  <1>1. UNCHANGED registry /\ \A h \in Gate : h # g => gate'[h] = gate[h]
    BY GateStepTypes DEF GateInv, GateOnly
  <1>2. gate[g] \in GateType /\ gate \in [Gate -> GateType] /\ GateOK(g)
    BY GateInvSplit DEF AuthorityTypeOK, GateType
  <1>3. \A new : Becomes(g, new) => gate'[g] = new
    BY <1>2 DEF Becomes
  <1>4. ASSUME NEW a \in Agent, NEW scope \in Scope, NEW offline \in BOOLEAN,
               GateBegins(g, a, scope, offline)
        PROVE  GateOK(g)'
    <2> DEFINE new == [IdleGate EXCEPT
         !.at = IF registry[a] = NoEnvelope THEN "refused" ELSE "standing",
         !.agent = a, !.scope = scope, !.offline = offline,
         !.envelope = IF registry[a] = NoEnvelope THEN NoEnvelope ELSE Current,
         !.granted  = Grants(registry[a], scope, offline),
         !.withheld = Withholds(registry[a], scope, offline)]
    <2>1. gate'[g] = new
      BY <1>3, <1>4 DEF GateBegins
    <2>2. /\ new.at = (IF registry[a] = NoEnvelope THEN "refused" ELSE "standing")
          /\ new.agent = a /\ new.scope = scope /\ new.offline = offline /\ new.look = "floor"
          /\ new.envelope = (IF registry[a] = NoEnvelope THEN NoEnvelope ELSE Current)
          /\ new.granted = Grants(registry[a], scope, offline)
          /\ new.withheld = Withholds(registry[a], scope, offline)
      BY DEF IdleGate
    <2> HIDE DEF new
    <2>3. CASE registry[a] = NoEnvelope
      <3>1. Withholds(registry[a], scope, offline)
        BY <2>3 DEF Withholds, Grants, NoEnvelope
      <3> QED
        BY <2>1, <2>2, <2>3, <3>1 DEF GateOK, Looking
    <2>4. CASE registry[a] # NoEnvelope
      <3>1. registry[a] \in Envelope
        BY <2>4 DEF AuthorityTypeOK, Registered
      <3>2. Held(g)' = registry[a]
        BY <1>1, <2>1, <2>2, <2>4 DEF Held
      <3> QED
        BY <1>1, <2>1, <2>2, <2>4, <3>1, <3>2 DEF GateOK, Looking, Seen
    <2> QED
      BY <2>3, <2>4
  <1>5. ASSUME NEW at, gate'[g] = [gate[g] EXCEPT !.at = at]
        PROVE  /\ gate'[g].at = at /\ gate'[g].agent = gate[g].agent
               /\ gate'[g].scope = gate[g].scope /\ gate'[g].look = gate[g].look
               /\ gate'[g].envelope = gate[g].envelope /\ gate'[g].offline = gate[g].offline
               /\ gate'[g].fits = gate[g].fits /\ gate'[g].granted = gate[g].granted
               /\ gate'[g].withheld = gate[g].withheld
               /\ Held(g)' = Held(g)
    BY <1>1, <1>2, <1>5 DEF GateType, Held
  <1>6. ASSUME NEW fits, gate'[g] = [gate[g] EXCEPT !.at = "judge", !.fits = fits]
        PROVE  /\ gate'[g].at = "judge" /\ gate'[g].agent = gate[g].agent
               /\ gate'[g].scope = gate[g].scope /\ gate'[g].look = gate[g].look
               /\ gate'[g].envelope = gate[g].envelope /\ gate'[g].offline = gate[g].offline
               /\ gate'[g].fits = fits /\ gate'[g].granted = gate[g].granted
               /\ gate'[g].withheld = gate[g].withheld
               /\ Held(g)' = Held(g)
    BY <1>1, <1>2, <1>6 DEF GateType, Held
  <1>7. ASSUME Looking(g)
        PROVE  /\ Held(g) \in Envelope
               /\ Held(g).status \in Standing
               /\ Seen(g, Held(g))
    BY <1>2, <1>7, Envelopes DEF GateOK, Held
  <1>8. ASSUME Fails(g), Looking(g), Withholds(Held(g), gate[g].scope, gate[g].offline)
        PROVE  GateOK(g)'
    <2>1. gate[g].withheld
      BY <1>7, <1>8 DEF Seen
    <2>2. CASE gate[g].look = "floor"
      <3>1. gate'[g] = [gate[g] EXCEPT !.at = "refused"]
        BY <1>3, <1>8, <2>2 DEF Fails
      <3> QED
        BY <1>5, <2>1, <3>1 DEF GateOK, Looking
    <2>3. CASE gate[g].look = "facts"
      <3>1. gate'[g] = [gate[g] EXCEPT !.at = "judge", !.fits = FALSE]
        BY <1>3, <1>8, <2>3 DEF Fails
      <3> QED
        BY <1>1, <1>2, <1>6, <1>8, <2>1, <2>3, <3>1 DEF GateOK, Looking, Seen
    <2> QED
      BY <1>2, <2>2, <2>3 DEF GateType
  <1> SUFFICES GateOK(g)'
    BY <1>1, OtherGates
  <1>9. CASE ReadStanding(g)
    <2>1. Looking(g) /\ gate[g].at = "standing"
      BY <1>9 DEF ReadStanding, Looking
    <2>2. CASE Withdrawn(Held(g))
      BY <1>8, <1>9, <2>1, <2>2 DEF ReadStanding, Withdrawn, Withholds, Grants
    <2>3. CASE ~Withdrawn(Held(g))
      <3>1. gate'[g] = [gate[g] EXCEPT !.at = "signature"]
        BY <1>3, <1>9, <2>3 DEF ReadStanding
      <3>2. (gate[g].offline => gate[g].scope \in Held(g).covers) => gate[g].granted
        BY <1>7, <2>1, <2>3 DEF Withdrawn, Standing, Seen, Grants
      <3> QED
        BY <1>1, <1>2, <1>5, <2>1, <3>1, <3>2 DEF GateOK, Looking, Seen
    <2> QED
      BY <2>2, <2>3
  <1>10. CASE ReadSignature(g)
    <2>1. /\ Looking(g) /\ gate[g].at = "signature"
          /\ (gate[g].offline => gate[g].scope \in Held(g).covers) => gate[g].granted
      BY <1>2, <1>10 DEF ReadSignature, Looking, GateOK
    <2>2. CASE ~SignatureValid(Held(g))
      BY <1>8, <1>10, <2>1, <2>2 DEF ReadSignature, SignatureValid, Withholds
    <2>3. CASE SignatureValid(Held(g)) /\ gate[g].look = "floor"
      <3>1. gate'[g] = [gate[g] EXCEPT !.at = "again"]
        BY <1>3, <1>10, <2>3 DEF ReadSignature
      <3> QED
        BY <1>1, <1>2, <1>5, <2>1, <3>1 DEF GateOK, Looking, Seen
    <2>4. CASE SignatureValid(Held(g)) /\ gate[g].look = "facts"
      <3>1. gate'[g] = [gate[g] EXCEPT !.at = "judge", !.fits = gate[g].scope \in Held(g).covers]
        BY <1>3, <1>10, <2>4 DEF ReadSignature
      <3>2. gate[g].offline /\ gate[g].scope \notin Held(g).covers => gate[g].withheld
        BY <1>7, <2>1 DEF Seen, Withholds, Grants
      <3>3. PICK fits : fits = (gate[g].scope \in Held(g).covers)
        OBVIOUS
      <3>4. /\ gate'[g].at = "judge" /\ gate'[g].agent = gate[g].agent
            /\ gate'[g].scope = gate[g].scope
            /\ gate'[g].envelope = gate[g].envelope /\ gate'[g].offline = gate[g].offline
            /\ gate'[g].fits = fits /\ gate'[g].granted = gate[g].granted
            /\ gate'[g].withheld = gate[g].withheld
            /\ Held(g)' = Held(g)
        BY <1>6, <3>1, <3>3
      <3>5. /\ gate[g].offline => IF fits THEN gate[g].granted ELSE gate[g].withheld
            /\ ~gate[g].offline => gate[g].granted
        BY <2>1, <3>2, <3>3
      <3> QED
        BY <1>1, <1>2, <2>1, <3>4, <3>5 DEF GateOK, Looking, Seen
    <2> QED
      BY <1>2, <2>2, <2>3, <2>4 DEF GateType
  <1>11. CASE GetAgain(g)
    <2>1. /\ gate'[g] = [gate[g] EXCEPT !.at = "standing", !.look = "facts", !.envelope = Current]
          /\ gate[g].at = "again" /\ Looking(g)
      BY <1>3, <1>11 DEF GetAgain, Looking
    <2>2. /\ gate'[g].at = "standing" /\ gate'[g].agent = gate[g].agent
          /\ gate'[g].scope = gate[g].scope /\ gate'[g].look = "facts"
          /\ gate'[g].envelope = Current /\ gate'[g].offline = gate[g].offline
          /\ gate'[g].granted = gate[g].granted /\ gate'[g].withheld = gate[g].withheld
      BY <1>2, <2>1 DEF GateType
    <2>3. Held(g)' = registry[gate[g].agent]
      BY <1>1, <2>2 DEF Held
    <2> QED
      BY <1>1, <1>2, <2>1, <2>2, <2>3 DEF GateOK, Looking, Seen
  <1>12. CASE Judge(g)
    <2>1. PICK complies \in IF gate[g].offline THEN {gate[g].fits} ELSE BOOLEAN :
            gate'[g] = [gate[g] EXCEPT !.at = IF complies THEN "passed" ELSE "refused"]
      BY <1>3, <1>12 DEF Judge
    <2>2. gate[g].at = "judge" /\ Looking(g)
      BY <1>12 DEF Judge, Looking
    <2>3. CASE gate[g].offline
      BY <1>2, <1>5, <2>1, <2>2, <2>3 DEF GateOK, Looking
    <2>4. CASE ~gate[g].offline
      BY <1>2, <1>5, <2>1, <2>2, <2>4 DEF GateOK, Looking
    <2> QED
      BY <2>3, <2>4
  <1>13. CASE GateReturns(g)
    <2>1. gate'[g].at = "idle"
      BY <1>3, <1>13, Idles DEF GateReturns
    <2> QED
      BY <2>1 DEF GateOK, Looking
  <1> QED
    BY <1>4, <1>9, <1>10, <1>11, <1>12, <1>13 DEF GateStep

LEMMA NextGate ==
  ASSUME AuthorityTypeOK, OperatorState, GateInv, [AuthorityNext]_authorityVars
  PROVE  GateInv'
  <1>1. ASSUME UNCHANGED <<registry, gate>>
        PROVE  GateInv'
    BY <1>1 DEF GateInv, GateState, Remembered, Established, RuledByTheRegistry,
                Looking, Seen, Held
  <1>2. ASSUME NEW o \in Operator, OperatorStep(o)
        PROVE  GateInv'
    <2>1. CASE RegistryStep(o)
      BY <2>1, RegistryKeepsGate
    <2>2. CASE BlobStep(o)
      BY <1>1, <2>2, BlobTypes
    <2> QED
      BY <1>2, <2>1, <2>2, OperatorStepSplit
  <1>3. CASE RestartAndLoad
    <2>1. gate' = [g \in Gate |-> IdleGate]
      BY <1>3 DEF RestartAndLoad
    <2> QED
      BY <2>1, Idles DEF GateInv, GateState, Remembered, Established, RuledByTheRegistry, Looking
  <1>4. CASE UNCHANGED authorityVars \/ EnforceEnvelopes
    BY <1>1, <1>4 DEF authorityVars, EnforceEnvelopes
  <1> QED
    BY <1>2, <1>3, <1>4, GateStepKeepsGate DEF AuthorityNext

------------------------------------------------------------------------------
(* Transitions that follow one another *)

LEMMA InitSaved == AuthorityInit => SavedInv
  BY Idles DEF AuthorityInit, SavedInv, OneAtATime, InTurn, Alone, Saved

(* A transition begins, and runs alone when no other runs.  *)
LEMMA BeginsSaved ==
  ASSUME AuthorityTypeOK, SavedInv, NEW o \in Operator, Begins(o),
         op'[o].at \in {"collect", "signing"}, ~op'[o].mixed,
         \A p \in Operator : p # o => op'[p].at = op[p].at
  PROVE  SavedInv'
  <1>1. ASSUME ~overlapped'
        PROVE  \A p \in Operator : p # o => op'[p].at = "idle"
    BY <1>1 DEF Begins
  <1>2. ~Quiet'
    BY DEF Quiet
  <1>3. OneAtATime'
    BY <1>1 DEF OneAtATime, Alone
  <1> QED
    BY <1>2, <1>3 DEF SavedInv, InTurn

LEMMA RegistrySaved ==
  ASSUME AuthorityTypeOK, SavedInv, NEW o \in Operator, RegistryStep(o)
  PROVE  SavedInv'
  <1>1. op \in [Operator -> OpType]
    BY DEF AuthorityTypeOK, OpType
  <1>2. ASSUME NEW a \in Agent, NEW covers \in SUBSET Scope, Certify(o, a, covers)
        PROVE  SavedInv'
    <2>1. op'[o] = [IdleOp EXCEPT !.at = "collect"]
      BY <1>2 DEF Certify
    <2>2. op'[o].at = "collect" /\ ~op'[o].mixed
      BY <2>1, Idles DEF OpType
    <2>3. ASSUME NEW p \in Operator, p # o
          PROVE  op'[p].at = op[p].at
      BY <1>1, <1>2, <2>3 DEF Certify, OpType
    <2> QED
      BY <1>2, <2>2, <2>3, BeginsSaved DEF Certify
  <1>3. ASSUME NEW a \in Agent, NEW status, Mutate(o, a, status)
        PROVE  SavedInv'
    <2>1. op' = [op EXCEPT ![o] = [IdleOp EXCEPT !.at = "signing", !.agent = a]]
      BY <1>3 DEF Mutate
    <2>2. /\ op'[o].at = "signing" /\ ~op'[o].mixed
          /\ \A p \in Operator : p # o => op'[p].at = op[p].at
      BY <1>1, <2>1, Idles DEF OpType
    <2> QED
      BY <1>3, <2>2, BeginsSaved DEF Mutate
  <1>4. CASE Sign(o)
    <2>1. /\ op'[o].at = "collect" /\ ~op'[o].mixed
          /\ \A p \in Operator : p # o => op'[p] = op[p]
          /\ op[o].at = "signing" /\ overlapped' = overlapped
      BY <1>1, <1>4, Idles DEF Sign, OpType, historyVars
    <2>2. \A p \in Operator : Alone(p)' => p = o /\ Alone(o)
      BY <2>1 DEF SavedInv, OneAtATime, Alone
    <2>3. OneAtATime'
      BY <2>1, <2>2 DEF SavedInv, OneAtATime, Alone
    <2>4. ~Quiet'
      BY <2>1 DEF Quiet
    <2> QED
      BY <2>3, <2>4 DEF SavedInv, InTurn
  <1> QED
    BY <1>2, <1>3, <1>4 DEF RegistryStep, setStatus, SetTrust

(* Persist: it collects the registry, and nothing moves it before the blob  *)
(* is written.                                                             *)
LEMMA AloneCollects ==
  ASSUME AuthorityTypeOK, OperatorState, SavedInv, NEW o \in Operator,
         Alone(o), Marshalled(o) \/ op[o].at = "writing"
  PROVE  op[o].list = registry
  <1>1. op[o].list \in [Agent -> Pointer] /\ registry \in [Agent -> Registered]
    BY DEF OpType, AuthorityTypeOK
  <1>2. \A a \in Agent : op[o].list[a] # Current
    BY DEF Marshalled, OperatorState
  <1>3. \A a \in Agent : op[o].list[a] \in {Current, registry[a]}
    BY DEF SavedInv, OneAtATime, Marshalled
  <1>4. \A a \in Agent : op[o].list[a] = registry[a]
    BY <1>2, <1>3
  <1> QED
    BY <1>1, <1>4

LEMMA BlobSaved ==
  ASSUME AuthorityTypeOK, OperatorState, SavedInv, NEW o \in Operator, BlobStep(o)
  PROVE  SavedInv'
  <1>1. op \in [Operator -> OpType] /\ op[o] \in OpType /\ op[o].at # "idle"
    BY DEF AuthorityTypeOK, OpType, BlobStep, Collect, Marshal, WriteTable, WriteBegins,
           WriteEnds, WriteFails, Marshalled
  <1>2. UNCHANGED <<registry, overlapped>>
    BY BlobTypes
  <1>3. overlapped \/ Alone(o)
    BY <1>1 DEF Alone
  <1>4. CASE overlapped
    BY <1>2, <1>4 DEF SavedInv, OneAtATime, Alone, InTurn
  <1>5. ASSUME Alone(o), \A p \in Operator : p # o => op'[p].at = op[p].at,
               op'[o].at # "idle", ~op'[o].mixed,
               op'[o].at \in {"marshal", "writing"} =>
                 \A a \in Agent : op'[o].list[a] \in {Current, registry[a]}
        PROVE  SavedInv'
    <2>1. \A p \in Operator : Alone(p)' => p = o
      BY <1>2, <1>5 DEF SavedInv, OneAtATime, Alone
    <2>2. ~Quiet'
      BY <1>5 DEF Quiet
    <2>3. OneAtATime'
      BY <1>2, <1>5, <2>1 DEF OneAtATime
    <2> QED
      BY <2>2, <2>3 DEF SavedInv, InTurn
  <1>6. ASSUME Alone(o), NEW failed, PersistEnds(o, failed), Saved' \/ failed
        PROVE  SavedInv'
    <2>1. \A p \in Operator : p # o => op[p].at = "idle"
      BY <1>6 DEF SavedInv, OneAtATime, Alone
    <2>2. ASSUME NEW p \in Operator
          PROVE  op'[p].at = "idle"
      <3>1. CASE p = o
        BY <1>6, <3>1, Idles DEF PersistEnds
      <3>2. CASE p # o
        <4>1. op'[p] = [op[p] EXCEPT !.mixed = @ \/ (op[p].at = "writing" /\ op[o].at = "writing")]
          BY <1>6, <3>2 DEF PersistEnds
        <4> QED
          BY <1>1, <2>1, <3>2, <4>1 DEF OpType
      <3> QED
        BY <3>1, <3>2
    <2>3. ~failed \/ ending' # "done"
      BY <1>6 DEF PersistEnds
    <2> QED
      BY <1>6, <2>2, <2>3 DEF SavedInv, InTurn, OneAtATime, Alone
  <1>7. ASSUME Alone(o), Marshalled(o) \/ op[o].at = "writing"
        PROVE  op[o].list = registry
    BY <1>7, AloneCollects
  <1>8. CASE Alone(o) /\ Collect(o)
    <2> DEFINE list == [a \in Agent |-> IF registry[a] = NoEnvelope THEN NoEnvelope ELSE Current]
    <2>1. op' = [op EXCEPT ![o] = [op[o] EXCEPT !.at = "marshal", !.list = list]]
      BY <1>1, <1>8 DEF Collect
    <2>2. \A a \in Agent : list[a] \in {Current, registry[a]}
      OBVIOUS
    <2> HIDE DEF list
    <2>3. /\ op'[o].at = "marshal" /\ op'[o].mixed = op[o].mixed /\ op'[o].list = list
          /\ \A p \in Operator : p # o => op'[p].at = op[p].at
      BY <1>1, <2>1 DEF OpType
    <2>4. ~op[o].mixed
      BY <1>8 DEF SavedInv, OneAtATime
    <2> QED
      BY <1>5, <1>8, <2>2, <2>3, <2>4
  <1>9. ASSUME NEW a \in Agent, Alone(o), Marshal(o, a)
        PROVE  SavedInv'
    <2> DEFINE list == [op[o].list EXCEPT ![a] = registry[a]]
    <2>1. op' = [op EXCEPT ![o] = [op[o] EXCEPT !.list = list]] /\ op[o].at = "marshal"
      BY <1>1, <1>9 DEF Marshal
    <2>2. \A b \in Agent : list[b] \in {Current, registry[b]}
      BY <1>1, <1>9, <2>1 DEF OpType, SavedInv, OneAtATime
    <2> HIDE DEF list
    <2>3. /\ op'[o].at = "marshal" /\ op'[o].mixed = op[o].mixed /\ op'[o].list = list
          /\ \A p \in Operator : p # o => op'[p].at = op[p].at
      BY <1>1, <2>1 DEF OpType
    <2>4. ~op[o].mixed
      BY <1>9 DEF SavedInv, OneAtATime
    <2> QED
      BY <1>5, <1>9, <2>2, <2>3, <2>4
  <1>10. CASE Alone(o) /\ WriteBegins(o)
    <2>1. /\ op'[o].at = "writing" /\ op'[o].mixed = op[o].mixed /\ op'[o].list = op[o].list
          /\ \A p \in Operator : p # o => op'[p].at = op[p].at
      BY <1>1, <1>10 DEF WriteBegins, OpType
    <2>2. op[o].list = registry /\ ~op[o].mixed
      BY <1>7, <1>10 DEF WriteBegins, SavedInv, OneAtATime
    <2> QED
      BY <1>5, <1>10, <2>1, <2>2
  <1>11. CASE Alone(o) /\ (WriteTable(o) \/ WriteEnds(o))
    <2>1. ~op[o].mixed /\ op[o].list = registry
      BY <1>7, <1>11 DEF WriteTable, WriteEnds, SavedInv, OneAtATime
    <2>2. disk' = [blob |-> op[o].list, whole |-> TRUE] /\ PersistEnds(o, FALSE)
      BY <1>11, <2>1 DEF WriteTable, WriteEnds
    <2>3. Saved'
      BY <1>2, <2>1, <2>2 DEF Saved
    <2> QED
      BY <1>6, <1>11, <2>2, <2>3
  <1>12. CASE Alone(o) /\ WriteFails(o)
    BY <1>6, <1>12 DEF WriteFails
  <1> QED
    BY <1>3, <1>4, <1>8, <1>9, <1>10, <1>11, <1>12 DEF BlobStep

LEMMA NextSaved ==
  ASSUME AuthorityTypeOK, OperatorState, GateState, SavedInv, [AuthorityNext]_authorityVars
  PROVE  SavedInv'
  <1>1. ASSUME UNCHANGED <<registry, op, disk, overlapped, ending>>
        PROVE  SavedInv'
    BY <1>1 DEF SavedInv, OneAtATime, Alone, InTurn, Quiet, Saved
  <1>2. ASSUME NEW g \in Gate, GateStep(g)
        PROVE  SavedInv'
    BY <1>1, <1>2, GateStepTypes DEF GateOnly, persistVars, historyVars
  <1>3. CASE RestartAndLoad
    <2>1. \A o \in Operator : op'[o].at = "idle"
      BY <1>3, Idles DEF RestartAndLoad
    <2>2. registry' = disk'.blob /\ (disk'.whole \/ ending' # "done")
      BY <1>3 DEF RestartAndLoad, AuthorityTypeOK
    <2> QED
      BY <2>1, <2>2 DEF SavedInv, OneAtATime, Alone, InTurn, Saved
  <1>4. CASE UNCHANGED authorityVars \/ EnforceEnvelopes
    BY <1>1, <1>4 DEF authorityVars, EnforceEnvelopes, historyVars
  <1> QED
    BY <1>2, <1>3, <1>4, RegistrySaved, BlobSaved, OperatorStepSplit DEF AuthorityNext

------------------------------------------------------------------------------
(* How far back the blob can be *)

LEMMA InitRecent == AuthorityInit => Recent
  BY Idles DEF AuthorityInit, Recent, EmptyBlob

(* The registry moves on: what it holds is noted, and nothing is forgotten. *)
LEMMA RegistryRecent ==
  ASSUME AuthorityTypeOK, OperatorState, Recent, NEW o \in Operator, RegistryStep(o)
  PROVE  Recent'
  <1>1. PICK a \in Agent : /\ since' = [since EXCEPT ![a] = @ \cup {registry'[a]}]
                           /\ \A b \in Agent : b # a => registry'[b] = registry[b]
    BY RegistryNotes
  <1>2. \A b \in Agent : since[b] \subseteq since'[b] /\ registry'[b] \in since'[b]
    BY <1>1 DEF AuthorityTypeOK, Recent
  <1>3. ASSUME NEW p \in Operator, op'[p].at \in {"marshal", "writing"}
        PROVE  \A b \in Agent : op'[p].list[b] \in {Current} \cup since'[b]
    BY <1>2, <1>3, RegistryNotes DEF Recent
  <1>4. disk'.whole => \A b \in Agent : disk'.blob[b] \in since'[b]
    BY <1>2, RegistryNotes DEF Recent
  <1> QED
    BY <1>2, <1>3, <1>4 DEF Recent

(* Persist: what is marshalled is the registry's, what is written is what    *)
(* was marshalled, and only a transition that ran alone settles the past.   *)
LEMMA BlobRecent ==
  ASSUME AuthorityTypeOK, OperatorState, SavedInv, Recent, NEW o \in Operator, BlobStep(o)
  PROVE  Recent'
  <1>1. op \in [Operator -> OpType] /\ op[o] \in OpType /\ UNCHANGED registry
    BY BlobTypes DEF AuthorityTypeOK, OpType
  <1>2. CASE Collect(o)
    <2> DEFINE list == [a \in Agent |-> IF registry[a] = NoEnvelope THEN NoEnvelope ELSE Current]
    <2>1. op' = [op EXCEPT ![o] = [op[o] EXCEPT !.at = "marshal", !.list = list]]
      BY <1>1, <1>2 DEF Collect
    <2>2. \A a \in Agent : list[a] \in {Current} \cup since[a]
      BY DEF Recent
    <2> HIDE DEF list
    <2>3. op'[o].list = list /\ \A p \in Operator : p # o => op'[p] = op[p]
      BY <1>1, <2>1 DEF OpType
    <2>4. UNCHANGED <<disk, since>>
      BY <1>2 DEF Collect, persistVars
    <2> QED
      BY <1>1, <2>2, <2>3, <2>4 DEF Recent
  <1>3. ASSUME NEW a \in Agent, Marshal(o, a)
        PROVE  Recent'
    <2> DEFINE list == [op[o].list EXCEPT ![a] = registry[a]]
    <2>1. op' = [op EXCEPT ![o] = [op[o] EXCEPT !.list = list]] /\ op[o].at = "marshal"
      BY <1>1, <1>3 DEF Marshal
    <2>2. \A b \in Agent : list[b] \in {Current} \cup since[b]
      BY <1>1, <2>1 DEF OpType, Recent
    <2> HIDE DEF list
    <2>3. op'[o].list = list /\ \A p \in Operator : p # o => op'[p] = op[p]
      BY <1>1, <2>1 DEF OpType
    <2>4. UNCHANGED <<disk, since>>
      BY <1>3 DEF Marshal, persistVars
    <2> QED
      BY <1>1, <2>2, <2>3, <2>4 DEF Recent
  <1>4. CASE WriteBegins(o)
    <2>1. op'[o].list = op[o].list /\ \A p \in Operator : p # o => op'[p] = op[p]
      BY <1>1, <1>4 DEF WriteBegins, OpType
    <2>2. UNCHANGED since /\ ~disk'.whole /\ op[o].at = "marshal"
      BY <1>4 DEF WriteBegins, Marshalled
    <2> QED
      BY <1>1, <2>1, <2>2 DEF Recent
  <1>5. ASSUME NEW failed, PersistEnds(o, failed)
        PROVE  /\ op'[o].at = "idle"
               /\ \A p \in Operator : p # o => op'[p].at = op[p].at /\ op'[p].list = op[p].list
    <2>1. op'[o] = IdleOp
      BY <1>5 DEF PersistEnds
    <2>2. ASSUME NEW p \in Operator, p # o
          PROVE  op'[p].at = op[p].at /\ op'[p].list = op[p].list
      <3>1. op'[p] = [op[p] EXCEPT !.mixed = @ \/ (op[p].at = "writing" /\ op[o].at = "writing")]
        BY <1>5, <2>2 DEF PersistEnds
      <3> QED
        BY <1>1, <3>1 DEF OpType
    <2> QED
      BY <2>1, <2>2, Idles
  <1>6. CASE WriteFails(o)
    <2>1. UNCHANGED <<disk, since>> /\ PersistEnds(o, TRUE)
      BY <1>6 DEF WriteFails, PersistEnds
    <2> QED
      BY <1>1, <1>5, <2>1 DEF Recent
  <1>7. CASE WriteTable(o) \/ WriteEnds(o)
    <2>5. PersistEnds(o, FALSE)
      BY <1>7 DEF WriteTable, WriteEnds
    <2>6. Marshalled(o) \/ op[o].at = "writing"
      BY <1>7 DEF WriteTable, WriteEnds
    <2>7. \/ disk' = [blob |-> op[o].list, whole |-> TRUE]
          \/ disk' = [blob |-> EmptyBlob, whole |-> FALSE]
      BY <1>7 DEF WriteTable, WriteEnds
    <2>1. /\ Marshalled(o) \/ op[o].at = "writing"
          /\ PersistEnds(o, FALSE)
          /\ disk'.whole => disk'.blob = op[o].list
      <3>1. disk'.whole => disk'.blob = op[o].list
        BY <2>7
      <3> QED
        BY <2>5, <2>6, <3>1, Zenon
    <2>2. \A a \in Agent : op[o].list[a] # Current /\ op[o].list[a] \in since[a]
      BY <2>1, Envelopes DEF Recent, Marshalled, OperatorState
    <2>3. CASE overlapped
      <3>1. UNCHANGED since
        BY <2>1, <2>3 DEF PersistEnds
      <3> QED
        BY <1>1, <1>5, <2>1, <2>2, <3>1 DEF Recent
    <2>4. CASE ~overlapped
      <3>1. since' = [a \in Agent |-> {registry[a]}]
        BY <2>1, <2>4 DEF PersistEnds, Settles
      <3>2. Alone(o)
        BY <2>1, <2>4 DEF Alone, Marshalled
      <3>3. op[o].list = registry
        BY <2>1, <3>2, AloneCollects
      <3>4. \A p \in Operator : p # o => op[p].at = "idle"
        BY <2>4, <3>2 DEF SavedInv, OneAtATime, Alone
      <3>5. \A p \in Operator : op'[p].at = "idle"
        BY <1>5, <2>1, <3>4
      <3> QED
        BY <1>1, <2>1, <3>1, <3>3, <3>5 DEF Recent
    <2> QED
      BY <2>3, <2>4
  <1> QED
    BY <1>2, <1>3, <1>4, <1>6, <1>7 DEF BlobStep

LEMMA NextRecent ==
  ASSUME AuthorityTypeOK, OperatorState, GateState, SavedInv, Recent,
         [AuthorityNext]_authorityVars
  PROVE  Recent'
  <1>1. ASSUME UNCHANGED <<registry, op, disk, since>>
        PROVE  Recent'
    BY <1>1 DEF Recent
  <1>2. ASSUME NEW g \in Gate, GateStep(g)
        PROVE  Recent'
    BY <1>1, <1>2, GateStepTypes DEF GateOnly, persistVars
  <1>3. CASE RestartAndLoad
    <2>1. \A o \in Operator : op'[o].at = "idle"
      BY <1>3, Idles DEF RestartAndLoad
    <2>2. /\ registry' = disk.blob /\ UNCHANGED disk
          /\ since' = [a \in Agent |-> {disk.blob[a]}]
      BY <1>3 DEF RestartAndLoad, Settles
    <2> QED
      BY <2>1, <2>2 DEF Recent
  <1>4. CASE UNCHANGED authorityVars \/ EnforceEnvelopes
    BY <1>1, <1>4 DEF authorityVars, EnforceEnvelopes
  <1> QED
    BY <1>2, <1>3, <1>4, RegistryRecent, BlobRecent, OperatorStepSplit DEF AuthorityNext

------------------------------------------------------------------------------
(* The theorems *)

(* The invariant of the registry and the gates (authority.go): who may      *)
(* write to an envelope, and what each place of the gate has established.   *)
THEOREM AuthorityInvariance == AuthoritySpec => []AuthorityIInv
  <1>1. AuthorityInit => AuthorityIInv
    <2> SUFFICES ASSUME AuthorityInit PROVE AuthorityIInv
      OBVIOUS
    <2>1. GateInv
      BY IdleGates DEF AuthorityInit
    <2> QED
      BY <2>1, InitTypes DEF AuthorityIInv
  <1>2. AuthorityIInv /\ [AuthorityNext]_authorityVars => AuthorityIInv'
    BY NextTypes, NextGate DEF AuthorityIInv, GateInv
  <1> QED
    BY <1>1, <1>2, PTL DEF AuthoritySpec

(* Types, and that an envelope is between its standing and its signature    *)
(* only while the lock is held for writing.                                *)
THEOREM AuthorityTypeCorrect == AuthoritySpec => []AuthorityTypeOK
  <1>1. AuthorityIInv => AuthorityTypeOK
    BY DEF AuthorityIInv
  <1> QED
    BY <1>1, AuthorityInvariance, PTL

(* The envelope policy (authority.go:500-546): for any number of agents,    *)
(* transitions and gates, the gate passes or refuses by what the registry   *)
(* said at one moment while it ran.                                        *)
THEOREM GateRuledByTheRegistry == AuthoritySpec => []RuledByTheRegistry
  <1>1. AuthorityIInv => RuledByTheRegistry
    BY DEF AuthorityIInv, GateInv
  <1> QED
    BY <1>1, AuthorityInvariance, PTL

(* Persist (authority.go:410-453): whatever transitions overlap and         *)
(* whichever writes fail, a blob that can be read has no envelope older     *)
(* than the last transition that ran alone and was written; and a           *)
(* transition that runs alone is in the backend unless its own write failed. *)
THEOREM TransitionsInTurnSaved == AuthoritySpec => []SavedOrTold
  <1>1. AuthorityIInv /\ SavedInv /\ Recent /\ [AuthorityNext]_authorityVars
          => SavedInv' /\ Recent'
    BY NextSaved, NextRecent DEF AuthorityIInv, GateInv
  <1>2. AuthorityInit => SavedInv /\ Recent
    BY InitSaved, InitRecent
  <1>3. AuthoritySpec => [](SavedInv /\ Recent)
    BY <1>1, <1>2, AuthorityInvariance, PTL DEF AuthoritySpec
  <1>4. SavedInv /\ Recent => SavedOrTold
    BY DEF SavedInv, InTurn, Recent, SavedOrTold
  <1> QED
    BY <1>3, <1>4, PTL
===============================================================================
