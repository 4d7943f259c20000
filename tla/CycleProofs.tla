------------------------------ MODULE CycleProofs ------------------------------
(***************************************************************************)
(* What the trail of a runtime proves of its governance (module Cycle): the *)
(* two gates are passed before anything is deliberated, and the records of *)
(* a cycle tell how it ended.  Both rest on the numbering of the cycles,   *)
(* which retention, a failed save and a restart must not confuse: a cycle  *)
(* that is running writes under a number that no cycle before it used.     *)
(* And what a runtime remembers: of every decision one entry, in order, in *)
(* a session file that restores all of it between cycles and a beginning   *)
(* of it where a save was torn.  What is left of the trail in memory is    *)
(* whole cycles, so what the monitor counts (module Monitor) is what the   *)
(* cycles did.                                                             *)
(***************************************************************************)
EXTENDS Monitor, SequenceLemmas, FiniteSetTheorems

(* What is handed to the trail, and what the trail makes of it. *)
StageNames == {"intent", "tenant", "policy", "approval", "deliberation", "usage", "persist"}

OutNames ==
  {"asked", "decision", "complies", "approved", "VIOLATED", "REFUSED", "REJECTED",
   "PENDING APPROVAL", "PENDING", "accounted", "not saved"}

Authors == Person \cup {"caller", "claim", "judge", "enforce", "reasoner", "runtime"}

(* Which stage says what. *)
Vocabulary ==
  {<<"intent", "asked">>, <<"tenant", "REFUSED">>,
   <<"policy", "complies">>, <<"policy", "VIOLATED">>, <<"policy", "PENDING APPROVAL">>,
   <<"approval", "approved">>, <<"approval", "REFUSED">>, <<"approval", "REJECTED">>,
   <<"approval", "PENDING">>, <<"deliberation", "decision">>, <<"usage", "accounted">>,
   <<"persist", "not saved">>}

StepType ==
  {s \in [stage : StageNames, about : SUBSET (Policy \cup Workflow), out : OutNames, by : Authors] :
     <<s.stage, s.out>> \in Vocabulary}

RecordType ==
  {r \in [stage : StageNames, about : SUBSET (Policy \cup Workflow), out : OutNames,
          by : Authors, cycle : Nat, link : Nat] :
     <<r.stage, r.out>> \in Vocabulary}

(* A log is its fields. *)
IsLog(l) ==
  l = [cycles |-> l.cycles, current |-> l.current, chainTip |-> l.chainTip,
       cycleNo |-> l.cycleNo, trail |-> l.trail, since |-> l.since]

(* The fields of a log that the trail depends on. *)
LogOK(l) ==
  /\ IsLog(l)
  /\ l.current \in BOOLEAN
  /\ l.chainTip \in Nat
  /\ l.cycleNo \in Nat
  /\ l.trail \in Seq(RecordType)

(* The record on the trail says what was handed to it, in cycle n. *)
Tells(record, step, n) ==
  /\ record.stage = step.stage
  /\ record.about = step.about
  /\ record.out = step.out
  /\ record.by = step.by
  /\ record.cycle = n

LEMMA LogFields ==
  ASSUME NEW l, NEW cycles, NEW current, NEW chainTip, NEW cycleNo, NEW trail, NEW since,
         l = [cycles |-> cycles, current |-> current, chainTip |-> chainTip,
              cycleNo |-> cycleNo, trail |-> trail, since |-> since]
  PROVE  /\ IsLog(l)
         /\ l.current = current /\ l.chainTip = chainTip
         /\ l.cycleNo = cycleNo /\ l.trail = trail
  BY DEF IsLog

LEMMA OpenCycleOK ==
  ASSUME NEW l, LogOK(l), NEW now
  PROVE  LET m == OpenCycle(l, now)
         IN LogOK(m) /\ m.current = TRUE /\ m.cycleNo = l.cycleNo + 1 /\ m.trail = l.trail
  <1> DEFINE m == OpenCycle(l, now)
  <1> DEFINE new == Append(l.cycles, [started |-> now, records |-> <<>>])
  <1>1. IsLog(l)
    BY DEF LogOK
  <1>2. m = [l EXCEPT !.cycleNo = l.cycleNo + 1, !.cycles = new, !.current = TRUE]
    BY DEF OpenCycle
  <1> HIDE DEF new, m
  <1>3. m = [cycles |-> new, current |-> TRUE, chainTip |-> l.chainTip,
             cycleNo |-> l.cycleNo + 1, trail |-> l.trail, since |-> l.since]
    BY <1>1, <1>2 DEF IsLog
  <1>4. /\ IsLog(m) /\ m.current = TRUE /\ m.chainTip = l.chainTip
        /\ m.cycleNo = l.cycleNo + 1 /\ m.trail = l.trail
    BY <1>3, LogFields
  <1>5. l.chainTip \in Nat /\ l.cycleNo + 1 \in Nat /\ l.trail \in Seq(RecordType)
    BY DEF LogOK
  <1>6. LogOK(m)
    BY <1>4, <1>5 DEF LogOK
  <1> QED
    BY <1>4, <1>6 DEF m

(* Record appends to the trail, in the current cycle or in a new one. *)
LEMMA RecordAppends ==
  ASSUME NEW l, LogOK(l), NEW r \in StepType
  PROVE  LET m == Record(l, r)
             c == IF l.current THEN l.cycleNo ELSE l.cycleNo + 1
         IN /\ LogOK(m)
            /\ m.current = TRUE
            /\ m.cycleNo = c
            /\ \E record \in RecordType : Tells(record, r, c) /\ m.trail = Append(l.trail, record)
  <1> DEFINE into == IF l.current THEN l ELSE OpenCycle(l, NeverStarted)
  <1> DEFINE rec == [stage |-> r.stage, about |-> r.about, out |-> r.out, by |-> r.by,
                     cycle |-> into.cycleNo, link |-> into.chainTip + 1]
  <1> DEFINE m == Record(l, r)
  <1> DEFINE c == IF l.current THEN l.cycleNo ELSE l.cycleNo + 1
  <1>1. /\ LogOK(into) /\ into.current = TRUE /\ into.cycleNo = c /\ into.trail = l.trail
    <2>1. CASE l.current
      BY <2>1
    <2>2. CASE ~l.current
      BY <2>2, OpenCycleOK
    <2> QED
      BY <2>1, <2>2 DEF LogOK
  <1> HIDE DEF into
  <1>2. rec \in RecordType /\ Tells(rec, r, c)
    <2>1. into.cycleNo \in Nat /\ into.chainTip + 1 \in Nat
      BY <1>1 DEF LogOK
    <2> QED
      BY <1>1, <2>1 DEF RecordType, Tells, StepType
  <1>3. m = [into EXCEPT !.chainTip = @ + 1,
                  !.cycles[Len(into.cycles)].records = Append(@, rec),
                  !.trail = Append(@, rec)]
    BY DEF Record, into
  <1> HIDE DEF m, rec, c
  <1>4. m = [cycles |-> m.cycles, current |-> TRUE, chainTip |-> into.chainTip + 1,
             cycleNo |-> into.cycleNo, trail |-> Append(into.trail, rec), since |-> into.since]
    BY <1>1, <1>3 DEF LogOK, IsLog
  <1>5. /\ m.cycleNo = c /\ m.trail = Append(l.trail, rec) /\ m.current = TRUE
        /\ IsLog(m) /\ m.chainTip = into.chainTip + 1
    BY <1>1, <1>4, LogFields
  <1>6. m.trail \in Seq(RecordType) /\ m.chainTip \in Nat /\ m.cycleNo \in Nat
    BY <1>1, <1>2, <1>5, AppendProperties DEF LogOK
  <1>7. LogOK(m)
    BY <1>5, <1>6 DEF LogOK
  <1> QED
    BY <1>2, <1>5, <1>7 DEF m, c

LEMMA RecordInCycle ==
  ASSUME NEW l, LogOK(l), l.current = TRUE, NEW r \in StepType
  PROVE  LET m == Record(l, r)
         IN /\ LogOK(m)
            /\ m.current = TRUE
            /\ m.cycleNo = l.cycleNo
            /\ \E record \in RecordType :
                 Tells(record, r, l.cycleNo) /\ m.trail = Append(l.trail, record)
  <1> DEFINE c == IF l.current THEN l.cycleNo ELSE l.cycleNo + 1
  <1> DEFINE m == Record(l, r)
  <1>1. c = l.cycleNo
    OBVIOUS
  <1>2. /\ LogOK(m)
        /\ m.current = TRUE
        /\ m.cycleNo = c
        /\ \E record \in RecordType : Tells(record, r, c) /\ m.trail = Append(l.trail, record)
    BY RecordAppends, Zenon
  <1> HIDE DEF c, m
  <1>3. /\ LogOK(m)
        /\ m.current = TRUE
        /\ m.cycleNo = l.cycleNo
        /\ \E record \in RecordType :
             Tells(record, r, l.cycleNo) /\ m.trail = Append(l.trail, record)
    BY <1>1, <1>2
  <1> QED
    BY <1>3 DEF m

------------------------------------------------------------------------------
(* What the log in memory keeps of the trail *)

KeptCycle == [started : Int, records : Seq(RecordType)]

(* The places on the trail of this session that bear one of the numbers. *)
Shown(l, numbers) == {i \in (l.since + 1)..Len(l.trail) : l.trail[i].cycle \in numbers}

(* num are the numbers of the cycles kept: they rise, each cycle holds what  *)
(* the trail of this session has under its number, and what is recorded    *)
(* next goes to the last of them or to a new one behind it.  The links of  *)
(* the session count its records.                                          *)
WindowBy(l, num) ==
  /\ l.since \in Nat /\ l.since <= Len(l.trail)
  /\ l.cycles \in Seq(KeptCycle)
  /\ num \in Seq(Nat) /\ Len(num) = Len(l.cycles)
  /\ \A i, j \in 1..Len(num) : i < j => num[i] < num[j]
  /\ \A i \in 1..Len(num) : num[i] <= l.cycleNo
  /\ \A i \in 1..Len(num) : l.cycles[i].records = Picked(l.trail, Shown(l, {num[i]}))
  /\ \A i, j \in 1..Len(l.trail) : i < j => l.trail[i].cycle <= l.trail[j].cycle
  /\ \A i \in 1..Len(l.trail) : l.trail[i].cycle <= l.cycleNo
  /\ l.current = TRUE => Len(num) > 0 /\ num[Len(num)] = l.cycleNo
  /\ l.chainTip = Len(l.trail) - l.since
  /\ \A i \in (l.since + 1)..Len(l.trail) : l.trail[i].link = i - l.since

(* Every cycle has a record, or every one before the last. *)
Filled(l) == \A i \in 1..Len(l.cycles) : Len(l.cycles[i].records) > 0

FilledBut(l) == \A i \in 1..Len(l.cycles) : i # Len(l.cycles) => Len(l.cycles[i].records) > 0

Window(l) == Filled(l) /\ \E num : WindowBy(l, num)

LEMMA OpenWindow ==
  ASSUME NEW l, LogOK(l), NEW s \in Int, NEW num, WindowBy(l, num), Filled(l)
  PROVE  WindowBy(OpenCycle(l, s), Append(num, l.cycleNo + 1)) /\ FilledBut(OpenCycle(l, s))
  <1> DEFINE c == [started |-> s, records |-> <<>>]
             m == OpenCycle(l, s)
             k == l.cycleNo + 1
             more == Append(num, k)
  <1>1. IsLog(l) /\ l.cycleNo \in Nat /\ k \in Nat /\ l.trail \in Seq(RecordType)
    BY DEF LogOK
  <1>2. /\ m.cycles = Append(l.cycles, c) /\ m.trail = l.trail /\ m.since = l.since
        /\ m.cycleNo = k /\ m.current = TRUE /\ m.chainTip = l.chainTip
    <2> DEFINE new == Append(l.cycles, c)
    <2>1. m = [l EXCEPT !.cycleNo = k, !.cycles = new, !.current = TRUE]
      BY DEF OpenCycle
    <2> HIDE DEF new, m, k
    <2>2. m = [cycles |-> new, current |-> TRUE, chainTip |-> l.chainTip,
               cycleNo |-> k, trail |-> l.trail, since |-> l.since]
      BY <1>1, <2>1 DEF IsLog
    <2> QED
      BY <2>2 DEF new
  <1>3. PICK n \in Nat : n = Len(num)
    BY LenProperties DEF WindowBy
  <1>4. l.cycles \in Seq(KeptCycle) /\ num \in Seq(Nat) /\ Len(l.cycles) = n
    BY <1>3 DEF WindowBy
  <1>5. c \in KeptCycle /\ c.records = <<>>
    <2>1. <<>> \in Seq(RecordType)
      BY EmptySeq
    <2> QED
      BY <2>1 DEF KeptCycle
  <1> HIDE DEF c, m, k
  <1>6. /\ m.cycles \in Seq(KeptCycle) /\ Len(m.cycles) = n + 1
        /\ \A i \in 1..n : m.cycles[i] = l.cycles[i]
        /\ m.cycles[n + 1] = c
    BY <1>2, <1>4, <1>5, AppendAt
  <1>7. /\ more \in Seq(Nat) /\ Len(more) = n + 1 /\ more[n + 1] = k
        /\ \A i \in 1..n : more[i] = num[i]
    BY <1>1, <1>3, <1>4, AppendAt
  <1> HIDE DEF more
  <1>8. \A i \in 1..n : num[i] \in Nat /\ num[i] < k /\ num[i] <= k
    BY <1>1, <1>3, <1>4 DEF WindowBy, k
  <1>9. \A x : Shown(m, x) = Shown(l, x)
    BY <1>2 DEF Shown
  <1>10. Picked(l.trail, Shown(l, {k})) = <<>>
    <2>1. PICK t \in Nat : t = Len(l.trail)
      BY <1>1, LenProperties
    <2>2. \A i \in 1..t : i \notin Shown(l, {k})
      <3>1. \A i \in 1..t : l.trail[i].cycle <= l.cycleNo
        BY <2>1 DEF WindowBy
      <3>2. ~(k <= l.cycleNo)
        BY <1>1 DEF k
      <3> QED
        BY <3>1, <3>2 DEF Shown
    <2>3. t \in 0..t /\ t \in 0..Len(l.trail)
      BY <2>1
    <2>4. Picks(l.trail, Shown(l, {k}))[t] = <<>>
      BY <2>1, <2>2, <2>3, PicksNone
    <2> QED
      BY <2>1, <2>4 DEF Picked
  <1>11. \A i \in 1..(n + 1) : i \in 1..n \/ i = n + 1
    OBVIOUS
  <1>12. \A i, j \in 1..(n + 1) : i < j => more[i] < more[j]
    <2> SUFFICES ASSUME NEW i \in 1..(n + 1), NEW j \in 1..(n + 1), i < j PROVE more[i] < more[j]
      OBVIOUS
    <2>1. i \in 1..n
      OBVIOUS
    <2>2. CASE j \in 1..n
      BY <1>3, <1>7, <2>1, <2>2 DEF WindowBy
    <2>3. CASE j = n + 1
      BY <1>7, <1>8, <2>1, <2>3
    <2> QED
      BY <2>2, <2>3
  <1>13. \A i \in 1..(n + 1) : more[i] <= k
    BY <1>1, <1>7, <1>8, <1>11
  <1>14. ASSUME NEW i \in 1..(n + 1)
         PROVE  m.cycles[i].records = Picked(m.trail, Shown(m, {more[i]}))
    <2>1. CASE i \in 1..n
      <3>1. l.cycles[i].records = Picked(l.trail, Shown(l, {num[i]}))
        BY <1>3, <2>1 DEF WindowBy
      <3> QED
        BY <1>2, <1>6, <1>7, <1>9, <2>1, <3>1
    <2>2. CASE i = n + 1
      BY <1>2, <1>5, <1>6, <1>7, <1>9, <1>10, <2>2
    <2> QED
      BY <1>11, <2>1, <2>2
  <1>15. \A i \in 1..Len(l.trail) : l.trail[i].cycle <= k
    <2> SUFFICES ASSUME NEW i \in 1..Len(l.trail) PROVE l.trail[i].cycle <= k
      OBVIOUS
    <2>1. l.trail[i] \in RecordType /\ l.trail[i].cycle <= l.cycleNo
      BY <1>1, ElementOfSeq DEF WindowBy
    <2>2. l.trail[i].cycle \in Nat
      BY <2>1 DEF RecordType
    <2> QED
      BY <1>1, <2>1, <2>2 DEF k
  <1>16. WindowBy(m, more)
    <2>1. n + 1 > 0
      OBVIOUS
    <2> QED
      BY <1>2, <1>6, <1>7, <1>12, <1>13, <1>14, <1>15, <2>1 DEF WindowBy
  <1>17. FilledBut(m)
    <2> SUFFICES ASSUME NEW i \in 1..(n + 1), i # n + 1 PROVE Len(m.cycles[i].records) > 0
      BY <1>6 DEF FilledBut
    <2>1. i \in 1..n
      BY <1>11
    <2> QED
      BY <1>4, <1>6, <2>1 DEF Filled
  <1> QED
    BY <1>16, <1>17 DEF m, more, k

(* A record into the current cycle. *)
LEMMA RecordWindow ==
  ASSUME NEW l, LogOK(l), l.current = TRUE, NEW num, WindowBy(l, num), FilledBut(l), NEW r \in StepType
  PROVE  WindowBy(Record(l, r), num) /\ Filled(Record(l, r))
  <1> DEFINE rec == [stage |-> r.stage, about |-> r.about, out |-> r.out, by |-> r.by,
                     cycle |-> l.cycleNo, link |-> l.chainTip + 1]
             m == Record(l, r)
  <1>1. /\ IsLog(l) /\ l.cycleNo \in Nat /\ l.chainTip \in Nat /\ l.trail \in Seq(RecordType)
        /\ l.current
    BY DEF LogOK
  <1>2. rec \in RecordType /\ rec.cycle = l.cycleNo /\ rec.link = l.chainTip + 1
    <2>1. l.chainTip + 1 \in Nat
      BY <1>1
    <2> QED
      BY <1>1, <2>1 DEF RecordType, StepType
  <1>3. PICK n \in Nat : n = Len(num)
    BY LenProperties DEF WindowBy
  <1>4. /\ l.cycles \in Seq(KeptCycle) /\ num \in Seq(Nat) /\ Len(l.cycles) = n
        /\ n > 0 /\ n \in 1..n /\ num[n] = l.cycleNo
    BY <1>3 DEF WindowBy
  <1> DEFINE old == l.cycles[n].records
             new == [l.cycles EXCEPT ![n].records = Append(@, rec)]
  <1>5. m = [l EXCEPT !.chainTip = @ + 1, !.cycles[n].records = Append(@, rec),
                      !.trail = Append(@, rec)]
    BY <1>1, <1>4 DEF Record
  <1> HIDE DEF m, rec
  <1>6. /\ m.cycles = new /\ m.trail = Append(l.trail, rec) /\ m.since = l.since
        /\ m.cycleNo = l.cycleNo /\ m.current = l.current /\ m.chainTip = l.chainTip + 1
    <2> HIDE DEF new
    <2>1. m = [l EXCEPT !.chainTip = @ + 1, !.cycles = new, !.trail = Append(@, rec)]
      BY <1>1, <1>5 DEF new, IsLog
    <2>2. m = [cycles |-> new, current |-> l.current, chainTip |-> l.chainTip + 1,
               cycleNo |-> l.cycleNo, trail |-> Append(l.trail, rec), since |-> l.since]
      BY <1>1, <2>1 DEF IsLog
    <2> QED
      BY <2>2
  <1>7. l.cycles[n] \in KeptCycle /\ old \in Seq(RecordType)
    <2>1. l.cycles[n] \in KeptCycle
      BY <1>4, ElementOfSeq
    <2> QED
      BY <2>1 DEF KeptCycle
  <1>8. Append(old, rec) \in Seq(RecordType) /\ Len(Append(old, rec)) > 0
    BY <1>2, <1>7, AppendProperties, LenProperties
  <1>9. /\ new \in Seq(KeptCycle) /\ Len(new) = n
        /\ \A i \in 1..n : i # n => new[i] = l.cycles[i]
        /\ new[n].records = Append(old, rec)
    <2>1. [l.cycles[n] EXCEPT !.records = Append(old, rec)] \in KeptCycle
      BY <1>7, <1>8 DEF KeptCycle
    <2>2. new = [l.cycles EXCEPT ![n] = [l.cycles[n] EXCEPT !.records = Append(old, rec)]]
      OBVIOUS
    <2>3. [l.cycles[n] EXCEPT !.records = Append(old, rec)].records = Append(old, rec)
      BY <1>7 DEF KeptCycle
    <2> DEFINE x == [l.cycles[n] EXCEPT !.records = Append(old, rec)]
    <2> HIDE DEF x, new
    <2>4. new = [l.cycles EXCEPT ![n] = x] /\ x \in KeptCycle /\ x.records = Append(old, rec)
      BY <2>1, <2>2, <2>3 DEF x
    <2> HIDE DEF old
    <2> QED
      BY <1>4, <2>4
  <1> HIDE DEF new
  <1>10. PICK t \in Nat : t = Len(l.trail)
    BY <1>1, LenProperties
  <1>11. /\ m.trail \in Seq(RecordType) /\ Len(m.trail) = t + 1 /\ m.trail[t + 1] = rec
         /\ \A i \in 1..t : m.trail[i] = l.trail[i]
    BY <1>1, <1>2, <1>6, <1>10, AppendAt
  <1>12. l.since \in Nat /\ l.since <= t
    BY <1>10 DEF WindowBy
  <1>13. ASSUME NEW x
         PROVE  /\ \A i \in 1..t : i \in Shown(l, {x}) <=> i \in Shown(m, {x})
                /\ t + 1 \in Shown(m, {x}) <=> x = l.cycleNo
    <2>1. \A i \in 1..t : i \in Shown(l, {x}) <=> i \in Shown(m, {x})
      BY <1>6, <1>10, <1>11, <1>12 DEF Shown
    <2>2. t + 1 \in Shown(m, {x}) <=> x = l.cycleNo
      BY <1>2, <1>6, <1>11, <1>12 DEF Shown
    <2> QED
      BY <2>1, <2>2
  <1>14. ASSUME NEW x
         PROVE  Picked(m.trail, Shown(m, {x})) = IF x = l.cycleNo
                                                 THEN Append(Picked(l.trail, Shown(l, {x})), rec)
                                                 ELSE Picked(l.trail, Shown(l, {x}))
    <2> DEFINE p == Shown(l, {x})
               q == Shown(m, {x})
               was == l.trail
    <2>1. /\ \A i \in 1..Len(was) : i \in p <=> i \in q
          /\ Len(was) + 1 \in q <=> x = l.cycleNo
      BY <1>10, <1>13
    <2>2. was \in Seq(RecordType)
      BY <1>1
    <2>3. rec \in RecordType
      BY <1>2
    <2> HIDE DEF p, q, was
    <2>4. \A i \in 1..Len(was) : i \in p <=> i \in q
      BY <2>1
    <2>5. Picked(Append(was, rec), q) = IF Len(was) + 1 \in q THEN Append(Picked(was, p), rec)
                                        ELSE Picked(was, p)
      BY <2>2, <2>3, <2>4, PickedOfAppend
    <2> QED
      BY <1>6, <2>1, <2>5 DEF p, q, was
  <1>15. ASSUME NEW i \in 1..n
         PROVE  m.cycles[i].records = Picked(m.trail, Shown(m, {num[i]}))
    <2>1. l.cycles[i].records = Picked(l.trail, Shown(l, {num[i]}))
      BY <1>3 DEF WindowBy
    <2>2. CASE i = n
      BY <1>4, <1>6, <1>9, <1>14, <2>1, <2>2
    <2>3. CASE i # n
      <3>1. num[i] < num[n] /\ num[i] \in Nat
        BY <1>3, <1>4, <2>3 DEF WindowBy
      <3>2. num[i] # l.cycleNo
        BY <1>1, <1>4, <3>1
      <3> QED
        BY <1>6, <1>9, <1>14, <2>1, <2>3, <3>2
    <2> QED
      BY <2>2, <2>3
  <1>16. \A i \in 1..(t + 1) : i \in 1..t \/ i = t + 1
    OBVIOUS
  <1>17. \A i \in 1..(t + 1) : m.trail[i].cycle <= l.cycleNo
    <2>1. \A i \in 1..t : l.trail[i].cycle <= l.cycleNo
      BY <1>10 DEF WindowBy
    <2> QED
      BY <1>1, <1>2, <1>11, <1>16, <2>1
  <1>18. \A i, j \in 1..(t + 1) : i < j => m.trail[i].cycle <= m.trail[j].cycle
    <2> SUFFICES ASSUME NEW i \in 1..(t + 1), NEW j \in 1..(t + 1), i < j
                 PROVE  m.trail[i].cycle <= m.trail[j].cycle
      OBVIOUS
    <2>1. i \in 1..t
      OBVIOUS
    <2>2. CASE j \in 1..t
      <3>1. l.trail[i].cycle <= l.trail[j].cycle
        BY <1>10, <2>1, <2>2 DEF WindowBy
      <3> QED
        BY <1>11, <2>1, <2>2, <3>1
    <2>3. CASE j = t + 1
      BY <1>2, <1>11, <1>17, <2>3
    <2> QED
      BY <2>2, <2>3
  <1>19. WindowBy(m, num)
    <2>1. m.since \in Nat /\ m.since <= Len(m.trail)
      BY <1>6, <1>11, <1>12
    <2>2. m.cycles \in Seq(KeptCycle) /\ num \in Seq(Nat) /\ Len(num) = Len(m.cycles)
      BY <1>3, <1>4, <1>6, <1>9
    <2>3. \A i, j \in 1..Len(num) : i < j => num[i] < num[j]
      BY DEF WindowBy
    <2>4. \A i \in 1..Len(num) : num[i] <= m.cycleNo
      BY <1>6 DEF WindowBy
    <2>5. l.chainTip = t - l.since /\ \A i \in (l.since + 1)..t : l.trail[i].link = i - l.since
      BY <1>10 DEF WindowBy
    <2>6. m.chainTip = Len(m.trail) - m.since
      BY <1>6, <1>11, <1>12, <2>5
    <2>7. \A i \in (m.since + 1)..Len(m.trail) : m.trail[i].link = i - m.since
      <3>1. \A i \in (l.since + 1)..(t + 1) : i = t + 1 \/ (i \in (l.since + 1)..t /\ i \in 1..t)
        BY <1>12
      <3>2. rec.link = (t + 1) - l.since
        BY <1>2, <1>12, <2>5
      <3>3. \A i \in (l.since + 1)..(t + 1) : m.trail[i].link = i - l.since
        BY <1>11, <2>5, <3>1, <3>2
      <3> QED
        BY <1>6, <1>11, <3>3
    <2> QED
      BY <1>3, <1>4, <1>6, <1>11, <1>15, <1>17, <1>18, <2>1, <2>2, <2>3, <2>4, <2>6, <2>7 DEF WindowBy
  <1>20. Filled(m)
    <2> SUFFICES ASSUME NEW i \in 1..n PROVE Len(m.cycles[i].records) > 0
      BY <1>6, <1>9 DEF Filled
    <2>1. CASE i = n
      BY <1>6, <1>8, <1>9, <2>1
    <2>2. CASE i # n
      BY <1>4, <1>6, <1>9, <2>2 DEF FilledBut
    <2> QED
      BY <2>1, <2>2
  <1> QED
    BY <1>19, <1>20 DEF m

(* Record, into the current cycle or a headless one.                        *)
LEMMA RecordKeepsWindow ==
  ASSUME NEW l, LogOK(l), Window(l), NEW r \in StepType
  PROVE  Window(Record(l, r))
  <1>1. PICK num : WindowBy(l, num)
    BY DEF Window
  <1>2. Filled(l) /\ l.current \in BOOLEAN
    BY DEF Window, LogOK
  <1>3. CASE l.current = TRUE
    <2>1. FilledBut(l)
      BY <1>2 DEF Filled, FilledBut
    <2>2. WindowBy(Record(l, r), num) /\ Filled(Record(l, r))
      BY <1>1, <1>3, <2>1, RecordWindow
    <2> QED
      BY <2>2 DEF Window
  <1>4. CASE l.current = FALSE
    <2> DEFINE o == OpenCycle(l, NeverStarted)
               more == Append(num, l.cycleNo + 1)
    <2>1. NeverStarted \in Int
      BY DEF NeverStarted
    <2>2. WindowBy(o, more) /\ FilledBut(o)
      BY <1>1, <1>2, <2>1, OpenWindow
    <2>3. LogOK(o) /\ o.current = TRUE
      BY OpenCycleOK
    <2>4. Record(l, r) = Record(o, r)
      BY <1>4, <2>3 DEF Record
    <2> HIDE DEF o, more
    <2>5. WindowBy(Record(o, r), more) /\ Filled(Record(o, r))
      BY <2>2, <2>3, RecordWindow
    <2> QED
      BY <2>4, <2>5 DEF Window
  <1> QED
    BY <1>2, <1>3, <1>4

LEMMA BeginKeepsWindow ==
  ASSUME NEW l, LogOK(l), Window(l), NEW now \in Int
  PROVE  LogOK(BeginCycle(l, now)) /\ Window(BeginCycle(l, now))
  <1> DEFINE o == OpenCycle(l, now)
             more(num) == Append(num, l.cycleNo + 1)
             r == Step("intent", {}, "asked", "caller")
  <1>1. PICK num : WindowBy(l, num)
    BY DEF Window
  <1>2. WindowBy(o, more(num)) /\ FilledBut(o)
    BY <1>1, OpenWindow DEF Window
  <1>3. LogOK(o) /\ o.current = TRUE
    BY OpenCycleOK
  <1>4. r \in StepType
    BY DEF Step, StepType, StageNames, OutNames, Authors, Vocabulary
  <1>5. BeginCycle(l, now) = Record(o, r)
    BY DEF BeginCycle
  <1> HIDE DEF o, more, r
  <1>6. WindowBy(Record(o, r), more(num)) /\ Filled(Record(o, r))
    BY <1>2, <1>3, <1>4, RecordWindow
  <1>7. LogOK(Record(o, r))
    BY <1>3, <1>4, RecordInCycle
  <1> QED
    BY <1>5, <1>6, <1>7 DEF Window

(* Rotate drops whole cycles.                                               *)
LEMMA RotateKeepsWindow ==
  ASSUME NEW l, LogOK(l), Window(l), NEW cutoff
  PROVE  Window(Rotate(l, cutoff))
  <1> DEFINE m == Rotate(l, cutoff)
             p == InWindow(l, cutoff)
             kept == Picked(l.cycles, p)
  <1>1. PICK num : WindowBy(l, num)
    BY DEF Window
  <1>2. m.cycles = kept /\ m.current = FALSE /\ m.trail = l.trail /\ m.since = l.since
        /\ m.cycleNo = l.cycleNo /\ m.chainTip = l.chainTip
    <2>1. m = [l EXCEPT !.cycles = kept, !.current = FALSE]
      BY DEF Rotate
    <2> HIDE DEF kept, m
    <2>2. m = [cycles |-> kept, current |-> FALSE, chainTip |-> l.chainTip,
               cycleNo |-> l.cycleNo, trail |-> l.trail, since |-> l.since]
      BY <2>1 DEF LogOK, IsLog
    <2> QED
      BY <2>2
  <1>3. l.cycles \in Seq(KeptCycle) /\ num \in Seq(Nat) /\ Len(num) = Len(l.cycles)
    BY <1>1 DEF WindowBy
  <1>4. PICK n \in Nat : n = Len(num)
    BY <1>3, LenProperties
  <1> HIDE DEF m, p
  <1>5. PICK at : Chosen(at, l.cycles, p, kept, n)
    BY <1>3, <1>4, PickedPlaces
  <1>6. kept \in Seq(KeptCycle) /\ Len(kept) \in Nat
    BY <1>3, PickedType
  <1>7. PICK k \in Nat : k = Len(kept)
    BY <1>6
  <1> DEFINE fewer == [i \in 1..k |-> num[at[i]]]
  <1> HIDE DEF kept
  <1>8. \A i \in 1..k : at[i] \in 1..n /\ kept[i] = l.cycles[at[i]]
    BY <1>5, <1>7 DEF Chosen
  <1>9. \A i, j \in 1..k : i < j => at[i] < at[j]
    BY <1>5, <1>7 DEF Chosen
  <1>10. \A i \in 1..n : num[i] \in Nat
    BY <1>3, <1>4, ElementOfSeq
  <1>11. fewer \in Seq(Nat) /\ Len(fewer) = k /\ \A i \in 1..k : fewer[i] = num[at[i]]
    <2>1. \A i \in 1..k : num[at[i]] \in Nat
      BY <1>8, <1>10
    <2> QED
      BY <2>1, <1>7, IsASeq, LenProperties
  <1> HIDE DEF fewer
  <1>12. \A i, j \in 1..k : i < j => fewer[i] < fewer[j]
    <2>1. \A i, j \in 1..n : i < j => num[i] < num[j]
      BY <1>1, <1>4 DEF WindowBy
    <2> QED
      BY <1>8, <1>9, <1>11, <2>1
  <1>13. \A i \in 1..k : fewer[i] <= l.cycleNo
    <2>1. \A i \in 1..n : num[i] <= l.cycleNo
      BY <1>1, <1>4 DEF WindowBy
    <2> QED
      BY <1>8, <1>11, <2>1
  <1>14. \A x : Shown(m, x) = Shown(l, x)
    BY <1>2 DEF Shown
  <1>15. \A i \in 1..k : kept[i].records = Picked(l.trail, Shown(l, {fewer[i]}))
    <2>1. \A i \in 1..n : l.cycles[i].records = Picked(l.trail, Shown(l, {num[i]}))
      BY <1>1, <1>4 DEF WindowBy
    <2> SUFFICES ASSUME NEW i \in 1..k
                 PROVE  kept[i].records = Picked(l.trail, Shown(l, {fewer[i]}))
      OBVIOUS
    <2>2. at[i] \in 1..n /\ kept[i] = l.cycles[at[i]] /\ fewer[i] = num[at[i]]
      BY <1>8, <1>11
    <2>3. l.cycles[at[i]].records = Picked(l.trail, Shown(l, {num[at[i]]}))
      BY <2>1, <2>2
    <2> QED
      BY <2>2, <2>3
  <1>16. WindowBy(m, fewer)
    <2>1. l.since \in Nat /\ l.since <= Len(l.trail)
      BY <1>1 DEF WindowBy
    <2>2. \A i, j \in 1..Len(l.trail) : i < j => l.trail[i].cycle <= l.trail[j].cycle
      BY <1>1 DEF WindowBy
    <2>3. \A i \in 1..Len(l.trail) : l.trail[i].cycle <= l.cycleNo
      BY <1>1 DEF WindowBy
    <2>4. \A i \in 1..k : m.cycles[i].records = Picked(m.trail, Shown(m, {fewer[i]}))
      BY <1>2, <1>14, <1>15
    <2>5. /\ l.chainTip = Len(l.trail) - l.since
          /\ \A i \in (l.since + 1)..Len(l.trail) : l.trail[i].link = i - l.since
      BY <1>1 DEF WindowBy
    <2> QED
      BY <1>2, <1>6, <1>7, <1>11, <1>12, <1>13, <2>1, <2>2, <2>3, <2>4, <2>5 DEF WindowBy
  <1>17. Filled(m)
    <2>1. \A i \in 1..n : Len(l.cycles[i].records) > 0
      BY <1>3, <1>4 DEF Window, Filled
    <2>2. \A i \in 1..k : Len(kept[i].records) > 0
      BY <1>8, <2>1
    <2> QED
      BY <1>2, <1>7, <2>2 DEF Filled
  <1> QED
    BY <1>16, <1>17 DEF Window, m

------------------------------------------------------------------------------
(* RecordAll *)

(* The function RecordAll recurs with, over the sets of places in rs. *)
Folds(f, l, rs, n) ==
  f = [s \in SUBSET (1..n) |-> IF s = {} THEN l ELSE Record(f[s \ {Max(s)}], rs[Max(s)])]

LEMMA FoldsExists ==
  ASSUME NEW l, NEW rs, NEW n \in Nat
  PROVE  \E f : Folds(f, l, rs, n)
  <1> DEFINE S == {m \in Nat : \E f : Folds(f, l, rs, m)}
  <1>1. 0 \in S
    <2> DEFINE g == [s \in SUBSET (1..0) |-> l]
    <2>1. \A s \in SUBSET (1..0) : s = {}
      OBVIOUS
    <2>2. g = [s \in SUBSET (1..0) |-> IF s = {} THEN l ELSE Record(g[s \ {Max(s)}], rs[Max(s)])]
      BY <2>1
    <2>3. Folds(g, l, rs, 0)
      BY <2>2 DEF Folds
    <2> QED
      BY <2>3
  <1>2. ASSUME NEW m \in Nat, m \in S
        PROVE  m + 1 \in S
    <2>1. PICK f : Folds(f, l, rs, m)
      BY <1>2
    <2> DEFINE g == [s \in SUBSET (1..(m+1)) |->
                       IF s \in SUBSET (1..m) THEN f[s] ELSE Record(f[s \ {Max(s)}], rs[Max(s)])]
    <2>2. ASSUME NEW s \in SUBSET (1..(m+1))
          PROVE  g[s] = IF s = {} THEN l ELSE Record(g[s \ {Max(s)}], rs[Max(s)])
      <3>1. CASE s \in SUBSET (1..m)
        <4>1. g[s] = f[s]
          BY <3>1
        <4>2. f[s] = IF s = {} THEN l ELSE Record(f[s \ {Max(s)}], rs[Max(s)])
          BY <2>1, <3>1 DEF Folds
        <4>3. s \ {Max(s)} \in SUBSET (1..m) /\ s \ {Max(s)} \in SUBSET (1..(m+1))
          BY <3>1
        <4>4. g[s \ {Max(s)}] = f[s \ {Max(s)}]
          BY <4>3
        <4> HIDE DEF g
        <4> QED
          BY <4>1, <4>2, <4>4
      <3>2. CASE s \notin SUBSET (1..m)
        <4>1. m + 1 \in s /\ s # {}
          BY <3>2
        <4>2. Max(s) \in s /\ Max(s) >= m + 1
          BY <4>1, MaxOfSome
        <4>3. Max(s) = m + 1
          <5>1. Max(s) \in 1..(m + 1)
            BY <4>2
          <5> QED
            BY <4>2, <5>1
        <4>4. s \ {Max(s)} \in SUBSET (1..m) /\ s \ {Max(s)} \in SUBSET (1..(m+1))
          BY <4>3
        <4>5. g[s \ {Max(s)}] = f[s \ {Max(s)}]
          BY <4>4
        <4>6. g[s] = Record(f[s \ {Max(s)}], rs[Max(s)])
          BY <3>2
        <4> HIDE DEF g
        <4> QED
          BY <4>1, <4>5, <4>6
      <3> QED
        BY <3>1, <3>2
    <2>3. g = [s \in SUBSET (1..(m+1)) |-> g[s]]
      OBVIOUS
    <2> HIDE DEF g
    <2>4. Folds(g, l, rs, m + 1)
      BY <2>2, <2>3 DEF Folds
    <2> QED
      BY <2>4
  <1> HIDE DEF S
  <1>3. n \in S
    BY <1>1, <1>2, SetInduction
  <1> QED
    BY <1>3 DEF S

LEMMA RecordAllUnfolds ==
  ASSUME NEW l, NEW rs, NEW n \in Nat, DOMAIN rs = 1..n
  PROVE  \E f : Folds(f, l, rs, n) /\ RecordAll(l, rs) = f[1..n]
  <1> DEFINE F == CHOOSE f : f = [s \in SUBSET (1..n) |-> IF s = {} THEN l ELSE Record(f[s \ {Max(s)}], rs[Max(s)])]
  <1>1. \E f : Folds(f, l, rs, n)
    BY FoldsExists
  <1>2. RecordAll(l, rs) = F[1..n]
    BY Zenon DEF RecordAll, FoldLeft, MapThenFoldSet
  <1>3. F = [s \in SUBSET (1..n) |-> IF s = {} THEN l ELSE Record(F[s \ {Max(s)}], rs[Max(s)])]
    BY <1>1 DEF Folds
  <1> QED
    BY <1>2, <1>3 DEF Folds

(* m is the log l after the first k of the steps, all in one cycle of it. *)
Extends(m, l, steps, k) ==
  /\ LogOK(m)
  /\ m.current = TRUE
  /\ m.cycleNo = l.cycleNo
  /\ Len(m.trail) = Len(l.trail) + k
  /\ \A i \in 1..Len(l.trail) : m.trail[i] = l.trail[i]
  /\ \A i \in 1..k : Tells(m.trail[Len(l.trail) + i], steps[i], l.cycleNo)
  /\ Window(l) => Window(m)

LEMMA RecordExtends ==
  ASSUME NEW l, LogOK(l), NEW steps, NEW k \in Nat, NEW m, Extends(m, l, steps, k),
         steps[k + 1] \in StepType
  PROVE  Extends(Record(m, steps[k + 1]), l, steps, k + 1)
  <1> DEFINE r == steps[k + 1]
  <1> DEFINE new == Record(m, r)
  <1>1. LogOK(m) /\ m.current = TRUE /\ m.cycleNo = l.cycleNo /\ Len(m.trail) = Len(l.trail) + k
    BY DEF Extends
  <1>2. /\ LogOK(new) /\ new.current = TRUE /\ new.cycleNo = l.cycleNo
        /\ \E record \in RecordType : Tells(record, r, l.cycleNo) /\ new.trail = Append(m.trail, record)
    BY <1>1, RecordInCycle
  <1>3. PICK record \in RecordType : Tells(record, r, l.cycleNo) /\ new.trail = Append(m.trail, record)
    BY <1>2
  <1> HIDE DEF new
  <1>4. l.trail \in Seq(RecordType) /\ m.trail \in Seq(RecordType)
    BY <1>1 DEF LogOK
  <1>5. PICK p \in Nat : p = Len(l.trail)
    BY <1>4
  <1>6. /\ Len(m.trail) = p + k
        /\ Len(new.trail) = p + k + 1
        /\ \A i \in 1..(p + k) : new.trail[i] = m.trail[i]
        /\ new.trail[p + k + 1] = record
    <2>1. Len(m.trail) = p + k /\ p + k \in Nat
      BY <1>1, <1>5
    <2> QED
      BY <1>3, <1>4, <2>1, AppendAt
  <1>7. \A i \in 1..p : new.trail[i] = l.trail[i]
    <2> SUFFICES ASSUME NEW i \in 1..p PROVE new.trail[i] = l.trail[i]
      OBVIOUS
    <2>1. m.trail[i] = l.trail[i]
      BY <1>5 DEF Extends
    <2>2. i \in 1..(p + k)
      OBVIOUS
    <2> QED
      BY <1>6, <2>1, <2>2
  <1>8. ASSUME NEW i \in 1..(k + 1)
        PROVE  Tells(new.trail[p + i], steps[i], l.cycleNo)
    <2>1. CASE i = k + 1
      <3>1. p + i = p + k + 1
        BY <2>1
      <3>2. new.trail[p + i] = record
        BY <1>6, <3>1
      <3> QED
        BY <1>3, <2>1, <3>2
    <2>2. CASE i \in 1..k
      <3>1. p + i \in 1..(p + k)
        BY <2>2
      <3>2. new.trail[p + i] = m.trail[p + i]
        BY <1>6, <3>1
      <3>3. Tells(m.trail[p + i], steps[i], l.cycleNo)
        BY <1>5, <2>2 DEF Extends
      <3> QED
        BY <3>2, <3>3
    <2> QED
      BY <2>1, <2>2
  <1>9. Len(new.trail) = p + (k + 1)
    BY <1>6
  <1>10. Window(l) => Window(new)
    <2>1. Window(l) => Window(m)
      BY DEF Extends
    <2>2. Window(m) => Window(new)
      BY <1>1, RecordKeepsWindow DEF new
    <2> QED
      BY <2>1, <2>2
  <1>11. Extends(new, l, steps, k + 1)
    BY <1>2, <1>5, <1>7, <1>8, <1>9, <1>10 DEF Extends
  <1> QED
    BY <1>11 DEF new

(* RecordAll appends its steps, in order, to the current cycle. *)
LEMMA RecordAllExtends ==
  ASSUME NEW l, LogOK(l), l.current = TRUE, NEW n \in Nat, NEW steps, DOMAIN steps = 1..n,
         \A i \in 1..n : steps[i] \in StepType
  PROVE  Extends(RecordAll(l, steps), l, steps, n)
  <1>1. PICK f : Folds(f, l, steps, n) /\ RecordAll(l, steps) = f[1..n]
    BY RecordAllUnfolds
  <1> DEFINE S == {k \in Nat : k <= n => Extends(f[1..k], l, steps, k)}
  <1>2. 0 \in S
    <2>1. 1..0 = {} /\ {} \in SUBSET (1..n)
      OBVIOUS
    <2>2. f[1..0] = l
      BY <1>1, <2>1 DEF Folds
    <2>3. Len(l.trail) \in Nat
      BY DEF LogOK
    <2>4. Extends(l, l, steps, 0)
      BY <2>3 DEF Extends
    <2> QED
      BY <2>2, <2>4
  <1>3. ASSUME NEW k \in Nat, k \in S
        PROVE  k + 1 \in S
    <2> SUFFICES ASSUME k + 1 <= n PROVE Extends(f[1..(k + 1)], l, steps, k + 1)
      OBVIOUS
    <2>1. 1..(k + 1) \in SUBSET (1..n) /\ k + 1 \in 1..(k + 1) /\ k + 1 \in 1..n
      OBVIOUS
    <2>2. Max(1..(k + 1)) = k + 1
      <3>1. Max(1..(k + 1)) \in 1..(k + 1) /\ Max(1..(k + 1)) >= k + 1
        BY <2>1, MaxOfSome
      <3> QED
        BY <3>1
    <2>3. (1..(k + 1)) \ {k + 1} = 1..k
      OBVIOUS
    <2>4. f[1..(k + 1)] = Record(f[1..k], steps[k + 1])
      BY <1>1, <2>1, <2>2, <2>3 DEF Folds
    <2>5. Extends(f[1..k], l, steps, k)
      BY <1>3
    <2> QED
      BY <2>1, <2>4, <2>5, RecordExtends
  <1> HIDE DEF S
  <1>4. n \in S
    BY <1>2, <1>3, SetInduction
  <1> QED
    BY <1>1, <1>4 DEF S

------------------------------------------------------------------------------
(* The inductive invariant *)

Phases == {"none", "stages", "usage", "retention", "persist", "saving"}
Outcomes == {"decided", "parked", "blocked", "failed", "crashed"}

Types ==
  /\ LogOK(log)
  /\ cyc \in [phase : Phases, at : 0..7, plan : Seq(Workflow), approval : Approval]
  /\ ended \in Seq([cycle : Nat, outcome : Outcomes])

(* Cycles are numbered in the order they begin, and the number of the latest *)
(* can be read off the trail: that is how the next session continues.      *)
Used(t, c) == \E j \in 1..Len(t) : t[j].cycle = c

TrailNumbered(l) ==
  /\ \A i \in 1..Len(l.trail) : l.trail[i].cycle <= l.cycleNo
  /\ l.cycleNo = 0 \/ Used(l.trail, l.cycleNo)

Numbering ==
  /\ TrailNumbered(log)
  /\ \A n \in 1..Len(ended) : ended[n].cycle <= log.cycleNo
  /\ cyc.phase = "stages" => \A n \in 1..Len(ended) : ended[n].cycle < log.cycleNo
  /\ cyc.phase \in {"stages", "usage"} => log.current = TRUE

(* The ruling of a gate on p, and one that lets the cycle continue. *)
IsRuling(r, p) == r.stage \in {"policy", "approval"} /\ r.about = {p}

Grants(r, p) ==
  \/ r.out = "complies"
  \/ r.out = "approved" /\ (Approvers[p] = {} \/ r.by \in Approvers[p])

(* What a cycle that may still decide has on the trail. *)
Favourable(r) ==
  \/ r.stage \in {"intent", "deliberation"} /\ r.out \in {"asked", "decision"}
  \/ \E p \in Policy : IsRuling(r, p) /\ Grants(r, p)

Judged(t, c, p) == \E i \in 1..Len(t) : t[i].cycle = c /\ IsRuling(t[i], p)

FavourableCycle(t, c) == \A i \in 1..Len(t) : t[i].cycle = c => Favourable(t[i])

(* A cycle in its stages has only favourable records, among them the rulings *)
(* of the gates that are behind it.                                        *)
InStages ==
  cyc.phase = "stages" =>
    /\ cyc.at \in 1..7
    /\ FavourableCycle(log.trail, log.cycleNo)
    /\ cyc.at > 1 => \A p \in ToSet(RuntimePolicies) : Judged(log.trail, log.cycleNo, p)
    /\ cyc.at > 3 => \A w \in ToSet(cyc.plan) : \A p \in ToSet(PoliciesOf[w]) :
                        Judged(log.trail, log.cycleNo, p)

CycleIInv ==
  Types /\ Numbering /\ InStages /\ GovernedDeliberation /\ TrailTellsOutcome

------------------------------------------------------------------------------
(* What a trail says, after more of it *)

(* u is the trail t and k more records, which tell the steps in cycle c. *)
Grows(t, u, steps, k, c) ==
  /\ t \in Seq(RecordType)
  /\ u \in Seq(RecordType)
  /\ Len(u) = Len(t) + k
  /\ \A i \in 1..Len(t) : u[i] = t[i]
  /\ \A i \in 1..k : Tells(u[Len(t) + i], steps[i], c)

LEMMA ExtendsGrows ==
  ASSUME NEW l, LogOK(l), NEW m, NEW steps, NEW k, Extends(m, l, steps, k)
  PROVE  Grows(l.trail, m.trail, steps, k, l.cycleNo)
  BY DEF LogOK, Extends, Grows

LEMMA ExtendsNone ==
  ASSUME NEW l, LogOK(l), l.current = TRUE, NEW steps
  PROVE  Extends(l, l, steps, 0)
  <1>1. Len(l.trail) \in Nat
    BY DEF LogOK
  <1> QED
    BY <1>1 DEF Extends

(* A place in the longer trail is one in the shorter, or of a step. *)
LEMMA GrowsPlaces ==
  ASSUME NEW t, NEW u, NEW steps, NEW k \in Nat, NEW c, Grows(t, u, steps, k, c)
  PROVE  /\ Len(t) \in Nat
         /\ \A i \in 1..Len(t) : i \in 1..Len(u) /\ u[i] = t[i]
         /\ \A i \in 1..k : Len(t) + i \in 1..Len(u) /\ Tells(u[Len(t) + i], steps[i], c)
  <1>1. PICK n \in Nat : n = Len(t)
    BY DEF Grows
  <1>2. Len(u) = n + k
    BY <1>1 DEF Grows
  <1>3. \A i \in 1..n : i \in 1..(n + k)
    OBVIOUS
  <1>4. \A i \in 1..k : n + i \in 1..(n + k)
    OBVIOUS
  <1>6. \A i \in 1..n : u[i] = t[i]
    BY <1>1 DEF Grows
  <1>7. \A i \in 1..k : Tells(u[n + i], steps[i], c)
    BY <1>1 DEF Grows
  <1> QED
    BY <1>1, <1>2, <1>3, <1>4, <1>6, <1>7

OldOrNew(j, t, k) == j \in 1..Len(t) \/ \E i \in 1..k : j = Len(t) + i

LEMMA GrowsNowhereElse ==
  ASSUME NEW t, NEW u, NEW steps, NEW k \in Nat, NEW c, Grows(t, u, steps, k, c),
         NEW j \in 1..Len(u)
  PROVE  OldOrNew(j, t, k)
  <1>1. PICK n \in Nat : n = Len(t)
    BY DEF Grows
  <1>2. j \in 1..(n + k)
    BY <1>1 DEF Grows
  <1>3. CASE j \notin 1..n
    <2>1. j - n \in 1..k /\ j = n + (j - n)
      BY <1>2, <1>3
    <2> QED
      BY <1>1, <2>1 DEF OldOrNew
  <1> QED
    BY <1>1, <1>3 DEF OldOrNew

Outs(t, c) == {t[i].out : i \in {j \in 1..Len(t) : t[j].cycle = c}}

Joins(s, a, b) == s = a \cup b

NewOuts(steps, k, c, d) == IF d = c THEN {steps[i].out : i \in 1..k} ELSE {}

LEMMA OutsGrow ==
  ASSUME NEW t, NEW u, NEW steps, NEW k \in Nat, NEW c, Grows(t, u, steps, k, c), NEW d
  PROVE  Joins(Outs(u, d), Outs(t, d), NewOuts(steps, k, c, d))
  <1> DEFINE more == IF d = c THEN {steps[i].out : i \in 1..k} ELSE {}
  <1>1. ASSUME NEW j \in 1..Len(u), u[j].cycle = d
        PROVE  u[j].out \in Outs(t, d) \cup more
    <2>1. CASE j \in 1..Len(t)
      <3>1. u[j] = t[j]
        BY <2>1, GrowsPlaces
      <3>2. t[j].out \in Outs(t, d)
        BY <1>1, <2>1, <3>1 DEF Outs
      <3> QED
        BY <3>1, <3>2
    <2>2. CASE \E i \in 1..k : j = Len(t) + i
      <3>1. PICK i \in 1..k : j = Len(t) + i
        BY <2>2
      <3>2. Tells(u[j], steps[i], c)
        BY <3>1, GrowsPlaces
      <3>3. d = c /\ u[j].out = steps[i].out
        BY <1>1, <3>2 DEF Tells
      <3>4. steps[i].out \in more
        BY <3>1, <3>3
      <3> QED
        BY <3>3, <3>4
    <2>3. OldOrNew(j, t, k)
      BY GrowsNowhereElse
    <2> HIDE DEF more
    <2> QED
      BY <2>1, <2>2, <2>3 DEF OldOrNew
  <1>2. ASSUME NEW j \in 1..Len(t), t[j].cycle = d
        PROVE  t[j].out \in Outs(u, d)
    <2>1. j \in 1..Len(u) /\ u[j] = t[j]
      BY GrowsPlaces
    <2> QED
      BY <1>2, <2>1 DEF Outs
  <1>3. ASSUME NEW i \in 1..k, d = c
        PROVE  steps[i].out \in Outs(u, d)
    <2>1. Len(t) + i \in 1..Len(u) /\ Tells(u[Len(t) + i], steps[i], c)
      BY GrowsPlaces
    <2> QED
      BY <1>3, <2>1 DEF Outs, Tells
  <1>4. Outs(u, d) \subseteq Outs(t, d) \cup more
    <2> HIDE DEF more
    <2> QED
      BY <1>1 DEF Outs
  <1>5. Outs(t, d) \subseteq Outs(u, d)
    BY <1>2 DEF Outs
  <1>6. more \subseteq Outs(u, d)
    BY <1>3
  <1>7. more = NewOuts(steps, k, c, d)
    BY DEF NewOuts
  <1> HIDE DEF more
  <1> QED
    BY <1>4, <1>5, <1>6, <1>7 DEF Joins

LEMMA JudgedGrow ==
  ASSUME NEW t, NEW u, NEW steps, NEW k \in Nat, NEW c, Grows(t, u, steps, k, c), NEW d, NEW p
  PROVE  /\ Judged(t, d, p) => Judged(u, d, p)
         /\ \A i \in 1..k : IsRuling(steps[i], p) => Judged(u, c, p)
  <1>1. Judged(t, d, p) => Judged(u, d, p)
    <2>1. \A i \in 1..Len(t) : i \in 1..Len(u) /\ u[i] = t[i]
      BY GrowsPlaces
    <2> QED
      BY <2>1 DEF Judged
  <1>2. ASSUME NEW i \in 1..k, IsRuling(steps[i], p)
        PROVE  Judged(u, c, p)
    <2>1. Len(t) + i \in 1..Len(u) /\ Tells(u[Len(t) + i], steps[i], c)
      BY GrowsPlaces
    <2> QED
      BY <1>2, <2>1 DEF Judged, IsRuling, Tells
  <1> QED
    BY <1>1, <1>2

LEMMA TellsFavourable ==
  ASSUME NEW r, NEW step, NEW c, Tells(r, step, c), Favourable(step)
  PROVE  Favourable(r)
  <1>1. CASE step.stage \in {"intent", "deliberation"} /\ step.out \in {"asked", "decision"}
    BY <1>1 DEF Tells, Favourable
  <1>2. CASE \E p \in Policy : IsRuling(step, p) /\ Grants(step, p)
    <2>1. PICK p \in Policy : IsRuling(step, p) /\ Grants(step, p)
      BY <1>2
    <2>2. IsRuling(r, p)
      BY <2>1 DEF Tells, IsRuling
    <2>3. Grants(r, p)
      BY <2>1 DEF Tells, Grants
    <2> QED
      BY <2>2, <2>3 DEF Favourable
  <1> QED
    BY <1>1, <1>2 DEF Favourable

LEMMA FavourableGrow ==
  ASSUME NEW t, NEW u, NEW steps, NEW k \in Nat, NEW c, Grows(t, u, steps, k, c),
         FavourableCycle(t, c), \A i \in 1..k : Favourable(steps[i])
  PROVE  FavourableCycle(u, c)
  <1> SUFFICES ASSUME NEW j \in 1..Len(u), u[j].cycle = c PROVE Favourable(u[j])
    BY DEF FavourableCycle
  <1>1. CASE j \in 1..Len(t)
    BY <1>1, GrowsPlaces DEF FavourableCycle
  <1>2. CASE \E i \in 1..k : j = Len(t) + i
    <2>1. PICK i \in 1..k : j = Len(t) + i
      BY <1>2
    <2>2. Tells(u[j], steps[i], c)
      BY <2>1, GrowsPlaces
    <2> QED
      BY <2>1, <2>2, TellsFavourable
  <1>3. OldOrNew(j, t, k)
    BY GrowsNowhereElse
  <1> QED
    BY <1>1, <1>2, <1>3 DEF OldOrNew

LEMMA NumbersGrow ==
  ASSUME NEW t, NEW u, NEW steps, NEW k \in Nat, NEW c, Grows(t, u, steps, k, c)
  PROVE  /\ \A j \in 1..Len(u) : u[j].cycle = c \/ (j \in 1..Len(t) /\ u[j] = t[j])
         /\ k > 0 => Used(u, c)
  <1>1. ASSUME NEW j \in 1..Len(u)
        PROVE  u[j].cycle = c \/ (j \in 1..Len(t) /\ u[j] = t[j])
    <2>1. OldOrNew(j, t, k)
      BY GrowsNowhereElse
    <2>2. CASE j \in 1..Len(t)
      BY <2>2, GrowsPlaces
    <2>3. CASE \E i \in 1..k : j = Len(t) + i
      <3>1. PICK i \in 1..k : j = Len(t) + i
        BY <2>3
      <3>2. Tells(u[j], steps[i], c)
        BY <3>1, GrowsPlaces
      <3> QED
        BY <3>2 DEF Tells
    <2> QED
      BY <2>1, <2>2, <2>3 DEF OldOrNew
  <1>2. ASSUME k > 0
        PROVE  Used(u, c)
    <2>1. 1 \in 1..k
      BY <1>2
    <2>2. Len(t) + 1 \in 1..Len(u) /\ Tells(u[Len(t) + 1], steps[1], c)
      BY <2>1, GrowsPlaces
    <2> QED
      BY <2>2 DEF Tells, Used
  <1> QED
    BY <1>1, <1>2

(* The gates of GovernedDeliberation, of a trail. *)
Gates(about) ==
  ToSet(RuntimePolicies) \cup UNION {ToSet(PoliciesOf[w]) : w \in about}

RulingsBefore(t, i, p) ==
  {j \in 1..(i - 1) : /\ t[j].cycle = t[i].cycle
                      /\ t[j].stage \in {"policy", "approval"}
                      /\ t[j].about = {p}}

Governed(t) ==
  \A i \in 1..Len(t) : t[i].stage = "deliberation" =>
    \A p \in Gates(t[i].about) :
      /\ RulingsBefore(t, i, p) # {}
      /\ \A j \in RulingsBefore(t, i, p) : Grants(t[j], p)

LEMMA GovernedTrail == GovernedDeliberation <=> Governed(log.trail)
  BY DEF GovernedDeliberation, Governed, Gates, RulingsBefore, Grants

(* Records that are appended change nothing of the records before them. *)
LEMMA RulingsKept ==
  ASSUME NEW t, NEW u, NEW steps, NEW k \in Nat, NEW c, Grows(t, u, steps, k, c),
         NEW i \in 1..Len(t), NEW p
  PROVE  RulingsBefore(u, i, p) = RulingsBefore(t, i, p)
  <1>1. PICK n \in Nat : n = Len(t)
    BY GrowsPlaces
  <1>2. \A j \in 1..(i - 1) : j \in 1..n
    BY <1>1
  <1>3. \A j \in 1..n : u[j] = t[j]
    BY <1>1 DEF Grows
  <1>4. u[i] = t[i] /\ \A j \in 1..(i - 1) : u[j] = t[j]
    BY <1>1, <1>2, <1>3
  <1> QED
    BY <1>4 DEF RulingsBefore

LEMMA GovernedBefore ==
  ASSUME NEW t, NEW u, NEW steps, NEW k \in Nat, NEW c, Grows(t, u, steps, k, c), Governed(t),
         NEW i \in 1..Len(t), u[i].stage = "deliberation", NEW p \in Gates(u[i].about)
  PROVE  /\ RulingsBefore(u, i, p) # {}
         /\ \A j \in RulingsBefore(u, i, p) : Grants(u[j], p)
  <1>1. RulingsBefore(u, i, p) = RulingsBefore(t, i, p)
    BY RulingsKept
  <1>2. u[i] = t[i]
    <2>1. \A j \in 1..Len(t) : u[j] = t[j]
      BY DEF Grows
    <2> QED
      BY <2>1
  <1>3. /\ RulingsBefore(t, i, p) # {}
        /\ \A j \in RulingsBefore(t, i, p) : Grants(t[j], p)
    BY <1>2 DEF Governed
  <1>4. \A j \in RulingsBefore(t, i, p) : j \in 1..Len(t)
    <2>1. PICK n \in Nat : n = Len(t)
      BY GrowsPlaces
    <2> QED
      BY <2>1 DEF RulingsBefore
  <1>5. \A j \in RulingsBefore(t, i, p) : u[j] = t[j]
    <2>1. \A j \in 1..Len(t) : u[j] = t[j]
      BY DEF Grows
    <2> QED
      BY <1>4, <2>1
  <1> QED
    BY <1>1, <1>3, <1>5

LEMMA GovernedGrow ==
  ASSUME NEW t, NEW u, NEW steps, NEW k \in Nat, NEW c, Grows(t, u, steps, k, c), Governed(t),
         \A i \in 1..k : steps[i].stage # "deliberation"
  PROVE  Governed(u)
  <1>1. ASSUME NEW j \in 1..Len(u), u[j].stage = "deliberation"
        PROVE  j \in 1..Len(t)
    <2>1. OldOrNew(j, t, k)
      BY GrowsNowhereElse
    <2>2. ASSUME NEW i \in 1..k, j = Len(t) + i
          PROVE  FALSE
      <3>1. Tells(u[j], steps[i], c)
        BY <2>2, GrowsPlaces
      <3> QED
        BY <1>1, <3>1 DEF Tells
    <2> QED
      BY <2>1, <2>2 DEF OldOrNew
  <1> SUFFICES ASSUME NEW i \in 1..Len(u), u[i].stage = "deliberation", NEW p \in Gates(u[i].about)
               PROVE  /\ RulingsBefore(u, i, p) # {}
                      /\ \A j \in RulingsBefore(u, i, p) : Grants(u[j], p)
    BY DEF Governed
  <1> QED
    BY <1>1, GovernedBefore

(* A deliberation after favourable rulings of all its gates. *)
LEMMA GovernedDeliberate ==
  ASSUME NEW t, NEW u, NEW steps, NEW c, Grows(t, u, steps, 1, c), Governed(t),
         steps[1].stage = "deliberation", FavourableCycle(t, c),
         \A p \in Gates(steps[1].about) : Judged(t, c, p)
  PROVE  Governed(u)
  <1>1. PICK n \in Nat : n = Len(t)
    BY GrowsPlaces
  <1>2. Len(u) = n + 1 /\ Tells(u[n + 1], steps[1], c) /\ \A i \in 1..n : u[i] = t[i]
    <2>1. 1 \in 1..1
      OBVIOUS
    <2> QED
      BY <1>1, <2>1 DEF Grows
  <1> SUFFICES ASSUME NEW i \in 1..Len(u), u[i].stage = "deliberation", NEW p \in Gates(u[i].about)
               PROVE  /\ RulingsBefore(u, i, p) # {}
                      /\ \A j \in RulingsBefore(u, i, p) : Grants(u[j], p)
    BY DEF Governed
  <1>3. CASE i \in 1..n
    BY <1>1, <1>3, GovernedBefore
  <1>4. CASE i = n + 1
    <2>1. /\ u[i].about = steps[1].about /\ u[i].cycle = c
      BY <1>2, <1>4 DEF Tells
    <2>2. Judged(t, c, p)
      BY <2>1
    <2>3. PICK j \in 1..n : t[j].cycle = c /\ IsRuling(t[j], p)
      BY <1>1, <2>2 DEF Judged
    <2>4. j \in 1..(i - 1) /\ u[j] = t[j]
      BY <1>2, <1>4
    <2>5. j \in RulingsBefore(u, i, p)
      BY <2>1, <2>3, <2>4 DEF RulingsBefore, IsRuling
    <2>6. ASSUME NEW x \in RulingsBefore(u, i, p)
          PROVE  Grants(u[x], p)
      <3>1. x \in 1..(i - 1) /\ u[x].cycle = c /\ IsRuling(u[x], p)
        BY <2>1 DEF RulingsBefore, IsRuling
      <3>2. x \in 1..n /\ u[x] = t[x]
        BY <1>2, <1>4, <3>1
      <3>3. Favourable(u[x])
        BY <1>1, <3>1, <3>2 DEF FavourableCycle
      <3>4. PICK q \in Policy : IsRuling(u[x], q) /\ Grants(u[x], q)
        BY <3>1, <3>3 DEF Favourable, IsRuling
      <3>5. q = p
        BY <3>1, <3>4 DEF IsRuling
      <3> QED
        BY <3>4, <3>5
    <2> QED
      BY <2>5, <2>6
  <1> QED
    BY <1>2, <1>3, <1>4

(* What the outcome of a cycle is told by, of what was recorded of it. *)
Told(outs, outcome) ==
  CASE outcome = "decided" ->
         outs \cap {"VIOLATED", "REJECTED", "REFUSED", "PENDING APPROVAL", "PENDING"} = {}
    [] outcome = "parked" ->
         /\ "PENDING" \in outs /\ outs \cap {"PENDING APPROVAL", "REFUSED"} # {}
         /\ outs \cap {"VIOLATED", "REJECTED"} = {}
    [] outcome = "blocked" ->
         "PENDING" \notin outs /\ outs \cap {"VIOLATED", "REJECTED", "REFUSED"} # {}
    [] OTHER -> TRUE

ToldAll(t, e) == \A n \in 1..Len(e) : Told(Outs(t, e[n].cycle), e[n].outcome)

Ending == [cycle : Nat, outcome : Outcomes]

LEMMA ToldTrail == TrailTellsOutcome <=> ToldAll(log.trail, ended)
  BY DEF TrailTellsOutcome, ToldAll, Told, Outs

(* No cycle of e has the number c. *)
Apart(e, c) == \A n \in 1..Len(e) : e[n].cycle # c

(* What is recorded behind the accounting tells nothing new. *)
Afterwards(steps, k) ==
  \A i \in 1..k : /\ steps[i].stage # "deliberation"
                 /\ steps[i].out \in {"accounted", "not saved"}

LEMMA ToldGrow ==
  ASSUME NEW t, NEW u, NEW steps, NEW k \in Nat, NEW c, Grows(t, u, steps, k, c),
         NEW e, ToldAll(t, e), Apart(e, c) \/ Afterwards(steps, k)
  PROVE  ToldAll(u, e)
  <1> SUFFICES ASSUME NEW n \in 1..Len(e) PROVE Told(Outs(u, e[n].cycle), e[n].outcome)
    BY DEF ToldAll
  <1> DEFINE old == Outs(t, e[n].cycle)
  <1> DEFINE new == Outs(u, e[n].cycle)
  <1>1. Told(old, e[n].outcome)
    BY DEF ToldAll
  <1>2. new = old \/ (new \subseteq old \cup {"accounted", "not saved"} /\ old \subseteq new)
    <2>1. new = old \cup NewOuts(steps, k, c, e[n].cycle)
      <3>1. Joins(Outs(u, e[n].cycle), Outs(t, e[n].cycle), NewOuts(steps, k, c, e[n].cycle))
        BY OutsGrow
      <3> QED
        BY <3>1 DEF Joins
    <2> HIDE DEF old, new
    <2>2. CASE e[n].cycle # c
      BY <2>1, <2>2 DEF NewOuts
    <2>3. CASE Afterwards(steps, k)
      BY <2>1, <2>3 DEF NewOuts, Afterwards
    <2> QED
      BY <2>2, <2>3 DEF Apart
  <1> HIDE DEF old, new
  <1>3. Told(new, e[n].outcome)
    BY <1>1, <1>2 DEF Told
  <1> QED
    BY <1>3 DEF new

LEMMA ToldAppend ==
  ASSUME NEW t, NEW e \in Seq(Ending), ToldAll(t, e), NEW x \in Ending,
         Told(Outs(t, x.cycle), x.outcome)
  PROVE  ToldAll(t, Append(e, x)) /\ Append(e, x) \in Seq(Ending)
  <1>1. PICK n \in Nat : n = Len(e)
    OBVIOUS
  <1>2. /\ Append(e, x) \in Seq(Ending) /\ Len(Append(e, x)) = n + 1
        /\ \A i \in 1..n : Append(e, x)[i] = e[i]
        /\ Append(e, x)[n + 1] = x
    BY <1>1, AppendProperties
  <1>3. \A i \in 1..(n + 1) : i \in 1..n \/ i = n + 1
    OBVIOUS
  <1> DEFINE f == Append(e, x)
  <1> HIDE DEF f
  <1>4. \A i \in 1..n : Told(Outs(t, f[i].cycle), f[i].outcome)
    BY <1>1, <1>2 DEF ToldAll, f
  <1>5. Told(Outs(t, f[n + 1].cycle), f[n + 1].outcome)
    BY <1>2 DEF f
  <1>6. Len(f) = n + 1
    BY <1>2 DEF f
  <1>7. ToldAll(t, f)
    BY <1>3, <1>4, <1>5, <1>6 DEF ToldAll
  <1> QED
    BY <1>2, <1>7 DEF f

LEMMA FrontOf ==
  ASSUME NEW T, NEW e \in Seq(T)
  PROVE  /\ Front(e) \in Seq(T)
         /\ \A i \in 1..Len(Front(e)) : i \in 1..Len(e) /\ i # Len(e) /\ Front(e)[i] = e[i]
  <1>1. PICK n \in Nat : n = Len(e)
    OBVIOUS
  <1>2. \A i \in 1..(n - 1) : e[i] \in T
    BY <1>1
  <1>3. Front(e) = SubSeq(e, 1, n - 1)
    BY <1>1 DEF Front
  <1>4. /\ SubSeq(e, 1, n - 1) \in Seq(T)
        /\ Len(SubSeq(e, 1, n - 1)) = IF 1 <= n - 1 THEN (n - 1) - 1 + 1 ELSE 0
        /\ \A i \in 1..((n - 1) - 1 + 1) : SubSeq(e, 1, n - 1)[i] = e[1 + i - 1]
    BY <1>2, SubSeqProperties
  <1>5. ASSUME NEW i \in 1..Len(Front(e))
        PROVE  i \in 1..n /\ i # n /\ Front(e)[i] = e[i]
    <2>1. i \in 1..((n - 1) - 1 + 1) /\ 1 + i - 1 = i
      BY <1>3, <1>4
    <2> QED
      BY <1>3, <1>4, <2>1
  <1> QED
    BY <1>1, <1>3, <1>4, <1>5

LEMMA FavourableOuts ==
  ASSUME NEW t, NEW c, FavourableCycle(t, c)
  PROVE  Outs(t, c) \subseteq {"asked", "decision", "complies", "approved"}
  <1> SUFFICES ASSUME NEW j \in 1..Len(t), t[j].cycle = c
               PROVE  t[j].out \in {"asked", "decision", "complies", "approved"}
    BY DEF Outs
  <1>1. Favourable(t[j])
    BY DEF FavourableCycle
  <1> QED
    BY <1>1 DEF Favourable, Grants

------------------------------------------------------------------------------
(* The stages *)

LEMMA PipelineStages ==
  /\ \A at \in 1..7 : defaultPipeline[at] = "govern" => at = 1
  /\ \A at \in 1..7 : defaultPipeline[at] = "plan" => at = 2
  /\ \A at \in 1..7 : defaultPipeline[at] = "governWorkflows" => at = 3
  /\ \A at \in 1..7 : defaultPipeline[at] = "prepare" => at = 4
  /\ \A at \in 1..7 : defaultPipeline[at] = "reason" => at = 5
  /\ \A at \in 1..7 : defaultPipeline[at] = "elaborate" => at = 6
  /\ \A at \in 1..7 : defaultPipeline[at] = "memory" => at = 7
  <1>1. \A at \in 1..7 : at \in {1, 2, 3, 4, 5, 6, 7}
    OBVIOUS
  <1>2. /\ defaultPipeline[1] = "govern" /\ defaultPipeline[2] = "plan"
        /\ defaultPipeline[3] = "governWorkflows" /\ defaultPipeline[4] = "prepare"
        /\ defaultPipeline[5] = "reason" /\ defaultPipeline[6] = "elaborate"
        /\ defaultPipeline[7] = "memory"
    BY DEF defaultPipeline
  <1> QED
    BY <1>1, <1>2

LEMMA GatePolicies ==
  ASSUME Types, cyc.at \in 1..7, Running("govern") \/ Running("governWorkflows")
  PROVE  /\ GovernedPolicies \in Seq(Policy)
         /\ \/ cyc.at = 1 /\ GovernedPolicies = RuntimePolicies
            \/ /\ cyc.at = 3
               /\ \A w \in ToSet(cyc.plan) : ToSet(PoliciesOf[w]) \subseteq ToSet(GovernedPolicies)
  <1>1. CASE defaultPipeline[cyc.at] = "govern"
    <2>1. GovernedPolicies = RuntimePolicies
      BY <1>1 DEF GovernedPolicies
    <2> QED
      BY <1>1, <2>1, PipelineStages, CatalogueAssumption
  <1>2. CASE defaultPipeline[cyc.at] = "governWorkflows"
    <2> DEFINE plan == cyc.plan
    <2> DEFINE seqs == [i \in 1..Len(plan) |-> PoliciesOf[plan[i]]]
    <2>1. plan \in Seq(Workflow)
      BY DEF Types
    <2>2. GovernedPolicies = FlattenSeq(seqs)
      BY <1>2 DEF GovernedPolicies
    <2> HIDE DEF plan
    <2>3. /\ seqs \in Seq(Seq(Policy)) /\ Len(seqs) = Len(plan)
          /\ \A i \in 1..Len(plan) : seqs[i] = PoliciesOf[plan[i]]
      BY <2>1, CatalogueAssumption
    <2> HIDE DEF seqs
    <2>4. /\ FlattenSeq(seqs) \in Seq(Policy)
          /\ ToSet(FlattenSeq(seqs)) = UNION {ToSet(seqs[i]) : i \in 1..Len(seqs)}
      BY <2>3, FlattenSeqElements
    <2>5. ASSUME NEW w \in ToSet(plan)
          PROVE  ToSet(PoliciesOf[w]) \subseteq ToSet(FlattenSeq(seqs))
      <3>1. PICK i \in 1..Len(plan) : w = plan[i]
        BY <2>1 DEF ToSet
      <3>2. seqs[i] = PoliciesOf[w] /\ i \in 1..Len(seqs)
        BY <2>3, <3>1
      <3>3. ToSet(seqs[i]) \subseteq ToSet(FlattenSeq(seqs))
        BY <2>4, <3>2
      <3> QED
        BY <3>2, <3>3
    <2> QED
      BY <1>2, <2>2, <2>4, <2>5, PipelineStages DEF plan
  <1> QED
    BY <1>1, <1>2 DEF Running

LEMMA FirstFailed ==
  ASSUME NEW n \in Nat, NEW s \in SUBSET (1..n), s # {}
  PROVE  Min(s) \in 1..n
  <1>1. s \subseteq Nat
    OBVIOUS
  <1>2. \E x \in s : \A y \in s : x <= y
    BY <1>1, LeastElement
  <1>3. Min(s) \in s
    BY <1>2 DEF Min
  <1> QED
    BY <1>3

(* A policy's ruling, and what it says of the cycle. *)
RulingSays(ruling, p, approval) ==
  /\ ruling \in {"complies", "VIOLATED", "PENDING APPROVAL", "REJECTED", "approved", "REFUSED"}
  /\ ruling = "approved" =>
       /\ approval.by \in Person
       /\ Approvers[p] = {} \/ approval.by \in Approvers[p]
  /\ ruling \notin {"complies", "approved"} =>
       /\ p \notin ApprovalRequired => ruling = "VIOLATED"
       /\ p \in ApprovalRequired => ruling # "VIOLATED"
       /\ p \in ApprovalRequired /\ approval.verdict = "rejected" => ruling = "REJECTED"
       /\ approval.verdict # "rejected" => ruling # "REJECTED"

LEMMA RulingTells ==
  ASSUME NEW p \in Policy, NEW complies \in BOOLEAN, NEW approval \in Approval
  PROVE  RulingSays(Ruling(p, complies, approval), p, approval)
  <1>1. approval.verdict \in {"absent", "rejected", "approved"}
    BY DEF Approval
  <1>2. approval.verdict = "approved" => approval.by \in Person
    BY DEF Approval
  <1> QED
    BY <1>1, <1>2 DEF Ruling, RulingSays, ApproverAllowed

(* What govern and enforce made of the cycle, from what they recorded. *)
Cleared(steps, k) ==
  /\ Passes /\ UNCHANGED ended
  /\ \A i \in 1..k : Favourable(steps[i])
  /\ \A p \in ToSet(GovernedPolicies) : \E i \in 1..k : IsRuling(steps[i], p)

Blocked(steps, k) ==
  /\ Returns("blocked")
  /\ \A i \in 1..k : steps[i].out # "PENDING"
  /\ \E i \in 1..k : steps[i].out \in {"VIOLATED", "REJECTED", "REFUSED"}

Parked(steps, k) ==
  /\ Returns("parked")
  /\ \A i \in 1..k : steps[i].out \notin {"VIOLATED", "REJECTED"}
  /\ \E i \in 1..k : steps[i].out = "PENDING"
  /\ \E i \in 1..k : steps[i].out \in {"PENDING APPROVAL", "REFUSED"}

GovernEffect(steps, k) ==
  /\ Extends(log', log, steps, k)
  /\ \A i \in 1..k : steps[i].stage \in {"policy", "approval"}
  /\ \/ Cleared(steps, k)
     \/ Returns("failed")
     \/ Blocked(steps, k)
     \/ Parked(steps, k)

LEMMA GovernEffects ==
  ASSUME Types, cyc.at \in 1..7, log.current = TRUE, NEW judged, Govern(judged)
  PROVE  \E k \in Nat : \E steps : GovernEffect(steps, k)
  <1> DEFINE policies   == GovernedPolicies
             answers    == parallelMap(policies, judged)
             rulings    == [i \in 1..Len(policies) |->
                              Ruling(policies[i], answers[i] = "complies", cyc.approval)]
             failed     == {i \in 1..Len(policies) : answers[i] = "error"}
             told       == IF failed = {} THEN Len(policies) ELSE Min(failed) - 1
             stage(i)   == IF rulings[i] \in {"approved", "REFUSED", "REJECTED"}
                           THEN "approval" ELSE "policy"
             by(i)      == IF rulings[i] = "approved" THEN cyc.approval.by ELSE "judge"
             steps      == [i \in 1..told |-> Step(stage(i), {policies[i]}, rulings[i], by(i))]
             recorded   == RecordAll(log, steps)
             violations == {policies[i] : i \in {j \in 1..Len(policies) :
                                                  rulings[j] \notin {"complies", "approved"}}}
             outcome    == Enforce(violations, cyc.approval)
             pending    == Step("approval", {}, "PENDING", "enforce")
  <1>1. IF failed # {}
        THEN log' = recorded /\ Returns("failed")
        ELSE /\ log' = IF outcome = "parked" THEN Record(recorded, pending) ELSE recorded
             /\ IF outcome = "clear" THEN Passes /\ UNCHANGED ended ELSE Returns(outcome)
    BY DEF Govern
  <1>2. policies \in Seq(Policy)
    BY GatePolicies DEF Govern
  <1>3. PICK n \in Nat : n = Len(policies)
    BY <1>2
  <1>4. told \in 0..n
    <2>1. failed # {} => Min(failed) \in 1..n
      BY <1>3, FirstFailed
    <2> HIDE DEF failed, policies
    <2> QED
      BY <1>3, <2>1
  <1>5. cyc.approval \in Approval
    BY DEF Types
  <1>6. ASSUME NEW i \in 1..n
        PROVE  /\ policies[i] \in Policy
               /\ rulings[i] = Ruling(policies[i], answers[i] = "complies", cyc.approval)
    BY <1>2, <1>3
  <1> HIDE DEF policies, answers
  <1>7. ASSUME NEW i \in 1..n
        PROVE  RulingSays(rulings[i], policies[i], cyc.approval)
    <2> DEFINE complies == answers[i] = "complies"
    <2>1. complies \in BOOLEAN
      OBVIOUS
    <2>2. rulings[i] = Ruling(policies[i], complies, cyc.approval) /\ policies[i] \in Policy
      BY <1>6
    <2> HIDE DEF complies, rulings
    <2> QED
      BY <1>5, <2>1, <2>2, RulingTells
  <1>8. /\ DOMAIN steps = 1..told
        /\ \A i \in 1..told : steps[i] = Step(stage(i), {policies[i]}, rulings[i], by(i))
    BY <1>4
  <1> HIDE DEF rulings, failed, told, steps
  <1>9. ASSUME NEW i \in 1..told
        PROVE  /\ steps[i] \in StepType
               /\ steps[i].stage \in {"policy", "approval"}
               /\ steps[i].about = {policies[i]}
               /\ steps[i].out = rulings[i]
               /\ rulings[i] = "approved" => steps[i].by = cyc.approval.by
    <2>1. i \in 1..n
      BY <1>4
    <2>2. stage(i) \in {"policy", "approval"}
      OBVIOUS
    <2>3. rulings[i] \in OutNames /\ by(i) \in Authors
      BY <1>7, <2>1 DEF RulingSays, OutNames, Authors
    <2>8. <<stage(i), rulings[i]>> \in Vocabulary
      BY <1>7, <2>1 DEF RulingSays, Vocabulary
    <2>4. {policies[i]} \in SUBSET (Policy \cup Workflow)
      BY <1>6, <2>1
    <2>5. rulings[i] = "approved" => by(i) = cyc.approval.by
      OBVIOUS
    <2>6. steps[i] = Step(stage(i), {policies[i]}, rulings[i], by(i))
      BY <1>8
    <2> HIDE DEF stage, by
    <2>7. /\ steps[i] \in StepType /\ steps[i].stage = stage(i) /\ steps[i].about = {policies[i]}
          /\ steps[i].out = rulings[i] /\ steps[i].by = by(i)
      <3>1. stage(i) \in StageNames
        BY <2>2 DEF StageNames
      <3> QED
        BY <3>1, <2>3, <2>4, <2>6, <2>8 DEF Step, StepType
    <2> QED
      BY <2>2, <2>5, <2>7
  <1>10. Extends(recorded, log, steps, told)
    <2>1. LogOK(log) /\ told \in Nat
      BY <1>4 DEF Types
    <2> QED
      BY <1>8, <1>9, <2>1, RecordAllExtends
  <1> HIDE DEF stage, by, recorded
  <1>11. CASE failed # {}
    <2>1. GovernEffect(steps, told)
      BY <1>1, <1>9, <1>10, <1>11 DEF GovernEffect
    <2> QED
      BY <1>4, <2>1
  <1>12. CASE failed = {}
    <2>1. told = n
      BY <1>3, <1>12 DEF told
    <2>2. /\ log' = IF outcome = "parked" THEN Record(recorded, pending) ELSE recorded
          /\ IF outcome = "clear" THEN Passes /\ UNCHANGED ended ELSE Returns(outcome)
      BY <1>1, <1>12
    <2>3. violations = {policies[i] : i \in {j \in 1..n : rulings[j] \notin {"complies", "approved"}}}
      BY <1>3
    <2> HIDE DEF violations
    <2>4. CASE outcome = "clear"
      <3>1. violations = {}
        BY <2>4 DEF Enforce
      <3>2. \A i \in 1..n : rulings[i] \in {"complies", "approved"}
        BY <2>3, <3>1
      <3>3. ASSUME NEW i \in 1..n
            PROVE  Favourable(steps[i]) /\ IsRuling(steps[i], policies[i])
        <4>1. IsRuling(steps[i], policies[i])
          BY <1>9, <2>1 DEF IsRuling
        <4>2. Grants(steps[i], policies[i])
          <5>1. RulingSays(rulings[i], policies[i], cyc.approval)
            BY <1>7
          <5>2. rulings[i] \in {"complies", "approved"}
            BY <3>2
          <5>3. /\ steps[i].out = rulings[i]
                /\ rulings[i] = "approved" => steps[i].by = cyc.approval.by
            BY <1>9, <2>1
          <5> QED
            BY <5>1, <5>2, <5>3 DEF Grants, RulingSays
        <4>3. policies[i] \in Policy
          BY <1>6
        <4> QED
          BY <4>1, <4>2, <4>3 DEF Favourable
      <3>4. ASSUME NEW p \in ToSet(GovernedPolicies)
            PROVE  \E i \in 1..n : IsRuling(steps[i], p)
        <4>1. PICK i \in 1..n : p = policies[i]
          BY <1>2, <1>3 DEF ToSet, policies
        <4> QED
          BY <3>3, <4>1
      <3>5. Cleared(steps, n)
        BY <2>2, <2>4, <3>3, <3>4 DEF Cleared
      <3>6. Extends(log', log, steps, n)
        BY <1>10, <2>1, <2>2, <2>4
      <3>7. GovernEffect(steps, n)
        BY <1>9, <2>1, <3>5, <3>6 DEF GovernEffect
      <3> QED
        BY <3>7
    <2>5. CASE outcome = "blocked"
      <3>1. /\ violations # {}
            /\ violations \ ApprovalRequired # {} \/ cyc.approval.verdict = "rejected"
        BY <2>5 DEF Enforce
      <3>2. PICK i \in 1..n : rulings[i] \in {"VIOLATED", "REJECTED", "REFUSED"}
        <4>1. CASE violations \ ApprovalRequired # {}
          <5>1. PICK i \in 1..n : /\ rulings[i] \notin {"complies", "approved"}
                                  /\ policies[i] \notin ApprovalRequired
            BY <2>3, <4>1
          <5>2. rulings[i] = "VIOLATED"
            BY <1>7, <5>1 DEF RulingSays
          <5> QED
            BY <5>2
        <4>2. CASE cyc.approval.verdict = "rejected"
          <5>1. PICK i \in 1..n : rulings[i] \notin {"complies", "approved"}
            BY <2>3, <3>1
          <5>2. rulings[i] \in {"VIOLATED", "REJECTED"}
            BY <1>7, <4>2, <5>1 DEF RulingSays
          <5> QED
            BY <5>2
        <4> QED
          BY <3>1, <4>1, <4>2
      <3>3. \A j \in 1..n : steps[j].out # "PENDING"
        BY <1>7, <1>9, <2>1 DEF RulingSays
      <3>4. steps[i].out \in {"VIOLATED", "REJECTED", "REFUSED"}
        BY <1>9, <2>1, <3>2
      <3>5. Blocked(steps, n)
        BY <2>2, <2>5, <3>3, <3>4 DEF Blocked
      <3>6. Extends(log', log, steps, n)
        BY <1>10, <2>1, <2>2, <2>5
      <3>7. GovernEffect(steps, n)
        BY <1>9, <2>1, <3>5, <3>6 DEF GovernEffect
      <3> QED
        BY <3>7
    <2>6. CASE outcome = "parked"
      <3>1. violations \subseteq ApprovalRequired /\ cyc.approval.verdict # "rejected"
        BY <2>6 DEF Enforce
      <3>2. ASSUME NEW i \in 1..n
            PROVE  rulings[i] \notin {"VIOLATED", "REJECTED"}
        <4>1. rulings[i] \notin {"complies", "approved"} => policies[i] \in ApprovalRequired
          BY <2>3, <3>1
        <4> QED
          BY <1>7, <3>1, <4>1 DEF RulingSays
      <3> DEFINE all == [i \in 1..(n + 1) |-> IF i <= n THEN steps[i] ELSE pending]
      <3>3. all[n + 1] = pending /\ \A i \in 1..n : all[i] = steps[i]
        OBVIOUS
      <3>4. pending \in StepType /\ pending.stage = "approval" /\ pending.out = "PENDING"
        BY DEF Step, StepType, StageNames, OutNames, Authors, Vocabulary
      <3> HIDE DEF all, pending
      <3>5. Extends(recorded, log, all, n)
        BY <1>10, <2>1, <3>3 DEF Extends
      <3>6. Extends(Record(recorded, all[n + 1]), log, all, n + 1)
        BY <3>3, <3>4, <3>5, RecordExtends DEF Types
      <3>7. Extends(log', log, all, n + 1)
        BY <2>2, <2>6, <3>3, <3>6
      <3>8. \A i \in 1..(n + 1) : i \in 1..n \/ i = n + 1
        OBVIOUS
      <3>9. \A i \in 1..(n + 1) : /\ all[i].stage \in {"policy", "approval"}
                                   /\ all[i].out \notin {"VIOLATED", "REJECTED"}
        BY <1>9, <2>1, <3>2, <3>3, <3>4, <3>8
      <3>12. \E i \in 1..(n + 1) : all[i].out \in {"PENDING APPROVAL", "REFUSED"}
        <4>1. violations # {}
          BY <2>6 DEF Enforce
        <4>2. PICK i \in 1..n : rulings[i] \notin {"complies", "approved"}
          BY <2>3, <4>1
        <4>3. rulings[i] \in {"PENDING APPROVAL", "REFUSED"}
          BY <1>7, <3>2, <4>2 DEF RulingSays
        <4>4. all[i].out = rulings[i] /\ i \in 1..(n + 1)
          BY <1>9, <2>1, <3>3, <4>2
        <4> QED
          BY <4>3, <4>4
      <3>10. Parked(all, n + 1)
        <4>1. n + 1 \in 1..(n + 1) /\ all[n + 1].out = "PENDING"
          BY <3>3, <3>4
        <4> QED
          BY <2>2, <2>6, <3>9, <3>12, <4>1 DEF Parked
      <3>11. GovernEffect(all, n + 1)
        BY <3>7, <3>9, <3>10 DEF GovernEffect
      <3> QED
        BY <3>11
    <2>7. outcome \in {"clear", "blocked", "parked"}
      BY DEF Enforce
    <2> QED
      BY <2>4, <2>5, <2>6, <2>7
  <1> QED
    BY <1>11, <1>12

------------------------------------------------------------------------------
(* Steps that keep the invariant *)

CycType == [phase : Phases, at : 0..7, plan : Seq(Workflow), approval : Approval]

(* The invariant, of the trail. *)
LEMMA IInvParts ==
  CycleIInv <=> Types /\ Numbering /\ InStages /\ Governed(log.trail) /\ ToldAll(log.trail, ended)
  BY GovernedTrail, ToldTrail DEF CycleIInv

LEMMA IInvPartsNext ==
  ASSUME Types', Numbering', InStages', Governed(log'.trail), ToldAll(log'.trail, ended')
  PROVE  CycleIInv'
  <1>1. (CycleIInv <=> Types /\ Numbering /\ InStages /\ Governed(log.trail) /\ ToldAll(log.trail, ended))'
    BY IInvParts, PTL
  <1>2. Governed(log.trail)' /\ ToldAll(log.trail, ended)'
    BY DEF Governed, ToldAll, Gates, RulingsBefore, Grants, Outs, Told
  <1> QED
    BY <1>1, <1>2

LEMMA TrailNumberedGrow ==
  ASSUME NEW l, LogOK(l), TrailNumbered(l), NEW m, LogOK(m), NEW steps, NEW k \in Nat,
         Grows(l.trail, m.trail, steps, k, m.cycleNo),
         m.cycleNo = l.cycleNo \/ (k > 0 /\ m.cycleNo = l.cycleNo + 1)
  PROVE  TrailNumbered(m)
  <1> DEFINE t == l.trail
  <1> DEFINE u == m.trail
  <1>1. l.cycleNo \in Nat /\ m.cycleNo \in Nat /\ l.cycleNo <= m.cycleNo
    BY DEF LogOK
  <1>2. ASSUME NEW j \in 1..Len(u)
        PROVE  u[j].cycle <= m.cycleNo
    <2>1. u[j].cycle = m.cycleNo \/ (j \in 1..Len(t) /\ u[j] = t[j])
      BY NumbersGrow
    <2>2. CASE u[j].cycle = m.cycleNo
      BY <1>1, <2>2
    <2>3. CASE j \in 1..Len(t) /\ u[j] = t[j]
      <3>1. t[j] \in RecordType /\ t[j].cycle <= l.cycleNo
        BY <2>3 DEF LogOK, TrailNumbered
      <3>2. t[j].cycle \in Nat
        BY <3>1 DEF RecordType
      <3> QED
        BY <1>1, <2>3, <3>1, <3>2
    <2> QED
      BY <2>1, <2>2, <2>3
  <1>3. m.cycleNo = 0 \/ Used(u, m.cycleNo)
    <2>1. CASE k > 0
      BY <2>1, NumbersGrow
    <2>2. CASE ~(k > 0)
      <3>1. m.cycleNo = l.cycleNo
        BY <2>2
      <3>2. l.cycleNo = 0 \/ Used(t, l.cycleNo)
        BY DEF TrailNumbered
      <3>3. \A j \in 1..Len(t) : j \in 1..Len(u) /\ u[j] = t[j]
        BY GrowsPlaces
      <3> QED
        BY <3>1, <3>2, <3>3 DEF Used
    <2> QED
      BY <2>1, <2>2
  <1> QED
    BY <1>2, <1>3 DEF TrailNumbered

(* A number that no record has yet. *)
LEMMA NewNumber ==
  ASSUME NEW l, LogOK(l), TrailNumbered(l)
  PROVE  /\ Outs(l.trail, l.cycleNo + 1) = {}
         /\ FavourableCycle(l.trail, l.cycleNo + 1)
  <1>1. ASSUME NEW j \in 1..Len(l.trail)
        PROVE  l.trail[j].cycle # l.cycleNo + 1
    <2>1. l.trail[j] \in RecordType /\ l.cycleNo \in Nat /\ l.trail[j].cycle <= l.cycleNo
      BY DEF LogOK, TrailNumbered
    <2>2. l.trail[j].cycle \in Nat
      BY <2>1 DEF RecordType
    <2> QED
      BY <2>1, <2>2
  <1> QED
    BY <1>1 DEF Outs, FavourableCycle

LEMMA EndedNumbers ==
  ASSUME Types, NEW n \in 1..Len(ended)
  PROVE  ended[n].cycle \in Nat
  <1>1. ended \in Seq([cycle : Nat, outcome : Outcomes])
    BY DEF Types
  <1>2. ended[n] \in [cycle : Nat, outcome : Outcomes]
    BY <1>1, ElementOfSeq
  <1> QED
    BY <1>2

LEMMA EndedApart ==
  ASSUME Types, NEW c \in Nat, \A n \in 1..Len(ended) : ended[n].cycle < c
  PROVE  Apart(ended, c)
  <1> SUFFICES ASSUME NEW n \in 1..Len(ended) PROVE ended[n].cycle # c
    BY DEF Apart
  <1>1. ended[n].cycle \in Nat /\ ended[n].cycle < c
    BY EndedNumbers
  <1> QED
    BY <1>1

LEMMA GrowsNone ==
  ASSUME NEW t \in Seq(RecordType), NEW steps, NEW c
  PROVE  Grows(t, t, steps, 0, c)
  <1>1. Len(t) \in Nat
    OBVIOUS
  <1> QED
    BY <1>1 DEF Grows

(* A stage returns nil, after favourable records. *)
LEMMA PassesKeeps ==
  ASSUME CycleIInv, cyc.phase = "stages", cyc.at \in 1..6,
         cyc' \in CycType, cyc'.phase = "stages", cyc'.at = cyc.at + 1, UNCHANGED ended,
         LogOK(log'), log'.cycleNo = log.cycleNo, log'.current = TRUE,
         NEW steps, NEW k \in Nat, Grows(log.trail, log'.trail, steps, k, log.cycleNo),
         \A i \in 1..k : Favourable(steps[i]), Governed(log'.trail),
         cyc.at = 1 => \A p \in ToSet(RuntimePolicies) : Judged(log'.trail, log.cycleNo, p),
         cyc.at = 3 => \A w \in ToSet(cyc'.plan) : \A p \in ToSet(PoliciesOf[w]) :
                         Judged(log'.trail, log.cycleNo, p),
         cyc.at > 3 => cyc'.plan = cyc.plan
  PROVE  CycleIInv'
  <1>1. Types /\ Numbering /\ InStages /\ Governed(log.trail) /\ ToldAll(log.trail, ended)
    BY IInvParts
  <1>2. Types'
    BY <1>1 DEF Types, CycType
  <1>3. LogOK(log) /\ TrailNumbered(log) /\ \A n \in 1..Len(ended) : ended[n].cycle < log.cycleNo
    BY <1>1 DEF Types, Numbering
  <1>4. TrailNumbered(log')
    BY <1>3, TrailNumberedGrow
  <1>5. Numbering'
    BY <1>1, <1>3, <1>4 DEF Numbering
  <1>6. FavourableCycle(log'.trail, log.cycleNo)
    BY <1>1, FavourableGrow DEF InStages
  <1>7. ASSUME NEW p, Judged(log.trail, log.cycleNo, p)
        PROVE  Judged(log'.trail, log.cycleNo, p)
    BY <1>7, JudgedGrow
  <1>8. \A p \in ToSet(RuntimePolicies) : Judged(log'.trail, log.cycleNo, p)
    <2>1. CASE cyc.at > 1
      BY <1>1, <1>7, <2>1 DEF InStages
    <2> QED
      BY <2>1
  <1>9. cyc'.at > 3 => \A w \in ToSet(cyc'.plan) : \A p \in ToSet(PoliciesOf[w]) :
                         Judged(log'.trail, log.cycleNo, p)
    <2>1. CASE cyc.at > 3
      BY <1>1, <1>7, <2>1 DEF InStages
    <2>2. cyc'.at > 3 => cyc.at = 3 \/ cyc.at > 3
      OBVIOUS
    <2> QED
      BY <2>1, <2>2
  <1>10. InStages'
    <2>1. cyc'.at \in 1..7
      OBVIOUS
    <2> QED
      BY <1>6, <1>8, <1>9, <2>1 DEF InStages
  <1>11. ToldAll(log'.trail, ended')
    <2>1. Apart(ended, log.cycleNo)
      <3>1. log.cycleNo \in Nat
        BY <1>3 DEF LogOK
      <3> QED
        BY <1>1, <1>3, <3>1, EndedApart
    <2>2. ToldAll(log'.trail, ended)
      BY <1>1, <2>1, ToldGrow
    <2> QED
      BY <2>2
  <1> QED
    BY <1>2, <1>5, <1>10, <1>11, IInvPartsNext

(* Reason returns: the outcome is one that the records tell. *)
LEMMA ReturnsKeeps ==
  ASSUME CycleIInv, cyc.phase = "stages", NEW outcome \in Outcomes, Returns(outcome),
         LogOK(log'), log'.cycleNo = log.cycleNo, log'.current = TRUE,
         NEW steps, NEW k \in Nat, Grows(log.trail, log'.trail, steps, k, log.cycleNo),
         Governed(log'.trail), Told(Outs(log'.trail, log.cycleNo), outcome)
  PROVE  CycleIInv'
  <1>1. Types /\ Numbering /\ InStages /\ Governed(log.trail) /\ ToldAll(log.trail, ended)
    BY IInvParts
  <1> DEFINE x == [cycle |-> log.cycleNo, outcome |-> outcome]
  <1>2. x \in Ending /\ ended' = Append(ended, x) /\ cyc' = [cyc EXCEPT !.phase = "usage"]
    BY <1>1 DEF Returns, Ending, Types, LogOK
  <1>3. LogOK(log) /\ TrailNumbered(log) /\ \A n \in 1..Len(ended) : ended[n].cycle < log.cycleNo
    BY <1>1 DEF Types, Numbering
  <1>4. ended \in Seq(Ending) /\ log.cycleNo \in Nat
    BY <1>1 DEF Types, LogOK, Ending
  <1>5. ToldAll(log'.trail, ended)
    <2>1. Apart(ended, log.cycleNo)
      <3>1. log.cycleNo \in Nat
        BY <1>3 DEF LogOK
      <3> QED
        BY <1>1, <1>3, <3>1, EndedApart
    <2> QED
      BY <1>1, <2>1, ToldGrow
  <1>6. ToldAll(log'.trail, ended') /\ ended' \in Seq(Ending)
    <2>1. x.cycle = log.cycleNo /\ x.outcome = outcome
      OBVIOUS
    <2> HIDE DEF x
    <2> QED
      BY <1>2, <1>4, <1>5, <2>1, ToldAppend
  <1>7. cyc' \in CycType /\ cyc'.phase = "usage"
    BY <1>1, <1>2 DEF Types, CycType, Phases
  <1>8. Types'
    BY <1>6, <1>7 DEF Types, Ending, CycType
  <1>9. TrailNumbered(log')
    BY <1>3, TrailNumberedGrow
  <1>10. \A n \in 1..Len(ended') : ended'[n].cycle <= log.cycleNo
    <2>1. PICK n \in Nat : n = Len(ended)
      BY <1>4
    <2>2. /\ Len(ended') = n + 1 /\ ended'[n + 1] = x
          /\ \A i \in 1..n : ended'[i] = ended[i]
      BY <1>2, <1>4, <2>1, AppendProperties
    <2>3. \A i \in 1..n : ended[i].cycle <= log.cycleNo
      BY <1>1, <2>1 DEF Numbering
    <2>4. x.cycle <= log.cycleNo
      BY <1>4
    <2>5. \A i \in 1..(n + 1) : i \in 1..n \/ i = n + 1
      OBVIOUS
    <2> HIDE DEF x
    <2> QED
      BY <2>2, <2>3, <2>4, <2>5
  <1>11. Numbering'
    BY <1>7, <1>9, <1>10 DEF Numbering
  <1>12. InStages'
    BY <1>7 DEF InStages
  <1> QED
    BY <1>6, <1>8, <1>11, <1>12, IInvPartsNext

(* Between the accounting and the next cycle. *)
LEMMA TailKeeps ==
  ASSUME CycleIInv, cyc' \in CycType, cyc'.phase \notin {"stages", "usage"}, UNCHANGED ended,
         LogOK(log'), NEW steps, NEW k \in Nat,
         Grows(log.trail, log'.trail, steps, k, log'.cycleNo),
         log'.cycleNo = log.cycleNo \/ (k > 0 /\ log'.cycleNo = log.cycleNo + 1),
         Afterwards(steps, k)
  PROVE  CycleIInv'
  <1>1. Types /\ Numbering /\ InStages /\ Governed(log.trail) /\ ToldAll(log.trail, ended)
    BY IInvParts
  <1>2. Types'
    BY <1>1 DEF Types, CycType
  <1>3. TrailNumbered(log')
    BY <1>1, TrailNumberedGrow DEF Types, Numbering
  <1>4. \A n \in 1..Len(ended) : ended[n].cycle <= log'.cycleNo
    <2>1. LogOK(log) /\ \A n \in 1..Len(ended) : ended[n].cycle <= log.cycleNo
      BY <1>1 DEF Types, Numbering
    <2>2. PICK c \in Nat : c = log.cycleNo
      BY <2>1 DEF LogOK
    <2>3. PICK d \in Nat : d = log'.cycleNo
      BY DEF LogOK
    <2>4. c <= d
      BY <2>2, <2>3
    <2>5. ASSUME NEW n \in 1..Len(ended)
          PROVE  ended[n].cycle <= d
      <3>1. PICK x \in Nat : x = ended[n].cycle
        BY <1>1, EndedNumbers
      <3> QED
        BY <2>1, <2>2, <2>4, <3>1
    <2> QED
      BY <2>3, <2>5
  <1>5. Numbering'
    BY <1>3, <1>4 DEF Numbering
  <1>6. InStages'
    BY DEF InStages
  <1>7. Governed(log'.trail)
    <2>1. \A i \in 1..k : steps[i].stage # "deliberation"
      BY DEF Afterwards
    <2> QED
      BY <1>1, <2>1, GovernedGrow
  <1>8. ToldAll(log'.trail, ended')
    <2>1. ToldAll(log'.trail, ended)
      BY <1>1, ToldGrow
    <2> QED
      BY <2>1
  <1> QED
    BY <1>2, <1>5, <1>6, <1>7, <1>8, IInvPartsNext

------------------------------------------------------------------------------
(* The actions *)

LEMMA OneRecord ==
  ASSUME NEW l, LogOK(l), l.current = TRUE, NEW r \in StepType
  PROVE  Extends(Record(l, r), l, <<r>>, 1)
  <1> DEFINE steps == <<r>>
  <1>1. steps[0 + 1] = r /\ 0 + 1 = 1
    OBVIOUS
  <1>2. Extends(l, l, steps, 0)
    BY ExtendsNone
  <1> HIDE DEF steps
  <1>3. Extends(Record(l, steps[0 + 1]), l, steps, 0 + 1)
    BY <1>1, <1>2, RecordExtends
  <1>4. Extends(Record(l, r), l, steps, 1)
    BY <1>1, <1>3
  <1> QED
    BY <1>4 DEF steps

(* What holds of a cycle in its stages. *)
LEMMA StagesFacts ==
  ASSUME CycleIInv, cyc.phase = "stages"
  PROVE  /\ LogOK(log) /\ log.current = TRUE /\ cyc.at \in 1..7 /\ cyc \in CycType
         /\ FavourableCycle(log.trail, log.cycleNo)
         /\ Governed(log.trail) /\ ToldAll(log.trail, ended)
         /\ log.trail \in Seq(RecordType)
  BY IInvParts DEF Types, Numbering, InStages, CycType, LogOK

LEMMA StageFailsKeeps ==
  ASSUME CycleIInv, StageFails
  PROVE  CycleIInv'
  <1>1. cyc.phase = "stages" /\ Returns("failed") /\ log' = log
    BY DEF StageFails
  <1>2. LogOK(log) /\ log.current = TRUE /\ Governed(log.trail) /\ log.trail \in Seq(RecordType)
    BY <1>1, StagesFacts
  <1>3. Grows(log.trail, log.trail, <<>>, 0, log.cycleNo)
    BY <1>2, GrowsNone
  <1>4. Told(Outs(log.trail, log.cycleNo), "failed") /\ "failed" \in Outcomes
    BY DEF Told, Outcomes
  <1> QED
    BY <1>1, <1>2, <1>3, <1>4, ReturnsKeeps

LEMMA GovernKeeps ==
  ASSUME CycleIInv, cyc.phase = "stages", NEW judged, Govern(judged)
  PROVE  CycleIInv'
  <1> DEFINE c == log.cycleNo
  <1>1. /\ LogOK(log) /\ log.current = TRUE /\ cyc.at \in 1..7 /\ cyc \in CycType
        /\ FavourableCycle(log.trail, c) /\ Governed(log.trail)
    BY StagesFacts
  <1>2. Types
    BY IInvParts
  <1>3. \E k \in Nat : \E steps : GovernEffect(steps, k)
    BY <1>1, <1>2, GovernEffects
  <1>15. PICK k \in Nat : \E steps : GovernEffect(steps, k)
    BY <1>3
  <1>4. PICK steps : GovernEffect(steps, k)
    BY <1>15
  <1>5. Extends(log', log, steps, k) /\ \A i \in 1..k : steps[i].stage \in {"policy", "approval"}
    BY <1>4 DEF GovernEffect
  <1>6. LogOK(log') /\ log'.cycleNo = c /\ log'.current = TRUE /\ Grows(log.trail, log'.trail, steps, k, c)
    BY <1>1, <1>5, ExtendsGrows DEF Extends
  <1>7. Governed(log'.trail)
    <2>1. \A i \in 1..k : steps[i].stage # "deliberation"
      BY <1>5
    <2> HIDE DEF c
    <2> QED
      BY <1>1, <1>6, <2>1, GovernedGrow
  <1>8. Joins(Outs(log'.trail, c), Outs(log.trail, c), NewOuts(steps, k, c, c))
    BY <1>6, OutsGrow
  <1>9. Outs(log.trail, c) \subseteq {"asked", "decision", "complies", "approved"}
    BY <1>1, FavourableOuts
  <1>10. NewOuts(steps, k, c, c) = {steps[i].out : i \in 1..k}
    BY DEF NewOuts
  <1>11. CASE Cleared(steps, k)
    <2>1. /\ cyc' = [cyc EXCEPT !.at = @ + 1] /\ UNCHANGED ended
          /\ \A i \in 1..k : Favourable(steps[i])
          /\ \A p \in ToSet(GovernedPolicies) : \E i \in 1..k : IsRuling(steps[i], p)
      BY <1>11 DEF Cleared, Passes
    <2>2. \A p \in ToSet(GovernedPolicies) : Judged(log'.trail, c, p)
      <3>1. ASSUME NEW p PROVE \A i \in 1..k : IsRuling(steps[i], p) => Judged(log'.trail, c, p)
        <4>1. Grows(log.trail, log'.trail, steps, k, c)
          BY <1>6
        <4> HIDE DEF c
        <4> QED
          BY <1>5, <4>1, JudgedGrow
      <3> QED
        BY <2>1, <3>1
    <2>3. /\ \/ cyc.at = 1 /\ GovernedPolicies = RuntimePolicies
             \/ /\ cyc.at = 3
                /\ \A w \in ToSet(cyc.plan) : ToSet(PoliciesOf[w]) \subseteq ToSet(GovernedPolicies)
      BY <1>1, <1>2, GatePolicies DEF Govern
    <2>4. /\ cyc' \in CycType /\ cyc'.phase = "stages" /\ cyc'.at = cyc.at + 1
          /\ cyc'.plan = cyc.plan /\ cyc.at \in 1..6
      BY <1>1, <2>1, <2>3 DEF CycType
    <2>5. cyc.at = 1 => \A p \in ToSet(RuntimePolicies) : Judged(log'.trail, c, p)
      BY <2>2, <2>3
    <2>6. cyc.at = 3 => \A w \in ToSet(cyc'.plan) : \A p \in ToSet(PoliciesOf[w]) :
                         Judged(log'.trail, c, p)
      BY <2>2, <2>3, <2>4
    <2> HIDE DEF c
    <2> QED
      BY <1>6, <1>7, <2>1, <2>4, <2>5, <2>6, PassesKeeps DEF c
  <1>12. CASE Returns("failed")
    <2>1. Told(Outs(log'.trail, c), "failed") /\ "failed" \in Outcomes
      BY DEF Told, Outcomes
    <2> QED
      BY <1>6, <1>7, <1>12, <2>1, ReturnsKeeps
  <1>13. CASE Blocked(steps, k)
    <2>1. PICK i \in 1..k : steps[i].out \in {"VIOLATED", "REJECTED", "REFUSED"}
      BY <1>13 DEF Blocked
    <2>2. \A j \in 1..k : steps[j].out # "PENDING"
      BY <1>13 DEF Blocked
    <2>3. Told(Outs(log'.trail, c), "blocked") /\ "blocked" \in Outcomes
      BY <1>8, <1>9, <1>10, <2>1, <2>2 DEF Told, Joins, Outcomes
    <2> QED
      BY <1>6, <1>7, <1>13, <2>3, ReturnsKeeps DEF Blocked
  <1>14. CASE Parked(steps, k)
    <2>1. PICK i \in 1..k : steps[i].out = "PENDING"
      BY <1>14 DEF Parked
    <2>2. \A j \in 1..k : steps[j].out \notin {"VIOLATED", "REJECTED"}
      BY <1>14 DEF Parked
    <2>4. PICK j \in 1..k : steps[j].out \in {"PENDING APPROVAL", "REFUSED"}
      BY <1>14 DEF Parked
    <2>3. Told(Outs(log'.trail, c), "parked") /\ "parked" \in Outcomes
      BY <1>8, <1>9, <1>10, <2>1, <2>2, <2>4 DEF Told, Joins, Outcomes
    <2> QED
      BY <1>6, <1>7, <1>14, <2>3, ReturnsKeeps DEF Parked
  <1> QED
    BY <1>4, <1>11, <1>12, <1>13, <1>14 DEF GovernEffect

(* A finite set in some order. *)
LEMMA SetToSeqOf ==
  ASSUME NEW S, IsFiniteSet(S)
  PROVE  SetToSeq(S) \in Seq(S)
  <1>1. Cardinality(S) \in Nat /\ ExistsBijection(1..Cardinality(S), S)
    BY FS_CardinalityType
  <1>2. PICK f : f \in Bijection(1..Cardinality(S), S)
    BY <1>1 DEF ExistsBijection
  <1>3. f \in [1..Cardinality(S) -> S] /\ IsInjective(f)
    BY <1>2 DEF Bijection, Injection, IsInjective
  <1>4. SetToSeq(S) \in [1..Cardinality(S) -> S]
    BY <1>3 DEF SetToSeq
  <1> QED
    BY <1>1, <1>4

LEMMA SchedulesOf ==
  ASSUME NEW plan \in Seq(Workflow), NEW order \in Schedules(plan)
  PROVE  order \in Seq(Workflow)
  <1> DEFINE S == ToSet(plan)
  <1>1. S \subseteq Workflow
    BY DEF ToSet
  <1>2. IsFiniteSet(S)
    <2>1. IsFiniteSet(1..Len(plan))
      BY FS_Interval
    <2>2. plan \in Surjection(1..Len(plan), S)
      BY DEF ToSet, Surjection
    <2> QED
      BY <2>1, <2>2, FS_Surjection
  <1>3. Cardinality(S) \in Nat
    BY <1>2, FS_CardinalityType
  <1>4. order \in [1..Cardinality(S) -> S]
    BY DEF Schedules, SetToSeqs
  <1> HIDE DEF S
  <1> QED
    BY <1>1, <1>3, <1>4

LEMMA ComposedOf ==
  ASSUME NEW selected \in SUBSET Process
  PROVE  Composed(selected) \in Seq(Workflow)
  <1> DEFINE processes == SetToSeq(selected)
  <1> DEFINE lists == [i \in 1..Len(processes) |-> WorkflowsOf[processes[i]]]
  <1>1. IsFiniteSet(selected)
    BY CatalogueAssumption, FS_Subset
  <1>2. processes \in Seq(selected)
    BY <1>1, SetToSeqOf
  <1>3. Composed(selected) = FlattenSeq(lists)
    BY DEF Composed
  <1> HIDE DEF processes
  <1>4. lists \in Seq(Seq(Workflow))
    <2>1. \A i \in 1..Len(processes) : WorkflowsOf[processes[i]] \in Seq(Workflow)
      BY <1>2, CatalogueAssumption
    <2>2. Len(processes) \in Nat
      BY <1>2
    <2> QED
      BY <2>1, <2>2
  <1> HIDE DEF lists
  <1> QED
    BY <1>3, <1>4, FlattenSeqElements

(* A stage returns nil and records nothing, and no gate is passed. *)
LEMMA SilentPassKeeps ==
  ASSUME CycleIInv, cyc.phase = "stages", cyc.at \in {2, 4, 6},
         cyc' \in CycType, cyc'.phase = "stages", cyc'.at = cyc.at + 1,
         log' = log, ended' = ended, cyc.at > 3 => cyc'.plan = cyc.plan
  PROVE  CycleIInv'
  <1>1. /\ LogOK(log) /\ log.current = TRUE
        /\ Governed(log.trail) /\ log.trail \in Seq(RecordType)
    BY StagesFacts
  <1> DEFINE steps == <<>>
  <1>2. Grows(log.trail, log.trail, steps, 0, log.cycleNo)
    BY <1>1, GrowsNone
  <1>3. \A i \in 1..0 : Favourable(steps[i])
    OBVIOUS
  <1> HIDE DEF steps
  <1>4. /\ LogOK(log') /\ log'.cycleNo = log.cycleNo /\ log'.current = TRUE
        /\ Governed(log'.trail) /\ Grows(log.trail, log'.trail, steps, 0, log.cycleNo)
    BY <1>1, <1>2
  <1>5. cyc.at \in 1..6 /\ cyc.at # 1 /\ cyc.at # 3
    OBVIOUS
  <1> QED
    BY <1>3, <1>4, <1>5, PassesKeeps

LEMMA PlanKeeps ==
  ASSUME CycleIInv, Plan
  PROVE  CycleIInv'
  <1>1. cyc.phase = "stages" /\ log' = log /\ ended' = ended
    BY DEF Plan, Running
  <1>2. /\ LogOK(log) /\ log.current = TRUE /\ cyc.at \in 1..7 /\ cyc \in CycType
        /\ Governed(log.trail) /\ log.trail \in Seq(RecordType)
    BY <1>1, StagesFacts
  <1>3. cyc.at = 2
    BY <1>2, PipelineStages DEF Plan, Running
  <1>4. PICK selected \in Selections :
          \E order \in Schedules(Composed(selected)) :
            cyc' = [cyc EXCEPT !.at = @ + 1, !.plan = order]
    BY DEF Plan
  <1>5. PICK order \in Schedules(Composed(selected)) :
          cyc' = [cyc EXCEPT !.at = @ + 1, !.plan = order]
    BY <1>4
  <1>6. order \in Seq(Workflow)
    <2>1. selected \in SUBSET Process
      BY DEF Selections
    <2> QED
      BY <2>1, ComposedOf, SchedulesOf
  <1>7. cyc' = [cyc EXCEPT !.at = 3, !.plan = order]
    BY <1>3, <1>5
  <1>8. cyc' \in CycType /\ cyc'.phase = "stages" /\ cyc'.at = 3
    <2>1. cyc = [phase |-> cyc.phase, at |-> cyc.at, plan |-> cyc.plan, approval |-> cyc.approval]
      BY <1>2 DEF CycType
    <2>2. cyc' = [phase |-> cyc.phase, at |-> 3, plan |-> order, approval |-> cyc.approval]
      BY <1>7, <2>1
    <2>3. cyc.phase \in Phases /\ cyc.approval \in Approval /\ 3 \in 0..7
      BY <1>2 DEF CycType
    <2> QED
      BY <1>1, <1>6, <2>2, <2>3 DEF CycType
  <1> QED
    BY <1>1, <1>3, <1>8, SilentPassKeeps

LEMMA SilentStageKeeps ==
  ASSUME CycleIInv, Prepare \/ Elaborate
  PROVE  CycleIInv'
  <1>1. cyc.phase = "stages" /\ log' = log /\ ended' = ended /\ cyc' = [cyc EXCEPT !.at = @ + 1]
    BY DEF Prepare, Elaborate, Running, Passes
  <1>2. /\ LogOK(log) /\ log.current = TRUE /\ cyc.at \in 1..7 /\ cyc \in CycType
        /\ Governed(log.trail) /\ log.trail \in Seq(RecordType)
    BY <1>1, StagesFacts
  <1>3. cyc.at \in {4, 6}
    BY <1>2, PipelineStages DEF Prepare, Elaborate, Running
  <1>4. cyc' \in CycType /\ cyc'.phase = "stages" /\ cyc'.at = cyc.at + 1 /\ cyc'.plan = cyc.plan
    BY <1>1, <1>2, <1>3 DEF CycType
  <1> QED
    BY <1>1, <1>3, <1>4, SilentPassKeeps

LEMMA DeliberateKeeps ==
  ASSUME CycleIInv, Deliberate
  PROVE  CycleIInv'
  <1> DEFINE c == log.cycleNo
  <1> DEFINE r == Step("deliberation", ToSet(cyc.plan), "decision", "reasoner")
  <1> DEFINE steps == <<r>>
  <1>1. cyc.phase = "stages" /\ log' = Record(log, r) /\ ((Passes /\ UNCHANGED ended) \/ Returns("failed"))
    BY DEF Deliberate, Running
  <1>2. /\ LogOK(log) /\ log.current = TRUE /\ cyc.at \in 1..7 /\ cyc \in CycType
        /\ FavourableCycle(log.trail, c) /\ Governed(log.trail)
    BY <1>1, StagesFacts
  <1>3. cyc.at = 5
    BY <1>2, PipelineStages DEF Deliberate, Running
  <1>4. ToSet(cyc.plan) \in SUBSET Workflow
    <2>1. cyc.plan \in Seq(Workflow)
      BY <1>2 DEF CycType
    <2> QED
      BY <2>1 DEF ToSet
  <1>5. /\ r \in StepType /\ r.stage = "deliberation" /\ r.about = ToSet(cyc.plan)
        /\ r.out = "decision"
    BY <1>4 DEF Step, StepType, StageNames, OutNames, Authors, Vocabulary
  <1> HIDE DEF r
  <1>6. Extends(log', log, steps, 1) /\ steps[1] = r
    BY <1>1, <1>2, <1>5, OneRecord
  <1> HIDE DEF steps
  <1>7. /\ LogOK(log') /\ log'.cycleNo = c /\ log'.current = TRUE
        /\ Grows(log.trail, log'.trail, steps, 1, c)
    BY <1>2, <1>6, ExtendsGrows DEF Extends
  <1>8. \A p \in Gates(steps[1].about) : Judged(log.trail, c, p)
    <2>1. InStages
      BY IInvParts
    <2>2. \A p \in ToSet(RuntimePolicies) : Judged(log.trail, c, p)
      BY <1>1, <1>3, <2>1 DEF InStages
    <2>3. \A w \in ToSet(cyc.plan) : \A p \in ToSet(PoliciesOf[w]) : Judged(log.trail, c, p)
      BY <1>1, <1>3, <2>1 DEF InStages
    <2>4. steps[1].about = ToSet(cyc.plan)
      BY <1>5, <1>6
    <2> QED
      BY <2>2, <2>3, <2>4 DEF Gates
  <1>9. Governed(log'.trail)
    <2>1. steps[1].stage = "deliberation"
      BY <1>5, <1>6
    <2> HIDE DEF c
    <2> QED
      BY <1>2, <1>7, <1>8, <2>1, GovernedDeliberate
  <1>10. CASE Passes /\ UNCHANGED ended
    <2>1. cyc' = [cyc EXCEPT !.at = 6]
      BY <1>3, <1>10 DEF Passes
    <2>2. cyc' \in CycType /\ cyc'.phase = "stages" /\ cyc'.at = cyc.at + 1 /\ cyc'.plan = cyc.plan
      BY <1>1, <1>2, <1>3, <2>1 DEF CycType
    <2>3. \A i \in 1..1 : Favourable(steps[i])
      BY <1>5, <1>6 DEF Favourable
    <2>4. /\ cyc.at \in 1..6 /\ cyc.at # 1 /\ cyc.at # 3 /\ LogOK(log')
          /\ log'.cycleNo = log.cycleNo /\ log'.current = TRUE
          /\ Grows(log.trail, log'.trail, steps, 1, log.cycleNo)
      BY <1>3, <1>7
    <2> QED
      BY <1>1, <1>9, <1>10, <2>2, <2>3, <2>4, PassesKeeps
  <1>11. CASE Returns("failed")
    <2>1. Told(Outs(log'.trail, c), "failed") /\ "failed" \in Outcomes
      BY DEF Told, Outcomes
    <2> QED
      BY <1>1, <1>7, <1>9, <1>11, <2>1, ReturnsKeeps
  <1> QED
    BY <1>1, <1>10, <1>11

LEMMA MemoryStageKeeps ==
  ASSUME CycleIInv, MemoryStage
  PROVE  CycleIInv'
  <1>1. cyc.phase = "stages" /\ Returns("decided") /\ log' = log
    BY DEF MemoryStage, Running
  <1>2. /\ LogOK(log) /\ log.current = TRUE /\ FavourableCycle(log.trail, log.cycleNo)
        /\ Governed(log.trail) /\ log.trail \in Seq(RecordType)
    BY <1>1, StagesFacts
  <1> DEFINE steps == <<>>
  <1>3. Grows(log.trail, log.trail, steps, 0, log.cycleNo)
    BY <1>2, GrowsNone
  <1> HIDE DEF steps
  <1>4. Told(Outs(log.trail, log.cycleNo), "decided") /\ "decided" \in Outcomes
    <2>1. Outs(log.trail, log.cycleNo) \subseteq {"asked", "decision", "complies", "approved"}
      BY <1>2, FavourableOuts
    <2> QED
      BY <2>1 DEF Told, Outcomes
  <1> QED
    BY <1>1, <1>2, <1>3, <1>4, ReturnsKeeps

------------------------------------------------------------------------------
(* What Reason defers, and time *)

LEMMA RecordUsageKeeps ==
  ASSUME CycleIInv, RecordUsage
  PROVE  CycleIInv'
  <1> DEFINE r == Step("usage", {}, "accounted", "runtime")
  <1> DEFINE steps == <<r>>
  <1>1. /\ cyc.phase = "usage" /\ log' = Record(log, r) /\ ended' = ended
        /\ cyc' = [cyc EXCEPT !.phase = "retention"]
    BY DEF RecordUsage
  <1>2. LogOK(log) /\ cyc \in CycType /\ log.current = TRUE
    BY <1>1, IInvParts DEF Types, CycType, Numbering
  <1>3. r \in StepType /\ r.stage = "usage" /\ r.out = "accounted"
    BY DEF Step, StepType, StageNames, OutNames, Authors, Vocabulary
  <1> HIDE DEF r
  <1>4. Extends(log', log, steps, 1) /\ steps[1] = r
    BY <1>1, <1>2, <1>3, OneRecord
  <1> HIDE DEF steps
  <1>5. /\ LogOK(log') /\ log'.cycleNo = log.cycleNo
        /\ Grows(log.trail, log'.trail, steps, 1, log'.cycleNo)
    BY <1>2, <1>4, ExtendsGrows DEF Extends
  <1>6. Afterwards(steps, 1)
    <2>1. \A i \in 1..1 : steps[i] = r
      BY <1>4
    <2> QED
      BY <1>3, <2>1 DEF Afterwards
  <1>7. cyc' \in CycType /\ cyc'.phase \notin {"stages", "usage"}
    BY <1>1, <1>2 DEF CycType, Phases
  <1> QED
    BY <1>1, <1>5, <1>6, <1>7, TailKeeps

(* A step of the deferred calls and of time, that records nothing. *)
LEMMA SilentTailKeeps ==
  ASSUME CycleIInv, cyc' \in CycType, cyc'.phase \notin {"stages", "usage"}, ended' = ended,
         LogOK(log'), log'.trail = log.trail, log'.cycleNo = log.cycleNo
  PROVE  CycleIInv'
  <1> DEFINE steps == <<>>
  <1>1. log.trail \in Seq(RecordType)
    BY IInvParts DEF Types, LogOK
  <1>2. Grows(log.trail, log'.trail, steps, 0, log'.cycleNo)
    BY <1>1, GrowsNone
  <1> HIDE DEF steps
  <1>3. Afterwards(steps, 0)
    <2>1. \A i \in 1..0 : FALSE
      OBVIOUS
    <2> QED
      BY <2>1 DEF Afterwards
  <1> QED
    BY <1>2, <1>3, TailKeeps

LEMMA RotateOK ==
  ASSUME NEW l, LogOK(l), NEW cutoff
  PROVE  LET m == Rotate(l, cutoff)
         IN LogOK(m) /\ m.trail = l.trail /\ m.cycleNo = l.cycleNo
  <1> DEFINE m == Rotate(l, cutoff)
  <1> DEFINE kept == Picked(l.cycles, InWindow(l, cutoff))
  <1>1. m = [l EXCEPT !.cycles = kept, !.current = FALSE]
    BY DEF Rotate
  <1> HIDE DEF kept, m
  <1>2. m = [cycles |-> kept, current |-> FALSE, chainTip |-> l.chainTip,
             cycleNo |-> l.cycleNo, trail |-> l.trail, since |-> l.since]
    BY <1>1 DEF LogOK, IsLog
  <1>3. /\ IsLog(m) /\ m.current = FALSE /\ m.chainTip = l.chainTip
        /\ m.cycleNo = l.cycleNo /\ m.trail = l.trail
    BY <1>2, LogFields
  <1>4. l.chainTip \in Nat /\ l.cycleNo \in Nat /\ l.trail \in Seq(RecordType)
    BY DEF LogOK
  <1>5. LogOK(m)
    BY <1>3, <1>4 DEF LogOK
  <1> QED
    BY <1>3, <1>5 DEF m

LEMMA ApplyRetentionKeeps ==
  ASSUME CycleIInv, ApplyRetention
  PROVE  CycleIInv'
  <1>1. cyc.phase = "retention" /\ ended' = ended /\ cyc' = [cyc EXCEPT !.phase = "persist"]
    BY DEF ApplyRetention
  <1>2. LogOK(log) /\ cyc \in CycType
    BY IInvParts DEF Types, CycType
  <1>3. log' = Rotate(log, clock - RetentionDays) \/ log' = log
    BY DEF ApplyRetention
  <1>4. LogOK(log') /\ log'.trail = log.trail /\ log'.cycleNo = log.cycleNo
    <2>1. CASE log' = Rotate(log, clock - RetentionDays)
      BY <1>2, <2>1, RotateOK
    <2>2. CASE log' = log
      BY <1>2, <2>2
    <2> QED
      BY <1>3, <2>1, <2>2
  <1>5. cyc' \in CycType /\ cyc'.phase \notin {"stages", "usage"}
    BY <1>1, <1>2 DEF CycType, Phases
  <1> QED
    BY <1>1, <1>4, <1>5, SilentTailKeeps

LEMMA NoCycleOK == NoCycle \in CycType /\ NoCycle.phase = "none"
  <1>1. <<>> \in Seq(Workflow)
    BY EmptySeq
  <1>2. [verdict |-> "absent", by |-> "nobody"] \in Approval
    BY DEF Approval
  <1> QED
    BY <1>1, <1>2 DEF NoCycle, CycType, Phases

LEMMA SavesKeep ==
  ASSUME CycleIInv, SaveBegins \/ SaveEnds \/ TimePasses
  PROVE  CycleIInv'
  <1>1. LogOK(log) /\ cyc \in CycType
    BY IInvParts DEF Types, CycType
  <1>2. log' = log /\ ended' = ended
    BY DEF SaveBegins, SaveEnds, TimePasses
  <1>3. cyc' \in CycType /\ cyc'.phase \notin {"stages", "usage"}
    <2>1. CASE SaveBegins
      <3>1. cyc' = [cyc EXCEPT !.phase = "saving"]
        BY <2>1 DEF SaveBegins
      <3> QED
        BY <1>1, <3>1 DEF CycType, Phases
    <2>2. CASE SaveEnds
      BY <2>2, NoCycleOK DEF SaveEnds
    <2>3. CASE TimePasses
      BY <1>1, <2>3 DEF TimePasses
    <2> QED
      BY <2>1, <2>2, <2>3
  <1> QED
    BY <1>1, <1>2, <1>3, SilentTailKeeps

(* Record, in the cycle that is open or in a headless one. *)
LEMMA RecordGrows ==
  ASSUME NEW l, LogOK(l), NEW r \in StepType
  PROVE  LET m == Record(l, r)
         IN /\ LogOK(m)
            /\ m.cycleNo = l.cycleNo \/ m.cycleNo = l.cycleNo + 1
            /\ Grows(l.trail, m.trail, <<r>>, 1, m.cycleNo)
  <1> DEFINE c == IF l.current THEN l.cycleNo ELSE l.cycleNo + 1
  <1> DEFINE m == Record(l, r)
  <1> DEFINE steps == <<r>>
  <1>1. /\ LogOK(m)
        /\ m.cycleNo = c
        /\ \E record \in RecordType : Tells(record, r, c) /\ m.trail = Append(l.trail, record)
    BY RecordAppends, Zenon
  <1>2. c = l.cycleNo \/ c = l.cycleNo + 1
    OBVIOUS
  <1> HIDE DEF c, m
  <1>3. PICK record \in RecordType : Tells(record, r, c) /\ m.trail = Append(l.trail, record)
    BY <1>1
  <1>4. l.trail \in Seq(RecordType) /\ m.trail \in Seq(RecordType)
    BY <1>1 DEF LogOK
  <1>5. PICK n \in Nat : n = Len(l.trail)
    BY <1>4
  <1>6. /\ Len(m.trail) = n + 1 /\ m.trail[n + 1] = record
        /\ \A i \in 1..n : m.trail[i] = l.trail[i]
    BY <1>3, <1>4, <1>5, AppendProperties
  <1>7. \A i \in 1..1 : n + i = n + 1 /\ steps[i] = r
    OBVIOUS
  <1> HIDE DEF steps
  <1>8. \A i \in 1..1 : Tells(m.trail[n + i], steps[i], c)
    BY <1>3, <1>6, <1>7
  <1>9. Grows(l.trail, m.trail, steps, 1, m.cycleNo)
    BY <1>1, <1>4, <1>5, <1>6, <1>8 DEF Grows
  <1> QED
    BY <1>1, <1>2, <1>9 DEF m, steps

LEMMA SaveFailsKeeps ==
  ASSUME CycleIInv, SaveFails
  PROVE  CycleIInv'
  <1> DEFINE r == Step("persist", {}, "not saved", "runtime")
  <1> DEFINE steps == <<r>>
  <1>1. log' = Record(log, r) /\ ended' = ended /\ cyc' = NoCycle
    BY DEF SaveFails
  <1>2. LogOK(log)
    BY IInvParts DEF Types
  <1>3. r \in StepType /\ r.stage = "persist" /\ r.out = "not saved"
    BY DEF Step, StepType, StageNames, OutNames, Authors, Vocabulary
  <1> HIDE DEF r
  <1>4. /\ LogOK(log')
        /\ log'.cycleNo = log.cycleNo \/ log'.cycleNo = log.cycleNo + 1
        /\ Grows(log.trail, log'.trail, steps, 1, log'.cycleNo)
    BY <1>1, <1>2, <1>3, RecordGrows
  <1>5. Afterwards(steps, 1)
    <2>1. \A i \in 1..1 : steps[i] = r
      OBVIOUS
    <2> QED
      BY <1>3, <2>1 DEF Afterwards
  <1> HIDE DEF steps
  <1>6. cyc' \in CycType /\ cyc'.phase \notin {"stages", "usage"}
    BY <1>1, NoCycleOK
  <1> QED
    BY <1>1, <1>4, <1>5, <1>6, TailKeeps

------------------------------------------------------------------------------
(* A cycle begins, and a session *)

LEMMA ReasonKeeps ==
  ASSUME CycleIInv, NEW approval \in Approval, NEW claim \in Claim, Reason(approval, claim)
  PROVE  CycleIInv'
  <1> DEFINE opened == OpenCycle(log, clock)
  <1> DEFINE intent == Step("intent", {}, "asked", "caller")
  <1> DEFINE refusal == Step("tenant", {}, "REFUSED", "claim")
  <1> DEFINE begun == BeginCycle(log, clock)
  <1> DEFINE steps == <<intent, refusal>>
  <1> DEFINE x == [cycle |-> begun.cycleNo, outcome |-> "blocked"]
  <1>1. Types /\ Numbering /\ Governed(log.trail) /\ ToldAll(log.trail, ended)
    BY IInvParts
  <1>2. LogOK(log) /\ TrailNumbered(log) /\ \A n \in 1..Len(ended) : ended[n].cycle <= log.cycleNo
    BY <1>1 DEF Types, Numbering
  <1>3. PICK c \in Nat : c = log.cycleNo + 1
    BY <1>2 DEF LogOK
  <1>4. intent \in StepType /\ intent.stage = "intent" /\ intent.out = "asked"
    BY DEF Step, StepType, StageNames, OutNames, Authors, Vocabulary
  <1>5. refusal \in StepType /\ refusal.stage = "tenant" /\ refusal.out = "REFUSED"
    BY DEF Step, StepType, StageNames, OutNames, Authors, Vocabulary
  <1>6. \/ log' = begun /\ cyc' = [NoCycle EXCEPT !.phase = "stages", !.at = 1, !.approval = approval] /\ ended' = ended
        \/ /\ log' = Record(begun, refusal) /\ cyc' = [NoCycle EXCEPT !.phase = "usage"]
           /\ ended' = Append(ended, x)
    BY DEF Reason
  <1>7. begun = Record(opened, intent)
    BY DEF BeginCycle
  <1> HIDE DEF intent, refusal, begun
  <1>8. LogOK(opened) /\ opened.current = TRUE /\ opened.cycleNo = c /\ opened.trail = log.trail
    BY <1>2, <1>3, OpenCycleOK
  <1> HIDE DEF opened
  <1>9. steps[1] = intent /\ steps[2] = refusal /\ 0 + 1 = 1 /\ 1 + 1 = 2
    OBVIOUS
  <1> HIDE DEF steps
  <1>10. Extends(begun, opened, steps, 1)
    <2>1. Extends(opened, opened, steps, 0)
      BY <1>8, ExtendsNone
    <2>2. Extends(Record(opened, steps[0 + 1]), opened, steps, 0 + 1)
      BY <1>4, <1>8, <1>9, <2>1, RecordExtends
    <2> QED
      BY <1>7, <1>9, <2>2
  <1>11. Extends(Record(begun, refusal), opened, steps, 2)
    <2>1. Extends(Record(begun, steps[1 + 1]), opened, steps, 1 + 1)
      BY <1>5, <1>8, <1>9, <1>10, RecordExtends
    <2> QED
      BY <1>9, <2>1
  <1>12. Apart(ended, c)
    <2>1. ASSUME NEW n \in 1..Len(ended)
          PROVE  ended[n].cycle < c
      <3>1. ended[n].cycle \in Nat /\ ended[n].cycle <= log.cycleNo /\ log.cycleNo \in Nat
        BY <1>1, <1>2, EndedNumbers DEF LogOK
      <3> QED
        BY <1>3, <3>1
    <2> QED
      BY <1>1, <2>1, EndedApart
  <1>13. Outs(log.trail, c) = {} /\ FavourableCycle(log.trail, c)
    BY <1>2, <1>3, NewNumber
  <1>14. CASE /\ log' = begun /\ ended' = ended
              /\ cyc' = [NoCycle EXCEPT !.phase = "stages", !.at = 1, !.approval = approval]
    <2>1. /\ LogOK(log') /\ log'.cycleNo = c /\ log'.current = TRUE
          /\ Grows(log.trail, log'.trail, steps, 1, c)
      BY <1>8, <1>10, <1>14, ExtendsGrows DEF Extends
    <2>2. cyc' \in CycType /\ cyc'.phase = "stages" /\ cyc'.at = 1
      <3>1. cyc' = [phase |-> "stages", at |-> 1, plan |-> <<>>, approval |-> approval]
        BY <1>14 DEF NoCycle
      <3>2. <<>> \in Seq(Workflow)
        BY EmptySeq
      <3> QED
        BY <3>1, <3>2 DEF CycType, Phases
    <2>3. Types'
      BY <1>1, <1>14, <2>1, <2>2 DEF Types, CycType
    <2>4. TrailNumbered(log')
      <3>1. log'.cycleNo = log.cycleNo + 1 /\ 1 > 0
        BY <1>3, <2>1
      <3> QED
        BY <1>2, <2>1, <3>1, TrailNumberedGrow
    <2>5. \A i \in 1..1 : steps[i] = intent
      BY <1>9
    <2>6. FavourableCycle(log'.trail, c)
      <3>1. \A i \in 1..1 : Favourable(steps[i])
        BY <1>4, <2>5 DEF Favourable
      <3> QED
        BY <1>13, <2>1, <3>1, FavourableGrow
    <2>7. Governed(log'.trail)
      <3>1. \A i \in 1..1 : steps[i].stage # "deliberation"
        BY <1>4, <2>5
      <3> QED
        BY <1>1, <2>1, <3>1, GovernedGrow
    <2>8. ToldAll(log'.trail, ended')
      <3>1. ToldAll(log'.trail, ended)
        BY <1>1, <1>12, <2>1, ToldGrow
      <3> QED
        BY <1>14, <3>1
    <2>9. Numbering'
      <3>1. \A n \in 1..Len(ended) : ended[n].cycle <= c /\ ended[n].cycle < c
        <4>1. ASSUME NEW n \in 1..Len(ended)
              PROVE  ended[n].cycle <= c /\ ended[n].cycle < c
          <5>1. ended[n].cycle \in Nat /\ ended[n].cycle <= log.cycleNo /\ log.cycleNo \in Nat
            BY <1>1, <1>2, EndedNumbers DEF LogOK
          <5> QED
            BY <1>3, <5>1
        <4> QED
          BY <4>1
      <3> QED
        BY <1>14, <2>1, <2>4, <3>1 DEF Numbering
    <2>10. InStages'
      <3>1. cyc'.at \in 1..7 /\ ~(cyc'.at > 1) /\ ~(cyc'.at > 3)
        BY <2>2
      <3> QED
        BY <2>1, <2>6, <3>1 DEF InStages
    <2> QED
      BY <2>3, <2>7, <2>8, <2>9, <2>10, IInvPartsNext
  <1>15. CASE /\ log' = Record(begun, refusal) /\ cyc' = [NoCycle EXCEPT !.phase = "usage"]
              /\ ended' = Append(ended, x)
    <2>1. /\ LogOK(log') /\ log'.cycleNo = c /\ log'.current = TRUE
          /\ Grows(log.trail, log'.trail, steps, 2, c)
      BY <1>8, <1>11, <1>15, ExtendsGrows DEF Extends
    <2>2. cyc' \in CycType /\ cyc'.phase = "usage"
      BY <1>15, NoCycleOK DEF CycType, Phases
    <2>3. x \in Ending /\ x.cycle = c /\ x.outcome = "blocked"
      BY <1>8, <1>10 DEF Ending, Outcomes, Extends
    <2> HIDE DEF x
    <2>4. \A i \in 1..2 : i = 1 \/ i = 2
      OBVIOUS
    <2>5. Governed(log'.trail)
      <3>1. \A i \in 1..2 : steps[i].stage # "deliberation"
        BY <1>4, <1>5, <1>9, <2>4
      <3> QED
        BY <1>1, <2>1, <3>1, GovernedGrow
    <2>6. ToldAll(log'.trail, ended)
      BY <1>1, <1>12, <2>1, ToldGrow
    <2>7. Told(Outs(log'.trail, c), "blocked")
      <3>1. Joins(Outs(log'.trail, c), Outs(log.trail, c), NewOuts(steps, 2, c, c))
        BY <2>1, OutsGrow
      <3>2. NewOuts(steps, 2, c, c) = {"asked", "REFUSED"}
        BY <1>4, <1>5, <1>9, <2>4 DEF NewOuts
      <3> QED
        BY <1>13, <3>1, <3>2 DEF Joins, Told
    <2>8. ended \in Seq(Ending)
      BY <1>1 DEF Types, Ending
    <2>9. ToldAll(log'.trail, ended') /\ ended' \in Seq(Ending)
      BY <1>15, <2>3, <2>6, <2>7, <2>8, ToldAppend
    <2>10. Types'
      BY <2>1, <2>2, <2>9 DEF Types, CycType, Ending
    <2>11. TrailNumbered(log')
      <3>1. log'.cycleNo = log.cycleNo + 1 /\ 2 > 0
        BY <1>3, <2>1
      <3> QED
        BY <1>2, <2>1, <3>1, TrailNumberedGrow
    <2>12. \A i \in 1..Len(ended') : ended'[i].cycle <= c
      <3>1. PICK n \in Nat : n = Len(ended)
        BY <2>8
      <3>2. /\ Len(ended') = n + 1 /\ ended'[n + 1] = x
            /\ \A i \in 1..n : ended'[i] = ended[i]
        BY <1>15, <2>3, <2>8, <3>1, AppendProperties
      <3>3. ASSUME NEW i \in 1..n
            PROVE  ended[i].cycle <= c
        <4>1. ended[i].cycle \in Nat /\ ended[i].cycle <= log.cycleNo /\ log.cycleNo \in Nat
          BY <1>1, <1>2, <3>1, EndedNumbers DEF LogOK
        <4> QED
          BY <1>3, <4>1
      <3>4. \A i \in 1..(n + 1) : i \in 1..n \/ i = n + 1
        OBVIOUS
      <3>5. x.cycle <= c
        BY <2>3
      <3> QED
        BY <3>2, <3>3, <3>4, <3>5
    <2>13. Numbering'
      BY <2>1, <2>2, <2>11, <2>12 DEF Numbering
    <2>14. InStages'
      BY <2>2 DEF InStages
    <2> QED
      BY <2>5, <2>9, <2>10, <2>13, <2>14, IInvPartsNext
  <1> QED
    BY <1>6, <1>14, <1>15

------------------------------------------------------------------------------
(* A death of the process, and the specification *)

(* The number of the latest cycle is read off the trail. *)
LEMMA MaxCycleOf ==
  ASSUME NEW l, LogOK(l), TrailNumbered(l)
  PROVE  MaxCycle(l.trail) = l.cycleNo
  <1> DEFINE S == {0} \cup {l.trail[i].cycle : i \in 1..Len(l.trail)}
  <1>1. l.cycleNo \in Nat
    BY DEF LogOK
  <1>2. l.cycleNo \in S
    BY DEF TrailNumbered, Used
  <1>3. ASSUME NEW i \in 1..Len(l.trail)
        PROVE  l.trail[i].cycle \in Nat /\ l.cycleNo >= l.trail[i].cycle
    <2>1. l.trail[i] \in RecordType /\ l.trail[i].cycle <= l.cycleNo
      BY DEF LogOK, TrailNumbered
    <2>2. l.trail[i].cycle \in Nat
      BY <2>1 DEF RecordType
    <2> QED
      BY <1>1, <2>1, <2>2
  <1>4. \A y \in S : y \in Nat /\ l.cycleNo >= y
    BY <1>1, <1>3
  <1>5. MaxCycle(l.trail) = Max(S)
    BY DEF MaxCycle
  <1> HIDE DEF S
  <1>6. Max(S) \in S /\ \A y \in S : Max(S) >= y
    BY <1>2, <1>4 DEF Max
  <1> QED
    BY <1>1, <1>2, <1>4, <1>5, <1>6

(* The next session continues the numbering of the last. *)
LEMMA ResumedOK ==
  ASSUME NEW l, LogOK(l), TrailNumbered(l)
  PROVE  LET m == Resumed(l)
         IN LogOK(m) /\ m.trail = l.trail /\ m.cycleNo = l.cycleNo
  <1> DEFINE new == NewLog(l.trail)
  <1> DEFINE m == Resumed(l)
  <1>1. l.cycleNo \in Nat /\ l.trail \in Seq(RecordType)
    BY DEF LogOK
  <1>2. MaxCycle(l.trail) = l.cycleNo
    BY MaxCycleOf
  <1>3. m = SeedCycleNumbering(new, l.cycleNo)
    BY <1>2 DEF Resumed
  <1>4. new = [cycles |-> <<>>, current |-> FALSE, chainTip |-> 0, cycleNo |-> 0,
               trail |-> l.trail, since |-> Len(l.trail)]
    BY DEF NewLog
  <1> HIDE DEF new, m
  <1>5. m = [cycles |-> <<>>, current |-> FALSE, chainTip |-> 0,
             cycleNo |-> IF l.cycleNo > 0 THEN l.cycleNo ELSE 0,
             trail |-> l.trail, since |-> Len(l.trail)]
    BY <1>3, <1>4 DEF SeedCycleNumbering
  <1>6. (IF l.cycleNo > 0 THEN l.cycleNo ELSE 0) = l.cycleNo
    BY <1>1
  <1>7. /\ IsLog(m) /\ m.current = FALSE /\ m.chainTip = 0
        /\ m.cycleNo = l.cycleNo /\ m.trail = l.trail
    BY <1>5, <1>6, LogFields
  <1>8. LogOK(m)
    <2>1. m.chainTip \in Nat
      BY <1>7
    <2>2. m.cycleNo \in Nat /\ m.trail \in Seq(RecordType)
      BY <1>1, <1>7
    <2>3. m.current \in BOOLEAN
      BY <1>7, Zenon
    <2> QED
      BY <1>7, <2>1, <2>2, <2>3 DEF LogOK
  <1> QED
    BY <1>7, <1>8 DEF m

(* What ended is what had ended, but for a cycle that died before it was    *)
(* accounted for.                                                          *)
LEMMA CrashEnds ==
  ASSUME Types, NEW t, ToldAll(t, ended), NEW c \in Nat,
         \A n \in 1..Len(ended) : ended[n].cycle <= c,
         NEW e, NEW x, x = [cycle |-> c, outcome |-> "crashed"],
         e = ended \/ e = Append(ended, x) \/ e = Append(Front(ended), x)
  PROVE  /\ e \in Seq(Ending) /\ ToldAll(t, e)
         /\ \A n \in 1..Len(e) : e[n].cycle <= c
  <1>1. ended \in Seq(Ending)
    BY DEF Types, Ending
  <1>2. x \in Ending /\ x.cycle = c /\ x.outcome = "crashed"
    BY DEF Ending, Outcomes
  <1>3. Told(Outs(t, x.cycle), x.outcome)
    BY <1>2 DEF Told
  <1>4. ASSUME NEW f \in Seq(Ending), ToldAll(t, f), \A n \in 1..Len(f) : f[n].cycle <= c
        PROVE  /\ Append(f, x) \in Seq(Ending) /\ ToldAll(t, Append(f, x))
               /\ \A n \in 1..Len(Append(f, x)) : Append(f, x)[n].cycle <= c
    <2>1. Append(f, x) \in Seq(Ending) /\ ToldAll(t, Append(f, x))
      BY <1>2, <1>3, <1>4, ToldAppend
    <2>2. PICK k \in Nat : k = Len(f)
      OBVIOUS
    <2>3. /\ Len(Append(f, x)) = k + 1 /\ Append(f, x)[k + 1] = x
          /\ \A n \in 1..k : Append(f, x)[n] = f[n]
      BY <2>2, AppendProperties
    <2>4. \A n \in 1..(k + 1) : n \in 1..k \/ n = k + 1
      OBVIOUS
    <2>5. c <= c
      OBVIOUS
    <2> QED
      BY <1>2, <1>4, <2>1, <2>2, <2>3, <2>4, <2>5
  <1>5. CASE e = ended
    BY <1>1, <1>5
  <1>6. CASE e = Append(ended, x)
    BY <1>1, <1>4, <1>6
  <1>7. CASE e = Append(Front(ended), x)
    <2>1. /\ Front(ended) \in Seq(Ending)
          /\ \A i \in 1..Len(Front(ended)) : i \in 1..Len(ended) /\ Front(ended)[i] = ended[i]
      BY <1>1, FrontOf
    <2>2. ToldAll(t, Front(ended)) /\ \A n \in 1..Len(Front(ended)) : Front(ended)[n].cycle <= c
      BY <2>1 DEF ToldAll
    <2> QED
      BY <1>4, <1>7, <2>1, <2>2
  <1> QED
    BY <1>5, <1>6, <1>7

LEMMA CrashKeeps ==
  ASSUME CycleIInv, CrashAndLoad
  PROVE  CycleIInv'
  <1> DEFINE x == [cycle |-> log.cycleNo, outcome |-> "crashed"]
  <1>1. Types /\ Numbering /\ Governed(log.trail) /\ ToldAll(log.trail, ended)
    BY IInvParts
  <1>2. LogOK(log) /\ TrailNumbered(log)
    BY <1>1 DEF Types, Numbering
  <1>3. log' = Resumed(log) /\ cyc' = NoCycle
    BY DEF CrashAndLoad
  <1>4. ended' = ended \/ ended' = Append(ended, x) \/ ended' = Append(Front(ended), x)
    BY DEF CrashAndLoad
  <1>5. LogOK(log') /\ log'.trail = log.trail /\ log'.cycleNo = log.cycleNo
    BY <1>2, <1>3, ResumedOK
  <1>6. cyc' \in CycType /\ cyc'.phase = "none"
    BY <1>3, NoCycleOK
  <1>7. /\ ended' \in Seq(Ending) /\ ToldAll(log.trail, ended')
        /\ \A n \in 1..Len(ended') : ended'[n].cycle <= log.cycleNo
    <2>1. log.cycleNo \in Nat /\ \A n \in 1..Len(ended) : ended[n].cycle <= log.cycleNo
      BY <1>1, <1>2 DEF Numbering, LogOK
    <2> QED
      BY <1>1, <1>4, <2>1, CrashEnds
  <1>8. Types'
    BY <1>5, <1>6, <1>7 DEF Types, CycType, Ending
  <1>9. Numbering'
    <2>1. TrailNumbered(log')
      BY <1>2, <1>5 DEF TrailNumbered
    <2> QED
      BY <1>5, <1>6, <1>7, <2>1 DEF Numbering
  <1>10. InStages'
    BY <1>6 DEF InStages
  <1> QED
    BY <1>1, <1>5, <1>7, <1>8, <1>9, <1>10, IInvPartsNext

LEMMA CycleInitHolds == CycleInit => CycleIInv
  <1> SUFFICES ASSUME CycleInit PROVE CycleIInv
    OBVIOUS
  <1>1. log = NewLog(<<>>) /\ cyc = NoCycle /\ ended = <<>>
    BY DEF CycleInit
  <1>2. <<>> \in Seq(RecordType) /\ <<>> \in Seq(Ending) /\ Len(<<>>) = 0
    BY EmptySeq
  <1>3. /\ IsLog(log) /\ log.current = FALSE /\ log.chainTip = 0
        /\ log.cycleNo = 0 /\ log.trail = <<>>
    BY <1>1, LogFields DEF NewLog
  <1>4. LogOK(log)
    <2>1. log.chainTip \in Nat /\ log.cycleNo \in Nat
      BY <1>3
    <2>2. log.trail \in Seq(RecordType)
      BY <1>2, <1>3
    <2>3. log.current \in BOOLEAN
      BY <1>3, Zenon
    <2> QED
      BY <1>3, <2>1, <2>2, <2>3 DEF LogOK
  <1>5. cyc \in CycType /\ cyc.phase = "none"
    BY <1>1, NoCycleOK
  <1>6. Types
    BY <1>1, <1>2, <1>4, <1>5 DEF Types, CycType, Ending
  <1>7. Len(log.trail) = 0 /\ Len(ended) = 0 /\ \A i \in 1..0 : FALSE
    BY <1>1, <1>2, <1>3
  <1>8. Numbering
    BY <1>3, <1>5, <1>7 DEF Numbering, TrailNumbered
  <1>9. InStages
    BY <1>5 DEF InStages
  <1>10. Governed(log.trail) /\ ToldAll(log.trail, ended)
    BY <1>7 DEF Governed, ToldAll
  <1> QED
    BY <1>6, <1>8, <1>9, <1>10, IInvParts

LEMMA CycleStepKeeps ==
  ASSUME CycleIInv, [CycleNext]_cycleVars
  PROVE  CycleIInv'
  <1>1. ASSUME NEW a \in Approval, NEW claim \in Claim, Reason(a, claim)
        PROVE  CycleIInv'
    BY <1>1, ReasonKeeps
  <1>2. CASE StageFails
    BY <1>2, StageFailsKeeps
  <1>3. ASSUME NEW j \in Judgements, cyc.phase = "stages", Govern(j)
        PROVE  CycleIInv'
    BY <1>3, GovernKeeps
  <1>4. CASE Plan
    BY <1>4, PlanKeeps
  <1>5. CASE Prepare \/ Elaborate
    BY <1>5, SilentStageKeeps
  <1>6. CASE Deliberate
    BY <1>6, DeliberateKeeps
  <1>7. CASE MemoryStage
    BY <1>7, MemoryStageKeeps
  <1>8. CASE RecordUsage
    BY <1>8, RecordUsageKeeps
  <1>9. CASE ApplyRetention
    BY <1>9, ApplyRetentionKeeps
  <1>10. CASE SaveBegins \/ SaveEnds \/ TimePasses
    BY <1>10, SavesKeep
  <1>11. CASE SaveFails
    BY <1>11, SaveFailsKeeps
  <1>12. CASE CrashAndLoad
    BY <1>12, CrashKeeps
  <1>13. CASE UNCHANGED cycleVars
    <2>1. log' = log /\ cyc' = cyc /\ ended' = ended
      BY <1>13 DEF cycleVars
    <2>2. Types /\ Numbering /\ InStages /\ Governed(log.trail) /\ ToldAll(log.trail, ended)
      BY IInvParts
    <2>3. Types'
      BY <2>1, <2>2 DEF Types
    <2>4. Numbering'
      BY <2>1, <2>2 DEF Numbering
    <2>5. InStages'
      BY <2>1, <2>2 DEF InStages
    <2> QED
      BY <2>1, <2>2, <2>3, <2>4, <2>5, IInvPartsNext
  <1> QED
    BY <1>1, <1>2, <1>3, <1>4, <1>5, <1>6, <1>7, <1>8, <1>9, <1>10, <1>11, <1>12, <1>13
    DEF CycleNext

------------------------------------------------------------------------------
(* Theorems *)

(* runtime.go:197-345, reasoninglog.go:83-140: whatever the models answer,  *)
(* and wherever the process dies, the records of the cycles are numbered   *)
(* apart, and a cycle that is still in its stages has nothing on the trail *)
(* but its intent, its deliberation and rulings that let it continue.      *)
THEOREM CycleInvariance == CycleSpec => []CycleIInv
  <1>1. CycleIInv /\ [CycleNext]_cycleVars => CycleIInv'
    BY CycleStepKeeps
  <1> QED
    BY CycleInitHolds, <1>1, PTL DEF CycleSpec

(* stages.go:27-41, pipeline.go:38-42: nothing is deliberated before the    *)
(* same cycle has judged every policy of the runtime and of the workflows  *)
(* it is about to run, and each was complied with or waived by somebody    *)
(* who may: for every catalogue of policies and every number of cycles.    *)
THEOREM GatesBeforeDeliberation == CycleSpec => []GovernedDeliberation
  <1>1. CycleIInv => GovernedDeliberation
    BY DEF CycleIInv
  <1> QED
    BY CycleInvariance, <1>1, PTL

(* monitor.go:125-197: the records of a cycle tell whether it decided, was  *)
(* blocked or was parked, so the monitor may count them from the trail,    *)
(* after any number of failed saves, rotations and restarts.               *)
THEOREM OutcomeOnTheTrail == CycleSpec => []TrailTellsOutcome
  <1>1. CycleIInv => TrailTellsOutcome
    BY DEF CycleIInv
  <1> QED
    BY CycleInvariance, <1>1, PTL

------------------------------------------------------------------------------
(* Accounting: what the trail holds of a cycle, in order *)

(* What is recorded between the intent of a cycle and its accounting. *)
Between == {"tenant", "policy", "approval", "deliberation"}

(* The cycle c has its intent, and is not accounted for. *)
OpenedAt(t, c, f) ==
  /\ t[f].cycle = c /\ t[f].stage = "intent"
  /\ \A i \in 1..Len(t) : t[i].cycle = c => i = f \/ (i > f /\ t[i].stage \in Between)

Opened(t, c) == \E f \in 1..Len(t) : OpenedAt(t, c, f)

(* The cycle c has its intent first and its usage last, but for failed saves. *)
AccountedAt(t, c, f, u) ==
  /\ f < u
  /\ t[f].cycle = c /\ t[f].stage = "intent"
  /\ t[u].cycle = c /\ t[u].stage = "usage"
  /\ \A i \in 1..Len(t) : t[i].cycle = c =>
       \/ i = f \/ i = u
       \/ i > f /\ i < u /\ t[i].stage \in Between
       \/ i > u /\ t[i].stage = "persist"

Accounted(t, c) == \E f, u \in 1..Len(t) : AccountedAt(t, c, f, u)

Accounts ==
  /\ cyc.phase \in {"stages", "usage"} => Opened(log.trail, log.cycleNo)
  /\ cyc.phase = "usage" =>
       /\ Len(ended) > 0 /\ ended[Len(ended)].cycle = log.cycleNo
       /\ \A n \in 1..Len(ended) : n < Len(ended) => ended[n].cycle < log.cycleNo
  /\ \A n \in 1..Len(ended) :
       \/ ended[n].outcome = "crashed"
       \/ n = Len(ended) /\ cyc.phase = "usage"
       \/ Accounted(log.trail, ended[n].cycle)

(* What is accounted for, as the property says it. *)
InOrder(t, c) ==
  LET records == {i \in 1..Len(t) : t[i].cycle = c}
      of(stage) == {i \in records : t[i].stage = stage}
  IN /\ records # {}
     /\ of("intent") = {Min(records)}
     /\ Cardinality(of("usage")) = 1
     /\ \A i \in records : i > Max(of("usage")) => t[i].stage = "persist"

LEMMA AccountedOnTrail ==
  ASSUME NEW t, Len(t) \in Nat, NEW c, Accounted(t, c)
  PROVE  InOrder(t, c)
  <1> DEFINE records == {i \in 1..Len(t) : t[i].cycle = c}
  <1> DEFINE of(stage) == {i \in records : t[i].stage = stage}
  <1>1. PICK f \in 1..Len(t) : \E u \in 1..Len(t) : AccountedAt(t, c, f, u)
    BY DEF Accounted
  <1>2. PICK u \in 1..Len(t) : AccountedAt(t, c, f, u)
    BY <1>1
  <1>3. /\ f < u /\ f \in records /\ u \in records
        /\ t[f].stage = "intent" /\ t[u].stage = "usage"
    BY <1>2 DEF AccountedAt
  <1>4. ASSUME NEW i \in records
        PROVE  /\ i \in 1..Len(t) /\ f <= i
               /\ t[i].stage = "intent" <=> i = f
               /\ t[i].stage = "usage" <=> i = u
               /\ i > u => t[i].stage = "persist"
    <2>1. \/ i = f \/ i = u
          \/ i > f /\ i < u /\ t[i].stage \in Between
          \/ i > u /\ t[i].stage = "persist"
      BY <1>2 DEF AccountedAt
    <2>2. f \in Int /\ u \in Int /\ i \in Int
      OBVIOUS
    <2> QED
      BY <1>3, <2>1, <2>2 DEF Between
  <1> HIDE DEF records
  <1>5. Min(records) = f
    <2>1. Min(records) \in records /\ \A y \in records : Min(records) <= y
      BY <1>3, <1>4 DEF Min
    <2>2. Min(records) <= f /\ f <= Min(records) /\ Min(records) \in 1..Len(t)
      BY <1>3, <1>4, <2>1
    <2> QED
      BY <2>2
  <1>6. of("intent") = {f}
    BY <1>3, <1>4
  <1>7. of("usage") = {u}
    BY <1>3, <1>4
  <1> HIDE DEF of
  <1>8. Cardinality(of("usage")) = 1
    BY <1>7, FS_Singleton
  <1>9. Max(of("usage")) = u
    <2>1. u >= u
      OBVIOUS
    <2> QED
      BY <1>7, <2>1 DEF Max
  <1>10. records # {} /\ \A i \in records : i > u => t[i].stage = "persist"
    BY <1>3, <1>4
  <1>11. /\ records # {}
         /\ of("intent") = {Min(records)}
         /\ Cardinality(of("usage")) = 1
         /\ \A i \in records : i > Max(of("usage")) => t[i].stage = "persist"
    BY <1>5, <1>6, <1>8, <1>9, <1>10
  <1> QED
    BY <1>11 DEF InOrder, records, of

LEMMA OpenedGrow ==
  ASSUME NEW t, NEW u, NEW steps, NEW k \in Nat, NEW c, Grows(t, u, steps, k, c), Opened(t, c),
         \A i \in 1..k : steps[i].stage \in Between
  PROVE  Opened(u, c)
  <1>1. PICK f \in 1..Len(t) : OpenedAt(t, c, f)
    BY DEF Opened
  <1>2. f \in 1..Len(u) /\ u[f] = t[f] /\ Len(t) \in Nat
    BY GrowsPlaces
  <1>3. ASSUME NEW j \in 1..Len(u), u[j].cycle = c
        PROVE  j = f \/ (j > f /\ u[j].stage \in Between)
    <2>1. CASE j \in 1..Len(t)
      <3>1. u[j] = t[j]
        BY <2>1, GrowsPlaces
      <3> QED
        BY <1>1, <1>3, <2>1, <3>1 DEF OpenedAt
    <2>2. CASE \E i \in 1..k : j = Len(t) + i
      <3>1. PICK i \in 1..k : j = Len(t) + i
        BY <2>2
      <3>2. Tells(u[j], steps[i], c)
        BY <3>1, GrowsPlaces
      <3>3. j > f
        BY <1>2, <3>1
      <3> QED
        BY <3>2, <3>3 DEF Tells
    <2>3. OldOrNew(j, t, k)
      BY GrowsNowhereElse
    <2> QED
      BY <2>1, <2>2, <2>3 DEF OldOrNew
  <1>4. OpenedAt(u, c, f)
    BY <1>1, <1>2, <1>3 DEF OpenedAt
  <1> QED
    BY <1>2, <1>4 DEF Opened

(* No record of t is of the cycle c. *)
Unused(t, c) == \A i \in 1..Len(t) : t[i].cycle # c

Opens(steps, k) ==
  /\ k > 0
  /\ steps[1].stage = "intent"
  /\ \A i \in 1..k : i = 1 \/ steps[i].stage \in Between

LEMMA OpenedNew ==
  ASSUME NEW t, NEW u, NEW steps, NEW k \in Nat, NEW c, Grows(t, u, steps, k, c), Unused(t, c),
         Opens(steps, k)
  PROVE  Opened(u, c)
  <1> DEFINE f == Len(t) + 1
  <1>1. 1 \in 1..k
    BY DEF Opens
  <1>2. Len(t) \in Nat /\ f \in 1..Len(u) /\ Tells(u[f], steps[1], c)
    BY <1>1, GrowsPlaces
  <1>3. u[f].cycle = c /\ u[f].stage = "intent"
    BY <1>2 DEF Tells, Opens
  <1>4. ASSUME NEW j \in 1..Len(u), u[j].cycle = c
        PROVE  j = f \/ (j > f /\ u[j].stage \in Between)
    <2>1. CASE j \in 1..Len(t)
      <3>1. u[j] = t[j]
        BY <2>1, GrowsPlaces, SMTT(30)
      <3> QED
        BY <1>4, <2>1, <3>1 DEF Unused
    <2>2. CASE \E i \in 1..k : j = Len(t) + i
      <3>1. PICK i \in 1..k : j = Len(t) + i
        BY <2>2
      <3>2. Tells(u[j], steps[i], c)
        BY <3>1, GrowsPlaces
      <3>3. i = 1 \/ (i > 1 /\ steps[i].stage \in Between)
        BY DEF Opens
      <3>4. i > 1 => j > f
        BY <1>2, <3>1
      <3> QED
        BY <3>1, <3>2, <3>3, <3>4 DEF Tells
    <2>3. OldOrNew(j, t, k)
      BY GrowsNowhereElse
    <2> QED
      BY <2>1, <2>2, <2>3 DEF OldOrNew
  <1> HIDE DEF f
  <1>5. OpenedAt(u, c, f)
    BY <1>3, <1>4 DEF OpenedAt
  <1> QED
    BY <1>2, <1>5 DEF Opened

LEMMA AccountedClose ==
  ASSUME NEW t, NEW u, NEW steps, NEW c, Grows(t, u, steps, 1, c), Opened(t, c),
         steps[1].stage = "usage"
  PROVE  Accounted(u, c)
  <1>1. PICK f \in 1..Len(t) : OpenedAt(t, c, f)
    BY DEF Opened
  <1>2. f \in 1..Len(u) /\ u[f] = t[f] /\ Len(t) \in Nat
    BY GrowsPlaces
  <1> DEFINE e == Len(t) + 1
  <1>3. e \in 1..Len(u) /\ Tells(u[e], steps[1], c)
    <2>1. 1 \in 1..1
      OBVIOUS
    <2> QED
      BY <2>1, GrowsPlaces
  <1>4. u[e].cycle = c /\ u[e].stage = "usage" /\ f < e
    BY <1>2, <1>3 DEF Tells
  <1>5. ASSUME NEW j \in 1..Len(u), u[j].cycle = c
        PROVE  j = f \/ j = e \/ (j > f /\ j < e /\ u[j].stage \in Between)
    <2>1. CASE j \in 1..Len(t)
      <3>1. u[j] = t[j] /\ j < e
        BY <1>2, <2>1, GrowsPlaces
      <3> QED
        BY <1>1, <1>5, <2>1, <3>1 DEF OpenedAt
    <2>2. CASE \E i \in 1..1 : j = Len(t) + i
      <3>1. PICK i \in 1..1 : j = Len(t) + i
        BY <2>2
      <3> QED
        BY <3>1
    <2>3. OldOrNew(j, t, 1)
      BY GrowsNowhereElse
    <2> QED
      BY <2>1, <2>2, <2>3 DEF OldOrNew
  <1> HIDE DEF e
  <1>6. u[f].cycle = c /\ u[f].stage = "intent"
    BY <1>1, <1>2 DEF OpenedAt
  <1>7. AccountedAt(u, c, f, e)
    BY <1>4, <1>5, <1>6 DEF AccountedAt
  <1> QED
    BY <1>2, <1>3, <1>7 DEF Accounted

AllPersist(steps, k) == \A i \in 1..k : steps[i].stage = "persist"

LEMMA AccountedGrow ==
  ASSUME NEW t, NEW u, NEW steps, NEW k \in Nat, NEW c, Grows(t, u, steps, k, c),
         NEW d, Accounted(t, d), d # c \/ AllPersist(steps, k)
  PROVE  Accounted(u, d)
  <1>1. PICK f \in 1..Len(t) : \E e \in 1..Len(t) : AccountedAt(t, d, f, e)
    BY DEF Accounted
  <1>2. PICK e \in 1..Len(t) : AccountedAt(t, d, f, e)
    BY <1>1
  <1>3. /\ f \in 1..Len(u) /\ u[f] = t[f] /\ e \in 1..Len(u) /\ u[e] = t[e] /\ Len(t) \in Nat
    BY GrowsPlaces
  <1>7. \A i \in 1..Len(t) : u[i] = t[i]
    BY DEF Grows
  <1>4. ASSUME NEW j \in 1..Len(u), u[j].cycle = d
        PROVE  \/ j = f \/ j = e
               \/ j > f /\ j < e /\ u[j].stage \in Between
               \/ j > e /\ u[j].stage = "persist"
    <2>1. CASE j \in 1..Len(t)
      <3>1. u[j] = t[j]
        BY <1>7, <2>1
      <3> QED
        BY <1>2, <1>4, <2>1, <3>1 DEF AccountedAt
    <2>2. CASE \E i \in 1..k : j = Len(t) + i
      <3>1. PICK i \in 1..k : j = Len(t) + i
        BY <2>2
      <3>2. Tells(u[j], steps[i], c)
        BY <3>1, GrowsPlaces
      <3>3. d = c
        BY <1>4, <3>2 DEF Tells
      <3>4. u[j].stage = "persist"
        BY <3>2, <3>3 DEF Tells, AllPersist
      <3>5. j > e
        BY <1>3, <3>1
      <3> QED
        BY <3>4, <3>5
    <2>3. OldOrNew(j, t, k)
      BY GrowsNowhereElse
    <2> QED
      BY <2>1, <2>2, <2>3 DEF OldOrNew
  <1>5. /\ f < e /\ u[f].cycle = d /\ u[f].stage = "intent"
        /\ u[e].cycle = d /\ u[e].stage = "usage"
    BY <1>2, <1>3 DEF AccountedAt
  <1>6. AccountedAt(u, d, f, e)
    BY <1>4, <1>5 DEF AccountedAt
  <1> QED
    BY <1>3, <1>6 DEF Accounted

------------------------------------------------------------------------------
(* Accounting: the steps *)

(* What a step that goes on in the stages, or leaves them, has recorded. *)
StageRecords(steps, k) ==
  /\ Grows(log.trail, log'.trail, steps, k, log.cycleNo)
  /\ log'.cycleNo = log.cycleNo
  /\ \A i \in 1..k : steps[i].stage \in Between
  /\ \/ cyc'.phase = "stages" /\ ended' = ended
     \/ /\ cyc'.phase = "usage"
        /\ \E outcome : ended' = Append(ended, [cycle |-> log.cycleNo, outcome |-> outcome])

(* A cycle ends, and is yet to be accounted for. *)
LEMMA LastEnds ==
  ASSUME Types, cyc'.phase = "usage", NEW c, log'.cycleNo = c, Opened(log'.trail, c), NEW outcome,
         ended' = Append(ended, [cycle |-> c, outcome |-> outcome]),
         \A n \in 1..Len(ended) : ended[n].cycle < c,
         \A n \in 1..Len(ended) :
           ended[n].outcome = "crashed" \/ Accounted(log'.trail, ended[n].cycle)
  PROVE  Accounts'
  <1> DEFINE x == [cycle |-> c, outcome |-> outcome]
  <1>1. ended \in Seq(Ending)
    BY DEF Types, Ending
  <1>2. PICK m \in Nat : m = Len(ended)
    BY <1>1
  <1>3. x.cycle = c
    OBVIOUS
  <1> HIDE DEF x
  <1>4. /\ Len(ended') = m + 1 /\ ended'[m + 1] = x
        /\ \A n \in 1..m : ended'[n] = ended[n]
    BY <1>1, <1>2, AppendProperties DEF x
  <1>5. \A n \in 1..(m + 1) : n = m + 1 \/ (n \in 1..m /\ n < m + 1)
    OBVIOUS
  <1>6. Len(ended') > 0 /\ ended'[Len(ended')].cycle = log'.cycleNo
    BY <1>3, <1>4
  <1>7. \A n \in 1..Len(ended') : n < Len(ended') => ended'[n].cycle < log'.cycleNo
    <2>1. \A n \in 1..m : ended'[n].cycle < log'.cycleNo
      BY <1>2, <1>4
    <2>2. \A n \in 1..(m + 1) : n < m + 1 => n \in 1..m
      OBVIOUS
    <2> QED
      BY <1>4, <2>1, <2>2
  <1>8. \A n \in 1..Len(ended') :
          \/ ended'[n].outcome = "crashed"
          \/ n = Len(ended') /\ cyc'.phase = "usage"
          \/ Accounted(log'.trail, ended'[n].cycle)
    <2>1. \A n \in 1..m : ended'[n].outcome = "crashed" \/ Accounted(log'.trail, ended'[n].cycle)
      BY <1>2, <1>4
    <2> QED
      BY <1>4, <1>5, <2>1
  <1> QED
    BY <1>6, <1>7, <1>8 DEF Accounts

LEMMA StageAccounts ==
  ASSUME CycleIInv, Accounts, cyc.phase = "stages", NEW steps, NEW k \in Nat, StageRecords(steps, k)
  PROVE  Accounts'
  <1>1. /\ Grows(log.trail, log'.trail, steps, k, log.cycleNo) /\ log'.cycleNo = log.cycleNo
        /\ \A i \in 1..k : steps[i].stage \in Between
    BY DEF StageRecords
  <1>2. Opened(log'.trail, log'.cycleNo)
    BY <1>1, OpenedGrow DEF Accounts
  <1>3. Types /\ \A n \in 1..Len(ended) : ended[n].cycle < log.cycleNo
    BY IInvParts DEF Numbering
  <1>4. ASSUME NEW n \in 1..Len(ended)
        PROVE  ended[n].outcome = "crashed" \/ Accounted(log'.trail, ended[n].cycle)
    <2>1. ended[n].outcome = "crashed" \/ Accounted(log.trail, ended[n].cycle)
      BY DEF Accounts
    <2>2. ended[n].cycle \in Nat /\ log.cycleNo \in Nat /\ ended[n].cycle < log.cycleNo
      BY <1>3, EndedNumbers DEF Types, LogOK
    <2>3. ended[n].cycle # log.cycleNo
      BY <2>2
    <2> QED
      BY <1>1, <2>1, <2>3, AccountedGrow
  <1>5. CASE cyc'.phase = "stages" /\ ended' = ended
    BY <1>2, <1>4, <1>5 DEF Accounts
  <1>6. CASE /\ cyc'.phase = "usage"
             /\ \E outcome : ended' = Append(ended, [cycle |-> log.cycleNo, outcome |-> outcome])
    <2>1. PICK outcome : ended' = Append(ended, [cycle |-> log.cycleNo, outcome |-> outcome])
      BY <1>6
    <2> QED
      BY <1>1, <1>2, <1>3, <1>4, <1>6, <2>1, LastEnds
  <1> QED
    BY <1>5, <1>6 DEF StageRecords

(* A step between the accounting and the next cycle. *)
LEMMA TailAccounts ==
  ASSUME CycleIInv, Accounts, cyc.phase \notin {"stages", "usage"},
         cyc'.phase \notin {"stages", "usage"}, ended' = ended,
         NEW steps, NEW k \in Nat, NEW c, Grows(log.trail, log'.trail, steps, k, c),
         AllPersist(steps, k)
  PROVE  Accounts'
  <1>1. ASSUME NEW n \in 1..Len(ended)
        PROVE  ended[n].outcome = "crashed" \/ Accounted(log'.trail, ended[n].cycle)
    <2>1. ended[n].outcome = "crashed" \/ Accounted(log.trail, ended[n].cycle)
      BY DEF Accounts
    <2> QED
      BY <2>1, AccountedGrow
  <1> QED
    BY <1>1 DEF Accounts

LEMMA UsageAccounts ==
  ASSUME CycleIInv, Accounts, RecordUsage
  PROVE  Accounts'
  <1> DEFINE r == Step("usage", {}, "accounted", "runtime")
  <1> DEFINE steps == <<r>>
  <1>1. /\ cyc.phase = "usage" /\ log' = Record(log, r) /\ ended' = ended
        /\ cyc' = [cyc EXCEPT !.phase = "retention"]
    BY DEF RecordUsage
  <1>2. LogOK(log) /\ cyc \in CycType /\ log.current = TRUE /\ Types
    BY <1>1, IInvParts DEF Types, CycType, Numbering
  <1>3. r \in StepType /\ r.stage = "usage"
    BY DEF Step, StepType, StageNames, OutNames, Authors, Vocabulary
  <1> HIDE DEF r
  <1>4. Extends(log', log, steps, 1) /\ steps[1] = r
    BY <1>1, <1>2, <1>3, OneRecord
  <1> HIDE DEF steps
  <1>5. Grows(log.trail, log'.trail, steps, 1, log.cycleNo)
    BY <1>2, <1>4, ExtendsGrows
  <1>6. Accounted(log'.trail, log.cycleNo)
    BY <1>1, <1>3, <1>4, <1>5, AccountedClose DEF Accounts
  <1>7. cyc'.phase = "retention"
    BY <1>1, <1>2 DEF CycType
  <1>8. ASSUME NEW n \in 1..Len(ended)
        PROVE  ended[n].outcome = "crashed" \/ Accounted(log'.trail, ended[n].cycle)
    <2>1. CASE n = Len(ended)
      BY <1>1, <1>6, <2>1 DEF Accounts
    <2>2. CASE n # Len(ended)
      <3>1. ended[n].outcome = "crashed" \/ Accounted(log.trail, ended[n].cycle)
        BY <2>2 DEF Accounts
      <3>2. n < Len(ended)
        <4>1. Len(ended) \in Nat
          BY <1>2 DEF Types
        <4> QED
          BY <2>2, <4>1
      <3>3. ended[n].cycle < log.cycleNo
        BY <1>1, <3>2 DEF Accounts
      <3>4. ended[n].cycle \in Nat /\ log.cycleNo \in Nat
        BY <1>2, EndedNumbers DEF LogOK
      <3>5. ended[n].cycle # log.cycleNo
        BY <3>3, <3>4
      <3> QED
        BY <1>5, <3>1, <3>5, AccountedGrow
    <2> QED
      BY <2>1, <2>2
  <1> QED
    BY <1>1, <1>7, <1>8 DEF Accounts

(* A tail's step that records nothing. *)
LEMMA SilentTailAccounts ==
  ASSUME CycleIInv, Accounts, cyc.phase \notin {"stages", "usage"},
         cyc'.phase \notin {"stages", "usage"}, ended' = ended, log'.trail = log.trail
  PROVE  Accounts'
  <1> DEFINE steps == <<>>
  <1>1. log.trail \in Seq(RecordType)
    BY IInvParts DEF Types, LogOK
  <1>2. Grows(log.trail, log'.trail, steps, 0, log.cycleNo)
    BY <1>1, GrowsNone
  <1> HIDE DEF steps
  <1>3. AllPersist(steps, 0)
    <2>1. \A i \in 1..0 : FALSE
      OBVIOUS
    <2> QED
      BY <2>1 DEF AllPersist
  <1> QED
    BY <1>2, <1>3, TailAccounts

LEMMA RestAccounts ==
  ASSUME CycleIInv, Accounts, ApplyRetention \/ SaveBegins \/ SaveEnds \/ TimePasses
  PROVE  Accounts'
  <1>1. LogOK(log) /\ cyc \in CycType
    BY IInvParts DEF Types, CycType
  <1>2. CASE ApplyRetention
    <2>1. /\ cyc.phase = "retention" /\ ended' = ended /\ cyc' = [cyc EXCEPT !.phase = "persist"]
          /\ log' = Rotate(log, clock - RetentionDays) \/ log' = log
      BY <1>2 DEF ApplyRetention
    <2>2. log'.trail = log.trail
      BY <1>1, <2>1, RotateOK
    <2>3. cyc'.phase = "persist"
      BY <1>1, <2>1 DEF CycType
    <2> QED
      BY <2>1, <2>2, <2>3, SilentTailAccounts
  <1>3. CASE SaveBegins
    <2>1. cyc.phase = "persist" /\ ended' = ended /\ log' = log /\ cyc' = [cyc EXCEPT !.phase = "saving"]
      BY <1>3 DEF SaveBegins
    <2>2. cyc'.phase = "saving"
      BY <1>1, <2>1 DEF CycType
    <2> QED
      BY <2>1, <2>2, SilentTailAccounts
  <1>4. CASE SaveEnds
    <2>1. cyc.phase = "saving" /\ ended' = ended /\ log' = log /\ cyc' = NoCycle
      BY <1>4 DEF SaveEnds
    <2> QED
      BY <2>1, NoCycleOK, SilentTailAccounts
  <1>5. CASE TimePasses
    <2>1. cyc.phase \in {"none", "retention"} /\ ended' = ended /\ log' = log /\ cyc' = cyc
      BY <1>5 DEF TimePasses
    <2> QED
      BY <2>1, SilentTailAccounts
  <1> QED
    BY <1>2, <1>3, <1>4, <1>5

LEMMA SaveFailsAccounts ==
  ASSUME CycleIInv, Accounts, SaveFails
  PROVE  Accounts'
  <1> DEFINE r == Step("persist", {}, "not saved", "runtime")
  <1> DEFINE steps == <<r>>
  <1>1. /\ cyc.phase \in {"persist", "saving"} /\ log' = Record(log, r) /\ ended' = ended
        /\ cyc' = NoCycle
    BY DEF SaveFails
  <1>2. LogOK(log)
    BY IInvParts DEF Types
  <1>3. r \in StepType /\ r.stage = "persist"
    BY DEF Step, StepType, StageNames, OutNames, Authors, Vocabulary
  <1> HIDE DEF r
  <1>4. Grows(log.trail, log'.trail, steps, 1, log'.cycleNo)
    BY <1>1, <1>2, <1>3, RecordGrows
  <1>5. AllPersist(steps, 1)
    <2>1. \A i \in 1..1 : steps[i] = r
      OBVIOUS
    <2> QED
      BY <1>3, <2>1 DEF AllPersist
  <1> HIDE DEF steps
  <1>6. cyc'.phase = "none"
    BY <1>1, NoCycleOK
  <1> QED
    BY <1>1, <1>4, <1>5, <1>6, TailAccounts

(* A cycle in flight that dies was never accounted for, and need not be. *)
LEMMA CrashAccounts ==
  ASSUME CycleIInv, Accounts, CrashAndLoad
  PROVE  Accounts'
  <1> DEFINE x == [cycle |-> log.cycleNo, outcome |-> "crashed"]
  <1>1. Types /\ Numbering
    BY IInvParts
  <1>2. LogOK(log) /\ TrailNumbered(log)
    BY <1>1 DEF Types, Numbering
  <1>3. log' = Resumed(log) /\ cyc'.phase = "none"
    BY NoCycleOK DEF CrashAndLoad
  <1>4. log'.trail = log.trail
    BY <1>2, <1>3, ResumedOK
  <1>5. \/ cyc.phase = "stages" /\ ended' = Append(ended, x)
        \/ cyc.phase = "usage" /\ ended' = Append(Front(ended), x)
        \/ cyc.phase \notin {"stages", "usage"} /\ ended' = ended
    BY DEF CrashAndLoad
  <1>6. ended \in Seq(Ending)
    BY <1>1 DEF Types, Ending
  <1>7. x \in Ending /\ x.outcome = "crashed"
    BY <1>2 DEF LogOK, Ending, Outcomes
  <1> HIDE DEF x
  <1>8. ASSUME NEW e \in Seq(Ending), ended' = Append(e, x),
               \A n \in 1..Len(e) : e[n].outcome = "crashed" \/ Accounted(log.trail, e[n].cycle)
        PROVE  Accounts'
    <2>1. PICK m \in Nat : m = Len(e)
      OBVIOUS
    <2>2. /\ Len(ended') = m + 1 /\ ended'[m + 1] = x
          /\ \A n \in 1..m : ended'[n] = e[n]
      BY <1>7, <1>8, <2>1, AppendAt
    <2>3. \A n \in 1..(m + 1) : n = m + 1 \/ n \in 1..m
      OBVIOUS
    <2>4. \A n \in 1..m : ended'[n].outcome = "crashed" \/ Accounted(log'.trail, ended'[n].cycle)
      BY <1>4, <1>8, <2>1, <2>2
    <2>5. \A n \in 1..Len(ended') : ended'[n].outcome = "crashed" \/ Accounted(log'.trail, ended'[n].cycle)
      BY <1>7, <2>2, <2>3, <2>4
    <2> QED
      BY <1>3, <2>5 DEF Accounts
  <1>9. CASE cyc.phase = "stages" /\ ended' = Append(ended, x)
    <2>1. \A n \in 1..Len(ended) : ended[n].outcome = "crashed" \/ Accounted(log.trail, ended[n].cycle)
      BY <1>9 DEF Accounts
    <2> QED
      BY <1>6, <1>8, <1>9, <2>1
  <1>10. CASE cyc.phase = "usage" /\ ended' = Append(Front(ended), x)
    <2>1. /\ Front(ended) \in Seq(Ending)
          /\ \A i \in 1..Len(Front(ended)) : /\ i \in 1..Len(ended) /\ i # Len(ended)
                                              /\ Front(ended)[i] = ended[i]
      BY <1>6, FrontOf
    <2>2. \A n \in 1..Len(Front(ended)) :
            Front(ended)[n].outcome = "crashed" \/ Accounted(log.trail, Front(ended)[n].cycle)
      BY <2>1 DEF Accounts
    <2> QED
      BY <1>8, <1>10, <2>1, <2>2
  <1>11. CASE cyc.phase \notin {"stages", "usage"} /\ ended' = ended
    BY <1>3, <1>4, <1>11, SilentTailAccounts
  <1> QED
    BY <1>5, <1>9, <1>10, <1>11

(* What a begun cycle has recorded, under a number that is new. *)
LEMMA ReasonRecords ==
  ASSUME CycleIInv, NEW approval \in Approval, NEW claim \in Claim, Reason(approval, claim)
  PROVE  /\ Unused(log.trail, log.cycleNo + 1) /\ log'.cycleNo = log.cycleNo + 1
         /\ BeginCycle(log, clock).cycleNo = log.cycleNo + 1
         /\ \E k \in Nat : \E steps :
              Grows(log.trail, log'.trail, steps, k, log.cycleNo + 1) /\ Opens(steps, k)
  <1> DEFINE opened == OpenCycle(log, clock)
  <1> DEFINE intent == Step("intent", {}, "asked", "caller")
  <1> DEFINE refusal == Step("tenant", {}, "REFUSED", "claim")
  <1> DEFINE begun == BeginCycle(log, clock)
  <1> DEFINE steps == <<intent, refusal>>
  <1>1. LogOK(log) /\ TrailNumbered(log)
    BY IInvParts DEF Types, Numbering
  <1>2. PICK c \in Nat : c = log.cycleNo + 1
    BY <1>1 DEF LogOK
  <1>3. Unused(log.trail, c)
    <2> SUFFICES ASSUME NEW i \in 1..Len(log.trail) PROVE log.trail[i].cycle # c
      BY DEF Unused
    <2>1. log.trail[i] \in RecordType /\ log.cycleNo \in Nat /\ log.trail[i].cycle <= log.cycleNo
      BY <1>1 DEF LogOK, TrailNumbered
    <2>2. log.trail[i].cycle \in Nat
      BY <2>1 DEF RecordType
    <2> QED
      BY <1>2, <2>1, <2>2
  <1>4. intent \in StepType /\ intent.stage = "intent"
    BY DEF Step, StepType, StageNames, OutNames, Authors, Vocabulary
  <1>5. refusal \in StepType /\ refusal.stage = "tenant"
    BY DEF Step, StepType, StageNames, OutNames, Authors, Vocabulary
  <1>6. log' = begun \/ log' = Record(begun, refusal)
    BY DEF Reason
  <1>7. begun = Record(opened, intent)
    BY DEF BeginCycle
  <1> HIDE DEF intent, refusal, begun
  <1>8. LogOK(opened) /\ opened.current = TRUE /\ opened.cycleNo = c /\ opened.trail = log.trail
    BY <1>1, <1>2, OpenCycleOK
  <1> HIDE DEF opened
  <1>9. steps[1] = intent /\ steps[2] = refusal /\ 0 + 1 = 1 /\ 1 + 1 = 2
    OBVIOUS
  <1> HIDE DEF steps
  <1>10. Extends(begun, opened, steps, 1)
    <2>1. Extends(opened, opened, steps, 0)
      BY <1>8, ExtendsNone
    <2>2. Extends(Record(opened, steps[0 + 1]), opened, steps, 0 + 1)
      BY <1>4, <1>8, <1>9, <2>1, RecordExtends
    <2> QED
      BY <1>7, <1>9, <2>2
  <1>11. Extends(Record(begun, refusal), opened, steps, 2)
    <2>1. Extends(Record(begun, steps[1 + 1]), opened, steps, 1 + 1)
      BY <1>5, <1>8, <1>9, <1>10, RecordExtends
    <2> QED
      BY <1>9, <2>1
  <1>12. Opens(steps, 1) /\ Opens(steps, 2)
    <2>1. (\A i \in 1..1 : i = 1) /\ (\A i \in 1..2 : i = 1 \/ i = 2) /\ 1 > 0 /\ 2 > 0
      OBVIOUS
    <2> QED
      BY <1>4, <1>5, <1>9, <2>1 DEF Opens, Between
  <1>15. begun.cycleNo = c
    BY <1>8, <1>10 DEF Extends
  <1>13. CASE log' = begun
    <2>1. Grows(log.trail, log'.trail, steps, 1, c) /\ log'.cycleNo = c
      BY <1>8, <1>10, <1>13, ExtendsGrows DEF Extends
    <2> QED
      BY <1>2, <1>3, <1>12, <1>15, <2>1 DEF begun
  <1>14. CASE log' = Record(begun, refusal)
    <2>1. Grows(log.trail, log'.trail, steps, 2, c) /\ log'.cycleNo = c
      BY <1>8, <1>11, <1>14, ExtendsGrows DEF Extends
    <2> QED
      BY <1>2, <1>3, <1>12, <1>15, <2>1 DEF begun
  <1> QED
    BY <1>6, <1>13, <1>14

LEMMA ReasonAccounts ==
  ASSUME CycleIInv, Accounts, NEW approval \in Approval, NEW claim \in Claim,
         Reason(approval, claim)
  PROVE  Accounts'
  <1>1. Types /\ LogOK(log) /\ \A n \in 1..Len(ended) : ended[n].cycle <= log.cycleNo
    BY IInvParts DEF Types, Numbering
  <1>2. PICK c \in Nat : c = log.cycleNo + 1
    BY <1>1 DEF LogOK
  <1>3. Unused(log.trail, c) /\ log'.cycleNo = c
    BY <1>2, ReasonRecords
  <1>4. PICK k \in Nat : \E steps : Grows(log.trail, log'.trail, steps, k, c) /\ Opens(steps, k)
    BY <1>2, ReasonRecords
  <1>5. PICK steps : Grows(log.trail, log'.trail, steps, k, c) /\ Opens(steps, k)
    BY <1>4
  <1>6. Opened(log'.trail, c)
    BY <1>3, <1>5, OpenedNew
  <1>7. cyc.phase = "none"
    BY DEF Reason
  <1>8. ASSUME NEW n \in 1..Len(ended)
        PROVE  /\ ended[n].cycle < c
               /\ ended[n].outcome = "crashed" \/ Accounted(log'.trail, ended[n].cycle)
    <2>1. ended[n].outcome = "crashed" \/ Accounted(log.trail, ended[n].cycle)
      BY <1>7 DEF Accounts
    <2>2. ended[n].cycle \in Nat /\ log.cycleNo \in Nat /\ ended[n].cycle <= log.cycleNo
      BY <1>1, EndedNumbers DEF LogOK
    <2>3. ended[n].cycle < c /\ ended[n].cycle # c
      BY <1>2, <2>2
    <2> QED
      BY <1>5, <2>1, <2>3, AccountedGrow
  <1> DEFINE x == [cycle |-> BeginCycle(log, clock).cycleNo, outcome |-> "blocked"]
  <1>9. \/ /\ ended' = ended
           /\ cyc' = [NoCycle EXCEPT !.phase = "stages", !.at = 1, !.approval = approval]
        \/ /\ ended' = Append(ended, x)
           /\ cyc' = [NoCycle EXCEPT !.phase = "usage"]
    BY DEF Reason
  <1>10. CASE /\ ended' = ended
              /\ cyc' = [NoCycle EXCEPT !.phase = "stages", !.at = 1, !.approval = approval]
    <2>1. cyc'.phase = "stages"
      BY <1>10, NoCycleOK DEF CycType
    <2> QED
      BY <1>3, <1>6, <1>8, <1>10, <2>1 DEF Accounts
  <1>11. CASE ended' = Append(ended, x) /\ cyc' = [NoCycle EXCEPT !.phase = "usage"]
    <2>1. cyc'.phase = "usage"
      BY <1>11, NoCycleOK DEF CycType
    <2>2. x = [cycle |-> c, outcome |-> "blocked"]
      BY <1>2, ReasonRecords
    <2> HIDE DEF x
    <2> QED
      BY <1>1, <1>3, <1>6, <1>8, <1>11, <2>1, <2>2, LastEnds
  <1> QED
    BY <1>9, <1>10, <1>11

(* A stage of the pipeline, whatever it records. *)
LEMMA GovernRecords ==
  ASSUME CycleIInv, cyc.phase = "stages", NEW judged, Govern(judged)
  PROVE  \E k \in Nat : \E steps : StageRecords(steps, k)
  <1>1. LogOK(log) /\ log.current = TRUE /\ cyc.at \in 1..7 /\ cyc \in CycType /\ Types
    BY StagesFacts, IInvParts
  <1>2. \E k \in Nat : \E steps : GovernEffect(steps, k)
    BY <1>1, GovernEffects
  <1>3. PICK k \in Nat : \E steps : GovernEffect(steps, k)
    BY <1>2
  <1>4. PICK steps : GovernEffect(steps, k)
    BY <1>3
  <1>5. /\ Extends(log', log, steps, k)
        /\ \A i \in 1..k : steps[i].stage \in {"policy", "approval"}
        /\ \/ Passes /\ UNCHANGED ended
           \/ \E outcome : Returns(outcome)
    BY <1>4 DEF GovernEffect, Cleared, Blocked, Parked
  <1>6. Grows(log.trail, log'.trail, steps, k, log.cycleNo) /\ log'.cycleNo = log.cycleNo
    BY <1>1, <1>5, ExtendsGrows DEF Extends
  <1>7. \/ cyc'.phase = "stages" /\ ended' = ended
        \/ /\ cyc'.phase = "usage"
           /\ \E outcome : ended' = Append(ended, [cycle |-> log.cycleNo, outcome |-> outcome])
    BY <1>1, <1>5 DEF Passes, Returns, CycType
  <1>8. \A i \in 1..k : steps[i].stage \in Between
    BY <1>5 DEF Between
  <1> QED
    BY <1>6, <1>7, <1>8 DEF StageRecords

LEMMA DeliberateRecords ==
  ASSUME CycleIInv, Deliberate
  PROVE  \E steps : StageRecords(steps, 1)
  <1> DEFINE r == Step("deliberation", ToSet(cyc.plan), "decision", "reasoner")
  <1> DEFINE steps == <<r>>
  <1>1. /\ cyc.phase = "stages" /\ log' = Record(log, r)
        /\ (Passes /\ UNCHANGED ended) \/ Returns("failed")
    BY DEF Deliberate, Running
  <1>2. LogOK(log) /\ log.current = TRUE /\ cyc \in CycType
    BY <1>1, StagesFacts
  <1>3. ToSet(cyc.plan) \in SUBSET Workflow
    <2>1. cyc.plan \in Seq(Workflow)
      BY <1>2 DEF CycType
    <2> QED
      BY <2>1 DEF ToSet
  <1>4. r \in StepType /\ r.stage = "deliberation"
    BY <1>3 DEF Step, StepType, StageNames, OutNames, Authors, Vocabulary
  <1> HIDE DEF r
  <1>5. Extends(log', log, steps, 1) /\ steps[1] = r
    BY <1>1, <1>2, <1>4, OneRecord
  <1> HIDE DEF steps
  <1>6. Grows(log.trail, log'.trail, steps, 1, log.cycleNo) /\ log'.cycleNo = log.cycleNo
    BY <1>2, <1>5, ExtendsGrows DEF Extends
  <1>7. \A i \in 1..1 : steps[i].stage \in Between
    BY <1>4, <1>5 DEF Between
  <1>8. \/ cyc'.phase = "stages" /\ ended' = ended
        \/ /\ cyc'.phase = "usage"
           /\ \E outcome : ended' = Append(ended, [cycle |-> log.cycleNo, outcome |-> outcome])
    BY <1>1, <1>2 DEF Passes, Returns, CycType
  <1> QED
    BY <1>6, <1>7, <1>8 DEF StageRecords

LEMMA SilentStageAccounts ==
  ASSUME CycleIInv, Accounts, StageFails \/ Plan \/ Prepare \/ Elaborate \/ MemoryStage
  PROVE  Accounts'
  <1> DEFINE steps == <<>>
  <1>1. cyc.phase = "stages" /\ log' = log
    BY DEF StageFails, Plan, Prepare, Elaborate, MemoryStage, Running
  <1>2. log.trail \in Seq(RecordType) /\ cyc \in CycType
    BY <1>1, StagesFacts
  <1>3. \/ cyc'.phase = "stages" /\ ended' = ended
        \/ /\ cyc'.phase = "usage"
           /\ \E outcome : ended' = Append(ended, [cycle |-> log.cycleNo, outcome |-> outcome])
    <2>1. CASE StageFails \/ MemoryStage
      BY <1>2, <2>1 DEF StageFails, MemoryStage, Returns, CycType
    <2>2. CASE Plan
      <3>1. ended' = ended /\ \E order : cyc' = [cyc EXCEPT !.at = @ + 1, !.plan = order]
        BY <2>2 DEF Plan
      <3> QED
        BY <1>1, <1>2, <3>1 DEF CycType
    <2>3. CASE Prepare \/ Elaborate
      BY <1>1, <1>2, <2>3 DEF Prepare, Elaborate, Passes, CycType
    <2> QED
      BY <2>1, <2>2, <2>3
  <1>4. Grows(log.trail, log'.trail, steps, 0, log.cycleNo)
    BY <1>1, <1>2, GrowsNone
  <1>5. \A i \in 1..0 : steps[i].stage \in Between
    <2>1. \A i \in 1..0 : FALSE
      OBVIOUS
    <2> QED
      BY <2>1
  <1> HIDE DEF steps
  <1>6. StageRecords(steps, 0)
    BY <1>1, <1>3, <1>4, <1>5 DEF StageRecords
  <1> QED
    BY <1>1, <1>6, StageAccounts

LEMMA AccountsStep ==
  ASSUME CycleIInv, Accounts, [CycleNext]_cycleVars
  PROVE  Accounts'
  <1>1. ASSUME NEW a \in Approval, NEW claim \in Claim, Reason(a, claim)
        PROVE  Accounts'
    BY <1>1, ReasonAccounts
  <1>2. CASE StageFails \/ Plan \/ Prepare \/ Elaborate \/ MemoryStage
    BY <1>2, SilentStageAccounts
  <1>3. ASSUME NEW j \in Judgements, cyc.phase = "stages", Govern(j)
        PROVE  Accounts'
    <2>1. PICK k \in Nat : \E steps : StageRecords(steps, k)
      BY <1>3, GovernRecords
    <2>2. PICK steps : StageRecords(steps, k)
      BY <2>1
    <2> QED
      BY <1>3, <2>2, StageAccounts
  <1>4. CASE Deliberate
    <2>1. cyc.phase = "stages"
      BY <1>4 DEF Deliberate, Running
    <2>2. PICK steps : StageRecords(steps, 1)
      BY <1>4, DeliberateRecords
    <2> QED
      BY <2>1, <2>2, StageAccounts
  <1>5. CASE RecordUsage
    BY <1>5, UsageAccounts
  <1>6. CASE ApplyRetention \/ SaveBegins \/ SaveEnds \/ TimePasses
    BY <1>6, RestAccounts
  <1>7. CASE SaveFails
    BY <1>7, SaveFailsAccounts
  <1>8. CASE CrashAndLoad
    BY <1>8, CrashAccounts
  <1>9. CASE UNCHANGED cycleVars
    <2>1. log' = log /\ cyc' = cyc /\ ended' = ended
      BY <1>9 DEF cycleVars
    <2> QED
      BY <2>1 DEF Accounts
  <1> QED
    BY <1>1, <1>2, <1>3, <1>4, <1>5, <1>6, <1>7, <1>8, <1>9 DEF CycleNext

LEMMA AccountsInit == CycleInit => Accounts
  <1> SUFFICES ASSUME CycleInit PROVE Accounts
    OBVIOUS
  <1>1. cyc.phase = "none" /\ ended = <<>>
    BY NoCycleOK DEF CycleInit
  <1>2. \A n \in 1..Len(ended) : FALSE
    <2>1. Len(ended) = 0 /\ \A n \in 1..0 : FALSE
      BY <1>1, EmptySeq
    <2> QED
      BY <2>1
  <1> QED
    BY <1>1, <1>2 DEF Accounts

(* runtime.go:210-217: a cycle that returned -- decided, blocked, parked or  *)
(* failed -- has on the trail its intent first, one usage record and after *)
(* it nothing but failed saves, for every number of cycles, deaths and     *)
(* failed saves; its number is no other cycle's.                           *)
THEOREM EveryExitAccounted == CycleSpec => []AccountedOnce
  <1>1. CycleInit => CycleIInv /\ Accounts
    BY CycleInitHolds, AccountsInit
  <1>2. CycleIInv /\ Accounts /\ [CycleNext]_cycleVars => (CycleIInv /\ Accounts)'
    BY CycleStepKeeps, AccountsStep
  <1>3. CycleIInv /\ Accounts => AccountedOnce
    <2> SUFFICES ASSUME CycleIInv, Accounts, NEW n \in 1..Len(ended),
                        ended[n].outcome # "crashed", ~(n = Len(ended) /\ cyc.phase = "usage")
                 PROVE  InOrder(log.trail, ended[n].cycle)
      BY DEF AccountedOnce, InOrder
    <2>1. Accounted(log.trail, ended[n].cycle)
      BY DEF Accounts
    <2>2. Len(log.trail) \in Nat
      BY IInvParts DEF Types, LogOK
    <2> QED
      BY <2>1, <2>2, AccountedOnTrail
  <1> QED
    BY <1>1, <1>2, <1>3, PTL DEF CycleSpec

------------------------------------------------------------------------------
(* The session store *)

(* What a runtime may remember, and what a session file may hold. *)
Layers == [compressed : Seq(Seq(Nat)), working : Seq(Nat), observations : Nat,
           counts : SUBSET Nat, impressions : Seq(Nat)]

Memories == {m \in Layers : IsFiniteSet(m.counts)}

Section == [kind : {"compressed"}, body : Seq(Nat)]
           \cup [kind : {"entry", "experience", "observed", "adaptation"}, body : Nat]

Texts(md) == IF md THEN Seq(Section) ELSE {<<>>} \cup {<<payload(m)>> : m \in Memories}

LEMMA SetToSeqAll ==
  ASSUME NEW S, IsFiniteSet(S)
  PROVE  SetToSeq(S) \in Seq(S) /\ ToSet(SetToSeq(S)) = S
  <1> DEFINE n == Cardinality(S)
             s == SetToSeq(S)
  <1>1. n \in Nat /\ ExistsBijection(1..n, S)
    BY FS_CardinalityType
  <1>2. PICK f : f \in Bijection(1..n, S)
    BY <1>1 DEF ExistsBijection
  <1>3. f \in [1..n -> S] /\ IsInjective(f)
    BY <1>2 DEF Bijection, Injection, IsInjective
  <1>4. s \in [1..n -> S] /\ IsInjective(s)
    BY <1>3 DEF SetToSeq
  <1>5. Cardinality(1..n) = Cardinality(S)
    BY <1>1, FS_Interval
  <1> HIDE DEF n, s
  <1>6. s \in Injection(1..n, S)
    BY <1>4 DEF Injection, IsInjective
  <1>7. s \in Surjection(1..n, S)
    <2>1. IsFiniteSet(1..n)
      BY <1>1, FS_Interval
    <2> QED
      BY <1>5, <1>6, FS_Injection
  <1>8. ToSet(s) = S
    BY <1>4, <1>7 DEF ToSet, Surjection
  <1> QED
    BY <1>1, <1>4, <1>8 DEF s

LEMMA FiniteToSet ==
  ASSUME NEW T, NEW s \in Seq(T)
  PROVE  IsFiniteSet(ToSet(s)) /\ ToSet(s) \subseteq T
  <1>1. IsFiniteSet(1..Len(s))
    BY LenProperties, FS_Interval
  <1>2. s \in Surjection(1..Len(s), ToSet(s))
    BY DEF ToSet, Surjection
  <1> QED
    BY <1>1, <1>2, FS_Surjection DEF ToSet

(* The sections of one kind, written after what is there and before the rest. *)
WrittenAt(text, kind, of, n) ==
  /\ n + Len(of) <= Len(text)
  /\ \A j \in 1..Len(of) : text[n + j] = [kind |-> kind, body |-> of[j]]

LEMMA SectionsWritten ==
  ASSUME NEW text \in Seq(Section), NEW kind, NEW U, NEW of \in Seq(U),
         \A x \in U : [kind |-> kind, body |-> x] \in Section
  PROVE  /\ text \o sections(kind, of) \in Seq(Section)
         /\ Len(text \o sections(kind, of)) = Len(text) + Len(of)
         /\ WrittenAt(text \o sections(kind, of), kind, of, Len(text))
         /\ \A k, w, n : WrittenAt(text, k, w, n) /\ n \in Nat /\ Len(w) \in Nat =>
                            WrittenAt(text \o sections(kind, of), k, w, n)
  <1> DEFINE new == sections(kind, of)
             all == text \o new
  <1>1. /\ new \in Seq(Section) /\ Len(new) = Len(of)
        /\ \A j \in 1..Len(of) : new[j] = [kind |-> kind, body |-> of[j]]
    <2>1. Len(of) \in Nat /\ \A j \in 1..Len(of) : of[j] \in U
      BY LenProperties
    <2>2. \A j \in 1..Len(of) : [kind |-> kind, body |-> of[j]] \in Section
      BY <2>1
    <2> QED
      BY <2>1, <2>2 DEF sections
  <1> HIDE DEF new
  <1>2. /\ all \in Seq(Section) /\ Len(all) = Len(text) + Len(of)
        /\ \A j \in 1..Len(text) : all[j] = text[j]
        /\ \A j \in (Len(text) + 1)..(Len(text) + Len(of)) : all[j] = new[j - Len(text)]
    <2>1. /\ all \in Seq(Section) /\ Len(all) = Len(text) + Len(new)
          /\ \A j \in 1..Len(text) : all[j] = text[j]
          /\ \A j \in (Len(text) + 1)..(Len(text) + Len(new)) : all[j] = new[j - Len(text)]
      <3>1. new \in Seq(Section)
        BY <1>1
      <3> QED
        BY <3>1, ConcatAt, Zenon
    <2> QED
      BY <1>1, <2>1
  <1> HIDE DEF all
  <1>3. PICK a \in Nat, b \in Nat : a = Len(text) /\ b = Len(of)
    BY LenProperties
  <1>4. WrittenAt(all, kind, of, a)
    <2>1. ASSUME NEW j \in 1..b PROVE all[a + j] = [kind |-> kind, body |-> of[j]]
      <3>1. a + j \in (a + 1)..(a + b) /\ (a + j) - a = j
        BY <1>3
      <3> QED
        BY <1>1, <1>2, <1>3, <3>1
    <2> QED
      BY <1>2, <1>3, <2>1 DEF WrittenAt
  <1>5. ASSUME NEW k, NEW w, NEW n, WrittenAt(text, k, w, n), n \in Nat, Len(w) \in Nat
        PROVE  WrittenAt(all, k, w, n)
    <2>1. ASSUME NEW j \in 1..Len(w) PROVE all[n + j] = text[n + j]
      <3>1. n + j \in 1..Len(text)
        BY <1>3, <1>5 DEF WrittenAt
      <3> QED
        BY <1>2, <3>1
    <2>2. n + Len(w) <= Len(all)
      BY <1>2, <1>3, <1>5 DEF WrittenAt
    <2> QED
      BY <1>5, <2>1, <2>2 DEF WrittenAt
  <1> QED
    BY <1>2, <1>3, <1>4, <1>5 DEF all, new

(* The sections of a kind are those of one run of the text: what they hold  *)
(* is read.                                                                *)
KindRun(text, kind, lo, hi) ==
  lo <= hi /\ hi <= Len(text)
  /\ \A i \in 1..Len(text) : text[i].kind = kind <=> (lo < i /\ i <= hi)

LEMMA BodiesRun ==
  ASSUME NEW text \in Seq(Section), NEW kind, NEW lo \in Nat, NEW hi \in Nat,
         KindRun(text, kind, lo, hi)
  PROVE  bodies(text, kind) = [k \in 1..(hi - lo) |-> text[lo + k].body]
  <1> DEFINE p == {i \in 1..Len(text) : text[i].kind = kind}
             found == Picked(text, p)
  <1>1. IsRun(text, p, lo, hi)
    BY DEF IsRun, KindRun
  <1> HIDE DEF p
  <1>2. /\ found \in Seq(Section) /\ Len(found) = hi - lo
        /\ \A j \in 1..(hi - lo) : found[j] = text[lo + j]
    BY <1>1, PickedRun
  <1>3. bodies(text, kind) = [k \in 1..Len(found) |-> found[k].body]
    BY DEF bodies, p
  <1> HIDE DEF found
  <1> QED
    BY <1>2, <1>3

(* Where all of a kind stands in one place, it is read back. *)
LEMMA BodiesWritten ==
  ASSUME NEW text \in Seq(Section), NEW kind, NEW U, NEW of \in Seq(U), NEW n \in Nat,
         NEW hi \in Nat, hi = n + Len(of),
         WrittenAt(text, kind, of, n), KindRun(text, kind, n, hi)
  PROVE  bodies(text, kind) = of
  <1>1. PICK m \in Nat : m = Len(of)
    BY LenProperties
  <1>2. hi - n = m
    BY <1>1
  <1>3. bodies(text, kind) = [k \in 1..m |-> text[n + k].body]
    BY <1>2, BodiesRun
  <1>4. ASSUME NEW j \in 1..m PROVE text[n + j].body = of[j]
    <2>1. text[n + j] = [kind |-> kind, body |-> of[j]]
      BY <1>1 DEF WrittenAt
    <2> QED
      BY <2>1
  <1>5. of = [k \in 1..m |-> of[k]]
    BY <1>1
  <1> QED
    BY <1>3, <1>4, <1>5

LEMMA KindWritten ==
  ASSUME NEW text, NEW kind, NEW of, NEW n \in Nat, Len(of) \in Nat, WrittenAt(text, kind, of, n),
         NEW i \in Nat, n < i, i <= n + Len(of)
  PROVE  text[i].kind = kind
  <1>1. i - n \in 1..Len(of) /\ n + (i - n) = i
    OBVIOUS
  <1>2. text[n + (i - n)] = [kind |-> kind, body |-> of[i - n]]
    BY <1>1 DEF WrittenAt
  <1> QED
    BY <1>1, <1>2

(* Where the summaries of a session stand, and its entries. *)
LayersAt(text, compressed, working) ==
  LET a == Len(compressed)
      b == Len(working)
  IN /\ WrittenAt(text, "compressed", compressed, 0) /\ KindRun(text, "compressed", 0, a)
     /\ WrittenAt(text, "entry", working, a) /\ KindRun(text, "entry", a, a + b)

(* Every layer of a session is found again where it was written. *)
LEMMA RenderedBack ==
  ASSUME NEW m \in Memories
  PROVE  /\ renderMarkdown(m) \in Seq(Section) /\ restoreMarkdown(renderMarkdown(m)) = m
         /\ LayersAt(renderMarkdown(m), m.compressed, m.working)
  <1> DEFINE seen == SetToSeq(m.counts)
             told == <<m.observations>>
             t0 == <<>>
             t1 == t0 \o sections("compressed", m.compressed)
             t2 == t1 \o sections("entry", m.working)
             t3 == t2 \o sections("experience", told)
             t4 == t3 \o sections("observed", seen)
             t5 == t4 \o sections("adaptation", m.impressions)
  <1>1. /\ m.compressed \in Seq(Seq(Nat)) /\ m.working \in Seq(Nat) /\ m.observations \in Nat
        /\ m.impressions \in Seq(Nat) /\ m.counts \subseteq Nat /\ IsFiniteSet(m.counts)
        /\ m = [compressed |-> m.compressed, working |-> m.working,
                observations |-> m.observations, counts |-> m.counts,
                impressions |-> m.impressions]
    BY DEF Memories, Layers
  <1>2. seen \in Seq(Nat) /\ ToSet(seen) = m.counts
    <2>1. seen \in Seq(m.counts) /\ ToSet(seen) = m.counts
      BY <1>1, SetToSeqAll
    <2> QED
      BY <1>1, <2>1
  <1>3. told \in Seq(Nat) /\ Len(told) = 1 /\ told # <<>> /\ Last(told) = m.observations
    BY <1>1 DEF Last
  <1>4. PICK a \in Nat, b \in Nat, d \in Nat, e \in Nat :
          /\ a = Len(m.compressed) /\ b = Len(m.working) /\ d = Len(seen) /\ e = Len(m.impressions)
    BY <1>1, <1>2, LenProperties
  <1>5. renderMarkdown(m) = t5
    <2> DEFINE new == sections("compressed", m.compressed)
    <2>1. new \in Seq(Section)
      <3>1. \A j \in 1..a : [kind |-> "compressed", body |-> m.compressed[j]] \in Section
        BY <1>1, <1>4 DEF Section
      <3>2. new = [j \in 1..a |-> [kind |-> "compressed", body |-> m.compressed[j]]]
        BY <1>4 DEF sections
      <3> HIDE DEF new
      <3> QED
        BY <3>1, <3>2
    <2>2. t1 = new
      BY <2>1, ConcatEmptySeq
    <2> QED
      BY <2>2 DEF renderMarkdown
  <1>a. /\ \A x \in Seq(Nat) : [kind |-> "compressed", body |-> x] \in Section
        /\ \A x \in Nat : /\ [kind |-> "entry", body |-> x] \in Section
                          /\ [kind |-> "experience", body |-> x] \in Section
                          /\ [kind |-> "observed", body |-> x] \in Section
                          /\ [kind |-> "adaptation", body |-> x] \in Section
    BY DEF Section
  <1>b. t0 \in Seq(Section) /\ Len(t0) = 0
    BY EmptySeq
  <1> HIDE DEF seen, told, t0
  <1>c. PICK n2 \in Nat, n3 \in Nat, n4 \in Nat, n5 \in Nat :
          n2 = a + b /\ n3 = n2 + 1 /\ n4 = n3 + d /\ n5 = n4 + e
    OBVIOUS
  <1>d. /\ 0 \in Nat /\ Len(m.compressed) \in Nat /\ Len(m.working) \in Nat /\ Len(told) \in Nat
        /\ Len(seen) \in Nat /\ Len(m.impressions) \in Nat
    BY <1>3, <1>4
  <1>6. /\ t1 \in Seq(Section) /\ Len(t1) = a
        /\ WrittenAt(t1, "compressed", m.compressed, 0)
    <2>1. /\ t1 \in Seq(Section)
          /\ Len(t1) = Len(t0) + Len(m.compressed)
          /\ WrittenAt(t1, "compressed", m.compressed, Len(t0))
          /\ \A k, w, n : WrittenAt(t0, k, w, n) /\ n \in Nat /\ Len(w) \in Nat =>
                             WrittenAt(t1, k, w, n)
      <3>1. t0 \in Seq(Section) /\ m.compressed \in Seq(Seq(Nat))
        BY <1>1, <1>2, <1>3, <1>b
      <3>2. \A x \in Seq(Nat) : [kind |-> "compressed", body |-> x] \in Section
        BY <1>a
      <3> QED
        BY <3>1, <3>2, SectionsWritten
    <2>2. Len(t0) = 0 /\ Len(t1) = a
      BY <1>3, <1>4, <1>c, <1>b, <2>1
    <2>3. WrittenAt(t1, "compressed", m.compressed, 0)
      BY <2>1, <2>2
    <2> QED
      BY <2>1, <2>2, <2>3
  <1> HIDE DEF t1
  <1>7. /\ t2 \in Seq(Section) /\ Len(t2) = n2
        /\ WrittenAt(t2, "compressed", m.compressed, 0)
        /\ WrittenAt(t2, "entry", m.working, a)
    <2>1. /\ t2 \in Seq(Section)
          /\ Len(t2) = Len(t1) + Len(m.working)
          /\ WrittenAt(t2, "entry", m.working, Len(t1))
          /\ \A k, w, n : WrittenAt(t1, k, w, n) /\ n \in Nat /\ Len(w) \in Nat =>
                             WrittenAt(t2, k, w, n)
      <3>1. t1 \in Seq(Section) /\ m.working \in Seq(Nat)
        BY <1>1, <1>2, <1>3, <1>6
      <3>2. \A x \in Nat : [kind |-> "entry", body |-> x] \in Section
        BY <1>a
      <3> QED
        BY <3>1, <3>2, SectionsWritten
    <2>2. Len(t1) = a /\ Len(t2) = n2
      BY <1>3, <1>4, <1>c, <1>6, <2>1
    <2>3. WrittenAt(t2, "entry", m.working, a)
      BY <2>1, <2>2
    <2>4. WrittenAt(t2, "compressed", m.compressed, 0)
      BY <1>d, <1>6, <2>1
    <2> QED
      BY <2>1, <2>2, <2>3, <2>4
  <1> HIDE DEF t2
  <1>8. /\ t3 \in Seq(Section) /\ Len(t3) = n3
        /\ WrittenAt(t3, "compressed", m.compressed, 0)
        /\ WrittenAt(t3, "entry", m.working, a)
        /\ WrittenAt(t3, "experience", told, n2)
    <2>1. /\ t3 \in Seq(Section)
          /\ Len(t3) = Len(t2) + Len(told)
          /\ WrittenAt(t3, "experience", told, Len(t2))
          /\ \A k, w, n : WrittenAt(t2, k, w, n) /\ n \in Nat /\ Len(w) \in Nat =>
                             WrittenAt(t3, k, w, n)
      <3>1. t2 \in Seq(Section) /\ told \in Seq(Nat)
        BY <1>1, <1>2, <1>3, <1>7
      <3>2. \A x \in Nat : [kind |-> "experience", body |-> x] \in Section
        BY <1>a
      <3> QED
        BY <3>1, <3>2, SectionsWritten
    <2>2. Len(t2) = n2 /\ Len(t3) = n3
      BY <1>3, <1>4, <1>c, <1>7, <2>1
    <2>3. WrittenAt(t3, "experience", told, n2)
      BY <2>1, <2>2
    <2>4. WrittenAt(t3, "compressed", m.compressed, 0)
      BY <1>d, <1>7, <2>1
    <2>5. WrittenAt(t3, "entry", m.working, a)
      BY <1>d, <1>7, <2>1
    <2> QED
      BY <2>1, <2>2, <2>3, <2>4, <2>5
  <1> HIDE DEF t3
  <1>9. /\ t4 \in Seq(Section) /\ Len(t4) = n4
        /\ WrittenAt(t4, "compressed", m.compressed, 0)
        /\ WrittenAt(t4, "entry", m.working, a)
        /\ WrittenAt(t4, "experience", told, n2)
        /\ WrittenAt(t4, "observed", seen, n3)
    <2>1. /\ t4 \in Seq(Section)
          /\ Len(t4) = Len(t3) + Len(seen)
          /\ WrittenAt(t4, "observed", seen, Len(t3))
          /\ \A k, w, n : WrittenAt(t3, k, w, n) /\ n \in Nat /\ Len(w) \in Nat =>
                             WrittenAt(t4, k, w, n)
      <3>1. t3 \in Seq(Section) /\ seen \in Seq(Nat)
        BY <1>1, <1>2, <1>3, <1>8
      <3>2. \A x \in Nat : [kind |-> "observed", body |-> x] \in Section
        BY <1>a
      <3> QED
        BY <3>1, <3>2, SectionsWritten
    <2>2. Len(t3) = n3 /\ Len(t4) = n4
      BY <1>3, <1>4, <1>c, <1>8, <2>1
    <2>3. WrittenAt(t4, "observed", seen, n3)
      BY <2>1, <2>2
    <2>4. WrittenAt(t4, "compressed", m.compressed, 0)
      BY <1>d, <1>8, <2>1
    <2>5. WrittenAt(t4, "entry", m.working, a)
      BY <1>d, <1>8, <2>1
    <2>6. WrittenAt(t4, "experience", told, n2)
      BY <1>d, <1>8, <2>1
    <2> QED
      BY <2>1, <2>2, <2>3, <2>4, <2>5, <2>6
  <1> HIDE DEF t4
  <1>10. /\ t5 \in Seq(Section) /\ Len(t5) = n5
         /\ WrittenAt(t5, "compressed", m.compressed, 0)
         /\ WrittenAt(t5, "entry", m.working, a)
         /\ WrittenAt(t5, "experience", told, n2)
         /\ WrittenAt(t5, "observed", seen, n3)
         /\ WrittenAt(t5, "adaptation", m.impressions, n4)
    <2>1. /\ t5 \in Seq(Section)
          /\ Len(t5) = Len(t4) + Len(m.impressions)
          /\ WrittenAt(t5, "adaptation", m.impressions, Len(t4))
          /\ \A k, w, n : WrittenAt(t4, k, w, n) /\ n \in Nat /\ Len(w) \in Nat =>
                             WrittenAt(t5, k, w, n)
      <3>1. t4 \in Seq(Section) /\ m.impressions \in Seq(Nat)
        BY <1>1, <1>2, <1>3, <1>9
      <3>2. \A x \in Nat : [kind |-> "adaptation", body |-> x] \in Section
        BY <1>a
      <3> QED
        BY <3>1, <3>2, SectionsWritten
    <2>2. Len(t4) = n4 /\ Len(t5) = n5
      BY <1>3, <1>4, <1>c, <1>9, <2>1
    <2>3. WrittenAt(t5, "adaptation", m.impressions, n4)
      BY <2>1, <2>2
    <2>4. WrittenAt(t5, "compressed", m.compressed, 0)
      BY <1>d, <1>9, <2>1
    <2>5. WrittenAt(t5, "entry", m.working, a)
      BY <1>d, <1>9, <2>1
    <2>6. WrittenAt(t5, "experience", told, n2)
      BY <1>d, <1>9, <2>1
    <2>7. WrittenAt(t5, "observed", seen, n3)
      BY <1>d, <1>9, <2>1
    <2> QED
      BY <2>1, <2>2, <2>3, <2>4, <2>5, <2>6, <2>7
  <1> HIDE DEF t5
  <1>e. Len(t5) = n5
    BY <1>10
  <1>f. /\ 0 + Len(m.compressed) = a /\ a + Len(m.working) = n2 /\ n2 + Len(told) = n3
        /\ n3 + Len(seen) = n4 /\ n4 + Len(m.impressions) = n5
    BY <1>3, <1>4, <1>c
  <1>11. ASSUME NEW i \in 1..Len(t5)
         PROVE  /\ i <= a => t5[i].kind = "compressed"
                /\ a < i /\ i <= n2 => t5[i].kind = "entry"
                /\ n2 < i /\ i <= n3 => t5[i].kind = "experience"
                /\ n3 < i /\ i <= n4 => t5[i].kind = "observed"
                /\ n4 < i => t5[i].kind = "adaptation"
    <2>1. i \in Nat /\ 0 < i /\ i <= n5 /\ 0 \in Nat
      BY <1>e, <1>c
    <2>3. CASE i <= a
      <3>1. 0 < i /\ i <= 0 + Len(m.compressed)
        BY <1>c, <1>f, <2>1, <2>3
      <3>2. WrittenAt(t5, "compressed", m.compressed, 0)
        BY <1>10
      <3>3. t5[i].kind = "compressed"
        BY <1>d, <2>1, <3>1, <3>2, KindWritten
      <3> QED
        BY <1>c, <2>3, <3>3
    <2>4. CASE a < i /\ i <= n2
      <3>1. t5[i].kind = "entry"
        BY <1>10, <1>d, <1>f, <2>1, <2>4, KindWritten
      <3> QED
        BY <1>c, <2>4, <3>1
    <2>5. CASE n2 < i /\ i <= n3
      <3>1. t5[i].kind = "experience"
        BY <1>10, <1>d, <1>f, <2>1, <2>5, KindWritten
      <3> QED
        BY <1>c, <2>5, <3>1
    <2>6. CASE n3 < i /\ i <= n4
      <3>1. t5[i].kind = "observed"
        BY <1>10, <1>d, <1>f, <2>1, <2>6, KindWritten
      <3> QED
        BY <1>c, <2>6, <3>1
    <2>7. CASE n4 < i
      <3>1. n4 < i /\ i <= n4 + Len(m.impressions)
        BY <1>c, <1>f, <2>1, <2>7
      <3>2. WrittenAt(t5, "adaptation", m.impressions, n4)
        BY <1>10
      <3>3. t5[i].kind = "adaptation"
        BY <1>d, <2>1, <3>1, <3>2, KindWritten
      <3> QED
        BY <1>c, <2>7, <3>3
    <2> QED
      BY <1>c, <2>1, <2>3, <2>4, <2>5, <2>6, <2>7
  <1>g. 0 \in Nat /\ 0 <= a /\ a <= n2 /\ n2 <= n3 /\ n3 <= n4 /\ n4 <= n5 /\ n5 <= Len(t5)
    BY <1>c, <1>e
  <1>12. KindRun(t5, "compressed", 0, a) /\ bodies(t5, "compressed") = m.compressed
    <2>1. ASSUME NEW i \in 1..Len(t5)
          PROVE  t5[i].kind = "compressed" <=> (0 < i /\ i <= a)
      <3>1. CASE 0 < i /\ i <= a
        BY <1>11, <1>e, <1>g, <3>1
      <3>2. CASE ~(0 < i /\ i <= a)
        BY <1>11, <1>c, <1>e, <1>g, <3>2
      <3> QED
        BY <3>1, <3>2
    <2>2. KindRun(t5, "compressed", 0, a)
      BY <1>c, <1>e, <1>g, <2>1 DEF KindRun
    <2>3. WrittenAt(t5, "compressed", m.compressed, 0) /\ t5 \in Seq(Section) /\ m.compressed \in Seq(Seq(Nat))
      BY <1>1, <1>2, <1>3, <1>10
    <2>4. 0 + Len(m.compressed) = a /\ 0 \in Nat
      BY <1>f, <1>g
    <2> QED
      BY <2>2, <2>3, <2>4, BodiesWritten
  <1>13. KindRun(t5, "entry", a, n2) /\ bodies(t5, "entry") = m.working
    <2>1. ASSUME NEW i \in 1..Len(t5)
          PROVE  t5[i].kind = "entry" <=> (a < i /\ i <= n2)
      <3>1. CASE a < i /\ i <= n2
        BY <1>11, <1>e, <1>g, <3>1
      <3>2. CASE ~(a < i /\ i <= n2)
        BY <1>11, <1>c, <1>e, <1>g, <3>2
      <3> QED
        BY <3>1, <3>2
    <2>2. KindRun(t5, "entry", a, n2)
      BY <1>c, <1>e, <1>g, <2>1 DEF KindRun
    <2>3. WrittenAt(t5, "entry", m.working, a) /\ t5 \in Seq(Section) /\ m.working \in Seq(Nat)
      BY <1>1, <1>2, <1>3, <1>10
    <2>4. a + Len(m.working) = n2 /\ a \in Nat
      BY <1>f, <1>g
    <2> QED
      BY <2>2, <2>3, <2>4, BodiesWritten
  <1>14. KindRun(t5, "experience", n2, n3) /\ bodies(t5, "experience") = told
    <2>1. ASSUME NEW i \in 1..Len(t5)
          PROVE  t5[i].kind = "experience" <=> (n2 < i /\ i <= n3)
      <3>1. CASE n2 < i /\ i <= n3
        BY <1>11, <1>e, <1>g, <3>1
      <3>2. CASE ~(n2 < i /\ i <= n3)
        BY <1>11, <1>c, <1>e, <1>g, <3>2
      <3> QED
        BY <3>1, <3>2
    <2>2. KindRun(t5, "experience", n2, n3)
      BY <1>c, <1>e, <1>g, <2>1 DEF KindRun
    <2>3. WrittenAt(t5, "experience", told, n2) /\ t5 \in Seq(Section) /\ told \in Seq(Nat)
      BY <1>1, <1>2, <1>3, <1>10
    <2>4. n2 + Len(told) = n3 /\ n2 \in Nat
      BY <1>f, <1>g
    <2> QED
      BY <2>2, <2>3, <2>4, BodiesWritten
  <1>15. KindRun(t5, "observed", n3, n4) /\ bodies(t5, "observed") = seen
    <2>1. ASSUME NEW i \in 1..Len(t5)
          PROVE  t5[i].kind = "observed" <=> (n3 < i /\ i <= n4)
      <3>1. CASE n3 < i /\ i <= n4
        BY <1>11, <1>e, <1>g, <3>1
      <3>2. CASE ~(n3 < i /\ i <= n4)
        BY <1>11, <1>c, <1>e, <1>g, <3>2
      <3> QED
        BY <3>1, <3>2
    <2>2. KindRun(t5, "observed", n3, n4)
      BY <1>c, <1>e, <1>g, <2>1 DEF KindRun
    <2>3. WrittenAt(t5, "observed", seen, n3) /\ t5 \in Seq(Section) /\ seen \in Seq(Nat)
      BY <1>1, <1>2, <1>3, <1>10
    <2>4. n3 + Len(seen) = n4 /\ n3 \in Nat
      BY <1>f, <1>g
    <2> QED
      BY <2>2, <2>3, <2>4, BodiesWritten
  <1>16. KindRun(t5, "adaptation", n4, n5) /\ bodies(t5, "adaptation") = m.impressions
    <2>1. ASSUME NEW i \in 1..Len(t5)
          PROVE  t5[i].kind = "adaptation" <=> (n4 < i /\ i <= n5)
      <3>1. CASE n4 < i /\ i <= n5
        BY <1>11, <1>e, <1>g, <3>1
      <3>2. CASE ~(n4 < i /\ i <= n5)
        BY <1>11, <1>c, <1>e, <1>g, <3>2
      <3> QED
        BY <3>1, <3>2
    <2>2. KindRun(t5, "adaptation", n4, n5)
      BY <1>c, <1>e, <1>g, <2>1 DEF KindRun
    <2>3. WrittenAt(t5, "adaptation", m.impressions, n4) /\ t5 \in Seq(Section) /\ m.impressions \in Seq(Nat)
      BY <1>1, <1>2, <1>3, <1>10
    <2>4. n4 + Len(m.impressions) = n5 /\ n4 \in Nat
      BY <1>f, <1>g
    <2> QED
      BY <2>2, <2>3, <2>4, BodiesWritten
  <1>17. restoreMarkdown(t5) = m
    BY <1>1, <1>2, <1>3, <1>12, <1>13, <1>14, <1>15, <1>16 DEF restoreMarkdown
  <1>18. LayersAt(t5, m.compressed, m.working)
    BY <1>1, <1>4, <1>10, <1>12, <1>13, <1>c DEF LayersAt
  <1> QED
    BY <1>5, <1>10, <1>17, <1>18

LEMMA BodiesType ==
  ASSUME NEW text \in Seq(Section), NEW kind, NEW U, \A x \in Section : x.kind = kind => x.body \in U
  PROVE  bodies(text, kind) \in Seq(U)
  <1> DEFINE p == {i \in 1..Len(text) : text[i].kind = kind}
             found == Picked(text, p)
  <1>1. PICK at : Chosen(at, text, p, found, Len(text))
    BY PickedPlaces
  <1>2. found \in Seq(Section) /\ Len(found) \in Nat
    BY PickedType
  <1>3. ASSUME NEW k \in 1..Len(found) PROVE found[k].body \in U
    <2>1. found[k] = text[at[k]] /\ at[k] \in p
      BY <1>1 DEF Chosen
    <2>2. found[k] \in Section
      BY <1>2
    <2> QED
      BY <2>1, <2>2
  <1>4. bodies(text, kind) = [k \in 1..Len(found) |-> found[k].body]
    BY DEF bodies
  <1> HIDE DEF found, p
  <1> QED
    BY <1>2, <1>3, <1>4

LEMMA FreshType == Fresh \in Memories
  <1>1. IsFiniteSet({}) /\ <<>> \in Seq(Nat) /\ <<>> \in Seq(Seq(Nat))
    BY FS_EmptySet, EmptySeq
  <1> QED
    BY <1>1 DEF Fresh, Memories, Layers

LEMMA RestoreMarkdownType ==
  ASSUME NEW text \in Seq(Section)
  PROVE  restoreMarkdown(text) \in Memories
  <1> DEFINE told == bodies(text, "experience")
             observations == IF told = <<>> THEN 0 ELSE Last(told)
  <1>1. bodies(text, "compressed") \in Seq(Seq(Nat))
    BY BodiesType DEF Section
  <1>2. bodies(text, "entry") \in Seq(Nat)
    BY BodiesType DEF Section
  <1>3. told \in Seq(Nat)
    BY BodiesType DEF Section
  <1>4. bodies(text, "observed") \in Seq(Nat)
    BY BodiesType DEF Section
  <1>5. bodies(text, "adaptation") \in Seq(Nat)
    BY BodiesType DEF Section
  <1>6. observations \in Nat
    <2>1. CASE told = <<>>
      BY <2>1
    <2>2. CASE told # <<>>
      <3>1. Len(told) \in 1..Len(told)
        BY <1>3, <2>2, EmptySeq, LenProperties
      <3> QED
        BY <1>3, <2>2, <3>1 DEF Last
    <2> QED
      BY <2>1, <2>2
  <1>7. IsFiniteSet(ToSet(bodies(text, "observed"))) /\ ToSet(bodies(text, "observed")) \subseteq Nat
    BY <1>4, FiniteToSet
  <1>8. restoreMarkdown(text) =
          [compressed |-> bodies(text, "compressed"), working |-> bodies(text, "entry"),
           observations |-> observations, counts |-> ToSet(bodies(text, "observed")),
           impressions |-> bodies(text, "adaptation")]
    BY DEF restoreMarkdown
  <1> HIDE DEF told, observations
  <1> QED
    BY <1>1, <1>2, <1>5, <1>6, <1>7, <1>8 DEF Memories, Layers

LEMMA RestoreJSONBack ==
  ASSUME NEW m \in Memories
  PROVE  restoreJSON(payload(m)) = m
  <1>1. m = [compressed |-> m.compressed, working |-> m.working, observations |-> m.observations,
             counts |-> m.counts, impressions |-> m.impressions]
    BY DEF Memories, Layers
  <1> QED
    BY <1>1 DEF restoreJSON, payload

LEMMA RestoreType ==
  ASSUME asMd \in BOOLEAN, NEW s \in [present : BOOLEAN, text : Texts(asMd)]
  PROVE  Restore(s) \in Memories
  <1>1. CASE ~s.present
    BY <1>1, FreshType DEF Restore
  <1>2. CASE s.present /\ asMd
    <2>1. s.text \in Seq(Section)
      BY <1>2 DEF Texts
    <2> QED
      BY <1>2, <2>1, RestoreMarkdownType DEF Restore
  <1>3. CASE s.present /\ ~asMd
    <2>1. Restore(s) = IF s.text = <<>> THEN Fresh ELSE restoreJSON(Head(s.text))
      BY <1>3 DEF Restore
    <2>2. CASE s.text = <<>>
      BY <2>1, <2>2, FreshType
    <2>3. CASE s.text # <<>>
      <3>1. PICK m \in Memories : s.text = <<payload(m)>>
        BY <1>3, <2>3 DEF Texts
      <3>2. Head(s.text) = payload(m)
        BY <3>1
      <3> QED
        BY <2>1, <2>3, <3>2, RestoreJSONBack
    <2> QED
      BY <2>2, <2>3
  <1> QED
    BY <1>1, <1>2, <1>3

(* What was rendered is restored, in either format. *)
LEMMA RestoreRendered ==
  ASSUME asMd \in BOOLEAN, NEW m \in Memories, NEW s, s.present, s.text = Rendered(m)
  PROVE  Restore(s) = m /\ Rendered(m) \in Texts(asMd)
  <1>1. CASE asMd
    <2>1. s.text = renderMarkdown(m) /\ Rendered(m) = renderMarkdown(m)
      BY <1>1 DEF Rendered
    <2> QED
      BY <1>1, <2>1, RenderedBack DEF Restore, Texts
  <1>2. CASE ~asMd
    <2>1. s.text = <<payload(m)>> /\ Rendered(m) = <<payload(m)>>
      BY <1>2 DEF Rendered
    <2>2. s.text # <<>> /\ Head(s.text) = payload(m)
      BY <2>1
    <2> QED
      BY <1>2, <2>1, <2>2, RestoreJSONBack DEF Restore, Texts
  <1> QED
    BY <1>1, <1>2

LEMMA TornType ==
  ASSUME asMd \in BOOLEAN, NEW text \in Texts(asMd), NEW t \in Torn(text)
  PROVE  t \in Texts(asMd)
  <1>1. CASE asMd
    <2>1. text \in Seq(Section)
      BY <1>1 DEF Texts
    <2>2. PICK n \in 0..(Len(text) - 1) :
            t = SubSeq(text, 1, n) \/ t = Append(SubSeq(text, 1, n), Cut(text[n + 1]))
      BY <1>1 DEF Torn
    <2>3. n + 1 \in 1..Len(text) /\ (n + 1) - 1 = n
      BY <2>1, LenProperties
    <2>4. SubSeq(text, 1, n) \in Seq(Section)
      BY <2>1, <2>3, SubSeqBefore
    <2>5. Cut(text[n + 1]) \in Section
      <3>1. text[n + 1] \in Section
        BY <2>1, <2>3
      <3>2. <<CutOff>> \in Seq(Nat) /\ CutOff \in Nat
        BY DEF CutOff
      <3>3. ASSUME NEW x \in Section PROVE Cut(x) \in Section
        <4>1. CASE x \in [kind : {"compressed"}, body : Seq(Nat)]
          BY <3>2, <4>1 DEF Cut, Section
        <4>2. CASE x \in [kind : {"entry", "experience", "observed", "adaptation"}, body : Nat]
          BY <3>2, <4>2 DEF Cut, Section
        <4> QED
          BY <4>1, <4>2 DEF Section
      <3> QED
        BY <3>1, <3>3
    <2>6. Append(SubSeq(text, 1, n), Cut(text[n + 1])) \in Seq(Section)
      BY <2>4, <2>5, AppendProperties
    <2> QED
      BY <1>1, <2>2, <2>4, <2>6 DEF Texts
  <1>2. CASE ~asMd
    <2>1. PICK n \in 0..(Len(text) - 1) : t = SubSeq(text, 1, n)
      BY <1>2 DEF Torn
    <2>2. text = <<>> \/ \E m \in Memories : text = <<payload(m)>>
      BY <1>2 DEF Texts
    <2>3. Len(text) = 0 \/ Len(text) = 1
      BY <2>2
    <2>4. n = 0
      <3>1. \A l \in {0, 1} : \A k \in 0..(l - 1) : k = 0
        OBVIOUS
      <3> QED
        BY <2>1, <2>3, <3>1
    <2>5. SubSeq(text, 1, 0) = <<>>
      <3>1. text = <<>> \/ \E x : text = <<x>>
        BY <2>2
      <3>2. CASE text = <<>>
        BY <3>2
      <3>3. CASE \E x : text = <<x>>
        BY <3>3
      <3> QED
        BY <3>1, <3>2, <3>3
    <2> QED
      BY <1>2, <2>1, <2>4, <2>5 DEF Texts
  <1> QED
    BY <1>1, <1>2

LEMMA CompressType ==
  ASSUME NEW m \in Memories
  PROVE  Compress(m) \in Memories
  <1> DEFINE cut == Len(m.working) - Capacity
             older == SubSeq(m.working, 1, cut)
             newer == SubSeq(m.working, cut + 1, Len(m.working))
  <1>1. /\ m \in Layers /\ IsFiniteSet(m.counts)
        /\ m.compressed \in Seq(Seq(Nat)) /\ m.working \in Seq(Nat)
    BY DEF Memories, Layers
  <1>2. CASE cut <= 0
    BY <1>2 DEF Compress
  <1>3. CASE ~(cut <= 0)
    <2>1. cut \in 0..Len(m.working)
      BY <1>1, <1>3, MemoryAssumption, LenProperties
    <2>2. older \in Seq(Nat) /\ newer \in Seq(Nat)
      BY <1>1, <2>1, CutInTwo
    <2>3. Append(m.compressed, older) \in Seq(Seq(Nat))
      BY <1>1, <2>2, AppendProperties
    <2>4. Compress(m) = [m EXCEPT !.compressed = Append(@, older), !.working = newer]
      BY <1>3 DEF Compress
    <2> HIDE DEF older, newer
    <2> QED
      BY <1>1, <2>2, <2>3, <2>4 DEF Memories, Layers
  <1> QED
    BY <1>2, <1>3

(* What is remembered and what is kept have their types, a file is there     *)
(* while it is being filled, and a new session would resume this one.       *)
StoreTypes ==
  /\ asMd \in BOOLEAN
  /\ mem \in Memories
  /\ store \in [present : BOOLEAN, text : Texts(asMd)]

Warm ==
  /\ StoreTypes
  /\ cyc.phase = "saving" => store.present
  /\ RestartResumesWarm

(* A step that leaves memory and store alone, and does not end the cycle. *)
LEMMA WarmRests ==
  ASSUME Warm, UNCHANGED <<mem, store, asMd>>, cyc'.phase # "saving",
         cyc'.phase = "none" => cyc.phase = "none" /\ log'.trail = log.trail
  PROVE  Warm'
  <1>1. StoreTypes'
    BY DEF Warm, StoreTypes, Memories, Layers, Texts, payload
  <1>2. cyc'.phase = "none" => Restore(store)' = Restore(store)
    BY DEF Restore, Fresh, restoreMarkdown, restoreJSON
  <1>3. RestartResumesWarm'
    BY <1>2 DEF Warm, RestartResumesWarm
  <1> QED
    BY <1>1, <1>3 DEF Warm

LEMMA MemoryStageWarm ==
  ASSUME CycleIInv, Warm, MemoryStage
  PROVE  Warm'
  <1> DEFINE c == log.cycleNo
             m1 == [mem EXCEPT !.working = Append(@, c)]
             m2 == Compress(m1)
             m3 == [m2 EXCEPT !.observations = @ + 1, !.counts = @ \cup {c}]
  <1>1. cyc.phase = "stages" /\ cyc \in CycType /\ c \in Nat
    BY StagesFacts DEF MemoryStage, Running, LogOK
  <1>2. m1 \in Memories
    <2>1. mem \in Layers /\ IsFiniteSet(mem.counts)
      BY DEF Warm, StoreTypes, Memories
    <2>2. Append(mem.working, c) \in Seq(Nat)
      BY <1>1, <2>1 DEF Layers
    <2> QED
      BY <2>1, <2>2 DEF Memories, Layers
  <1> HIDE DEF m1
  <1>3. m2 \in Memories
    BY <1>2, CompressType
  <1> HIDE DEF m2
  <1>4. m3 \in Memories
    <2>1. m2 \in Layers /\ IsFiniteSet(m2.counts)
      BY <1>3 DEF Memories
    <2>2. IsFiniteSet(m2.counts \cup {c}) /\ m2.counts \cup {c} \subseteq Nat
      BY <1>1, <2>1, FS_AddElement DEF Layers
    <2>3. m2.observations + 1 \in Nat
      BY <2>1 DEF Layers
    <2> QED
      BY <2>1, <2>2, <2>3 DEF Memories, Layers
  <1>5. mem' = Adapt(m3)
    BY DEF MemoryStage, Remember, ObserveEntry, m1, m2, m3
  <1> HIDE DEF m3
  <1>6. mem' \in Memories
    <2>1. m3 \in Layers /\ IsFiniteSet(m3.counts)
      BY <1>4 DEF Memories
    <2>2. Append(m3.impressions, m3.observations) \in Seq(Nat)
      BY <2>1 DEF Layers
    <2>3. mem' = m3 \/ mem' = [m3 EXCEPT !.impressions = Append(@, m3.observations)]
      BY <1>5 DEF Adapt, LearnFrom
    <2> QED
      BY <1>4, <2>1, <2>2, <2>3 DEF Memories, Layers
  <1>7. asMd' = asMd /\ store' = store /\ cyc' = [cyc EXCEPT !.phase = "usage"]
    BY DEF MemoryStage, Returns
  <1>8. StoreTypes'
    BY <1>6, <1>7 DEF Warm, StoreTypes, Memories, Layers, Texts, payload
  <1>9. cyc'.phase = "usage"
    BY <1>1, <1>7 DEF CycType
  <1> QED
    BY <1>8, <1>9 DEF Warm, RestartResumesWarm

LEMMA SavesWarm ==
  ASSUME CycleIInv, Warm, SaveBegins \/ SaveEnds \/ SaveFails
  PROVE  Warm'
  <1>1. /\ asMd \in BOOLEAN /\ mem \in Memories /\ asMd' = asMd /\ mem' = mem
        /\ store \in [present : BOOLEAN, text : Texts(asMd)]
    BY DEF Warm, StoreTypes, SaveBegins, SaveEnds, SaveFails
  <1>2. Rendered(mem) \in Texts(asMd)
    <2> DEFINE s == [present |-> TRUE, text |-> Rendered(mem)]
    <2>1. s.present /\ s.text = Rendered(mem)
      OBVIOUS
    <2> HIDE DEF s
    <2> QED
      BY <1>1, <2>1, RestoreRendered
  <1>3. ASSUME store' \in [present : BOOLEAN, text : Texts(asMd)]
        PROVE  StoreTypes'
    BY <1>1, <1>3 DEF StoreTypes, Memories, Layers, Texts, payload
  <1>4. CASE SaveBegins
    <2>1. PICK text \in Torn(Rendered(mem)) : store' = [present |-> TRUE, text |-> text]
      BY <1>4 DEF SaveBegins
    <2>2. text \in Texts(asMd)
      BY <1>1, <1>2, TornType
    <2>3. StoreTypes' /\ store'.present
      BY <1>3, <2>1, <2>2
    <2>4. cyc'.phase = "saving"
      BY <1>4, IInvParts DEF SaveBegins, Types
    <2> QED
      BY <2>3, <2>4 DEF Warm, RestartResumesWarm
  <1>5. CASE SaveEnds
    <2>1. store' = [store EXCEPT !.text = Rendered(mem)] /\ store.present
      BY <1>5 DEF SaveEnds, Warm
    <2>2. StoreTypes' /\ store'.present /\ store'.text = Rendered(mem)
      BY <1>1, <1>2, <1>3, <2>1
    <2>3. cyc'.phase = "none"
      BY <1>5, NoCycleOK DEF SaveEnds
    <2>4. Restore(store') = mem
      BY <1>1, <2>2, RestoreRendered
    <2>5. Restore(store)' = mem'
      BY <1>1, <2>4 DEF Restore, Fresh, restoreMarkdown, restoreJSON
    <2> QED
      BY <2>2, <2>3, <2>5 DEF Warm, RestartResumesWarm
  <1>6. CASE SaveFails
    <2> DEFINE r == Step("persist", {}, "not saved", "runtime")
    <2>1. log' = Record(log, r) /\ store' = store /\ cyc' = NoCycle
      BY <1>6 DEF SaveFails
    <2>2. r \in StepType /\ r.stage = "persist"
      BY DEF Step, StepType, StageNames, OutNames, Authors, Vocabulary
    <2> HIDE DEF r
    <2>3. LogOK(log)
      BY IInvParts DEF Types
    <2>4. PICK record \in RecordType :
            record.stage = "persist" /\ log'.trail = Append(log.trail, record)
      <3> DEFINE c == IF log.current THEN log.cycleNo ELSE log.cycleNo + 1
      <3>1. \E record \in RecordType :
              Tells(record, r, c) /\ Record(log, r).trail = Append(log.trail, record)
        BY <2>2, <2>3, RecordAppends, Zenon
      <3> QED
        BY <2>1, <2>2, <3>1 DEF Tells
    <2>5. log'.trail # <<>> /\ Last(log'.trail).stage = "persist"
      <3>1. log.trail \in Seq(RecordType) /\ Len(log.trail) \in Nat
        BY <2>3, LenProperties DEF LogOK
      <3>2. Len(log'.trail) = Len(log.trail) + 1 /\ log'.trail[Len(log.trail) + 1] = record
        BY <2>4, <3>1, AppendProperties
      <3> QED
        BY <2>4, <3>1, <3>2, EmptySeq DEF Last
    <2>6. StoreTypes'
      BY <1>1, <1>3, <2>1
    <2>7. cyc'.phase = "none"
      BY <2>1, NoCycleOK
    <2> QED
      BY <2>5, <2>6, <2>7 DEF Warm, RestartResumesWarm
  <1> QED
    BY <1>4, <1>5, <1>6

LEMMA CrashWarm ==
  ASSUME CycleIInv, Warm, CrashAndLoad
  PROVE  Warm'
  <1>1. /\ asMd' = asMd /\ store' = store /\ mem' = Restore(store) /\ cyc' = NoCycle
        /\ asMd \in BOOLEAN /\ store \in [present : BOOLEAN, text : Texts(asMd)]
    BY DEF CrashAndLoad, Warm, StoreTypes
  <1>2. mem' \in Memories
    BY <1>1, RestoreType
  <1>3. StoreTypes'
    BY <1>1, <1>2 DEF StoreTypes, Memories, Layers, Texts, payload
  <1>4. Restore(store)' = Restore(store)
    BY <1>1 DEF Restore, Fresh, restoreMarkdown, restoreJSON
  <1>5. cyc'.phase = "none"
    BY <1>1, NoCycleOK
  <1> QED
    BY <1>1, <1>3, <1>4, <1>5 DEF Warm, RestartResumesWarm

LEMMA WarmStep ==
  ASSUME CycleIInv, Warm, [CycleNext]_cycleVars
  PROVE  Warm'
  <1>0. cyc \in CycType
    BY IInvParts DEF Types, CycType
  <1>1. ASSUME NEW a \in Approval, NEW claim \in Claim, Reason(a, claim)
        PROVE  Warm'
    <2>1. UNCHANGED <<mem, store, asMd>>
      BY <1>1 DEF Reason, Unstored
    <2>2. cyc'.phase \in {"stages", "usage"}
      BY <1>1, NoCycleOK DEF Reason, CycType
    <2> QED
      BY <2>1, <2>2, WarmRests
  <1>2. CASE \/ StageFails \/ Plan \/ Prepare \/ Elaborate \/ Deliberate
             \/ cyc.phase = "stages" /\ \E j \in Judgements : Govern(j)
    <2>1. UNCHANGED <<mem, store, asMd>> /\ cyc.phase = "stages"
      BY <1>2 DEF StageFails, Plan, Prepare, Elaborate, Deliberate, Govern, Unstored, Running
    <2>2. \/ cyc' = [cyc EXCEPT !.phase = "usage"]
          \/ cyc' = [cyc EXCEPT !.at = @ + 1]
          \/ \E order : cyc' = [cyc EXCEPT !.at = @ + 1, !.plan = order]
      BY <1>2 DEF StageFails, Plan, Prepare, Elaborate, Deliberate, Govern, Passes, Returns
    <2>3. cyc'.phase \in {"stages", "usage"}
      BY <1>0, <2>1, <2>2 DEF CycType
    <2> QED
      BY <2>1, <2>3, WarmRests
  <1>3. CASE MemoryStage
    BY <1>3, MemoryStageWarm
  <1>4. CASE RecordUsage \/ ApplyRetention
    <2>1. UNCHANGED <<mem, store, asMd>>
      BY <1>4 DEF RecordUsage, ApplyRetention, Unstored
    <2>2. cyc'.phase \in {"retention", "persist"}
      BY <1>0, <1>4 DEF RecordUsage, ApplyRetention, CycType
    <2> QED
      BY <2>1, <2>2, WarmRests
  <1>5. CASE SaveBegins \/ SaveEnds \/ SaveFails
    BY <1>5, SavesWarm
  <1>6. CASE CrashAndLoad
    BY <1>6, CrashWarm
  <1>7. CASE TimePasses
    <2>1. UNCHANGED <<mem, store, asMd, cyc, log>> /\ cyc.phase \in {"none", "retention"}
      BY <1>7 DEF TimePasses
    <2> QED
      BY <2>1, WarmRests
  <1>8. CASE UNCHANGED cycleVars
    <2>1. UNCHANGED <<mem, store, asMd, cyc, log>>
      BY <1>8 DEF cycleVars
    <2>2. StoreTypes'
      BY <2>1 DEF Warm, StoreTypes, Memories, Layers, Texts, payload
    <2>3. Restore(store)' = Restore(store)
      BY <2>1 DEF Restore, Fresh, restoreMarkdown, restoreJSON
    <2> QED
      BY <2>1, <2>2, <2>3 DEF Warm, RestartResumesWarm
  <1> QED
    BY <1>1, <1>2, <1>3, <1>4, <1>5, <1>6, <1>7, <1>8 DEF CycleNext

LEMMA WarmInit == CycleInit => Warm
  <1> SUFFICES ASSUME CycleInit PROVE Warm
    OBVIOUS
  <1>1. /\ asMd \in BOOLEAN /\ mem = Fresh /\ store = [present |-> FALSE, text |-> <<>>]
        /\ cyc = NoCycle
    BY DEF CycleInit
  <1>2. <<>> \in Texts(asMd)
    BY EmptySeq DEF Texts
  <1>3. StoreTypes
    BY <1>1, <1>2, FreshType DEF StoreTypes
  <1>4. Restore(store) = mem
    BY <1>1 DEF Restore
  <1>5. cyc.phase = "none"
    BY <1>1, NoCycleOK
  <1> QED
    BY <1>3, <1>4, <1>5 DEF Warm, RestartResumesWarm

(* session_store.go:14-19, 72-97: whatever a runtime has come to remember,   *)
(* in either format: between cycles a new session restores just that, for  *)
(* every number of cycles, deaths in the middle of a save and failed saves, *)
(* unless the last record says that the save failed.                       *)
THEOREM NextSessionResumes == CycleSpec => []RestartResumesWarm
  <1>1. CycleInit => CycleIInv /\ Warm
    BY CycleInitHolds, WarmInit
  <1>2. CycleIInv /\ Warm /\ [CycleNext]_cycleVars => (CycleIInv /\ Warm)'
    BY CycleStepKeeps, WarmStep
  <1>3. Warm => RestartResumesWarm
    BY DEF Warm
  <1> QED
    BY <1>1, <1>2, <1>3, PTL DEF CycleSpec

------------------------------------------------------------------------------
(* What is remembered *)

(* s is the first k elements of e, and x or nothing behind them. *)
Shortens(s, e, k, x) ==
  /\ k <= Len(e)
  /\ SameUpto(s, e, k)
  /\ Len(s) = k \/ Len(s) = k + 1
  /\ Len(s) = k + 1 => s[k + 1] = x

LEMMA CutKind ==
  ASSUME NEW x \in Section
  PROVE  /\ Cut(x) \in Section /\ Cut(x).kind = x.kind
         /\ Cut(x).body = IF x.kind = "compressed" THEN <<CutOff>> ELSE CutOff
  <1>1. <<CutOff>> \in Seq(Nat) /\ CutOff \in Nat
    BY DEF CutOff
  <1>2. CASE x \in [kind : {"compressed"}, body : Seq(Nat)]
    BY <1>1, <1>2 DEF Cut, Section
  <1>3. CASE x \in [kind : {"entry", "experience", "observed", "adaptation"}, body : Nat]
    BY <1>1, <1>3 DEF Cut, Section
  <1> QED
    BY <1>2, <1>3 DEF Section

(* A torn text is shortened, and of each section of it the kind is known. *)
TornAt(t, text, n) ==
  /\ t \in Seq(Section) /\ n < Len(text)
  /\ Shortens(t, text, n, Cut(text[n + 1]))
  /\ \A i \in 1..Len(t) : t[i].kind = text[i].kind

LEMMA TornSomewhere ==
  ASSUME asMd = TRUE, NEW text \in Seq(Section), NEW t \in Torn(text)
  PROVE  \E n \in Nat : TornAt(t, text, n)
  <1>1. PICK n \in 0..(Len(text) - 1) :
          t = SubSeq(text, 1, n) \/ t = Append(SubSeq(text, 1, n), Cut(text[n + 1]))
    BY DEF Torn
  <1> DEFINE whole == SubSeq(text, 1, n)
             x == Cut(text[n + 1])
  <1>2. n \in Nat /\ n < Len(text) /\ n \in 0..Len(text) /\ n + 1 \in 1..Len(text) /\ n <= Len(text)
    BY LenProperties
  <1>3. whole \in Seq(Section) /\ Len(whole) = n /\ \A j \in 1..n : whole[j] = text[j]
    BY <1>2, CutInTwo
  <1>4. text[n + 1] \in Section
    BY <1>2
  <1>5. x \in Section /\ x.kind = text[n + 1].kind
    BY <1>4, CutKind
  <1>6. t = whole \/ t = Append(whole, x)
    BY <1>1
  <1> HIDE DEF whole
  <1>7. CASE t = whole
    <2>1. t \in Seq(Section) /\ Len(t) = n /\ \A j \in 1..n : t[j] = text[j]
      BY <1>3, <1>7
    <2>2. Shortens(t, text, n, x)
      BY <1>2, <2>1 DEF Shortens, SameUpto
    <2> QED
      BY <1>2, <2>1, <2>2 DEF TornAt
  <1>8. CASE t = Append(whole, x)
    <2>1. /\ t \in Seq(Section) /\ Len(t) = n + 1 /\ t[n + 1] = x
          /\ \A j \in 1..n : t[j] = whole[j]
      BY <1>3, <1>5, <1>8, AppendProperties
    <2>2. \A j \in 1..n : t[j] = text[j]
      BY <1>3, <2>1
    <2>3. Shortens(t, text, n, x)
      BY <1>2, <2>1, <2>2 DEF Shortens, SameUpto
    <2>4. \A i \in 1..(n + 1) : i \in 1..n \/ i = n + 1
      BY <1>2
    <2>5. \A i \in 1..Len(t) : t[i].kind = text[i].kind
      BY <1>5, <2>1, <2>2, <2>4
    <2> QED
      BY <1>2, <2>1, <2>3, <2>5 DEF TornAt
  <1> QED
    BY <1>6, <1>7, <1>8

(* A layer in front of the tear, behind it, and the one that is torn. *)
LEMMA LayerKept ==
  ASSUME NEW text \in Seq(Section), NEW t, NEW n \in Nat, TornAt(t, text, n),
         NEW kind, NEW U, NEW of \in Seq(U), NEW lo \in Nat, NEW hi \in Nat, hi = lo + Len(of),
         WrittenAt(text, kind, of, lo), KindRun(text, kind, lo, hi), hi <= n
  PROVE  bodies(t, kind) = of
  <1>1. PICK l \in Nat : l = Len(t)
    BY LenProperties DEF TornAt
  <1>2. PICK m \in Nat : m = Len(of)
    BY LenProperties
  <1>3. t \in Seq(Section) /\ n <= l /\ \A i \in 1..n : t[i] = text[i]
    BY <1>1 DEF TornAt, Shortens, SameUpto
  <1>4. WrittenAt(t, kind, of, lo)
    <2>1. ASSUME NEW j \in 1..m PROVE t[lo + j] = [kind |-> kind, body |-> of[j]]
      <3>1. lo + j \in 1..n
        BY <1>2
      <3> QED
        BY <1>2, <1>3, <3>1 DEF WrittenAt
    <2> QED
      BY <1>1, <1>2, <1>3, <2>1 DEF WrittenAt
  <1>5. KindRun(t, kind, lo, hi)
    <2>1. lo <= hi /\ hi <= l
      BY <1>2, <1>3
    <2>2. \A i \in 1..l : i \in 1..Len(text) /\ t[i].kind = text[i].kind
      <3>1. Len(text) \in Nat /\ l <= Len(text)
        BY <1>1, LenProperties DEF TornAt, Shortens
      <3> QED
        BY <1>1, <3>1 DEF TornAt
    <2> QED
      BY <1>1, <2>1, <2>2 DEF KindRun
  <1> QED
    BY <1>3, <1>4, <1>5, BodiesWritten

LEMMA LayerLost ==
  ASSUME NEW text \in Seq(Section), NEW t, NEW n \in Nat, TornAt(t, text, n),
         NEW kind, NEW lo \in Nat, NEW hi \in Nat, KindRun(text, kind, lo, hi), n < lo
  PROVE  bodies(t, kind) = <<>>
  <1>1. PICK l \in Nat : l = Len(t)
    BY LenProperties DEF TornAt
  <1>2. l <= lo /\ l <= Len(text) /\ Len(text) \in Nat
    BY <1>1, LenProperties DEF TornAt, Shortens
  <1>3. KindRun(t, kind, 0, 0)
    <2>1. ASSUME NEW i \in 1..l PROVE t[i].kind # kind
      BY <1>1, <1>2 DEF TornAt, KindRun
    <2> QED
      BY <1>1, <2>1 DEF KindRun
  <1>4. bodies(t, kind) = [k \in 1..(0 - 0) |-> t[0 + k].body]
    BY <1>3, BodiesRun DEF TornAt
  <1> QED
    BY <1>4

LEMMA LayerTorn ==
  ASSUME NEW text \in Seq(Section), NEW t, NEW n \in Nat, TornAt(t, text, n),
         NEW kind, NEW U, NEW of \in Seq(U), NEW lo \in Nat, NEW hi \in Nat, hi = lo + Len(of),
         WrittenAt(text, kind, of, lo), KindRun(text, kind, lo, hi), lo <= n, n < hi
  PROVE  Shortens(bodies(t, kind), of, n - lo, IF kind = "compressed" THEN <<CutOff>> ELSE CutOff)
  <1> DEFINE x == IF kind = "compressed" THEN <<CutOff>> ELSE CutOff
             b == bodies(t, kind)
  <1>1. PICK l \in Nat : l = Len(t)
    BY LenProperties DEF TornAt
  <1>2. PICK m \in Nat : m = Len(of)
    BY LenProperties
  <1>3. PICK k \in Nat : k = n - lo
    OBVIOUS
  <1>4. /\ t \in Seq(Section) /\ \A i \in 1..n : t[i] = text[i]
        /\ l = n \/ l = n + 1
        /\ n < Len(text)
        /\ l = n + 1 => t[n + 1] = Cut(text[n + 1])
        /\ \A i \in 1..l : t[i].kind = text[i].kind
    BY <1>1 DEF TornAt, Shortens, SameUpto
  <1>5. KindRun(t, kind, lo, l)
    <2>1. lo <= l /\ l <= hi /\ l <= Len(text) /\ Len(text) \in Nat
      BY <1>4, LenProperties
    <2>2. \A i \in 1..l : text[i].kind = kind <=> (lo < i /\ i <= hi)
      BY <2>1 DEF KindRun
    <2> QED
      BY <1>1, <1>4, <2>1, <2>2 DEF KindRun
  <1>6. b = [j \in 1..(l - lo) |-> t[lo + j].body]
    BY <1>4, <1>5, BodiesRun
  <1> HIDE DEF b
  <1>7. PICK h \in Nat : h = l - lo /\ (h = k \/ h = k + 1) /\ k < m /\ (h = k + 1 => l = n + 1)
    BY <1>2, <1>3, <1>4
  <1>8. b = [j \in 1..h |-> t[lo + j].body]
    BY <1>6, <1>7
  <1>9. Len(b) = h
    BY <1>8
  <1>10. ASSUME NEW j \in 1..k PROVE b[j] = of[j]
    <2>1. lo + j \in 1..n /\ j \in 1..m /\ j \in 1..h
      BY <1>3, <1>7
    <2>2. text[lo + j] = [kind |-> kind, body |-> of[j]]
      BY <1>2, <2>1 DEF WrittenAt
    <2>3. t[lo + j] = text[lo + j]
      BY <1>4, <2>1
    <2> QED
      BY <1>8, <2>1, <2>2, <2>3
  <1>11. ASSUME h = k + 1 PROVE b[k + 1] = x
    <2>1. lo + (k + 1) = n + 1 /\ k + 1 \in 1..m /\ k + 1 \in 1..h
      BY <1>3, <1>7, <1>11
    <2>2. text[n + 1] = [kind |-> kind, body |-> of[k + 1]]
      <3>1. PICK j \in 1..m : j = k + 1
        BY <2>1
      <3>2. text[lo + j] = [kind |-> kind, body |-> of[j]]
        BY <1>2 DEF WrittenAt
      <3> QED
        BY <2>1, <3>1, <3>2
    <2>3. text[n + 1] \in Section
      <3>1. n + 1 \in 1..Len(text)
        BY <1>4, LenProperties
      <3> QED
        BY <3>1
    <2>4. t[n + 1] = Cut(text[n + 1])
      BY <1>4, <1>7, <1>11
    <2>5. t[n + 1].body = x
      BY <2>2, <2>3, <2>4, CutKind
    <2> QED
      BY <1>8, <2>1, <2>5
  <1> HIDE DEF x
  <1>12. Shortens(b, of, k, x)
    BY <1>2, <1>7, <1>9, <1>10, <1>11 DEF Shortens, SameUpto
  <1> QED
    BY <1>3, <1>12 DEF b, x

(* The decisions remembered, the oldest first. *)
Entries(m) == FlattenSeq(m.compressed) \o m.working

LEMMA EntriesType ==
  ASSUME NEW m \in Memories
  PROVE  /\ FlattenSeq(m.compressed) \in Seq(Nat) /\ m.working \in Seq(Nat)
         /\ m.compressed \in Seq(Seq(Nat))
         /\ Entries(m) \in Seq(Nat) /\ Len(Entries(m)) \in Nat
  <1>1. m.compressed \in Seq(Seq(Nat)) /\ m.working \in Seq(Nat)
    BY DEF Memories, Layers
  <1>2. FlattenSeq(m.compressed) \in Seq(Nat)
    BY <1>1, FlattenSeqElements
  <1>3. Entries(m) \in Seq(Nat)
    BY <1>1, <1>2, ConcatAt DEF Entries
  <1> QED
    BY <1>1, <1>2, <1>3, LenProperties

LEMMA ConcatTwice ==
  ASSUME NEW a \in Seq(Nat), NEW b \in Seq(Nat), NEW c \in Seq(Nat)
  PROVE  (a \o b) \o c = a \o (b \o c)
  BY ConcatAssociative

(* Compress moves entries into a summary, and loses none. *)
LEMMA CompressKeeps ==
  ASSUME NEW m \in Memories
  PROVE  /\ Compress(m) \in Memories /\ Entries(Compress(m)) = Entries(m)
         /\ Compress(m).observations = m.observations /\ Compress(m).counts = m.counts
         /\ Compress(m).impressions = m.impressions
  <1> DEFINE cut == Len(m.working) - Capacity
             older == SubSeq(m.working, 1, cut)
             newer == SubSeq(m.working, cut + 1, Len(m.working))
             f == FlattenSeq(m.compressed)
  <1>1. /\ m.compressed \in Seq(Seq(Nat)) /\ m.working \in Seq(Nat) /\ m \in Layers
        /\ f \in Seq(Nat)
    BY EntriesType DEF Memories
  <1>2. Compress(m) \in Memories
    BY CompressType
  <1>3. CASE cut <= 0
    BY <1>2, <1>3 DEF Compress
  <1>4. CASE ~(cut <= 0)
    <2>1. cut \in 0..Len(m.working)
      BY <1>1, <1>4, MemoryAssumption, LenProperties
    <2>2. older \in Seq(Nat) /\ newer \in Seq(Nat) /\ older \o newer = m.working
      BY <1>1, <2>1, CutInTwo
    <2>3. Compress(m) = [m EXCEPT !.compressed = Append(@, older), !.working = newer]
      BY <1>4 DEF Compress
    <2> HIDE DEF older, newer
    <2>4. /\ Compress(m).compressed = Append(m.compressed, older) /\ Compress(m).working = newer
          /\ Compress(m).observations = m.observations /\ Compress(m).counts = m.counts
          /\ Compress(m).impressions = m.impressions
      BY <1>1, <2>3 DEF Layers
    <2>5. FlattenSeq(Append(m.compressed, older)) = f \o older
      BY <1>1, <2>2, FlattenSeqAppend
    <2> HIDE DEF f
    <2>6. (f \o older) \o newer = f \o (older \o newer)
      BY <1>1, <2>2, ConcatTwice
    <2>7. Entries(Compress(m)) = f \o m.working
      BY <2>2, <2>4, <2>5, <2>6 DEF Entries
    <2> QED
      BY <1>2, <2>4, <2>7 DEF Entries, f
  <1> QED
    BY <1>3, <1>4

LEMMA ConcatShortens ==
  ASSUME NEW f \in Seq(Nat), NEW s \in Seq(Nat), NEW e \in Seq(Nat), NEW k \in Nat, NEW x,
         Shortens(s, e, k, x)
  PROVE  Shortens(f \o s, f \o e, Len(f) + k, x)
  <1> DEFINE a == f \o s
             b == f \o e
  <1>1. PICK n \in Nat, h \in Nat, m \in Nat : n = Len(f) /\ h = Len(s) /\ m = Len(e)
    BY LenProperties
  <1>2. /\ Len(a) = n + h /\ \A j \in 1..n : a[j] = f[j]
        /\ \A j \in (n + 1)..(n + h) : a[j] = s[j - n]
    BY <1>1, ConcatAt
  <1>3. /\ Len(b) = n + m /\ \A j \in 1..n : b[j] = f[j]
        /\ \A j \in (n + 1)..(n + m) : b[j] = e[j - n]
    BY <1>1, ConcatAt
  <1>4. /\ k <= m /\ (h = k \/ h = k + 1) /\ \A i \in 1..k : s[i] = e[i]
        /\ h = k + 1 => s[k + 1] = x
    BY <1>1 DEF Shortens, SameUpto
  <1> HIDE DEF a, b
  <1>5. ASSUME NEW i \in 1..(n + k) PROVE a[i] = b[i]
    <2>1. CASE i <= n
      BY <1>2, <1>3, <2>1
    <2>2. CASE ~(i <= n)
      <3>1. i \in (n + 1)..(n + h) /\ i \in (n + 1)..(n + m) /\ i - n \in 1..k
        BY <1>4, <2>2
      <3> QED
        BY <1>2, <1>3, <1>4, <3>1
    <2> QED
      BY <2>1, <2>2
  <1>6. ASSUME h = k + 1 PROVE a[(n + k) + 1] = x
    <2>1. (n + k) + 1 \in (n + 1)..(n + h) /\ ((n + k) + 1) - n = k + 1
      BY <1>6
    <2> QED
      BY <1>2, <1>4, <1>6, <2>1
  <1>7. /\ n + k <= n + m /\ (n + h = n + k \/ n + h = (n + k) + 1)
        /\ n + h = (n + k) + 1 => h = k + 1
    BY <1>4
  <1>8. Shortens(a, b, n + k, x)
    BY <1>2, <1>3, <1>5, <1>6, <1>7 DEF Shortens, SameUpto
  <1> QED
    BY <1>1, <1>8 DEF a, b

(* A torn session restores a beginning of what is remembered, whose last    *)
(* entry may be cut.                                                       *)
LEMMA TornEntries ==
  ASSUME asMd = TRUE, NEW m \in Memories, NEW t \in Torn(renderMarkdown(m))
  PROVE  \E k \in Nat : Shortens(Entries(restoreMarkdown(t)), Entries(m), k, CutOff)
  <1> DEFINE text == renderMarkdown(m)
             c == m.compressed
             w == m.working
             f == FlattenSeq(c)
             c1 == bodies(t, "compressed")
             w1 == bodies(t, "entry")
  <1>1. /\ c \in Seq(Seq(Nat)) /\ w \in Seq(Nat) /\ f \in Seq(Nat) /\ Entries(m) = f \o w
    BY EntriesType DEF Entries
  <1>2. text \in Seq(Section) /\ LayersAt(text, c, w)
    BY RenderedBack
  <1> HIDE DEF text
  <1>3. PICK n \in Nat : TornAt(t, text, n)
    BY <1>2, TornSomewhere DEF text
  <1>4. PICK a \in Nat, b \in Nat, ab \in Nat : a = Len(c) /\ b = Len(w) /\ ab = a + b
    BY <1>1, LenProperties
  <1>5. /\ WrittenAt(text, "compressed", c, 0) /\ KindRun(text, "compressed", 0, a)
        /\ WrittenAt(text, "entry", w, a) /\ KindRun(text, "entry", a, ab)
        /\ 0 \in Nat /\ a = 0 + Len(c) /\ ab = a + Len(w)
    <2>1. /\ WrittenAt(text, "compressed", c, 0) /\ KindRun(text, "compressed", 0, Len(c))
          /\ WrittenAt(text, "entry", w, Len(c)) /\ KindRun(text, "entry", Len(c), Len(c) + Len(w))
      BY <1>2 DEF LayersAt
    <2>2. Len(c) = a /\ Len(c) + Len(w) = ab /\ 0 \in Nat /\ a = 0 + Len(c) /\ ab = a + Len(w)
      BY <1>4
    <2> HIDE DEF c, w
    <2> QED
      BY <2>1, <2>2
  <1>6. Entries(restoreMarkdown(t)) = FlattenSeq(c1) \o w1
    BY DEF Entries, restoreMarkdown
  <1>7. t \in Seq(Section)
    BY <1>3 DEF TornAt
  <1>8. c1 \in Seq(Seq(Nat)) /\ w1 \in Seq(Nat)
    <2>1. c1 \in Seq(Seq(Nat))
      BY <1>7, BodiesType DEF Section
    <2>2. w1 \in Seq(Nat)
      BY <1>7, BodiesType DEF Section
    <2> QED
      BY <2>1, <2>2
  <1>9. CASE a <= n /\ ab <= n
    <2>1. c1 = c
      BY <1>1, <1>2, <1>3, <1>5, <1>9, LayerKept
    <2>2. w1 = w
      BY <1>1, <1>2, <1>3, <1>5, <1>9, LayerKept
    <2> DEFINE e == f \o w
    <2>3. Entries(restoreMarkdown(t)) = e /\ Entries(m) = e
      BY <1>1, <1>6, <2>1, <2>2
    <2>4. Len(e) \in Nat
      BY <1>1, EntriesType
    <2> HIDE DEF e
    <2>5. Shortens(e, e, Len(e), CutOff)
      BY <2>4 DEF Shortens, SameUpto
    <2> QED
      BY <2>3, <2>4, <2>5
  <1>10. CASE a <= n /\ n < ab
    <2>1. c1 = c
      BY <1>1, <1>2, <1>3, <1>5, <1>10, LayerKept
    <2>2. Shortens(w1, w, n - a, IF "entry" = "compressed" THEN <<CutOff>> ELSE CutOff)
      BY <1>1, <1>2, <1>3, <1>5, <1>10, LayerTorn
    <2>3. PICK k \in Nat : k = n - a
      BY <1>10
    <2>4. Shortens(w1, w, k, CutOff)
      BY <2>2, <2>3
    <2> HIDE DEF f, w, w1
    <2>5. Shortens(f \o w1, f \o w, Len(f) + k, CutOff)
      BY <1>1, <1>8, <2>4, ConcatShortens
    <2>6. Len(f) + k \in Nat
      BY <1>1, LenProperties
    <2>7. Entries(restoreMarkdown(t)) = f \o w1
      BY <1>6, <2>1 DEF f, w1
    <2> QED
      BY <1>1, <2>5, <2>6, <2>7
  <1>11. CASE n < a
    <2>1. w1 = <<>>
      BY <1>2, <1>3, <1>5, <1>11, LayerLost
    <2>2. Shortens(c1, c, n, <<CutOff>>)
      <3>1. PICK z \in Nat : z = 0
        OBVIOUS
      <3>2. WrittenAt(text, "compressed", c, z) /\ KindRun(text, "compressed", z, a) /\ a = z + Len(c)
        BY <1>5, <3>1
      <3>3. z <= n /\ n < a /\ n - z = n
        BY <1>11, <3>1
      <3>4. Shortens(c1, c, n - z, IF "compressed" = "compressed" THEN <<CutOff>> ELSE CutOff)
        BY <1>1, <1>2, <1>3, <3>2, <3>3, LayerTorn
      <3> QED
        BY <3>3, <3>4
    <2> DEFINE h == SubSeq(c, 1, n)
               g == FlattenSeq(h)
    <2>3. g \in Seq(Nat) /\ Starts(g, f) /\ h \in Seq(Seq(Nat)) /\ Len(h) = n
          /\ \A i \in 1..n : h[i] = c[i]
      <3>1. n \in 0..Len(c)
        BY <1>4, <1>11
      <3> QED
        BY <1>1, <3>1, FlattenSeqBegins, CutInTwo
    <2> DEFINE x == <<CutOff>>
    <2>4. x \in Seq(Nat) /\ Len(x) = 1 /\ x[1] = CutOff
      BY DEF CutOff
    <2> HIDE DEF c, c1, f, g, h, w, x
    <2>5. c1 = h \/ c1 = Append(h, x)
      <3>1. /\ Len(c1) = n \/ Len(c1) = n + 1
            /\ \A i \in 1..n : c1[i] = h[i]
            /\ Len(c1) = n + 1 => c1[n + 1] = x
        BY <2>2, <2>3 DEF Shortens, SameUpto, x
      <3>2. CASE Len(c1) = n
        BY <1>8, <2>3, <3>1, <3>2, SeqEqual
      <3>3. CASE Len(c1) = n + 1
        <4> DEFINE y == Append(h, x)
        <4>1. /\ y \in Seq(Seq(Nat)) /\ Len(y) = n + 1 /\ y[n + 1] = x
              /\ \A i \in 1..n : y[i] = h[i]
          BY <2>3, <2>4, AppendProperties
        <4> HIDE DEF y
        <4>2. \A i \in 1..(n + 1) : i \in 1..n \/ i = n + 1
          OBVIOUS
        <4>3. \A i \in 1..Len(c1) : c1[i] = y[i]
          BY <3>1, <3>3, <4>1, <4>2
        <4>4. c1 = y
          BY <1>8, <3>3, <4>1, <4>3, SeqEqual
        <4> QED
          BY <4>4 DEF y
      <3> QED
        BY <3>1, <3>2, <3>3
    <2>6. FlattenSeq(Append(h, x)) = g \o x
      BY <2>3, <2>4, FlattenSeqAppend DEF g
    <2>7. FlattenSeq(c1) = g \/ FlattenSeq(c1) = g \o x
      BY <2>5, <2>6 DEF g
    <2>8. PICK k \in Nat, m1 \in Nat, l \in Nat : k = Len(g) /\ m1 = Len(f) /\ l = Len(w)
      BY <1>1, <2>3, LenProperties
    <2> DEFINE e == f \o w
               s == FlattenSeq(c1)
    <2>9. k <= m1 /\ \A i \in 1..k : g[i] = f[i]
      BY <2>3, <2>8 DEF Starts
    <2>10. Len(e) = m1 + l /\ \A i \in 1..m1 : e[i] = f[i]
      BY <1>1, <2>8, ConcatAt
    <2> HIDE DEF e
    <2>11. Shortens(s, e, k, CutOff)
      <3>1. k <= Len(e) /\ \A i \in 1..k : g[i] = e[i]
        BY <2>9, <2>10
      <3>2. CASE s = g
        BY <2>8, <3>1, <3>2 DEF Shortens, SameUpto
      <3>3. CASE s = g \o x
        <4> DEFINE y == g \o x
        <4>0. /\ Len(y) = Len(g) + Len(x) /\ \A i \in 1..Len(g) : y[i] = g[i]
              /\ \A i \in (Len(g) + 1)..(Len(g) + Len(x)) : y[i] = x[i - Len(g)]
          <5>1. g \in Seq(Nat) /\ x \in Seq(Nat)
            BY <2>3, <2>4
          <5> QED
            BY <5>1, ConcatAt
        <4> HIDE DEF y
        <4>1. /\ Len(s) = k + 1 /\ \A i \in 1..k : s[i] = g[i]
              /\ \A i \in (k + 1)..(k + 1) : s[i] = x[i - k]
          <5>1. s = y
            BY <3>3 DEF y
          <5> HIDE DEF s
          <5> QED
            BY <2>4, <2>8, <4>0, <5>1
        <4>2. s[k + 1] = CutOff
          <5>1. k + 1 \in (k + 1)..(k + 1) /\ (k + 1) - k = 1
            OBVIOUS
          <5> QED
            BY <2>4, <4>1, <5>1
        <4> HIDE DEF s
        <4> QED
          BY <3>1, <4>1, <4>2 DEF Shortens, SameUpto
      <3> QED
        BY <2>7, <3>2, <3>3
    <2>12. Entries(restoreMarkdown(t)) = s
      <3>1. s \in Seq(Nat)
        BY <1>8, FlattenSeqElements
      <3>2. s \o <<>> = s
        BY <3>1, ConcatEmptySeq
      <3> QED
        BY <1>6, <2>1, <3>2
    <2> QED
      BY <1>1, <2>11, <2>12 DEF e
  <1> QED
    BY <1>9, <1>10, <1>11

LEMMA FrontLength ==
  ASSUME NEW T, NEW e \in Seq(T), NEW n \in Nat, n = Len(e)
  PROVE  Len(Front(e)) = IF 1 <= n - 1 THEN n - 1 ELSE 0
  <1>1. \A i \in 1..(n - 1) : e[i] \in T
    OBVIOUS
  <1>2. Len(SubSeq(e, 1, n - 1)) = IF 1 <= n - 1 THEN (n - 1) - 1 + 1 ELSE 0
    BY <1>1, SubSeqProperties
  <1> QED
    BY <1>2 DEF Front

(* Where entries are cut. *)
CutPlaces(e) == {i \in 1..Len(e) : e[i] = CutOff}

AtMostCut(e, n) == IsFiniteSet(CutPlaces(e)) /\ Cardinality(CutPlaces(e)) <= n

(* Entries that are whole are in the order of their cycles, and each is the  *)
(* decision of one of the first so many cycles that ended.                 *)
Ordered(e) ==
  \A i, j \in 1..Len(e) : e[i] # CutOff /\ e[j] # CutOff /\ i < j => e[i] < e[j]

DecidedIn(e, endings, upto) ==
  \A i \in 1..Len(e) : e[i] # CutOff =>
    \E n \in 1..upto : endings[n] = [cycle |-> e[i], outcome |-> "decided"]

Remembers(e, endings, upto, cuts) ==
  /\ Ordered(e)
  /\ DecidedIn(e, endings, upto)
  /\ AtMostCut(e, cuts)

LEMMA CutsType ==
  ASSUME NEW e, Len(e) \in Nat
  PROVE  IsFiniteSet(CutPlaces(e)) /\ Cardinality(CutPlaces(e)) \in Nat
  <1>1. IsFiniteSet(1..Len(e)) /\ CutPlaces(e) \subseteq 1..Len(e)
    BY FS_Interval DEF CutPlaces
  <1>2. IsFiniteSet(CutPlaces(e))
    BY <1>1, FS_Subset
  <1> QED
    BY <1>2, FS_CardinalityType

LEMMA RemembersLater ==
  ASSUME NEW e, Len(e) \in Nat, NEW s, NEW t, NEW n \in Int, NEW m \in Int, n <= m, SameUpto(t, s, n),
         NEW a \in Nat, NEW b \in Nat, a <= b, Remembers(e, s, n, a)
  PROVE  Remembers(e, t, m, b)
  <1>1. DecidedIn(e, t, m)
    <2> SUFFICES ASSUME NEW i \in 1..Len(e), e[i] # CutOff
                 PROVE  \E k \in 1..m : t[k] = [cycle |-> e[i], outcome |-> "decided"]
      BY DEF DecidedIn
    <2>1. PICK k \in 1..n : s[k] = [cycle |-> e[i], outcome |-> "decided"]
      BY DEF Remembers, DecidedIn
    <2>2. k \in 1..m /\ t[k] = s[k]
      BY <2>1 DEF SameUpto
    <2> QED
      BY <2>1, <2>2
  <1>2. AtMostCut(e, b)
    <2>1. PICK c \in Nat : c = Cardinality(CutPlaces(e)) /\ c <= a
      BY CutsType DEF Remembers, AtMostCut
    <2>2. c <= b
      BY <2>1
    <2> QED
      BY <2>1, <2>2, CutsType DEF AtMostCut
  <1> QED
    BY <1>1, <1>2 DEF Remembers

LEMMA RemembersNothing ==
  ASSUME NEW e, Len(e) = 0, NEW endings, NEW upto, NEW cuts \in Nat
  PROVE  Remembers(e, endings, upto, cuts)
  <1>1. CutPlaces(e) = {}
    BY DEF CutPlaces
  <1>2. AtMostCut(e, cuts)
    BY <1>1, FS_EmptySet DEF AtMostCut
  <1>3. Ordered(e) /\ DecidedIn(e, endings, upto)
    BY DEF Ordered, DecidedIn
  <1> QED
    BY <1>2, <1>3 DEF Remembers

(* What is torn remembers a beginning, and one cut more. *)
LEMMA RemembersTorn ==
  ASSUME NEW s, Len(s) \in Nat, NEW e, Len(e) \in Nat, NEW k \in Nat, Shortens(s, e, k, CutOff),
         NEW endings, NEW upto, NEW cuts \in Nat, Remembers(e, endings, upto, cuts)
  PROVE  Remembers(s, endings, upto, cuts + 1)
  <1>1. PICK h \in Nat, m \in Nat : h = Len(s) /\ m = Len(e)
    OBVIOUS
  <1>2. /\ k <= m /\ (h = k \/ h = k + 1) /\ \A i \in 1..k : s[i] = e[i]
        /\ h = k + 1 => s[k + 1] = CutOff
    BY <1>1 DEF Shortens, SameUpto
  <1>3. ASSUME NEW i \in 1..h
        PROVE  \/ i = k + 1 /\ s[i] = CutOff
               \/ i \in 1..k /\ i \in 1..m /\ s[i] = e[i]
    <2>1. CASE i \in 1..k
      BY <1>2, <2>1
    <2>2. CASE ~(i \in 1..k)
      <3>1. i = k + 1 /\ h = k + 1
        BY <1>2, <2>2
      <3> QED
        BY <1>2, <3>1
    <2> QED
      BY <2>1, <2>2
  <1>4. Ordered(s)
    <2> SUFFICES ASSUME NEW i \in 1..h, NEW j \in 1..h, s[i] # CutOff, s[j] # CutOff, i < j
                 PROVE  s[i] < s[j]
      BY <1>1 DEF Ordered
    <2>1. i \in 1..m /\ j \in 1..m /\ s[i] = e[i] /\ s[j] = e[j]
      BY <1>3
    <2>2. \A p, q \in 1..m : e[p] # CutOff /\ e[q] # CutOff /\ p < q => e[p] < e[q]
      BY <1>1 DEF Remembers, Ordered
    <2> QED
      BY <2>1, <2>2
  <1>5. DecidedIn(s, endings, upto)
    <2> SUFFICES ASSUME NEW i \in 1..h, s[i] # CutOff
                 PROVE  \E n \in 1..upto : endings[n] = [cycle |-> s[i], outcome |-> "decided"]
      BY <1>1 DEF DecidedIn
    <2>1. i \in 1..m /\ s[i] = e[i]
      BY <1>3
    <2>2. \E n \in 1..upto : endings[n] = [cycle |-> e[i], outcome |-> "decided"]
      BY <1>1, <2>1 DEF Remembers, DecidedIn
    <2> QED
      BY <2>1, <2>2
  <1>6. AtMostCut(s, cuts + 1)
    <2> DEFINE p == CutPlaces(e)
               q == p \cup {k + 1}
    <2>1. CutPlaces(s) \subseteq q
      BY <1>1, <1>3 DEF CutPlaces
    <2>2. IsFiniteSet(p) /\ Cardinality(p) \in Nat /\ Cardinality(p) <= cuts
      BY CutsType DEF Remembers, AtMostCut
    <2> HIDE DEF p
    <2>3. IsFiniteSet(q) /\ Cardinality(q) \in Nat /\ Cardinality(q) <= cuts + 1
      <3>1. IsFiniteSet(q) /\ Cardinality(q) = IF k + 1 \in p THEN Cardinality(p) ELSE Cardinality(p) + 1
        BY <2>2, FS_AddElement
      <3> QED
        BY <2>2, <3>1
    <2> HIDE DEF q
    <2>4. IsFiniteSet(CutPlaces(s)) /\ Cardinality(CutPlaces(s)) <= Cardinality(q)
      BY <2>1, <2>3, FS_Subset
    <2>5. Cardinality(CutPlaces(s)) \in Nat
      BY CutsType
    <2> QED
      BY <2>3, <2>4, <2>5 DEF AtMostCut
  <1> QED
    BY <1>4, <1>5, <1>6 DEF Remembers

(* What is decided next is remembered behind everything else. *)
LEMMA RemembersNext ==
  ASSUME NEW e \in Seq(Nat), NEW endings, NEW upto \in Nat, NEW cuts \in Nat,
         Remembers(e, endings, upto, cuts), NEW c \in Nat, c # CutOff,
         \A n \in 1..upto : endings[n].cycle < c,
         NEW more, SameUpto(more, endings, upto),
         more[upto + 1] = [cycle |-> c, outcome |-> "decided"]
  PROVE  Remembers(Append(e, c), more, upto + 1, cuts)
  <1> DEFINE a == Append(e, c)
  <1>1. PICK n \in Nat : n = Len(e)
    BY LenProperties
  <1>2. Len(a) = n + 1 /\ (\A i \in 1..n : a[i] = e[i]) /\ a[n + 1] = c
    BY <1>1, AppendAt
  <1> HIDE DEF a
  <1>3. \A i \in 1..(n + 1) : i \in 1..n \/ i = n + 1
    OBVIOUS
  <1>4. ASSUME NEW i \in 1..n, e[i] # CutOff
        PROVE  e[i] < c /\ \E m \in 1..(upto + 1) : more[m] = [cycle |-> e[i], outcome |-> "decided"]
    <2>1. PICK m \in 1..upto : endings[m] = [cycle |-> e[i], outcome |-> "decided"]
      BY <1>1, <1>4 DEF Remembers, DecidedIn
    <2>2. m \in 1..(upto + 1) /\ more[m] = endings[m]
      BY DEF SameUpto
    <2>3. endings[m].cycle = e[i] /\ endings[m].cycle < c
      BY <2>1
    <2> QED
      BY <2>1, <2>2, <2>3
  <1>5. Ordered(a)
    <2> SUFFICES ASSUME NEW i \in 1..(n + 1), NEW j \in 1..(n + 1),
                        a[i] # CutOff, a[j] # CutOff, i < j
                 PROVE  a[i] < a[j]
      BY <1>2 DEF Ordered
    <2>1. i \in 1..n
      OBVIOUS
    <2>2. CASE j \in 1..n
      BY <1>1, <1>2, <2>1, <2>2 DEF Remembers, Ordered
    <2>3. CASE j = n + 1
      BY <1>2, <1>4, <2>1, <2>3
    <2> QED
      BY <2>2, <2>3
  <1>6. DecidedIn(a, more, upto + 1)
    <2> SUFFICES ASSUME NEW i \in 1..(n + 1), a[i] # CutOff
                 PROVE  \E m \in 1..(upto + 1) : more[m] = [cycle |-> a[i], outcome |-> "decided"]
      BY <1>2 DEF DecidedIn
    <2>1. CASE i \in 1..n
      BY <1>2, <1>4, <2>1
    <2>2. CASE i = n + 1
      <3>1. upto + 1 \in 1..(upto + 1)
        OBVIOUS
      <3> QED
        BY <1>2, <2>2, <3>1
    <2> QED
      BY <1>3, <2>1, <2>2
  <1>7. CutPlaces(a) = CutPlaces(e)
    BY <1>1, <1>2, <1>3 DEF CutPlaces
  <1>8. AtMostCut(a, cuts)
    BY <1>7 DEF Remembers, AtMostCut
  <1> QED
    BY <1>5, <1>6, <1>8 DEF Remembers, a

(* What was observed and learnt agrees with what is remembered. *)
Counted(m) ==
  /\ m.observations = Len(Entries(m))
  /\ m.counts = ToSet(Entries(m))
  /\ AdaptEvery > 0 =>
       m.impressions = [k \in 1..(m.observations \div AdaptEvery) |-> k * AdaptEvery]

LEMMA Divided ==
  ASSUME NEW a \in Int, a > 0, NEW o \in Nat
  PROVE  /\ o \div a \in Nat
         /\ (o + 1) % a = 0 => (o + 1) \div a = (o \div a) + 1 /\ o + 1 = ((o \div a) + 1) * a
         /\ (o + 1) % a # 0 => (o + 1) \div a = o \div a
  <1>1. o \div a \in Nat /\ (o + 1) \div a \in Nat
    OBVIOUS
  <1>2. o = a * (o \div a) + (o % a) /\ o % a \in 0..(a - 1)
    OBVIOUS
  <1>3. o + 1 = a * ((o + 1) \div a) + ((o + 1) % a) /\ (o + 1) % a \in 0..(a - 1)
    OBVIOUS
  <1>4. CASE (o % a) + 1 = a
    <2>1. o + 1 = ((o \div a) + 1) * a
      BY <1>1, <1>2, <1>4
    <2>2. (o + 1) \div a = (o \div a) + 1 /\ (o + 1) % a = 0
      BY <1>1, <2>1
    <2> QED
      BY <1>1, <2>1, <2>2
  <1>5. CASE (o % a) + 1 < a
    <2>1. (o + 1) \div a = o \div a /\ (o + 1) % a # 0
      BY <1>1, <1>2, <1>5
    <2> QED
      BY <1>1, <2>1
  <1> QED
    BY <1>2, <1>4, <1>5

LEMMA ToSetAppend ==
  ASSUME NEW e \in Seq(Nat), NEW c \in Nat
  PROVE  ToSet(Append(e, c)) = ToSet(e) \cup {c}
  <1> DEFINE a == Append(e, c)
  <1>1. PICK n \in Nat : n = Len(e)
    BY LenProperties
  <1>2. Len(a) = n + 1 /\ (\A i \in 1..n : a[i] = e[i]) /\ a[n + 1] = c
    BY <1>1, AppendAt
  <1> HIDE DEF a
  <1>3. ASSUME NEW x \in ToSet(a) PROVE x \in ToSet(e) \cup {c}
    <2>1. PICK i \in 1..(n + 1) : x = a[i]
      BY <1>2 DEF ToSet
    <2>2. CASE i \in 1..n
      BY <1>1, <1>2, <2>1, <2>2 DEF ToSet
    <2>3. CASE i = n + 1
      BY <1>2, <2>1, <2>3
    <2> QED
      BY <2>2, <2>3
  <1>4. ASSUME NEW x \in ToSet(e) \cup {c} PROVE x \in ToSet(a)
    <2>1. CASE x = c
      <3>1. n + 1 \in 1..(n + 1)
        OBVIOUS
      <3> QED
        BY <1>2, <2>1, <3>1 DEF ToSet
    <2>2. CASE x \in ToSet(e)
      <3>1. PICK i \in 1..n : x = e[i]
        BY <1>1, <2>2 DEF ToSet
      <3>2. i \in 1..(n + 1) /\ x = a[i]
        BY <1>2, <3>1
      <3> QED
        BY <1>2, <3>2 DEF ToSet
    <2> QED
      BY <2>1, <2>2
  <1>5. ToSet(a) = ToSet(e) \cup {c}
    BY <1>3, <1>4
  <1> QED
    BY <1>5 DEF a

(* A decision is the last entry of what is remembered after it, and counts.  *)
LEMMA DecisionRemembered ==
  ASSUME NEW m \in Memories, NEW c \in Nat, NEW r,
         r = Adapt(ObserveEntry(Remember(m, c), c))
  PROVE  Entries(r) = Append(Entries(m), c) /\ (Counted(m) => Counted(r))
  <1> DEFINE m1 == [m EXCEPT !.working = Append(@, c)]
             m2 == Compress(m1)
             m3 == [m2 EXCEPT !.observations = @ + 1, !.counts = @ \cup {c}]
             f == FlattenSeq(m.compressed)
             e == Entries(m)
             a == Append(e, c)
  <1>1. /\ m \in Layers /\ IsFiniteSet(m.counts) /\ m.working \in Seq(Nat) /\ f \in Seq(Nat)
        /\ e \in Seq(Nat)
    BY EntriesType DEF Memories
  <1>2. /\ m1 \in Memories /\ m1.compressed = m.compressed /\ m1.working = Append(m.working, c)
        /\ m1.observations = m.observations /\ m1.counts = m.counts
        /\ m1.impressions = m.impressions
    <2>1. Append(m.working, c) \in Seq(Nat)
      BY <1>1, AppendProperties
    <2> QED
      BY <1>1, <2>1 DEF Memories, Layers
  <1>3. Entries(m1) = a
    <2>1. <<c>> \in Seq(Nat) /\ Append(m.working, c) = m.working \o <<c>>
      BY <1>1, AppendIsConcat
    <2>2. f \o (m.working \o <<c>>) = (f \o m.working) \o <<c>>
      BY <1>1, <2>1, ConcatTwice
    <2>3. Append(e, c) = e \o <<c>>
      BY <1>1, AppendIsConcat
    <2> QED
      BY <1>2, <2>1, <2>2, <2>3 DEF Entries
  <1>4. a \in Seq(Nat) /\ Len(a) = Len(e) + 1 /\ Len(e) \in Nat
    BY <1>1, AppendProperties, LenProperties
  <1>5. ToSet(a) = ToSet(e) \cup {c}
    BY <1>1, ToSetAppend
  <1> HIDE DEF m1, a, e
  <1>6. /\ m2 \in Memories /\ Entries(m2) = a /\ m2.observations = m.observations
        /\ m2.counts = m.counts /\ m2.impressions = m.impressions
    BY <1>2, <1>3, CompressKeeps
  <1> HIDE DEF m2
  <1>7. /\ m3.compressed = m2.compressed /\ m3.working = m2.working
        /\ m3.observations = m.observations + 1 /\ m3.counts = m.counts \cup {c}
        /\ m3.impressions = m.impressions /\ m3 \in Layers
        /\ m.observations \in Nat /\ m.impressions \in Seq(Nat)
    <2>1. m2 \in Layers /\ m.observations \in Nat /\ m.impressions \in Seq(Nat)
      BY <1>1, <1>6 DEF Memories, Layers
    <2>2. m2.counts \cup {c} \subseteq Nat
      BY <2>1 DEF Layers
    <2>3. m2.observations + 1 \in Nat
      BY <2>1 DEF Layers
    <2> QED
      BY <1>6, <2>1, <2>2, <2>3 DEF Layers
  <1>8. r = Adapt(m3)
    BY DEF Remember, ObserveEntry, m1, m2, m3
  <1>9. Entries(m3) = a
    BY <1>6, <1>7 DEF Entries
  <1> HIDE DEF m3
  <1> DEFINE o == m.observations + 1
  <1>10. r = IF AdaptEvery > 0 /\ o % AdaptEvery = 0
             THEN [m3 EXCEPT !.impressions = Append(@, o)] ELSE m3
    <2>1. o > 0
      BY <1>7
    <2>2. m3.counts # {}
      BY <1>7
    <2> QED
      BY <1>7, <1>8, <2>1, <2>2 DEF Adapt, LearnFrom
  <1>11. /\ r.compressed = m3.compressed /\ r.working = m3.working /\ r.observations = o
         /\ r.counts = m.counts \cup {c}
         /\ r.impressions = IF AdaptEvery > 0 /\ o % AdaptEvery = 0
                            THEN Append(m.impressions, o) ELSE m.impressions
    BY <1>7, <1>10 DEF Layers
  <1>12. Entries(r) = a
    BY <1>9, <1>11 DEF Entries
  <1>13. ASSUME Counted(m) PROVE Counted(r)
    <2>1. r.observations = Len(Entries(r))
      BY <1>4, <1>11, <1>12, <1>13 DEF Counted, e
    <2>2. r.counts = ToSet(Entries(r))
      BY <1>5, <1>11, <1>12, <1>13 DEF Counted, e
    <2>3. ASSUME AdaptEvery > 0
          PROVE  r.impressions = [k \in 1..(o \div AdaptEvery) |-> k * AdaptEvery]
      <3>1. PICK h \in Nat : h = m.observations \div AdaptEvery
        BY <1>7, <2>3, MemoryAssumption, Divided
      <3>2. m.impressions = [k \in 1..h |-> k * AdaptEvery]
        BY <1>13, <2>3, <3>1 DEF Counted
      <3>3. CASE o % AdaptEvery = 0
        <4>1. o \div AdaptEvery = h + 1 /\ o = (h + 1) * AdaptEvery
          BY <1>7, <2>3, <3>1, <3>3, MemoryAssumption, Divided
        <4>2. r.impressions = Append(m.impressions, o)
          BY <1>11, <2>3, <3>3
        <4> DEFINE x == m.impressions
                   y == [k \in 1..(h + 1) |-> k * AdaptEvery]
        <4>3. x \in Seq(Nat) /\ o \in Nat /\ Len(x) = h /\ \A k \in 1..h : x[k] = k * AdaptEvery
          BY <1>7, <3>2
        <4> HIDE DEF x, o
        <4>4. /\ Append(x, o) \in Seq(Nat) /\ Len(Append(x, o)) = h + 1
              /\ \A k \in 1..h : Append(x, o)[k] = x[k]
              /\ Append(x, o)[h + 1] = o
          BY <4>3, AppendAt
        <4>5. Append(x, o) = y
          <5>1. \A k \in 1..(h + 1) : k \in 1..h \/ k = h + 1
            OBVIOUS
          <5>2. \A k \in 1..(h + 1) : Append(x, o)[k] = y[k]
            BY <4>1, <4>3, <4>4, <5>1
          <5>3. y \in Seq(Int) /\ Append(x, o) \in Seq(Int) /\ Len(y) = h + 1
            <6>1. \A k \in 1..(h + 1) : k * AdaptEvery \in Int
              BY MemoryAssumption
            <6> QED
              BY <4>4, <6>1
          <5> QED
            BY <4>4, <5>2, <5>3, SeqEqual
        <4> QED
          BY <4>1, <4>2, <4>5 DEF x
      <3>4. CASE o % AdaptEvery # 0
        <4>1. o \div AdaptEvery = h
          BY <1>7, <2>3, <3>1, <3>4, MemoryAssumption, Divided
        <4> QED
          BY <1>11, <3>2, <3>4, <4>1
      <3> QED
        BY <3>3, <3>4
    <2> QED
      BY <1>11, <2>1, <2>2, <2>3 DEF Counted
  <1> QED
    BY <1>12, <1>13 DEF a, e

LEMMA CountedFresh == Entries(Fresh) \in Seq(Nat) /\ Len(Entries(Fresh)) = 0 /\ Counted(Fresh)
  <1>1. /\ Fresh.compressed = <<>> /\ Fresh.working = <<>> /\ Fresh.observations = 0
        /\ Fresh.counts = {} /\ Fresh.impressions = <<>>
    BY DEF Fresh
  <1>2. FlattenSeq(<<>>) = <<>>
    BY EmptySeq DEF FlattenSeq
  <1>3. Entries(Fresh) = <<>>
    BY <1>1, <1>2, EmptySeq, ConcatEmptySeq DEF Entries
  <1>4. ToSet(<<>>) = {} /\ Len(<<>>) = 0
    BY EmptySeq DEF ToSet
  <1>5. ASSUME AdaptEvery > 0 PROVE <<>> = [k \in 1..(0 \div AdaptEvery) |-> k * AdaptEvery]
    <2>1. 0 \div AdaptEvery = 0
      BY <1>5, MemoryAssumption
    <2> QED
      BY <2>1
  <1> QED
    BY <1>1, <1>3, <1>4, <1>5, EmptySeq DEF Counted

(* Only a session in markdown can be cut. *)
Cuts(n) == IF asMd THEN n ELSE 0

(* The cycles whose outcome a death of the process does not change any more. *)
Settled == IF cyc.phase = "usage" THEN Len(ended) - 1 ELSE Len(ended)

(* What is remembered was decided, and what a new session would restore was  *)
(* decided in cycles that are settled, cut at most once more.              *)
Faithful ==
  /\ crashes \in Nat
  /\ cyc.phase = "stages" => log.cycleNo > 0
  /\ Remembers(Entries(mem), ended, Len(ended), Cuts(crashes))
  /\ Remembers(Entries(Restore(store)), ended, Settled, Cuts(crashes + 1))
  /\ ~asMd \/ crashes = 0 => Counted(mem)
  /\ ~asMd => Counted(Restore(store))

LEMMA FaithfulFacts ==
  ASSUME CycleIInv, Warm, Faithful
  PROVE  /\ asMd \in BOOLEAN /\ mem \in Memories /\ Restore(store) \in Memories
         /\ Entries(mem) \in Seq(Nat) /\ Len(Entries(mem)) \in Nat
         /\ Entries(Restore(store)) \in Seq(Nat) /\ Len(Entries(Restore(store))) \in Nat
         /\ Len(ended) \in Nat /\ Settled \in Int /\ Settled <= Len(ended)
         /\ crashes \in Nat /\ Cuts(crashes) \in Nat /\ Cuts(crashes + 1) \in Nat
         /\ Cuts(crashes) <= Cuts(crashes + 1)
         /\ ended \in Seq(Ending) /\ cyc \in CycType /\ LogOK(log)
  <1>1. asMd \in BOOLEAN /\ mem \in Memories /\ store \in [present : BOOLEAN, text : Texts(asMd)]
    BY DEF Warm, StoreTypes
  <1>2. Restore(store) \in Memories
    BY <1>1, RestoreType
  <1>3. ended \in Seq(Ending) /\ cyc \in CycType /\ LogOK(log)
    BY IInvParts DEF Types, Ending, CycType
  <1>4. Len(ended) \in Nat
    BY <1>3, LenProperties
  <1>5. Settled \in Int /\ Settled <= Len(ended)
    BY <1>4 DEF Settled
  <1>6. crashes \in Nat
    BY DEF Faithful
  <1>7. Cuts(crashes) \in Nat /\ Cuts(crashes + 1) \in Nat /\ Cuts(crashes) <= Cuts(crashes + 1)
    BY <1>6 DEF Cuts
  <1>8. /\ Entries(mem) \in Seq(Nat) /\ Len(Entries(mem)) \in Nat
        /\ Entries(Restore(store)) \in Seq(Nat) /\ Len(Entries(Restore(store))) \in Nat
    BY <1>1, <1>2, EntriesType
  <1> QED
    BY <1>1, <1>2, <1>3, <1>4, <1>5, <1>6, <1>7, <1>8

(* A step that leaves memory and store alone. *)
LEMMA FaithfulRests ==
  ASSUME CycleIInv, Warm, Faithful, UNCHANGED <<mem, store, asMd, crashes>>,
         SameUpto(ended', ended, Len(ended)), Len(ended') \in Nat, Len(ended) <= Len(ended'),
         Settled' \in Int, Settled <= Settled',
         cyc'.phase = "stages" => log'.cycleNo > 0
  PROVE  Faithful'
  <1> DEFINE e == Entries(mem)
             r == Entries(Restore(store))
             c == Cuts(crashes)
             d == Cuts(crashes + 1)
  <1>1. /\ Len(e) \in Nat /\ Len(r) \in Nat /\ Len(ended) \in Nat /\ Settled \in Int
        /\ Settled <= Len(ended) /\ c \in Nat /\ d \in Nat /\ c <= c /\ d <= d
    BY FaithfulFacts
  <1>2. Restore(store)' = Restore(store)
    BY DEF Restore, Fresh, restoreMarkdown, restoreJSON
  <1>3. Cuts(crashes)' = c /\ Cuts(crashes + 1)' = d
    BY DEF Cuts
  <1>4. Entries(mem)' = e /\ Entries(Restore(store))' = r
    BY <1>2
  <1>5. SameUpto(ended', ended, Settled)
    BY <1>1 DEF SameUpto
  <1>6. Remembers(e, ended, Len(ended), c) /\ Remembers(r, ended, Settled, d)
    BY DEF Faithful
  <1> HIDE DEF e, r, c, d
  <1>7. Remembers(e, ended', Len(ended'), c)
    BY <1>1, <1>6, RemembersLater
  <1>8. Remembers(r, ended', Settled', d)
    BY <1>1, <1>5, <1>6, RemembersLater
  <1>9. Remembers(Entries(mem), ended, Len(ended), Cuts(crashes))'
    BY <1>3, <1>4, <1>7
  <1>10. Remembers(Entries(Restore(store)), ended, Settled, Cuts(crashes + 1))'
    BY <1>3, <1>4, <1>8
  <1>11. (~asMd \/ crashes = 0 => Counted(mem))' /\ (~asMd => Counted(Restore(store)))'
    BY <1>2 DEF Faithful
  <1> QED
    BY <1>9, <1>10, <1>11 DEF Faithful

LEMMA EndedAppend ==
  ASSUME NEW s \in Seq(Ending), NEW t, NEW c, NEW outcome,
         t = Append(s, [cycle |-> c, outcome |-> outcome])
  PROVE  /\ Len(t) = Len(s) + 1 /\ SameUpto(t, s, Len(s))
         /\ t[Len(s) + 1] = [cycle |-> c, outcome |-> outcome]
  BY AppendProperties DEF SameUpto

(* A cycle in its stages, up to its decision. *)
LEMMA FaithfulStages ==
  ASSUME CycleIInv, Warm, Faithful, UNCHANGED <<mem, store, asMd, crashes>>, cyc.phase = "stages",
         log'.cycleNo = log.cycleNo,
         \/ cyc'.phase = "stages" /\ ended' = ended
         \/ /\ cyc'.phase = "usage"
            /\ \E outcome :
                 ended' = Append(ended, [cycle |-> log.cycleNo, outcome |-> outcome])
  PROVE  Faithful'
  <1>1. ended \in Seq(Ending) /\ LogOK(log) /\ log.cycleNo > 0
    BY FaithfulFacts DEF Faithful
  <1>2. PICK n \in Nat : n = Len(ended)
    BY <1>1, LenProperties
  <1>3. Settled = n
    BY <1>2 DEF Settled
  <1>4. CASE cyc'.phase = "stages" /\ ended' = ended
    <2>1. Settled' = n
      BY <1>2, <1>4 DEF Settled
    <2>2. SameUpto(ended', ended, n) /\ Len(ended') = n
      BY <1>2, <1>4 DEF SameUpto
    <2> QED
      BY <1>1, <1>2, <1>3, <2>1, <2>2, FaithfulRests
  <1>5. CASE /\ cyc'.phase = "usage"
             /\ \E outcome :
                  ended' = Append(ended, [cycle |-> log.cycleNo, outcome |-> outcome])
    <2>1. PICK outcome :
            ended' = Append(ended, [cycle |-> log.cycleNo, outcome |-> outcome])
      BY <1>5
    <2>2. Len(ended') = n + 1 /\ SameUpto(ended', ended, n)
      BY <1>1, <1>2, <2>1, EndedAppend DEF LogOK
    <2>3. Settled' = n
      BY <1>5, <2>2 DEF Settled
    <2> QED
      BY <1>2, <1>3, <1>5, <2>2, <2>3, FaithfulRests
  <1> QED
    BY <1>4, <1>5

LEMMA ReasonFaithful ==
  ASSUME CycleIInv, Warm, Faithful, NEW a \in Approval, NEW claim \in Claim, Reason(a, claim)
  PROVE  Faithful'
  <1>1. UNCHANGED <<mem, store, asMd, crashes>> /\ cyc.phase = "none"
    BY DEF Reason, Unstored, faultVars
  <1>2. log'.cycleNo = log.cycleNo + 1 /\ BeginCycle(log, clock).cycleNo = log.cycleNo + 1
    BY ReasonRecords
  <1>3. ended \in Seq(Ending) /\ log.cycleNo \in Nat /\ log.cycleNo + 1 \in Nat
    BY FaithfulFacts DEF LogOK
  <1>4. PICK n \in Nat : n = Len(ended)
    BY <1>3, LenProperties
  <1>5. Settled = n
    BY <1>1, <1>4 DEF Settled
  <1>6. \/ cyc'.phase = "stages" /\ ended' = ended
        \/ /\ cyc'.phase = "usage"
           /\ ended' = Append(ended, [cycle |-> log.cycleNo + 1, outcome |-> "blocked"])
    BY <1>2, NoCycleOK DEF Reason, CycType
  <1>7. CASE cyc'.phase = "stages" /\ ended' = ended
    <2>1. Settled' = n
      BY <1>4, <1>7 DEF Settled
    <2>2. SameUpto(ended', ended, n) /\ Len(ended') = n
      BY <1>4, <1>7 DEF SameUpto
    <2>3. log'.cycleNo > 0
      BY <1>2, <1>3
    <2> QED
      BY <1>1, <1>4, <1>5, <2>1, <2>2, <2>3, FaithfulRests
  <1>8. CASE /\ cyc'.phase = "usage"
             /\ ended' = Append(ended, [cycle |-> log.cycleNo + 1, outcome |-> "blocked"])
    <2>1. PICK c \in Nat : c = log.cycleNo + 1
      BY <1>3
    <2>2. Len(ended') = n + 1 /\ SameUpto(ended', ended, n)
      <3>1. ended' = Append(ended, [cycle |-> c, outcome |-> "blocked"])
        BY <1>8, <2>1 DEF Outcomes
      <3> QED
        BY <1>3, <1>4, <3>1, EndedAppend
    <2>3. Settled' = n
      BY <1>8, <2>2 DEF Settled
    <2> QED
      BY <1>1, <1>4, <1>5, <1>8, <2>2, <2>3, FaithfulRests
  <1> QED
    BY <1>6, <1>7, <1>8

LEMMA MemoryStageFaithful ==
  ASSUME CycleIInv, Warm, Faithful, MemoryStage
  PROVE  Faithful'
  <1> DEFINE e == Entries(mem)
             r == Entries(Restore(store))
  <1>1. /\ cyc.phase = "stages" /\ UNCHANGED <<store, asMd, crashes>>
        /\ mem' = Adapt(ObserveEntry(Remember(mem, log.cycleNo), log.cycleNo))
        /\ cyc' = [cyc EXCEPT !.phase = "usage"]
        /\ ended' = Append(ended, [cycle |-> log.cycleNo, outcome |-> "decided"])
    BY DEF MemoryStage, Running, Returns, faultVars
  <1>2. /\ mem \in Memories /\ e \in Seq(Nat) /\ Len(r) \in Nat /\ Len(e) \in Nat
        /\ ended \in Seq(Ending) /\ cyc \in CycType /\ LogOK(log)
        /\ Cuts(crashes) \in Nat /\ Cuts(crashes + 1) \in Nat /\ crashes \in Nat
    BY FaithfulFacts
  <1>3. PICK c \in Nat : c = log.cycleNo /\ c # CutOff
    BY <1>1, <1>2 DEF LogOK, CutOff, Faithful
  <1>4. PICK n \in Nat : n = Len(ended)
    BY <1>2, LenProperties
  <1>5. \A i \in 1..n : ended[i].cycle < c
    BY <1>1, <1>3, <1>4, IInvParts DEF Numbering
  <1>6. /\ Len(ended') = n + 1 /\ SameUpto(ended', ended, n)
        /\ ended'[n + 1] = [cycle |-> c, outcome |-> "decided"]
    <2> DEFINE x == [cycle |-> c, outcome |-> "decided"]
    <2>1. ended' = Append(ended, x)
      BY <1>1, <1>3
    <2> HIDE DEF x
    <2>2. /\ Len(ended') = n + 1 /\ ended'[n + 1] = x
          /\ \A i \in 1..n : ended'[i] = ended[i]
      BY <1>2, <1>4, <2>1, AppendProperties
    <2> QED
      BY <2>2 DEF x, SameUpto
  <1>7. Settled = n /\ Settled' = n /\ cyc'.phase = "usage"
    <2>1. cyc'.phase = "usage"
      BY <1>1, <1>2 DEF CycType
    <2> QED
      BY <1>1, <1>4, <1>6, <2>1 DEF Settled
  <1>8. Entries(mem') = Append(e, c) /\ (Counted(mem) => Counted(mem'))
    BY <1>1, <1>2, <1>3, DecisionRemembered
  <1>9. Restore(store)' = Restore(store) /\ Cuts(crashes)' = Cuts(crashes)
        /\ Cuts(crashes + 1)' = Cuts(crashes + 1)
    BY <1>1 DEF Restore, Fresh, restoreMarkdown, restoreJSON, Cuts
  <1>10. Remembers(e, ended, n, Cuts(crashes)) /\ Remembers(r, ended, n, Cuts(crashes + 1))
    BY <1>4, <1>7 DEF Faithful
  <1> HIDE DEF e
  <1>11. Remembers(Append(e, c), ended', n + 1, Cuts(crashes))
    BY <1>2, <1>3, <1>5, <1>6, <1>10, RemembersNext
  <1> HIDE DEF r
  <1>12. Remembers(r, ended', n, Cuts(crashes + 1))
    <2>1. n \in Int /\ n <= n /\ Cuts(crashes + 1) <= Cuts(crashes + 1)
      BY <1>2
    <2> QED
      BY <1>2, <1>6, <1>10, <2>1, RemembersLater
  <1>13. Remembers(Entries(mem), ended, Len(ended), Cuts(crashes))'
    BY <1>6, <1>8, <1>9, <1>11
  <1>14. Remembers(Entries(Restore(store)), ended, Settled, Cuts(crashes + 1))'
    BY <1>7, <1>9, <1>12 DEF r
  <1>15. (~asMd \/ crashes = 0 => Counted(mem))'
    BY <1>1, <1>8 DEF Faithful
  <1>16. (~asMd => Counted(Restore(store)))'
    BY <1>1, <1>9 DEF Faithful
  <1> QED
    BY <1>1, <1>2, <1>7, <1>13, <1>14, <1>15, <1>16 DEF Faithful

LEMMA RecordsFaithful ==
  ASSUME CycleIInv, Warm, Faithful, UNCHANGED <<mem, store, asMd, crashes>>, cyc.phase = "stages",
         NEW steps, NEW k, StageRecords(steps, k)
  PROVE  Faithful'
  BY FaithfulStages DEF StageRecords

(* What follows a cycle but for the session store, and time. *)
LEMMA TailFaithful ==
  ASSUME CycleIInv, Warm, Faithful, UNCHANGED <<mem, store, asMd, crashes, ended>>,
         cyc'.phase # "stages", cyc'.phase = "usage" => cyc.phase = "usage"
  PROVE  Faithful'
  <1>1. PICK n \in Nat : n = Len(ended)
    BY FaithfulFacts
  <1>2. Settled \in Int /\ Settled' \in Int /\ Settled <= Settled'
    BY <1>1 DEF Settled
  <1>3. SameUpto(ended', ended, n) /\ Len(ended') = n
    BY <1>1 DEF SameUpto
  <1> QED
    BY <1>1, <1>2, <1>3, FaithfulRests

LEMMA SavesFaithful ==
  ASSUME CycleIInv, Warm, Faithful, SaveBegins \/ SaveEnds
  PROVE  Faithful'
  <1> DEFINE e == Entries(mem)
  <1>1. /\ asMd \in BOOLEAN /\ mem \in Memories /\ Len(e) \in Nat
        /\ Len(ended) \in Nat /\ crashes \in Nat /\ cyc \in CycType
        /\ Cuts(crashes) \in Nat /\ Cuts(crashes + 1) \in Nat /\ Cuts(crashes) <= Cuts(crashes + 1)
    BY FaithfulFacts
  <1>2. UNCHANGED <<mem, asMd, crashes, ended, log>>
    BY DEF SaveBegins, SaveEnds, faultVars
  <1>3. cyc'.phase \in {"saving", "none"}
    BY <1>1, NoCycleOK DEF SaveBegins, SaveEnds, CycType
  <1>4. Settled' = Len(ended)
    BY <1>2, <1>3 DEF Settled
  <1>5. Remembers(e, ended, Len(ended), Cuts(crashes))
    BY DEF Faithful
  <1>6. Cuts(crashes)' = Cuts(crashes) /\ Cuts(crashes + 1)' = Cuts(crashes + 1)
    BY <1>2 DEF Cuts
  <1>7. Remembers(Entries(mem), ended, Len(ended), Cuts(crashes))'
    BY <1>2, <1>5, <1>6
  <1>8. (~asMd \/ crashes = 0 => Counted(mem))'
    BY <1>2 DEF Faithful
  <1>9. /\ Remembers(Entries(Restore(store')), ended, Len(ended), Cuts(crashes + 1))
        /\ ~asMd => Counted(Restore(store'))
    <2>1. CASE SaveEnds
      <3>1. store' = [store EXCEPT !.text = Rendered(mem)] /\ store.present
        BY <2>1 DEF SaveEnds, Warm
      <3>2. store'.present /\ store'.text = Rendered(mem)
        BY <3>1 DEF Warm, StoreTypes
      <3>3. Restore(store') = mem
        BY <1>1, <3>2, RestoreRendered
      <3>4. Len(ended) <= Len(ended) /\ Len(ended) \in Int /\ SameUpto(ended, ended, Len(ended))
        BY <1>1 DEF SameUpto
      <3> HIDE DEF e
      <3>5. Remembers(e, ended, Len(ended), Cuts(crashes + 1))
        BY <1>1, <1>5, <3>4, RemembersLater
      <3> QED
        BY <3>3, <3>5 DEF e, Faithful
    <2>2. CASE SaveBegins
      <3>1. PICK t \in Torn(Rendered(mem)) : store' = [present |-> TRUE, text |-> t]
        BY <2>2 DEF SaveBegins
      <3>2. store'.present /\ store'.text = t
        BY <3>1
      <3>3. CASE asMd
        <4>1. t \in Torn(renderMarkdown(mem)) /\ Restore(store') = restoreMarkdown(t)
          BY <3>1, <3>2, <3>3 DEF Rendered, Restore
        <4> DEFINE s == Entries(restoreMarkdown(t))
        <4>2. PICK k \in Nat : Shortens(s, e, k, CutOff)
          <5>1. asMd = TRUE
            BY <1>1, <3>3
          <5> QED
            BY <1>1, <4>1, <5>1, TornEntries
        <4>3. Len(s) \in Nat
          BY <1>1, <4>2 DEF Shortens
        <4>4. Cuts(crashes) + 1 = Cuts(crashes + 1)
          BY <1>1, <3>3 DEF Cuts
        <4> HIDE DEF s, e
        <4>5. Remembers(s, ended, Len(ended), Cuts(crashes) + 1)
          BY <1>1, <1>5, <4>2, <4>3, RemembersTorn
        <4> QED
          BY <3>3, <4>1, <4>4, <4>5 DEF s
      <3>4. CASE ~asMd
        <4>1. t = <<>>
          <5> DEFINE text == <<payload(mem)>>
          <5>1. t \in Torn(text)
            BY <3>1, <3>4 DEF Rendered
          <5>2. Len(text) = 1
            OBVIOUS
          <5> HIDE DEF text
          <5>3. PICK n \in 0..0 : t = SubSeq(text, 1, n)
            BY <3>4, <5>1, <5>2 DEF Torn
          <5>4. n = 0
            OBVIOUS
          <5> QED
            BY <5>3, <5>4
        <4>2. Restore(store') = Fresh
          BY <3>2, <3>4, <4>1 DEF Restore
        <4>3. Len(Entries(Fresh)) = 0 /\ Counted(Fresh)
          BY CountedFresh
        <4>4. Remembers(Entries(Fresh), ended, Len(ended), Cuts(crashes + 1))
          BY <1>1, <4>3, RemembersNothing
        <4> QED
          BY <4>2, <4>3, <4>4
      <3> QED
        BY <3>3, <3>4
    <2> QED
      BY <2>1, <2>2
  <1>10. Restore(store)' = Restore(store')
    BY <1>2 DEF Restore, Fresh, restoreMarkdown, restoreJSON
  <1>11. Remembers(Entries(Restore(store)), ended, Settled, Cuts(crashes + 1))'
    BY <1>2, <1>4, <1>6, <1>9, <1>10
  <1>12. (~asMd => Counted(Restore(store)))'
    BY <1>2, <1>9, <1>10
  <1> QED
    BY <1>1, <1>2, <1>3, <1>7, <1>8, <1>11, <1>12 DEF Faithful

LEMMA CrashFaithful ==
  ASSUME CycleIInv, Warm, Faithful, CrashAndLoad
  PROVE  Faithful'
  <1> DEFINE r == Entries(Restore(store))
             c == crashes + 1
  <1>1. /\ asMd' = asMd /\ store' = store /\ mem' = Restore(store) /\ crashes' = c
        /\ cyc' = NoCycle
        /\ LET crashed == [cycle |-> log.cycleNo, outcome |-> "crashed"]
           IN ended' = CASE cyc.phase = "stages" -> Append(ended, crashed)
                         [] cyc.phase = "usage"  -> Append(Front(ended), crashed)
                         [] OTHER                -> ended
    BY DEF CrashAndLoad
  <1>2. /\ Len(r) \in Nat /\ ended \in Seq(Ending) /\ crashes \in Nat /\ c \in Nat
        /\ Cuts(c) \in Nat /\ Cuts(c + 1) \in Nat /\ Cuts(c) <= Cuts(c + 1) /\ Cuts(c) <= Cuts(c)
        /\ asMd \in BOOLEAN
    <2>1. Len(r) \in Nat /\ ended \in Seq(Ending) /\ crashes \in Nat /\ asMd \in BOOLEAN
      BY FaithfulFacts
    <2> QED
      BY <2>1 DEF Cuts
  <1>3. cyc'.phase = "none"
    BY <1>1, NoCycleOK
  <1>4. PICK n \in Nat : n = Len(ended)
    BY <1>2, LenProperties
  <1>5. Settled \in Int /\ Settled = IF cyc.phase = "usage" THEN n - 1 ELSE n
    BY <1>4 DEF Settled
  <1>6. Len(ended') \in Int /\ Settled <= Len(ended') /\ SameUpto(ended', ended, Settled)
    <2>1. CASE cyc.phase = "stages"
      <3>1. ended' = Append(ended, [cycle |-> log.cycleNo, outcome |-> "crashed"])
        BY <1>1, <2>1
      <3>2. Len(ended') = Len(ended) + 1 /\ SameUpto(ended', ended, Len(ended))
        BY <1>2, <3>1, EndedAppend
      <3> QED
        BY <1>4, <1>5, <2>1, <3>2
    <2>2. CASE cyc.phase = "usage"
      <3> DEFINE f == Front(ended)
      <3>1. ended' = Append(f, [cycle |-> log.cycleNo, outcome |-> "crashed"])
        BY <1>1, <2>2
      <3>2. f \in Seq(Ending) /\ \A i \in 1..Len(f) : f[i] = ended[i]
        BY <1>2, FrontOf
      <3>3. Len(f) = IF 1 <= n - 1 THEN n - 1 ELSE 0
        BY <1>2, <1>4, FrontLength
      <3> HIDE DEF f
      <3>4. Len(ended') = Len(f) + 1 /\ SameUpto(ended', f, Len(f))
        BY <3>1, <3>2, EndedAppend
      <3>5. \A i \in 1..(n - 1) : ended'[i] = ended[i]
        BY <3>2, <3>3, <3>4 DEF SameUpto
      <3> QED
        BY <1>5, <2>2, <3>3, <3>4, <3>5 DEF SameUpto
    <2>3. CASE cyc.phase \notin {"stages", "usage"}
      <3>1. ended' = ended
        BY <1>1, <2>3
      <3> QED
        BY <1>4, <1>5, <2>3, <3>1 DEF SameUpto
    <2> QED
      BY <2>1, <2>2, <2>3
  <1>7. Settled' = Len(ended')
    BY <1>3 DEF Settled
  <1>8. Remembers(r, ended, Settled, Cuts(c))
    BY DEF Faithful
  <1>9. Restore(store)' = Restore(store)
    BY <1>1 DEF Restore, Fresh, restoreMarkdown, restoreJSON
  <1>10. Cuts(crashes)' = Cuts(c) /\ Cuts(crashes + 1)' = Cuts(c + 1)
    BY <1>1 DEF Cuts
  <1> HIDE DEF r
  <1>11. Remembers(r, ended', Len(ended'), Cuts(c)) /\ Remembers(r, ended', Len(ended'), Cuts(c + 1))
    BY <1>2, <1>5, <1>6, <1>8, RemembersLater
  <1>12. Remembers(Entries(mem), ended, Len(ended), Cuts(crashes))'
    BY <1>1, <1>10, <1>11 DEF r
  <1>13. Remembers(Entries(Restore(store)), ended, Settled, Cuts(crashes + 1))'
    BY <1>7, <1>9, <1>10, <1>11 DEF r
  <1>14. (~asMd \/ crashes = 0 => Counted(mem))' /\ (~asMd => Counted(Restore(store)))'
    <2>1. crashes' # 0
      BY <1>1, <1>2
    <2> QED
      BY <1>1, <1>9, <2>1 DEF Faithful
  <1> QED
    BY <1>1, <1>2, <1>3, <1>12, <1>13, <1>14 DEF Faithful

LEMMA FaithfulStep ==
  ASSUME CycleIInv, Warm, Faithful, [CycleNext]_cycleVars
  PROVE  Faithful'
  <1>0. cyc \in CycType
    BY FaithfulFacts
  <1>1. ASSUME NEW a \in Approval, NEW claim \in Claim, Reason(a, claim)
        PROVE  Faithful'
    BY <1>1, ReasonFaithful
  <1>2. CASE StageFails \/ Plan \/ Prepare \/ Elaborate
    <2>1. /\ UNCHANGED <<mem, store, asMd, crashes>> /\ cyc.phase = "stages" /\ log' = log
      BY <1>2 DEF StageFails, Plan, Prepare, Elaborate, Unstored, Running, faultVars
    <2>2. \/ cyc'.phase = "stages" /\ ended' = ended
          \/ /\ cyc'.phase = "usage"
             /\ \E outcome : ended' = Append(ended, [cycle |-> log.cycleNo, outcome |-> outcome])
      <3>1. CASE StageFails
        BY <1>0, <3>1 DEF StageFails, Returns, CycType
      <3>2. CASE Plan
        <4>1. ended' = ended /\ \E order : cyc' = [cyc EXCEPT !.at = @ + 1, !.plan = order]
          BY <3>2 DEF Plan
        <4> QED
          BY <1>0, <2>1, <4>1 DEF CycType
      <3>3. CASE Prepare \/ Elaborate
        BY <1>0, <2>1, <3>3 DEF Prepare, Elaborate, Passes, CycType
      <3> QED
        BY <1>2, <3>1, <3>2, <3>3
    <2> QED
      BY <2>1, <2>2, FaithfulStages
  <1>3. ASSUME NEW j \in Judgements, cyc.phase = "stages", Govern(j)
        PROVE  Faithful'
    <2>1. PICK k \in Nat : \E steps : StageRecords(steps, k)
      BY <1>3, GovernRecords
    <2>2. PICK steps : StageRecords(steps, k)
      BY <2>1
    <2>3. UNCHANGED <<mem, store, asMd, crashes>>
      BY <1>3 DEF Govern, Unstored, faultVars
    <2> QED
      BY <1>3, <2>2, <2>3, RecordsFaithful
  <1>4. CASE Deliberate
    <2>1. UNCHANGED <<mem, store, asMd, crashes>> /\ cyc.phase = "stages"
      BY <1>4 DEF Deliberate, Unstored, Running, faultVars
    <2>2. PICK steps : StageRecords(steps, 1)
      BY <1>4, DeliberateRecords
    <2> QED
      BY <2>1, <2>2, RecordsFaithful
  <1>5. CASE MemoryStage
    BY <1>5, MemoryStageFaithful
  <1>6. CASE RecordUsage \/ ApplyRetention
    <2>1. UNCHANGED <<mem, store, asMd, crashes, ended>>
      BY <1>6 DEF RecordUsage, ApplyRetention, Unstored, faultVars
    <2>2. cyc'.phase \in {"retention", "persist"}
      BY <1>0, <1>6 DEF RecordUsage, ApplyRetention, CycType
    <2> QED
      BY <2>1, <2>2, TailFaithful
  <1>7. CASE SaveBegins \/ SaveEnds
    BY <1>7, SavesFaithful
  <1>8. CASE SaveFails
    <2>1. UNCHANGED <<mem, store, asMd, crashes, ended>> /\ cyc'.phase = "none"
      BY <1>8, NoCycleOK DEF SaveFails
    <2> QED
      BY <2>1, TailFaithful
  <1>9. CASE CrashAndLoad
    BY <1>9, CrashFaithful
  <1>10. CASE TimePasses
    <2>1. UNCHANGED <<mem, store, asMd, crashes, ended, cyc>> /\ cyc.phase \in {"none", "retention"}
      BY <1>10 DEF TimePasses, faultVars
    <2> QED
      BY <2>1, TailFaithful
  <1>11. CASE UNCHANGED cycleVars
    <2>1. UNCHANGED <<mem, store, asMd, crashes, ended, cyc, log>>
      BY <1>11 DEF cycleVars
    <2>2. PICK n \in Nat : n = Len(ended)
      BY FaithfulFacts
    <2>3. Settled \in Int /\ Settled' = Settled
      BY <2>1, <2>2 DEF Settled
    <2>4. SameUpto(ended', ended, n) /\ Len(ended') = n
      BY <2>1, <2>2 DEF SameUpto
    <2>5. cyc'.phase = "stages" => log'.cycleNo > 0
      BY <2>1 DEF Faithful
    <2> QED
      BY <2>1, <2>2, <2>3, <2>4, <2>5, FaithfulRests
  <1> QED
    BY <1>1, <1>2, <1>3, <1>4, <1>5, <1>6, <1>7, <1>8, <1>9, <1>10, <1>11 DEF CycleNext

LEMMA FaithfulInit == CycleInit => Faithful
  <1> SUFFICES ASSUME CycleInit PROVE Faithful
    OBVIOUS
  <1>1. /\ mem = Fresh /\ store = [present |-> FALSE, text |-> <<>>] /\ crashes = 0
        /\ cyc.phase = "none"
    BY NoCycleOK DEF CycleInit
  <1>2. Restore(store) = Fresh
    BY <1>1 DEF Restore
  <1>3. Cuts(crashes) \in Nat /\ Cuts(crashes + 1) \in Nat
    BY <1>1 DEF Cuts
  <1>4. /\ Remembers(Entries(mem), ended, Len(ended), Cuts(crashes))
        /\ Remembers(Entries(Restore(store)), ended, Settled, Cuts(crashes + 1))
    BY <1>1, <1>2, <1>3, CountedFresh, RemembersNothing
  <1> QED
    BY <1>1, <1>2, <1>4, CountedFresh DEF Faithful

(* memory.go:60-96, experience.go, adaptation.go: for every number of        *)
(* cycles, deaths and failed saves, each decision is remembered once, in   *)
(* the order of the cycles and in no summary twice; what is remembered was *)
(* decided; a death in the middle of a save of markdown costs at most one  *)
(* entry its text, and without it every count and impression agrees.       *)
THEOREM DecisionsAreRemembered == CycleSpec => []MemoryFaithful
  <1>1. CycleInit => CycleIInv /\ Warm /\ Faithful
    BY CycleInitHolds, WarmInit, FaithfulInit
  <1>2. CycleIInv /\ Warm /\ Faithful /\ [CycleNext]_cycleVars => (CycleIInv /\ Warm /\ Faithful)'
    BY CycleStepKeeps, WarmStep, FaithfulStep
  <1>3. Faithful => MemoryFaithful
    <2> SUFFICES ASSUME Faithful PROVE MemoryFaithful
      OBVIOUS
    <2> DEFINE entries == Entries(mem)
               cut     == {i \in 1..Len(entries) : entries[i] = CutOff}
               whole   == (1..Len(entries)) \ cut
    <2>1. Remembers(entries, ended, Len(ended), Cuts(crashes))
      BY DEF Faithful
    <2>2. \A i, j \in whole : i < j => entries[i] < entries[j]
      BY <2>1 DEF Remembers, Ordered
    <2>3. \A i \in whole : \E n \in 1..Len(ended) :
            ended[n] = [cycle |-> entries[i], outcome |-> "decided"]
      BY <2>1 DEF Remembers, DecidedIn
    <2>4. Cardinality(cut) <= IF asMd THEN crashes ELSE 0
      BY <2>1 DEF Remembers, AtMostCut, CutPlaces, Cuts
    <2>5. ~asMd \/ crashes = 0 =>
            /\ mem.observations = Len(entries)
            /\ mem.counts = ToSet(entries)
            /\ AdaptEvery > 0 =>
                 mem.impressions = [k \in 1..(mem.observations \div AdaptEvery) |-> k * AdaptEvery]
      BY DEF Faithful, Counted
    <2> HIDE DEF entries
    <2>6. entries = FlattenSeq(mem.compressed) \o mem.working
      BY DEF entries, Entries
    <2> QED
      BY <2>2, <2>3, <2>4, <2>5, <2>6, Zenon DEF MemoryFaithful
  <1> QED
    BY <1>1, <1>2, <1>3, PTL DEF CycleSpec

------------------------------------------------------------------------------
(* The records of the kept cycles, one after the other, are those the trail *)
(* of this session has under their numbers.                                *)
Upto(num, k) == {num[i] : i \in 1..k}

LEMMA ShownInTurn ==
  ASSUME NEW l, LogOK(l), NEW num, WindowBy(l, num), NEW k \in Nat, k + 1 <= Len(num)
  PROVE  Picked(l.trail, Shown(l, Upto(num, k + 1)))
         = Picked(l.trail, Shown(l, Upto(num, k))) \o Picked(l.trail, Shown(l, {num[k + 1]}))
  <1> DEFINE t == l.trail
             p == Shown(l, Upto(num, k))
             q == Shown(l, {num[k + 1]})
  <1>1. t \in Seq(RecordType)
    BY DEF LogOK
  <1>2. Upto(num, k + 1) = Upto(num, k) \cup {num[k + 1]}
    <2>1. \A i : i \in 1..(k + 1) <=> (i \in 1..k \/ i = k + 1)
      OBVIOUS
    <2> QED
      BY <2>1 DEF Upto
  <1>3. Shown(l, Upto(num, k + 1)) = p \cup q
    BY <1>2 DEF Shown
  <1>4. ASSUME NEW i \in 1..Len(t), NEW j \in 1..Len(t), i \in p, j \in q
        PROVE  i < j
    <2>1. Len(num) \in Nat /\ Len(t) \in Nat
      BY <1>1, LenProperties DEF WindowBy
    <2>2. PICK a \in 1..k : t[i].cycle = num[a]
      BY <1>4 DEF Shown, Upto
    <2>3. t[j].cycle = num[k + 1]
      BY <1>4 DEF Shown
    <2>4. num[a] < num[k + 1]
      <3>1. a \in 1..Len(num) /\ k + 1 \in 1..Len(num) /\ a < k + 1
        BY <2>1
      <3> QED
        BY <3>1 DEF WindowBy
    <2>5. t[i].cycle \in Nat /\ t[j].cycle \in Nat
      <3>1. t[i] \in RecordType /\ t[j] \in RecordType
        BY <1>1, ElementOfSeq
      <3> QED
        BY <3>1 DEF RecordType
    <2>6. i # j
      BY <2>2, <2>3, <2>4, <2>5
    <2>7. ~(j < i)
      <3>1. j < i => t[j].cycle <= t[i].cycle
        BY DEF WindowBy
      <3> QED
        BY <2>2, <2>3, <2>4, <2>5, <3>1
    <2> QED
      BY <2>1, <2>6, <2>7
  <1> HIDE DEF p, q
  <1>5. Picked(t, p \cup q) = Picked(t, p) \o Picked(t, q)
    BY <1>1, <1>4, PickedInTurn
  <1> QED
    BY <1>3, <1>5 DEF p, q

LEMMA ShownNothing ==
  ASSUME NEW l, LogOK(l), NEW num
  PROVE  Picked(l.trail, Shown(l, Upto(num, 0))) = <<>>
  <1> DEFINE p == Shown(l, Upto(num, 0))
  <1>1. PICK t \in Nat : t = Len(l.trail)
    BY LenProperties DEF LogOK
  <1>2. Upto(num, 0) = {}
    <2>1. 1..0 = {}
      OBVIOUS
    <2> QED
      BY <2>1 DEF Upto
  <1>3. \A i \in 1..t : i \notin p
    BY <1>2 DEF Shown
  <1>4. t \in 0..t /\ t \in 0..Len(l.trail) /\ Len(l.trail) \in Nat
    BY <1>1
  <1> HIDE DEF p
  <1>5. Picks(l.trail, p)[t] = <<>>
    BY <1>3, <1>4, PicksNone
  <1> QED
    BY <1>1, <1>5 DEF Picked, p

LEMMA WindowRecords ==
  ASSUME NEW l, LogOK(l), NEW num, WindowBy(l, num)
  PROVE  Records(l) = Picked(l.trail, Shown(l, Upto(num, Len(num))))
  <1> DEFINE seqs == [i \in 1..Len(l.cycles) |-> l.cycles[i].records]
             Part(k) == Picked(l.trail, Shown(l, Upto(num, k)))
             Of(k) == Picked(l.trail, Shown(l, {num[k]}))
  <1>1. l.cycles \in Seq(KeptCycle) /\ num \in Seq(Nat) /\ Len(num) = Len(l.cycles)
    BY DEF WindowBy
  <1>2. PICK n \in Nat : n = Len(num)
    BY <1>1, LenProperties
  <1>3. /\ seqs \in Seq(Seq(RecordType)) /\ Len(seqs) = n
        /\ \A i \in 1..n : seqs[i] = Of(i)
    <2>1. \A i \in 1..n : l.cycles[i].records \in Seq(RecordType)
      <3>1. \A i \in 1..n : l.cycles[i] \in KeptCycle
        BY <1>1, <1>2, ElementOfSeq
      <3> QED
        BY <3>1 DEF KeptCycle
    <2>2. \A i \in 1..n : l.cycles[i].records = Of(i)
      BY <1>2 DEF WindowBy
    <2> HIDE DEF Of
    <2> QED
      BY <1>1, <1>2, <2>1, <2>2, IsASeq, LenProperties
  <1>4. Records(l) = FlattenSeq(seqs)
    BY DEF Records
  <1>5. Part(0) = <<>>
    BY ShownNothing
  <1>6. ASSUME NEW k \in Nat, k + 1 <= n
        PROVE  Part(k + 1) = Part(k) \o Of(k + 1)
    <2>1. k + 1 <= Len(num)
      BY <1>2, <1>6
    <2>2. Picked(l.trail, Shown(l, Upto(num, k + 1)))
          = Picked(l.trail, Shown(l, Upto(num, k))) \o Picked(l.trail, Shown(l, {num[k + 1]}))
      BY <1>6, <2>1, ShownInTurn
    <2> QED
      BY <2>2
  <1>7. ASSUME NEW k \in Nat, k + 1 <= n
        PROVE  Of(k + 1) \in Seq(RecordType)
    BY PickedType DEF LogOK
  <1> HIDE DEF seqs, Part, Of
  <1>8. CASE n = 0
    <2>1. FlattenSeq(seqs) = seqs
      BY <1>3, <1>8 DEF FlattenSeq
    <2>2. seqs = <<>>
      BY <1>3, <1>8, EmptySeq
    <2> QED
      BY <1>2, <1>4, <1>5, <1>8, <2>1, <2>2 DEF Part
  <1>9. CASE n # 0
    <2>1. PICK f : Flattens(f, seqs, n) /\ FlattenSeq(seqs) = f[n]
      <3>1. Len(seqs) \in Nat /\ Len(seqs) # 0
        BY <1>3, <1>9
      <3>2. \E f : Flattens(f, seqs, Len(seqs)) /\ FlattenSeq(seqs) = f[Len(seqs)]
        BY <3>1, FlattenSeqUnfolds
      <3> QED
        BY <1>3, <3>2
    <2> DEFINE Good(k) == f[k] = Part(k)
               S == {k \in Nat : k + 1 <= n => Good(k + 1)}
    <2>2. \A k \in Nat : k + 1 <= n =>
            f[k + 1] = IF k = 0 THEN Of(k + 1) ELSE f[k] \o Of(k + 1)
      <3> SUFFICES ASSUME NEW k \in Nat, k + 1 <= n
                   PROVE  f[k + 1] = IF k = 0 THEN Of(k + 1) ELSE f[k] \o Of(k + 1)
        OBVIOUS
      <3>1. k + 1 \in 1..n /\ (k + 1) - 1 = k /\ (k + 1 = 1 <=> k = 0)
        OBVIOUS
      <3>2. f[k + 1] = IF k + 1 = 1 THEN seqs[k + 1] ELSE f[(k + 1) - 1] \o seqs[k + 1]
        BY <2>1, <3>1 DEF Flattens
      <3> QED
        BY <1>3, <3>1, <3>2
    <2>3. 0 \in S
      <3>1. 0 + 1 <= n
        BY <1>9
      <3>2. Of(0 + 1) \in Seq(RecordType)
        BY <1>7, <3>1
      <3>3. <<>> \o Of(0 + 1) = Of(0 + 1)
        BY <3>2, ConcatEmptySeq
      <3> QED
        BY <1>5, <1>6, <2>2, <3>1, <3>3
    <2>4. ASSUME NEW k \in Nat, k \in S PROVE k + 1 \in S
      <3> SUFFICES ASSUME k + 2 <= n PROVE Good(k + 2)
        OBVIOUS
      <3>1. (k + 1) + 1 = k + 2 /\ k + 1 \in Nat /\ k + 1 <= n /\ k + 1 # 0
        OBVIOUS
      <3>2. Good(k + 1)
        BY <2>4, <3>1
      <3>3. f[k + 2] = f[k + 1] \o Of(k + 2)
        BY <2>2, <3>1
      <3>4. Part(k + 2) = Part(k + 1) \o Of(k + 2)
        BY <1>6, <3>1
      <3> QED
        BY <3>2, <3>3, <3>4
    <2>5. PICK j \in Nat : j + 1 = n
      <3>1. n - 1 \in Nat /\ (n - 1) + 1 = n
        BY <1>9
      <3> QED
        BY <3>1
    <2> HIDE DEF S
    <2>6. j \in S
      BY <2>3, <2>4, SetInduction
    <2>7. f[n] = Part(n)
      BY <2>5, <2>6 DEF S
    <2> QED
      BY <1>2, <1>4, <2>1, <2>7 DEF Part
  <1> QED
    BY <1>8, <1>9

LEMMA WholeWindow ==
  ASSUME LogOK(log), Window(log)
  PROVE  WindowIsWhole
  <1> DEFINE numbers(c) == {c.records[k].cycle : k \in 1..Len(c.records)}
             kept == UNION {numbers(log.cycles[i]) : i \in 1..Len(log.cycles)}
  <1>1. PICK num : WindowBy(log, num)
    BY DEF Window
  <1>2. /\ log.cycles \in Seq(KeptCycle) /\ num \in Seq(Nat) /\ Len(num) = Len(log.cycles)
        /\ log.trail \in Seq(RecordType)
    BY <1>1 DEF WindowBy, LogOK
  <1>3. PICK n \in Nat : n = Len(num)
    BY <1>2, LenProperties
  <1>4. \A i \in 1..n : num[i] \in Nat
    BY <1>2, <1>3, ElementOfSeq
  <1>5. ASSUME NEW i \in 1..n
        PROVE  numbers(log.cycles[i]) = {num[i]}
    <2> DEFINE p == Shown(log, {num[i]})
               rs == Picked(log.trail, p)
    <2>1. log.cycles[i].records = rs
      BY <1>1, <1>3 DEF WindowBy
    <2>2. Len(rs) > 0
      BY <1>2, <1>3, <2>1 DEF Window, Filled
    <2> HIDE DEF p
    <2>3. PICK at : Chosen(at, log.trail, p, rs, Len(log.trail))
      BY <1>2, PickedPlaces
    <2>4. PICK r \in Nat : r = Len(rs)
      BY <1>2, PickedType
    <2> HIDE DEF rs
    <2>5. ASSUME NEW k \in 1..r PROVE rs[k].cycle = num[i]
      <3>1. at[k] \in p /\ rs[k] = log.trail[at[k]]
        BY <2>3, <2>4 DEF Chosen
      <3> QED
        BY <3>1 DEF p, Shown
    <2>6. 1 \in 1..r
      BY <2>2, <2>4
    <2>7. numbers(log.cycles[i]) = {rs[k].cycle : k \in 1..r}
      BY <2>1, <2>4
    <2> QED
      BY <2>5, <2>6, <2>7
  <1>6. kept = Upto(num, Len(num))
    <2>1. \A x : x \in kept <=> \E i \in 1..n : x \in numbers(log.cycles[i])
      <3> HIDE DEF numbers
      <3>1. Len(log.cycles) = n
        BY <1>2, <1>3
      <3>2. kept = UNION {numbers(log.cycles[i]) : i \in 1..n}
        BY <3>1 DEF kept
      <3> HIDE DEF kept
      <3> QED
        BY <3>2, Zenon
    <2>2. \A x : x \in kept <=> \E i \in 1..n : x = num[i]
      <3> HIDE DEF kept, numbers
      <3> QED
        BY <1>5, <2>1
    <2>3. \A x : x \in Upto(num, Len(num)) <=> \E i \in 1..n : x = num[i]
      BY <1>3 DEF Upto
    <2> HIDE DEF kept
    <2> QED
      BY <2>2, <2>3
  <1> HIDE DEF numbers
  <1>7. \A i \in 1..Len(log.cycles) : Cardinality(numbers(log.cycles[i])) = 1
    BY <1>2, <1>3, <1>5, FS_Singleton
  <1>8. \A i, j \in 1..Len(log.cycles) :
          i < j => Max(numbers(log.cycles[i])) < Max(numbers(log.cycles[j]))
    <2>1. \A i \in 1..n : Max(numbers(log.cycles[i])) = num[i]
      BY <1>4, <1>5, MaxOfOne
    <2> QED
      BY <1>1, <1>2, <1>3, <2>1 DEF WindowBy
  <1> HIDE DEF kept
  <1>9. Records(log) = Picked(log.trail, {i \in (log.since + 1)..Len(log.trail) :
                                            log.trail[i].cycle \in kept})
    BY <1>1, <1>6, WindowRecords DEF Shown
  <1> QED
    BY <1>7, <1>8, <1>9 DEF WindowIsWhole, kept, numbers

(* The next session keeps nothing yet.                                      *)
LEMMA NewWindow ==
  ASSUME NEW l, LogOK(l), Window(l) \/ l.trail = <<>>, NEW m, m.cycles = <<>>, m.current = FALSE,
         m.trail = l.trail, m.since = Len(l.trail), m.cycleNo = l.cycleNo, m.chainTip = 0
  PROVE  Window(m)
  <1> DEFINE none == <<>>
  <1>1. none \in Seq(KeptCycle) /\ none \in Seq(Nat) /\ Len(none) = 0
    BY EmptySeq
  <1>2. \A i \in 1..0 : FALSE
    OBVIOUS
  <1>3. Len(l.trail) \in Nat /\ Len(l.trail) <= Len(l.trail)
    BY LenProperties DEF LogOK
  <1>4. /\ \A i, j \in 1..Len(l.trail) : i < j => l.trail[i].cycle <= l.trail[j].cycle
        /\ \A i \in 1..Len(l.trail) : l.trail[i].cycle <= l.cycleNo
    <2>1. CASE Window(l)
      BY <2>1 DEF Window, WindowBy
    <2>2. CASE l.trail = <<>>
      <3>1. Len(l.trail) = 0
        BY <1>1, <2>2
      <3> QED
        BY <1>2, <3>1
    <2> QED
      BY <2>1, <2>2
  <1>5. m.cycles = none
    OBVIOUS
  <1> HIDE DEF none
  <1>6. Filled(m)
    BY <1>1, <1>2, <1>5 DEF Filled
  <1>7. WindowBy(m, none)
    <2>1. PICK t \in Nat : t = Len(l.trail)
      BY <1>3
    <2>2. t - t = 0 /\ \A i \in (t + 1)..t : FALSE
      OBVIOUS
    <2> QED
      BY <1>1, <1>2, <1>3, <1>4, <1>5, <2>1, <2>2 DEF WindowBy
  <1> QED
    BY <1>6, <1>7 DEF Window

(* The clock counts days, and the log in memory is whole.                   *)
Windowed == clock \in Int /\ Window(log)

LEMMA ReasonKeepsWindow ==
  ASSUME CycleIInv, Windowed, NEW approval \in Approval, NEW claim \in Claim,
         Reason(approval, claim)
  PROVE  Window(log')
  <1> DEFINE begun == BeginCycle(log, clock)
             refusal == Step("tenant", {}, "REFUSED", "claim")
  <1>1. log' = begun \/ log' = Record(begun, refusal)
    BY DEF Reason
  <1>2. LogOK(log) /\ Window(log) /\ clock \in Int
    BY IInvParts DEF Types, Windowed
  <1>3. LogOK(begun) /\ Window(begun)
    BY <1>2, BeginKeepsWindow
  <1>4. refusal \in StepType
    BY DEF Step, StepType, StageNames, OutNames, Authors, Vocabulary
  <1> HIDE DEF begun, refusal
  <1>5. Window(Record(begun, refusal))
    BY <1>3, <1>4, RecordKeepsWindow
  <1> QED
    BY <1>1, <1>3, <1>5

LEMMA GovernKeepsWindow ==
  ASSUME CycleIInv, Windowed, cyc.phase = "stages", NEW judged, Govern(judged)
  PROVE  Window(log')
  <1>1. Types /\ cyc.at \in 1..7 /\ log.current = TRUE
    BY StagesFacts, IInvParts
  <1>2. PICK k \in Nat : \E steps : GovernEffect(steps, k)
    BY <1>1, GovernEffects
  <1>3. PICK steps : Extends(log', log, steps, k)
    BY <1>2 DEF GovernEffect
  <1> QED
    BY <1>3 DEF Extends, Windowed

LEMMA DeliberateKeepsWindow ==
  ASSUME CycleIInv, Windowed, Deliberate
  PROVE  Window(log')
  <1> DEFINE r == Step("deliberation", ToSet(cyc.plan), "decision", "reasoner")
  <1>1. log' = Record(log, r) /\ cyc.phase = "stages"
    BY DEF Deliberate, Running
  <1>2. LogOK(log) /\ cyc \in CycType /\ Window(log)
    BY <1>1, StagesFacts DEF Windowed
  <1>3. ToSet(cyc.plan) \in SUBSET Workflow
    <2>1. cyc.plan \in Seq(Workflow)
      BY <1>2 DEF CycType
    <2> QED
      BY <2>1 DEF ToSet
  <1>4. r \in StepType
    BY <1>3 DEF Step, StepType, StageNames, OutNames, Authors, Vocabulary
  <1> HIDE DEF r
  <1> QED
    BY <1>1, <1>2, <1>4, RecordKeepsWindow

LEMMA TailKeepsWindow ==
  ASSUME CycleIInv, Windowed, RecordUsage \/ ApplyRetention \/ SaveFails
  PROVE  Window(log')
  <1> DEFINE usage == Step("usage", {}, "accounted", "runtime")
             failure == Step("persist", {}, "not saved", "runtime")
             cutoff == clock - RetentionDays
  <1>1. LogOK(log) /\ Window(log)
    BY IInvParts DEF Types, Windowed
  <1>2. usage \in StepType /\ failure \in StepType
    BY DEF Step, StepType, StageNames, OutNames, Authors, Vocabulary
  <1>3. \/ log' = Record(log, usage)
        \/ log' = Record(log, failure)
        \/ log' = Rotate(log, cutoff)
        \/ log' = log
    BY DEF RecordUsage, ApplyRetention, SaveFails
  <1> HIDE DEF usage, failure, cutoff
  <1>4. Window(Record(log, usage)) /\ Window(Record(log, failure))
    BY <1>1, <1>2, RecordKeepsWindow
  <1>5. Window(Rotate(log, cutoff))
    BY <1>1, RotateKeepsWindow
  <1> QED
    BY <1>1, <1>3, <1>4, <1>5

LEMMA ResumedWindow ==
  ASSUME NEW l, LogOK(l), TrailNumbered(l), Window(l)
  PROVE  Window(Resumed(l))
  <1> DEFINE new == NewLog(l.trail)
             m == Resumed(l)
  <1>1. m.trail = l.trail /\ m.cycleNo = l.cycleNo
    BY ResumedOK
  <1>2. m = [new EXCEPT !.cycleNo = IF MaxCycle(l.trail) > @ THEN MaxCycle(l.trail) ELSE @]
    BY DEF Resumed, SeedCycleNumbering
  <1>3. m.cycles = <<>> /\ m.current = FALSE /\ m.since = Len(l.trail) /\ m.chainTip = 0
    BY <1>2 DEF NewLog
  <1> HIDE DEF m
  <1> QED
    BY <1>1, <1>3, NewWindow DEF m

LEMMA WindowedStep ==
  ASSUME CycleIInv, Windowed, [CycleNext]_cycleVars
  PROVE  Windowed'
  <1>1. clock' \in Int
    <2>1. clock' = clock \/ clock' = clock + RetentionDays + 1
      BY DEF CycleNext, Reason, StageFails, Govern, Plan, Prepare, Elaborate, Deliberate, MemoryStage,
             RecordUsage, ApplyRetention, SaveBegins, SaveEnds, SaveFails, CrashAndLoad, TimePasses,
             Unstored, cycleVars
    <2> QED
      BY <2>1, MemoryAssumption DEF Windowed
  <1> SUFFICES Window(log')
    BY <1>1 DEF Windowed
  <1>2. ASSUME NEW a \in Approval, NEW claim \in Claim, Reason(a, claim)
        PROVE  Window(log')
    BY <1>2, ReasonKeepsWindow
  <1>3. ASSUME NEW j \in Judgements, cyc.phase = "stages", Govern(j)
        PROVE  Window(log')
    BY <1>3, GovernKeepsWindow
  <1>4. CASE Deliberate
    BY <1>4, DeliberateKeepsWindow
  <1>5. CASE RecordUsage \/ ApplyRetention \/ SaveFails
    BY <1>5, TailKeepsWindow
  <1>6. CASE CrashAndLoad
    <2>1. log' = Resumed(log)
      BY <1>6 DEF CrashAndLoad
    <2>2. LogOK(log) /\ TrailNumbered(log) /\ Window(log)
      BY IInvParts DEF Types, Numbering, Windowed
    <2> QED
      BY <2>1, <2>2, ResumedWindow
  <1>7. CASE \/ StageFails \/ Plan \/ Prepare \/ Elaborate \/ MemoryStage \/ SaveBegins
             \/ SaveEnds \/ TimePasses \/ UNCHANGED cycleVars
    <2>1. log' = log
      BY <1>7 DEF StageFails, Plan, Prepare, Elaborate, MemoryStage, SaveBegins, SaveEnds,
                  TimePasses, cycleVars
    <2> QED
      BY <2>1 DEF Windowed
  <1> QED
    BY <1>2, <1>3, <1>4, <1>5, <1>6, <1>7 DEF CycleNext

LEMMA WindowedInit == CycleInit => Windowed
  <1> SUFFICES ASSUME CycleInit PROVE Windowed
    OBVIOUS
  <1>1. log = NewLog(<<>>) /\ clock = 0
    BY DEF CycleInit
  <1>2. LogOK(log)
    BY CycleInitHolds, IInvParts DEF Types
  <1>3. /\ log.cycles = <<>> /\ log.current = FALSE /\ log.trail = <<>>
        /\ log.since = Len(log.trail) /\ log.chainTip = 0
    BY <1>1 DEF NewLog
  <1>4. Window(log)
    BY <1>2, <1>3, NewWindow
  <1> QED
    BY <1>1, <1>4 DEF Windowed

(* reasoninglog.go:83-163: after any number of cycles, rotations, failed      *)
(* saves and deaths the log in memory shows whole cycles, in order, and of *)
(* each all that the trail of this session has of it -- also of the        *)
(* headless one that a failed save opens behind a rotation.                *)
THEOREM LogKeepsWholeCycles == CycleSpec => []WindowIsWhole
  <1>1. CycleInit => CycleIInv /\ Windowed
    BY CycleInitHolds, WindowedInit
  <1>2. CycleIInv /\ Windowed /\ [CycleNext]_cycleVars => (CycleIInv /\ Windowed)'
    BY CycleStepKeeps, WindowedStep
  <1>3. CycleIInv /\ Windowed => WindowIsWhole
    BY IInvParts, WholeWindow DEF Types, Windowed
  <1> QED
    BY <1>1, <1>2, <1>3, PTL DEF CycleSpec

------------------------------------------------------------------------------
(* What the monitor makes of the log *)

LEMMA PrefixPlaces ==
  ASSUME NEW T, NEW s \in Seq(T), NEW u \in Seq(T)
  PROVE  IsPrefix(s, u) <=> Len(s) <= Len(u) /\ \A k \in 1..Len(s) : s[k] = u[k]
  <1> DEFINE a == SubSeq(s, 1, Len(s))
             b == SubSeq(u, 1, Len(s))
  <1>1. Len(s) \in Nat /\ Len(u) \in Nat
    BY LenProperties
  <1>2. IsPrefix(s, u) <=> Len(s) <= Len(u) /\ a = b
    BY DEF IsPrefix
  <1>3. CASE Len(s) <= Len(u)
    <2>1. Len(s) \in 0..Len(s) /\ Len(s) \in 0..Len(u)
      BY <1>1, <1>3
    <2>2. a \in Seq(T) /\ Len(a) = Len(s) /\ \A k \in 1..Len(s) : a[k] = s[k]
      BY <2>1, CutInTwo
    <2>3. b \in Seq(T) /\ Len(b) = Len(s) /\ \A k \in 1..Len(s) : b[k] = u[k]
      BY <2>1, CutInTwo
    <2> HIDE DEF a, b
    <2>4. a = b => \A k \in 1..Len(s) : s[k] = u[k]
      BY <2>2, <2>3
    <2>5. (\A k \in 1..Len(s) : s[k] = u[k]) => a = b
      <3> SUFFICES ASSUME \A k \in 1..Len(s) : s[k] = u[k] PROVE a = b
        OBVIOUS
      <3>1. Len(a) = Len(b) /\ \A k \in 1..Len(a) : a[k] = b[k]
        BY <2>2, <2>3
      <3> QED
        BY <2>2, <2>3, <3>1, SeqEqual
    <2> QED
      BY <1>2, <1>3, <2>4, <2>5
  <1>4. CASE ~(Len(s) <= Len(u))
    BY <1>2, <1>4
  <1> QED
    BY <1>3, <1>4

(* The places on the trail of what the log in memory holds. *)
LEMMA RecordPlaces ==
  ASSUME LogOK(log), NEW num, WindowBy(log, num)
  PROVE  /\ Records(log) \in Seq(RecordType)
         /\ \E at : Chosen(at, log.trail, Shown(log, Upto(num, Len(num))), Records(log), Len(log.trail))
  <1>1. log.trail \in Seq(RecordType)
    BY DEF LogOK
  <1>2. Records(log) = Picked(log.trail, Shown(log, Upto(num, Len(num))))
    BY WindowRecords
  <1> QED
    BY <1>1, <1>2, PickedPlaces, PickedType

(* The chain of the log verifies where nothing of the session is missing    *)
(* before its records.                                                     *)
LEMMA VerifyPrefix ==
  ASSUME LogOK(log), Window(log)
  PROVE  Verify(log) <=> IsPrefix(Records(log), Session)
  <1> DEFINE r == Records(log)
             since == log.since
             trail == log.trail
  <1>1. PICK num : WindowBy(log, num)
    BY DEF Window
  <1> DEFINE p == Shown(log, Upto(num, Len(num)))
  <1>2. PICK t \in Nat : t = Len(trail)
    BY LenProperties DEF LogOK
  <1>3. /\ trail \in Seq(RecordType) /\ since \in Nat /\ since <= t
        /\ \A i \in (since + 1)..t : trail[i].link = i - since
    BY <1>1, <1>2 DEF LogOK, WindowBy
  <1>4. r \in Seq(RecordType) /\ \E at : Chosen(at, trail, p, r, t)
    BY <1>1, <1>2, RecordPlaces
  <1>5. PICK at : Chosen(at, trail, p, r, t)
    BY <1>4
  <1>6. PICK n \in Nat : n = Len(r)
    BY <1>4, LenProperties
  <1>7. Verify(log) <=> \A k \in 1..n : r[k].link = k
    BY <1>6 DEF Verify
  <1>8. \A i : i \in p => i \in (since + 1)..t
    BY <1>2 DEF Shown
  <1>9. /\ Session \in Seq(RecordType) /\ Len(Session) = t - since
        /\ \A j \in 1..(t - since) : Session[j] = trail[j + since]
    <2>1. since + 1 \in 1..(Len(trail) + 1)
      BY <1>2, <1>3
    <2>2. Session = SubSeq(trail, since + 1, Len(trail))
      BY DEF Session
    <2> HIDE DEF since, trail
    <2>3. /\ SubSeq(trail, since + 1, Len(trail)) \in Seq(RecordType)
          /\ Len(SubSeq(trail, since + 1, Len(trail))) = Len(trail) - (since + 1) + 1
          /\ \A j \in 1..(Len(trail) - (since + 1) + 1) :
               SubSeq(trail, since + 1, Len(trail))[j] = trail[j + ((since + 1) - 1)]
      BY <1>3, <2>1, SubSeqFrom
    <2>4. t - (since + 1) + 1 = t - since /\ (since + 1) - 1 = since
      BY <1>3
    <2> QED
      BY <1>2, <2>2, <2>3, <2>4
  <1> HIDE DEF p, r, since, trail
  <1>10. \A k \in 1..n : at[k] \in (since + 1)..t /\ r[k] = trail[at[k]]
    BY <1>5, <1>6, <1>8 DEF Chosen
  <1>11. \A k \in 1..n : r[k].link = at[k] - since
    BY <1>3, <1>10
  <1>12. Verify(log) <=> \A k \in 1..n : at[k] = k + since
    <2>1. \A k \in 1..n : r[k].link = k <=> at[k] = k + since
      <3> SUFFICES ASSUME NEW k \in 1..n PROVE r[k].link = k <=> at[k] = k + since
        OBVIOUS
      <3>1. at[k] \in Int /\ since \in Int /\ k \in Int
        BY <1>3, <1>10
      <3>2. r[k].link = at[k] - since
        BY <1>11
      <3> QED
        BY <3>1, <3>2
    <2> QED
      BY <1>7, <2>1
  <1>13. IsPrefix(r, Session) <=> n <= t - since /\ \A k \in 1..n : r[k] = Session[k]
    <2>1. IsPrefix(r, Session) <=> Len(r) <= Len(Session) /\ \A k \in 1..Len(r) : r[k] = Session[k]
      BY <1>4, <1>9, PrefixPlaces DEF r
    <2> QED
      BY <1>6, <1>9, <2>1
  <1>14. ASSUME \A k \in 1..n : at[k] = k + since
         PROVE  n <= t - since /\ \A k \in 1..n : r[k] = Session[k]
    <2>1. \A k \in 1..n : k + since <= t /\ k <= t - since
      <3> SUFFICES ASSUME NEW k \in 1..n PROVE k + since <= t /\ k <= t - since
        OBVIOUS
      <3>1. k + since \in (since + 1)..t
        BY <1>10, <1>14
      <3> QED
        BY <1>3, <3>1
    <2>2. n <= t - since
      <3>1. n > 0 => n \in 1..n
        OBVIOUS
      <3> QED
        BY <1>3, <2>1, <3>1
    <2>3. \A k \in 1..n : k \in 1..(t - since)
      BY <1>3, <2>1
    <2> QED
      BY <1>9, <1>10, <1>14, <2>2, <2>3
  <1>15. ASSUME n <= t - since, \A k \in 1..n : r[k] = Session[k]
         PROVE  \A k \in 1..n : at[k] = k + since
    <2> SUFFICES ASSUME NEW k \in 1..n PROVE at[k] = k + since
      OBVIOUS
    <2>1. k \in 1..(t - since) /\ k + since \in (since + 1)..t /\ (k + since) - since = k
      BY <1>3, <1>15
    <2>2. r[k] = trail[k + since]
      BY <1>9, <1>15, <2>1
    <2>3. r[k].link = k
      BY <1>3, <2>1, <2>2
    <2>4. at[k] \in Int /\ k = at[k] - since
      BY <1>3, <1>10, <1>11, <2>3
    <2> QED
      BY <1>3, <2>4
  <1> QED
    BY <1>12, <1>13, <1>14, <1>15 DEF r

(* A cycle that ended in this session has its records on the trail of it.   *)
LEMMA EndedInSession ==
  ASSUME LogOK(log), Window(log), ended \in Seq(Ending), NEW n \in EndedHere,
         NEW i \in 1..Len(log.trail), log.trail[i].cycle = ended[n].cycle
  PROVE  i > log.since
  <1> DEFINE b == SubSeq(log.trail, 1, log.since)
             S == {0} \cup {b[j].cycle : j \in 1..Len(b)}
             c == ended[n].cycle
  <1>1. PICK num : WindowBy(log, num)
    BY DEF Window
  <1>2. PICK t \in Nat : t = Len(log.trail)
    BY LenProperties DEF LogOK
  <1>3. /\ log.trail \in Seq(RecordType) /\ log.since \in Nat /\ log.since <= t
        /\ log.cycleNo \in Nat /\ \A j \in 1..t : log.trail[j].cycle <= log.cycleNo
    BY <1>1, <1>2 DEF LogOK, WindowBy
  <1>4. c > MaxCycle(b)
    BY DEF EndedHere
  <1>5. Len(b) = log.since /\ \A j \in 1..log.since : b[j] = log.trail[j]
    <2>1. log.since \in 0..Len(log.trail)
      BY <1>2, <1>3
    <2> QED
      BY <1>3, <2>1, CutInTwo
  <1>6. MaxCycle(b) = Max(S)
    BY DEF MaxCycle
  <1> HIDE DEF b
  <1>7. S \in SUBSET (0..log.cycleNo) /\ S # {}
    <2>1. \A j \in 1..log.since : b[j].cycle \in 0..log.cycleNo
      <3> SUFFICES ASSUME NEW j \in 1..log.since PROVE b[j].cycle \in 0..log.cycleNo
        OBVIOUS
      <3>1. j \in 1..t /\ j \in 1..Len(log.trail)
        BY <1>2, <1>3
      <3>2. log.trail[j] \in RecordType /\ log.trail[j].cycle <= log.cycleNo
        BY <1>3, <3>1, ElementOfSeq
      <3>3. log.trail[j].cycle \in Nat
        BY <3>2 DEF RecordType
      <3> QED
        BY <1>3, <1>5, <3>2, <3>3
    <2> QED
      BY <1>3, <1>5, <2>1
  <1>8. SUFFICES ASSUME i <= log.since PROVE FALSE
    BY <1>2, <1>3
  <1>9. c \in S
    <2>1. i \in 1..log.since
      BY <1>2, <1>3, <1>8
    <2> QED
      BY <1>5, <2>1
  <1> HIDE DEF S
  <1>10. Max(S) \in S /\ Max(S) >= c
    BY <1>3, <1>7, <1>9, MaxOfNumbers
  <1>11. c \in Int /\ Max(S) \in Int
    <2>1. \A x \in 0..log.cycleNo : x \in Int
      BY <1>3
    <2> QED
      BY <1>7, <1>9, <1>10, <2>1
  <1> QED
    BY <1>4, <1>6, <1>10, <1>11

(* Of a cycle that the log still holds, it holds what the trail has.        *)
LEMMA KeptIsWhole ==
  ASSUME LogOK(log), Window(log), ended \in Seq(Ending), NEW n \in EndedHere,
         RecordsOf(n) # <<>>
  PROVE  /\ RecordsOf(n) \in Seq(RecordType)
         /\ {RecordsOf(n)[k].out : k \in 1..Len(RecordsOf(n))} = Outs(log.trail, ended[n].cycle)
  <1> DEFINE c == ended[n].cycle
             r == Records(log)
             q == {k \in 1..Len(r) : r[k].cycle = c}
             o == RecordsOf(n)
             trail == log.trail
  <1>1. PICK num : WindowBy(log, num)
    BY DEF Window
  <1> DEFINE numbers == Upto(num, Len(num))
             p == Shown(log, numbers)
  <1>2. PICK t \in Nat : t = Len(trail)
    BY LenProperties DEF LogOK
  <1>3. r \in Seq(RecordType) /\ \E at : Chosen(at, trail, p, r, t)
    BY <1>1, <1>2, RecordPlaces
  <1>4. PICK at : Chosen(at, trail, p, r, t)
    BY <1>3
  <1>5. PICK a \in Nat : a = Len(r)
    BY <1>3, LenProperties
  <1>6. o = Picked(r, q)
    BY DEF RecordsOf
  <1>7. n \in EndedHere /\ o # <<>>
    OBVIOUS
  <1>8. \A i : i \in p <=> i \in (log.since + 1)..t /\ trail[i].cycle \in numbers
    BY <1>2 DEF Shown
  <1>9. \A k : k \in q <=> k \in 1..a /\ r[k].cycle = c
    BY <1>5
  <1> HIDE DEF p, q, o, r, numbers
  <1>10. o \in Seq(RecordType) /\ \E to : Chosen(to, r, q, o, a)
    BY <1>3, <1>5, <1>6, PickedType, PickedPlaces
  <1>11. PICK to : Chosen(to, r, q, o, a)
    BY <1>10
  <1>12. PICK b \in Nat : b = Len(o)
    BY <1>10, LenProperties
  <1>13. \A k \in 1..a : at[k] \in 1..t /\ at[k] \in p /\ r[k] = trail[at[k]]
    BY <1>4, <1>5 DEF Chosen
  <1>14. \A k \in 1..b : to[k] \in 1..a /\ to[k] \in q /\ o[k] = r[to[k]]
    BY <1>11, <1>12 DEF Chosen
  <1>15. c \in numbers
    <2>1. b # 0
      BY <1>7, <1>10, <1>12, EmptySeq
    <2>2. 1 \in 1..b
      BY <2>1
    <2>3. r[to[1]].cycle = c /\ at[to[1]] \in p /\ r[to[1]] = trail[at[to[1]]]
      BY <1>9, <1>13, <1>14, <2>2
    <2> QED
      BY <1>8, <2>3
  <1>16. ASSUME NEW k \in 1..b
         PROVE  \E i \in 1..t : trail[i].cycle = c /\ trail[i].out = o[k].out
    <2>1. to[k] \in 1..a /\ r[to[k]].cycle = c /\ o[k] = r[to[k]]
      BY <1>9, <1>14
    <2>2. at[to[k]] \in 1..t /\ o[k] = trail[at[to[k]]]
      BY <1>13, <2>1
    <2> QED
      BY <2>1, <2>2
  <1>17. ASSUME NEW i \in 1..t, trail[i].cycle = c
         PROVE  \E k \in 1..b : o[k].out = trail[i].out
    <2>1. i > log.since
      BY <1>2, <1>7, <1>17, EndedInSession
    <2>2. i \in p
      <3>1. log.since \in Nat
        BY <1>1 DEF WindowBy
      <3> QED
        BY <1>8, <1>15, <1>17, <2>1, <3>1
    <2>3. PICK k \in 1..a : at[k] = i
      BY <1>4, <1>5, <2>2 DEF Chosen
    <2>4. r[k] = trail[i] /\ k \in q
      BY <1>9, <1>13, <1>17, <2>3
    <2>5. PICK m \in 1..b : to[m] = k
      BY <1>11, <1>12, <2>4 DEF Chosen
    <2> QED
      BY <1>14, <2>4, <2>5
  <1>18. Outs(trail, c) = {trail[i].out : i \in {j \in 1..t : trail[j].cycle = c}}
    BY <1>2 DEF Outs
  <1>19. {o[k].out : k \in 1..b} = Outs(trail, c)
    <2>1. \A x : x \in {o[k].out : k \in 1..b} <=> \E k \in 1..b : x = o[k].out
      OBVIOUS
    <2>2. \A x : x \in Outs(trail, c) <=> \E i \in 1..t : trail[i].cycle = c /\ x = trail[i].out
      BY <1>18
    <2>3. ASSUME NEW x PROVE x \in {o[k].out : k \in 1..b} <=> x \in Outs(trail, c)
      <3>1. ASSUME NEW k \in 1..b, x = o[k].out PROVE x \in Outs(trail, c)
        <4>1. \E i \in 1..t : trail[i].cycle = c /\ trail[i].out = o[k].out
          BY <1>16
        <4> QED
          BY <2>2, <3>1, <4>1
      <3>2. ASSUME NEW i \in 1..t, trail[i].cycle = c, x = trail[i].out
            PROVE  x \in {o[k].out : k \in 1..b}
        <4>1. \E k \in 1..b : o[k].out = trail[i].out
          BY <1>17, <3>2
        <4> QED
          BY <2>1, <3>2, <4>1
      <3> QED
        BY <2>1, <2>2, <3>1, <3>2
    <2> QED
      BY <2>3
  <1> QED
    BY <1>10, <1>12, <1>19 DEF o

(* Whatever stands in the way is a stop or a question, and not both. *)
LEMMA CountedOnce ==
  ASSUME NEW o \in Seq(RecordType)
  PROVE  /\ IsFiniteSet(Stops(o)) /\ IsFiniteSet(Questions(o))
         /\ Cardinality(Stops(o)) \in Nat /\ Cardinality(Questions(o)) \in Nat
         /\ Cardinality(Stops(o)) + Cardinality(Questions(o)) = Cardinality(InTheWay(o))
  <1>1. PICK n \in Nat : n = Len(o)
    BY LenProperties
  <1>2. ASSUME NEW k \in 1..n
        PROVE  /\ k \in InTheWay(o) <=> k \in Stops(o) \/ k \in Questions(o)
               /\ ~(k \in Stops(o) /\ k \in Questions(o))
    <2>1. o[k] \in RecordType
      BY <1>1, ElementOfSeq
    <2>2. <<o[k].stage, o[k].out>> \in Vocabulary
      BY <2>1 DEF RecordType
    <2> QED
      BY <1>1, <2>2 DEF Stops, Questions, InTheWay, Vocabulary
  <1>3. /\ Stops(o) \in SUBSET (1..n) /\ Questions(o) \in SUBSET (1..n)
        /\ InTheWay(o) \in SUBSET (1..n)
    BY <1>1 DEF Stops, Questions, InTheWay
  <1> DEFINE s == Stops(o)
             u == Questions(o)
             w == InTheWay(o)
  <1> HIDE DEF s, u, w
  <1>4. w = s \cup u /\ s \cap u = {}
    BY <1>2, <1>3 DEF s, u, w
  <1>5. IsFiniteSet(s) /\ IsFiniteSet(u)
    <2>1. IsFiniteSet(1..n)
      BY FS_Interval
    <2> QED
      BY <1>3, <2>1, FS_Subset DEF s, u
  <1>6. Cardinality(s) \in Nat /\ Cardinality(u) \in Nat
    BY <1>5, FS_CardinalityType
  <1>7. Cardinality(s \cup u) = Cardinality(s) + Cardinality(u) - Cardinality(s \cap u)
    BY <1>5, FS_Union
  <1>8. Cardinality({}) = 0
    BY FS_EmptySet
  <1>9. Cardinality(w) = Cardinality(s) + Cardinality(u)
    <2>1. Cardinality(s \cap u) = 0 /\ Cardinality(w) = Cardinality(s \cup u)
      BY <1>4, <1>8
    <2> QED
      BY <1>6, <1>7, <2>1
  <1> QED
    BY <1>5, <1>6, <1>9 DEF s, u, w

(* What is said of a cycle is what is counted of it. *)
LEMMA SeenOfCycle ==
  ASSUME NEW o \in Seq(RecordType), NEW outcome,
         Told({o[k].out : k \in 1..Len(o)}, outcome)
  PROVE  /\ outcome = "decided" => Inspect(o) = [blocked |-> 0, pending |-> 0]
         /\ outcome = "blocked" => Inspect(o).blocked > 0
         /\ outcome = "parked" => (Inspect(o).pending = 0 => Inspect(o).blocked > 0)
  <1> DEFINE outs == {o[k].out : k \in 1..Len(o)}
             s == Cardinality(Stops(o))
             u == Cardinality(Questions(o))
  <1>1. PICK n \in Nat : n = Len(o)
    BY LenProperties
  <1>2. /\ s \in Nat /\ u \in Nat
        /\ s = 0 <=> Stops(o) = {}
        /\ u = 0 <=> Questions(o) = {}
    BY CountedOnce, FS_EmptySet
  <1>3. Inspect(o) = [blocked |-> s, pending |-> u]
    BY DEF Inspect
  <1>4. ASSUME NEW k \in 1..n
        PROVE  /\ k \in Stops(o) <=> o[k].out \in {"VIOLATED", "REJECTED", "REFUSED"}
               /\ k \in Questions(o) <=> o[k].out = "PENDING APPROVAL"
    <2>1. o[k] \in RecordType
      BY <1>1, ElementOfSeq
    <2>2. <<o[k].stage, o[k].out>> \in Vocabulary
      BY <2>1 DEF RecordType
    <2> QED
      BY <1>1, <2>2 DEF Stops, Questions, Vocabulary
  <1>5. \A k : k \in Stops(o) \/ k \in Questions(o) => k \in 1..n
    BY <1>1 DEF Stops, Questions
  <1>6. \A x : x \in outs <=> \E k \in 1..n : x = o[k].out
    BY <1>1
  <1>7. Told(outs, outcome)
    OBVIOUS
  <1> HIDE DEF outs, s, u
  <1>8. CASE outcome = "decided"
    <2>1. Stops(o) = {} /\ Questions(o) = {}
      BY <1>4, <1>5, <1>6, <1>7, <1>8 DEF Told
    <2> QED
      BY <1>2, <1>3, <1>8, <2>1
  <1>9. CASE outcome = "blocked"
    <2>1. Stops(o) # {}
      BY <1>4, <1>5, <1>6, <1>7, <1>9 DEF Told
    <2> QED
      BY <1>2, <1>3, <1>9, <2>1
  <1>10. CASE outcome = "parked"
    <2>1. Stops(o) # {} \/ Questions(o) # {}
      BY <1>4, <1>5, <1>6, <1>7, <1>10 DEF Told
    <2> QED
      BY <1>2, <1>3, <1>10, <2>1
  <1> QED
    BY <1>8, <1>9, <1>10

(* monitor.go:27-32, 125-222: for every catalogue and every number of        *)
(* cycles, rotations and deaths, what the monitor counts of a cycle that   *)
(* the log still holds is what stood in its way, each once; it classifies  *)
(* by that as the cycle ended, no fault is healthy, and the record is      *)
(* broken exactly where its beginning was rotated away.                    *)
THEOREM MonitorSeesTheCycles == CycleSpec => []MonitorMissesNothing
  <1>1. CycleInit => CycleIInv /\ Windowed
    BY CycleInitHolds, WindowedInit
  <1>2. CycleIInv /\ Windowed /\ [CycleNext]_cycleVars => (CycleIInv /\ Windowed)'
    BY CycleStepKeeps, WindowedStep
  <1>3. CycleIInv /\ Windowed => MonitorMissesNothing
    <2> SUFFICES ASSUME CycleIInv, Windowed PROVE MonitorMissesNothing
      OBVIOUS
    <2>1. LogOK(log) /\ Window(log) /\ ended \in Seq(Ending) /\ ToldAll(log.trail, ended)
      BY IInvParts DEF Types, Windowed, Ending
    <2>2. ASSUME NEW n \in EndedHere, RecordsOf(n) # <<>>
          PROVE  LET seen == Inspect(RecordsOf(n))
                 IN /\ seen.blocked + seen.pending = Cardinality(InTheWay(RecordsOf(n)))
                    /\ CASE ended[n].outcome = "decided" -> seen = [blocked |-> 0, pending |-> 0]
                         [] ended[n].outcome = "blocked" -> seen.blocked > 0
                         [] ended[n].outcome = "parked"  -> seen.pending = 0 => seen.blocked > 0
                         [] OTHER -> TRUE
      <3> DEFINE o == RecordsOf(n)
      <3>1. o \in Seq(RecordType) /\ {o[k].out : k \in 1..Len(o)} = Outs(log.trail, ended[n].cycle)
        BY <2>1, <2>2, KeptIsWhole
      <3>2. n \in 1..Len(ended)
        BY DEF EndedHere
      <3> HIDE DEF o
      <3>3. Told({o[k].out : k \in 1..Len(o)}, ended[n].outcome)
        BY <2>1, <3>1, <3>2 DEF ToldAll
      <3>4. /\ ended[n].outcome = "decided" => Inspect(o) = [blocked |-> 0, pending |-> 0]
            /\ ended[n].outcome = "blocked" => Inspect(o).blocked > 0
            /\ ended[n].outcome = "parked" => (Inspect(o).pending = 0 => Inspect(o).blocked > 0)
        BY <3>1, <3>3, SeenOfCycle
      <3>5. Inspect(o).blocked + Inspect(o).pending = Cardinality(InTheWay(o))
        BY <3>1, CountedOnce DEF Inspect
      <3> QED
        BY <3>4, <3>5 DEF o
    <2>3. Failures > 0 => Health # "healthy"
      BY DEF Health, classifyHealth
    <2>4. Health = "broken" <=> ~IsPrefix(Records(log), Session)
      <3> DEFINE intact == Verify(log)
                 failed == Failures
                 pending == Inspect(Records(log)).pending
      <3>1. intact \in BOOLEAN
        BY DEF Verify
      <3>2. Health = classifyHealth(intact, failed, pending)
        BY DEF Health
      <3> HIDE DEF intact, failed, pending
      <3>3. classifyHealth(intact, failed, pending) = "broken" <=> ~intact
        <4>1. CASE ~intact
          BY <4>1 DEF classifyHealth
        <4>2. CASE intact
          <5>1. classifyHealth(intact, failed, pending) \in {"attention", "healthy"}
            BY <4>2 DEF classifyHealth
          <5> QED
            BY <4>2, <5>1
        <4> QED
          BY <3>1, <4>1, <4>2
      <3>4. Verify(log) <=> IsPrefix(Records(log), Session)
        BY <2>1, VerifyPrefix
      <3> QED
        BY <3>2, <3>3, <3>4 DEF intact
    <2> QED
      BY <2>2, <2>3, <2>4 DEF MonitorMissesNothing
  <1> QED
    BY <1>1, <1>2, <1>3, PTL DEF CycleSpec
===============================================================================
