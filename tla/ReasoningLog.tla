---------------------------- MODULE ReasoningLog ----------------------------
(***************************************************************************)
(* The in-memory audit trail of src/reasoninglog.go as a value: what each  *)
(* method makes of the log it is called on.  The fields are the Go ones;   *)
(* trail is the sequence of records handed to the persisted trail, which   *)
(* module TrailFile keeps on disk.  current is a pointer to the newest     *)
(* cycle or nil, so a flag says it all.                                    *)
(*                                                                         *)
(* The chain: a log appends its records in order and links each to the one *)
(* before, so the hash of its n-th record is known by n.  A hash computed  *)
(* over other records than those n differs from it (SHA-256 does not       *)
(* collide), and recomputing the chain over a sequence of records gives    *)
(* the stored hashes exactly when the k-th of them holds hash k.           *)
(***************************************************************************)
EXTENDS Integers, Sequences, SequencesExt, FiniteSets, FiniteSetsExt, Selection

(* Started of a headless cycle: the zero time. *)
NeverStarted == -1

NewLog(trail) == [cycles |-> <<>>, current |-> FALSE, chainTip |-> 0, cycleNo |-> 0,
                  trail |-> trail, since |-> Len(trail)]

SeedCycleNumbering(l, n) == [l EXCEPT !.cycleNo = IF n > @ THEN n ELSE @]

MaxCycle(trail) == Max({0} \cup {trail[i].cycle : i \in 1..Len(trail)})

(* The log of the next session, on the trail the last one left.             *)
Resumed(l) == SeedCycleNumbering(NewLog(l.trail), MaxCycle(l.trail))

OpenCycle(l, started) ==
  [l EXCEPT !.cycleNo = @ + 1,
            !.cycles  = Append(@, [started |-> started, records |-> <<>>]),
            !.current = TRUE]

(* Record: into the current cycle, or a headless one when there is none.    *)
Record(l, r) ==
  LET into == IF l.current THEN l ELSE OpenCycle(l, NeverStarted)
      rec  == [stage |-> r.stage, about |-> r.about, out |-> r.out, by |-> r.by,
               cycle |-> into.cycleNo, link |-> into.chainTip + 1]
  IN [into EXCEPT !.chainTip = @ + 1,
                  !.cycles[Len(into.cycles)].records = Append(@, rec),
                  !.trail = Append(@, rec)]

RecordAll(l, rs) == FoldLeft(Record, l, rs)

Step(stage, about, out, by) == [stage |-> stage, about |-> about, out |-> out, by |-> by]

BeginCycle(l, now) ==
  Record(OpenCycle(l, now), Step("intent", {}, "asked", "caller"))

(* Mutant: a cycle whose first days are over loses its records one by one.  *)
RotateRecords(l, cutoff) ==
  [l EXCEPT !.cycles = [i \in 1..Len(l.cycles) |->
       IF l.cycles[i].started # NeverStarted /\ l.cycles[i].started < cutoff
       THEN [l.cycles[i] EXCEPT !.records = Tail(@)] ELSE l.cycles[i]],
            !.current = FALSE]

(* Rotate drops whole cycles begun before the cutoff: where those are that  *)
(* stay.                                                                   *)
InWindow(l, cutoff) ==
  {i \in 1..Len(l.cycles) : l.cycles[i].started = NeverStarted \/ l.cycles[i].started >= cutoff}

Rotate(l, cutoff) ==
  [l EXCEPT !.cycles = Picked(@, InWindow(l, cutoff)), !.current = FALSE]

Records(l) == FlattenSeq([i \in 1..Len(l.cycles) |-> l.cycles[i].records])

Verify(l) == \A i \in 1..Len(Records(l)) : Records(l)[i].link = i
==============================================================================
