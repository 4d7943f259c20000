----------------------------- MODULE MCTrailFile -----------------------------
(* Small instances of TrailFile: which faults may strike. *)
EXTENDS TrailFile

AnyFault == {"lost", "torn", "failed", "overlap", "edit"}

(* Sessions are interchangeable, and there are no liveness properties. *)
Interchangeable == Permutations(Session)
==============================================================================
