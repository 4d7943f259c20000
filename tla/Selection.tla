------------------------------ MODULE Selection -------------------------------
(* The elements of a sequence at some of its places, in their order: what a *)
(* loop has collected that looks at one element after the other and keeps   *)
(* those it wants.  The places are a set, where SelectSeq takes a test, and *)
(* so the provers can reason about it.                                      *)
EXTENDS Integers, Sequences

(* What was collected when the loop has looked at n elements. *)
Picks(s, places) ==
  LET to[n \in 0..Len(s)] == IF n = 0 THEN <<>>
                             ELSE IF n \in places THEN Append(to[n - 1], s[n])
                             ELSE to[n - 1]
  IN to

Picked(s, places) == Picks(s, places)[Len(s)]
==============================================================================
