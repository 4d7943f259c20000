----------------------------- MODULE MCSpending ------------------------------
(* Small instances of Spending. *)
EXTENDS Spending

Progressive == {1, 2, 3}
==============================================================================
