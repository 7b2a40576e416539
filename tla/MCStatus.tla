------------------------------- MODULE MCStatus -------------------------------
(* A small instance of StatusWatcher. *)
EXTENDS StatusWatcher, TLC

CONSTANTS a, i1, i2

Either == a :> {i1, i2}

None == [x \in Budgets |-> 0]

Gone == [None EXCEPT !["create"] = 1, !["move"] = 2]
=============================================================================
