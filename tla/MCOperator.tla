------------------------------ MODULE MCOperator ------------------------------
(* Small instances of Operator. *)
EXTENDS Operator, TLC

CONSTANTS a, i1, i2

Either == a :> {i1, i2}

None == [x \in Budgets |-> 0]

Busy == [None EXCEPT !["create"] = 2, !["edit"] = 1, !["crash"] = 1]
Seen == [None EXCEPT !["move"] = 1, !["fault"] = 1]

\* The user makes two objects in turn, or makes one and edits it.
Brief == budget["create"] + budget["edit"] > 0

BriefSpec == OperatorInit /\ [][OperatorNext /\ Brief']_operatorVars /\ OperatorFairness
=============================================================================
