----------------------------- MODULE MCConnection -----------------------------
(* Small instances of ConnectionController. *)
EXTENDS ConnectionController, TLC

CONSTANTS a, b, i1, i2

\* Two objects that ask for connections of their own ...
Disjoint == a :> {i1} @@ b :> {i2}
\* ... or one whose spec may be edited.
Editable == a :> {i1, i2}

None == [x \in Budgets |-> 0]

Safety == [None EXCEPT !["create"] = 3, !["fault"] = 1, !["outage"] = 1, !["crash"] = 1]

Storm == [None EXCEPT !["create"] = 2, !["edit"] = 1, !["fault"] = 1, !["late"] = 1,
                      !["relist"] = 1, !["crash"] = 1]

OneEdit == [None EXCEPT !["create"] = 1, !["edit"] = 1]

OneRelist == [None EXCEPT !["create"] = 2, !["relist"] = 1]
=============================================================================
