---------------------------- MODULE MCAppConnection ----------------------------
(* A small instance of AppConnectionController. *)
EXTENDS AppConnectionController, TLC

CONSTANTS a, b, i1, i2, i3

\* b asks for a connection, or for one that makes the reconciler panic.
Uses == a :> {i1} @@ b :> {i2, i3}

Limits == [x \in Budgets |->
              CASE x = "create" -> 2 [] x = "status" -> 1 [] x = "outage" -> 1
                [] x = "fault" -> 1 [] x = "crash" -> 1 [] OTHER -> 0]
=============================================================================
