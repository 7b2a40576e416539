------------------------------ MODULE MCReplicas ------------------------------
(* A small instance of Replicas. *)
EXTENDS Replicas, TLC

CONSTANTS a, i1

Own == a :> {i1}

\* A second object of the same name, and both processes may end.
Rollout == [b \in Budgets |->
    CASE b \in {"create", "crash"} -> 2 [] b = "fault" -> 1 [] OTHER -> 0]
=============================================================================
