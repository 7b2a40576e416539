--------------------------- MODULE ConnectionPromise ---------------------------
(***************************************************************************)
(* What the operator promises the author of an                             *)
(* InterNetworkDomainConnection, with no cache, queue, worker, retry or    *)
(* crash in sight.  A resource is asked for, then guarded by the           *)
(* finalizer, then, once deleted, leaving; its connection is open only     *)
(* while it is guarded or leaving, and it is gone only when the connection *)
(* is closed.  ConnectionController implements this specification.         *)
(***************************************************************************)
CONSTANTS
    Names,   \* the resources
    MayUse,  \* MayUse[n]: the connections that n may ask for
    Absent   \* stands for "no resource"

VARIABLES
    cr,    \* cr[n]: the resource n
    conns  \* the open connections

vars == <<cr, conns>>

Resource(i, p) == [id |-> i, phase |-> p]

In(n, phases) == cr[n] # Absent /\ cr[n].phase \in phases

Move(n, p) == cr' = [cr EXCEPT ![n].phase = p] /\ UNCHANGED conns

Declare(n) ==
    /\ cr[n] = Absent
    /\ \E i \in MayUse[n] : cr' = [cr EXCEPT ![n] = Resource(i, "asked")]
    /\ UNCHANGED conns

Guard(n) == In(n, {"asked"}) /\ Move(n, "guarded")

\* Nothing was promised yet to a resource that is only asked for.
Withdraw(n) ==
    \/ In(n, {"asked"}) /\ cr' = [cr EXCEPT ![n] = Absent] /\ UNCHANGED conns
    \/ In(n, {"guarded"}) /\ Move(n, "leaving")

\* A resource may be opened while it leaves already: the reconciler may not
\* have seen that yet.
Open(n) == In(n, {"guarded", "leaving"}) /\ conns' = conns \cup {cr[n].id} /\ UNCHANGED cr

Close(n) == In(n, {"leaving"}) /\ conns' = conns \ {cr[n].id} /\ UNCHANGED cr

Finish(n) ==
    /\ In(n, {"leaving"}) /\ cr[n].id \notin conns
    /\ cr' = [cr EXCEPT ![n] = Absent]
    /\ UNCHANGED conns

Init == cr = [n \in Names |-> Absent] /\ conns = {}

Next == \E n \in Names :
    Declare(n) \/ Guard(n) \/ Withdraw(n) \/ Open(n) \/ Close(n) \/ Finish(n)

Spec == Init /\ [][Next]_vars

\* What is asked for is guarded or withdrawn, what is guarded is opened or
\* withdrawn, and what leaves is closed and finished.
Fairness ==
    \A n \in Names :
        /\ WF_vars(Guard(n)) /\ WF_vars(In(n, {"guarded"}) /\ Open(n))
        /\ WF_vars(Close(n)) /\ WF_vars(Finish(n))
=============================================================================
