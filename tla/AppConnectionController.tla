------------------------ MODULE AppConnectionController ------------------------
(***************************************************************************)
(* AppConnectionReconciler                                                 *)
(* (controllers/internetworkdomainappconnection_controller.go).  It is     *)
(* driven like InterNetworkDomainConnectionReconciler and works like it,   *)
(* but                                                                     *)
(*                                                                         *)
(*  - the client does not know the id of an app connection.  It lists the  *)
(*    app connections of the server and takes the first one with the match *)
(*    name and the metadata name of the spec, and when there is none it    *)
(*    reports success without having disconnected anything;                *)
(*  - the reconciler completes the spec with the name of the cluster, and  *)
(*    panics on one that has no selector to put it in.                     *)
(*                                                                         *)
(* Here Ids stands for the pairs of a match name and a metadata name, and  *)
(* conns says for which of them the server has an app connection.  That it *)
(* has at most one for a pair is assumed: ConnectApps is sent again after  *)
(* every failure and restart, and taken to make no second one.             *)
(*                                                                         *)
(* The worker is at "disconnect" before the list and at "teardown" after   *)
(* it.                                                                     *)
(***************************************************************************)
EXTENDS ConnectionController

CONSTANT Poison  \* specs from a pod endpoint that has no selector

ASSUME PoisonAssumption == Poison \subseteq Ids

\* Mutant of Find: a list that failed is taken for an empty one.
FindOrNot ==
    /\ worker.pc = "disconnect"
    /\ \/ /\ worker' = [worker EXCEPT !.pc =
                           IF Copy.id \in conns THEN "teardown" ELSE "unregister"]
          /\ UNCHANGED budget
       \/ Spend("fault") /\ worker' = [worker EXCEPT !.pc = "unregister"]
    /\ UNCHANGED <<log, seen, queue, remote>>

\* ListConnectedApps, and the search for the one to disconnect.
Find ==
    /\ worker.pc = "disconnect"
    /\ \/ /\ server = "up"
          /\ worker' = [worker EXCEPT !.pc =
                           IF Copy.id \in conns THEN "teardown" ELSE "unregister"]
          /\ UNCHANGED <<queue, budget>>
       \/ Requeue /\ IF server = "up" THEN Spend("fault") ELSE UNCHANGED budget
    /\ UNCHANGED <<log, seen, remote>>

\* Mutants of Teardown: one disconnects whatever the server has, and one lets
\* go of the object although the request failed.
TeardownAny ==
    /\ worker.pc = "teardown"
    /\ \E ok \in BOOLEAN, i \in conns :
           /\ Call([op |-> "disconnect", id |-> i], ok)
           /\ IF ok
              THEN /\ worker' = [worker EXCEPT !.pc = "unregister"]
                   /\ UNCHANGED queue
              ELSE Requeue
    /\ UNCHANGED <<log, seen, outside>>

TeardownOrNot ==
    /\ worker.pc = "teardown"
    /\ \E ok \in BOOLEAN : Call([op |-> "disconnect", id |-> Copy.id], ok)
    /\ worker' = [worker EXCEPT !.pc = "unregister"]
    /\ UNCHANGED <<log, seen, queue, outside>>

\* DisconnectApps.
Teardown ==
    /\ worker.pc = "teardown"
    /\ \E ok \in BOOLEAN :
           /\ Call([op |-> "disconnect", id |-> Copy.id], ok)
           /\ IF ok
              THEN /\ worker' = [worker EXCEPT !.pc = "unregister"]
                   /\ UNCHANGED queue
              ELSE Requeue
    /\ UNCHANGED <<log, seen, outside>>

\* The panic ends the process, and the next one will run into it again.
Panic ==
    /\ worker.pc = "connect"
    /\ Copy.id \in Poison
    /\ seen' = [n \in Names |-> 0]
    /\ queue' = {}
    /\ worker' = Idle
    /\ process' = "dialing"
    /\ UNCHANGED <<log, budget, conns, late, server>>

\* Mutant of AppConnect: a failed request is not tried again.
AppConnectOnce == ConnectOnce /\ Copy.id \notin Poison

AppConnect == Connect /\ Copy.id \notin Poison

AppWork ==
    \/ Get \/ AddFinalizer \/ RemoveFinalizer
    \/ AppConnect \/ Panic \/ Find \/ Teardown

AppNext == AppWork \/ Rest

AppSpec == Init /\ [][AppNext]_vars

-----------------------------------------------------------------------------
(* Properties: those of ConnectionController, and                          *)

\* The types, with the one more place a worker can be at.
AppTypeOK ==
    /\ StoreTypeOK
    /\ queue \subseteq Names
    /\ worker.pc = "teardown" => Copy \in Object /\ Copy.del /\ Copy.fin
    /\ worker.pc # "teardown" => WorkerTypeOK
    /\ conns \subseteq Ids

(***************************************************************************)
(* The reconciler gives up its hold on an object that is being deleted     *)
(* only when the server has no connection for it: success without a        *)
(* disconnect is success only when there was nothing to disconnect.        *)
(***************************************************************************)
DropsNothing ==
    [][\A n \in Names :
        Live(n) # NoObj /\ Live(n).fin /\ Live(n)' = NoObj => Live(n).id \notin conns]_vars

\* The worker, to whoever does not see the list and the search.
Unsearched == IF worker.pc = "teardown" THEN [worker EXCEPT !.pc = "disconnect"] ELSE worker

(***************************************************************************)
(* Whoever does not see the list and the search sees the other reconciler, *)
(* before a server that forgives and with crashes at any time: the search  *)
(* comes to what the server of connections decides itself, and a panic is  *)
(* a crash.  What holds of the one reconciler thus holds of the other.     *)
(***************************************************************************)
Alike == INSTANCE ConnectionController WITH
    worker <- Unsearched,
    ServerForgives <- TRUE,
    Free <- Free \cup {"crash"},
    budget <- [budget EXCEPT !["crash"] = 0],
    Limit <- [Limit EXCEPT !["crash"] = 0]

ReconcilesAlike == Alike!Spec
=============================================================================
