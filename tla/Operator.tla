-------------------------------- MODULE Operator --------------------------------
(***************************************************************************)
(* The operator's process (main.go) with two of its parts as they really   *)
(* meet: the connection reconciler and the status watcher.  They share the *)
(* custom resources, of which both write newer versions over each other's, *)
(* the cache both read, the client, which reaches the server for both or   *)
(* for neither, and the server, where the reconciler makes and closes the  *)
(* connections that the watcher is told of.                                *)
(*                                                                         *)
(* In ConnectionController the watcher is a StatusWrite that comes out of  *)
(* nowhere, and in StatusWatcher the reconciler is a Reconciled that does. *)
(* Here neither is needed: the steps of the one are those of Reconcile,    *)
(* the steps of the other those of checkConnectionsStatuses.               *)
(***************************************************************************)
EXTENDS ConnectionController

CONSTANTS
    NotServed, RecordsId,  \* see StatusWatcher
    WatchLimit,            \* Limit for what the watcher meets
    Opening                \* the statuses that a new connection may have

ASSUME OperatorAssumption ==
    /\ NotServed \notin States
    /\ Opening \subseteq States
    /\ WatchLimit \in [Budgets -> Nat]

VARIABLES
    reports,  \* reports[i]: the statuses the server has had for i, newest last
    watcher,  \* the pass of the status watcher
    allowed   \* the budget of the watcher and of what the server reports

operatorVars == <<vars, reports, watcher, allowed>>

W == INSTANCE StatusWatcher WITH budget <- allowed, Limit <- WatchLimit

-----------------------------------------------------------------------------

\* What the server reports of i once its connections are others: s for a new
\* one, nothing for one that is closed.
Report(i, s) ==
    IF i \in conns' /\ i \notin conns THEN Append(reports[i], s)
    ELSE IF i \in conns /\ i \notin conns' THEN Append(reports[i], NotServed)
    ELSE reports[i]

Reports == \E s \in Opening : reports' = [i \in Ids |-> Report(i, s)]

\* A step of the reconciler, the informer, the user or the server.
Reconciles ==
    /\ Work \/ Manager \/ World
    /\ Reports
    /\ UNCHANGED <<watcher, allowed>>

\* Mutant of Watches: main starts the watcher before it has dialed.
WatchesEarly ==
    /\ watcher.pc = "waiting" => server = "up"
    /\ W!Pass
    /\ UNCHANGED <<budget, queue, worker, remote>>

\* A step of the watcher, which main starts after the dial.  When the server
\* cannot be reached its pass ends before it has begun.
Watches ==
    /\ process = "serving"
    /\ watcher.pc = "waiting" => server = "up"
    /\ W!Pass
    /\ UNCHANGED <<budget, queue, worker, remote>>

\* The status of a connection changes at the server.
ServerMoves(i) ==
    /\ i \in conns
    /\ W!ServerMoves(i)
    /\ W!Now(i)' # NotServed
    /\ UNCHANGED <<budget, queue, worker, remote>>

\* With the process both end.
Ends ==
    /\ Crash
    /\ watcher' = W!Waiting
    /\ UNCHANGED <<reports, allowed>>

OperatorInit ==
    /\ Init
    /\ reports = [i \in Ids |-> <<NotServed>>]
    /\ watcher = W!Waiting
    /\ allowed = WatchLimit

OperatorNext == Reconciles \/ Watches \/ Ends \/ \E i \in Ids : ServerMoves(i)

OperatorSpec == OperatorInit /\ [][OperatorNext]_operatorVars

\* The fairness of either part, of its steps in the operator.
OperatorFairness ==
    /\ Fairness
    /\ WF_operatorVars(Watches)

OperatorFairSpec == OperatorSpec /\ OperatorFairness

-----------------------------------------------------------------------------
(* Properties.                                                             *)

\* The types of both parts; the server has a status for what it has, and a
\* process that does not serve yet runs no pass.
OperatorTypeOK ==
    /\ TypeOK /\ W!TypeOK
    /\ \A i \in Ids : i \in conns <=> W!Now(i) # NotServed
    /\ process = "dialing" => watcher = W!Waiting

(***************************************************************************)
(* All that the reconciler notices of the watcher is that objects get a    *)
(* status at any time: every step of the operator is one that              *)
(* ConnectionController allows, so that what is proved there holds here.   *)
(***************************************************************************)
ReconcilerAsAlone == Spec

(***************************************************************************)
(* A status that an object shows is one the server has had for the         *)
(* connection of that object, although the reconciler makes, closes and    *)
(* makes connections again while the pass runs.                            *)
(***************************************************************************)
ShowsTruth == W!Truthful

\* The specs are the ones that the objects were created with.
Unedited == "edit" \notin Free /\ budget["edit"] = Limit["edit"]

(***************************************************************************)
(* Once users, faults and the server rest, everything agrees: unless specs *)
(* were edited the server has the connections of the objects, no more and  *)
(* no fewer, and in any case every object whose connection there is shows  *)
(* what the server says of that very connection.                           *)
(***************************************************************************)
Settles ==
    /\ <>[](Unedited => conns = {Live(n).id : n \in {m \in Names : Wanted(m)}})
    /\ <>[](\A n \in Names : Wanted(n) /\ Live(n).id \in conns =>
              Live(n).st = [state |-> W!Now(Live(n).id), cid |-> Live(n).id])
=============================================================================
