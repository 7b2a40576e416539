------------------------------ MODULE KubeStore ------------------------------
(***************************************************************************)
(* The Kubernetes API server and the informer cache of the operator's      *)
(* manager, for one kind of custom resource.  Neither is code of this      *)
(* repository: they are modelled from how the reconcilers and the status   *)
(* watcher use them.                                                       *)
(*                                                                         *)
(*  - every write of an object gives it a new resourceVersion, and an      *)
(*    Update that carries an older one is refused (optimistic locking);    *)
(*  - an object with a finalizer is not removed by a delete: it gets a     *)
(*    deletionTimestamp and goes when its last finalizer does;             *)
(*  - mgr.GetClient() writes to the API server but reads from the cache,   *)
(*    which follows the API server with a delay.                           *)
(*                                                                         *)
(* log[n] is the sequence of all versions of the object named n: a version *)
(* is an object or NoObj (the object does not exist), and the position of  *)
(* a version is its resourceVersion.  seen[n] is the position the cache    *)
(* has reached, 0 when this process has not listed the kind yet.           *)
(***************************************************************************)
EXTENDS Naturals, Sequences

CONSTANTS
    Names,     \* namespaced names of the custom resources
    Ids,       \* what a spec says: the connection it asks for
    MayUse,    \* MayUse[n]: the specs a user gives to n
    States,    \* the status strings the AWI server reports
    NoObj,     \* stands for "no object"
    NoStatus,  \* the empty status of an object nobody has written one for
    Free,      \* what may happen any number of times, and of the rest
    Limit      \* Limit[b]: how often b may happen in one behaviour

\* What the environment may do, a bounded number of times unless it is Free.
Budgets ==
    {"create", "edit", "status", "move", "fault", "late", "outage", "relist", "crash"}

\* The status subresource: the state, and the id of the connection it is of.
Status == [state : States, cid : Ids]

\* The parts of a custom resource that the operator looks at.
Object == [id : Ids, del : BOOLEAN, fin : BOOLEAN, st : Status \cup {NoStatus}]
Version == Object \cup {NoObj}

ASSUME StoreAssumption ==
    /\ MayUse \in [Names -> SUBSET Ids]
    /\ NoObj \notin Object
    /\ Free \subseteq Budgets
    /\ Limit \in [Budgets -> Nat]

VARIABLES
    log,     \* log[n]: every version n has had at the API server
    seen,    \* seen[n]: the version of n in the informer cache
    budget   \* what the environment may still do

storeVars == <<log, seen, budget>>

StoreTypeOK ==
    /\ log \in [Names -> Seq(Version)]
    /\ \A n \in Names : Len(log[n]) > 0
    /\ seen \in [Names -> Nat]
    /\ \A n \in Names : seen[n] <= Len(log[n])
    /\ budget \in [Budgets -> Nat]

StoreInit ==
    /\ log = [n \in Names |-> <<NoObj>>]
    /\ seen = [n \in Names |-> 0]
    /\ budget = Limit

\* The object at the API server, and the one in the cache.
Live(n) == log[n][Len(log[n])]
Cached(n) == IF seen[n] = 0 THEN NoObj ELSE log[n][seen[n]]

Spend(b) ==
    \/ b \in Free /\ UNCHANGED budget
    \/ b \notin Free /\ budget[b] > 0 /\ budget' = [budget EXCEPT ![b] = @ - 1]

Write(n, v) == log' = [log EXCEPT ![n] = Append(@, v)]

(***************************************************************************)
(* client.Update of the version rv of n, to v.  The answer is ok, or an    *)
(* error: a conflict (the object has moved on, or is gone), a failure of   *)
(* the request, or a failure of the answer to a request that was applied.  *)
(*                                                                         *)
(* The status is a subresource: Update writes all but the status, and      *)
(* Status().Update the status only.  Either is refused unless v was made   *)
(* from the newest version, so the part that it does not write is the same *)
(* in v as in that version, and what is stored is v.                       *)
(***************************************************************************)
Update(n, rv, v, ok) ==
    \/ /\ ok /\ rv = Len(log[n])
       /\ Write(n, v)
       /\ UNCHANGED budget
    \/ /\ ~ok /\ rv # Len(log[n])
       /\ UNCHANGED <<log, budget>>
    \/ /\ ~ok /\ Spend("fault")
       /\ \/ UNCHANGED log
          \/ rv = Len(log[n]) /\ Write(n, v)

-----------------------------------------------------------------------------
(* The user, with kubectl.                                                 *)

UserCreate(n) ==
    /\ Live(n) = NoObj
    /\ Spend("create")
    /\ \E i \in MayUse[n] :
           Write(n, [id |-> i, del |-> FALSE, fin |-> FALSE, st |-> NoStatus])
    /\ UNCHANGED seen

UserDelete(n) ==
    /\ Live(n) # NoObj
    /\ ~Live(n).del
    /\ Write(n, IF Live(n).fin THEN [Live(n) EXCEPT !.del = TRUE] ELSE NoObj)
    /\ UNCHANGED <<seen, budget>>

UserEdit(n) ==
    /\ Live(n) # NoObj
    /\ Spend("edit")
    /\ \E i \in MayUse[n] \ {Live(n).id} : Write(n, [Live(n) EXCEPT !.id = i])
    /\ UNCHANGED seen
=============================================================================
