------------------------- MODULE ConnectionController -------------------------
(***************************************************************************)
(* InterNetworkDomainConnectionReconciler                                  *)
(* (controllers/internetworkdomainconnection_controller.go), the process   *)
(* it runs in (main.go), the work queue and informer that drive it, and    *)
(* the AWI server it talks to through client/awi_client.go.                *)
(*                                                                         *)
(* The process begins with a dial that does not return before the server   *)
(* is reached, and only then starts anything.  One worker takes a name     *)
(* from the queue, reads the object from the cache, and then issues at     *)
(* most two remote calls, each of which can fail, be applied although its  *)
(* answer is lost, or be applied late.  Between any two of these steps the *)
(* user, the status watcher, the informer, an outage of the server or a    *)
(* crash of the process may intervene.                                     *)
(***************************************************************************)
EXTENDS KubeStore

CONSTANTS
    NoName,         \* the key of an idle worker
    ServerForgives  \* does the server accept a Disconnect of an unknown id?

ASSUME ControllerAssumption ==
    /\ NoName \notin Names
    /\ ServerForgives \in BOOLEAN

VARIABLES
    queue,   \* the work queue: a set, since a name that waits is not added again
    worker,  \* the one worker: where it is, its key, and the version it has read
    conns,   \* the connections that exist at the AWI server
    late,    \* requests the client gave up on (30s) that the server may yet serve
    server,  \* is the AWI server up or down, as far as the client can reach it?
    process  \* the process: still dialing, or serving

vars == <<log, seen, budget, queue, worker, conns, late, server, process>>

\* What is outside the reconciler, without and with what its requests change.
outside == <<server, process>>
remote == <<conns, late, server, process>>

\* "register" and "unregister" are the Updates that add and remove the
\* finalizer, "connect" and "disconnect" the requests to the AWI server.
Updating == {"register", "unregister"}
Calling == {"connect", "disconnect"}

Request == [op : Calling, id : Ids]

Idle == [pc |-> "idle", key |-> NoName, rv |-> 0]

\* The object the worker has in hand.
Copy == log[worker.key][worker.rv]

-----------------------------------------------------------------------------
(* The informer and the event filter.                                      *)

\* Mutant of Admits: no updates, not even of an object that is being deleted.
AdmitsCreates(old, new) == new # NoObj /\ old = NoObj

(***************************************************************************)
(* The informer reports that the cached object has become another one, and *)
(* calls it a create (nothing was cached), an update, or a delete.  The    *)
(* filter lets creates through, updates only to an object that is being    *)
(* deleted, and no deletes.                                                *)
(***************************************************************************)
Admits(old, new) == new # NoObj /\ (old = NoObj \/ new.del)

\* The cache moves on to the versions vs, which is an event for the names ns.
Inform(ns, vs) ==
    /\ seen' = vs
    /\ queue' = queue \cup {n \in ns : Admits(Cached(n), log[n][vs[n]])}

Newest == [n \in Names |-> Len(log[n])]

\* A watch event.
Deliver(n) ==
    /\ 0 < seen[n] /\ seen[n] < Len(log[n])
    /\ Inform({n}, [seen EXCEPT ![n] = @ + 1])
    /\ UNCHANGED <<log, budget, worker, remote>>

\* The first list of a process that has started its manager.
List ==
    /\ process = "serving"
    /\ \A n \in Names : seen[n] = 0
    /\ Inform(Names, Newest)
    /\ UNCHANGED <<log, budget, worker, remote>>

\* A list after a watch that expired: the versions in between are never seen.
Relist ==
    /\ \A n \in Names : seen[n] > 0
    /\ Spend("relist")
    /\ Inform(Names, Newest)
    /\ UNCHANGED <<log, worker, remote>>

-----------------------------------------------------------------------------
(* The AWI server, and the client's calls.                                 *)

Served(r) == IF r.op = "connect" THEN conns \cup {r.id} ELSE conns \ {r.id}

Accepts(r) == r.op = "connect" \/ ServerForgives \/ r.id \in conns

(***************************************************************************)
(* ConnectionRequest, DisconnectRequest.  The call returns no error only   *)
(* when the server has served the request.  On an error it may have been   *)
(* refused or not sent at all, lost, served with the answer lost, or be on *)
(* its way still when the 30 seconds are over.                             *)
(***************************************************************************)
Call(r, ok) ==
    \/ /\ ok /\ server = "up" /\ Accepts(r)
       /\ conns' = Served(r)
       /\ UNCHANGED <<budget, late>>
    \/ /\ ~ok /\ (server = "down" \/ ~Accepts(r))
       /\ UNCHANGED <<conns, budget, late>>
    \/ /\ ~ok /\ server = "up" /\ Spend("fault")
       /\ conns' \in {conns, Served(r)}
       /\ UNCHANGED late
    \/ /\ ~ok /\ Spend("late")
       /\ late' = late \cup {r}
       /\ UNCHANGED conns

\* The server gets to a request whose caller has given up.
Land(r) ==
    /\ r \in late
    /\ late' = late \ {r}
    /\ conns' = Served(r)
    /\ UNCHANGED <<storeVars, queue, worker, outside>>

\* The server cannot be reached any more, or again.
Outage ==
    /\ server = "up"
    /\ Spend("outage")
    /\ server' = "down"
    /\ UNCHANGED <<log, seen, queue, worker, conns, late, process>>

Recovery ==
    /\ server = "down"
    /\ server' = "up"
    /\ UNCHANGED <<storeVars, queue, worker, conns, late, process>>

-----------------------------------------------------------------------------
(* Reconcile.                                                              *)

Dequeue(n) ==
    /\ worker.pc = "idle"
    /\ n \in queue
    /\ queue' = queue \ {n}
    /\ worker' = [pc |-> "get", key |-> n, rv |-> 0]
    /\ UNCHANGED <<storeVars, remote>>

\* Mutant of Requeue: Reconcile logs the error and does not return it.
Swallow ==
    /\ worker' = Idle
    /\ UNCHANGED queue

\* Reconcile returns an error: the name goes back into the queue.
Requeue ==
    /\ worker' = Idle
    /\ queue' = queue \cup {worker.key}

\* Reconcile returns no error.
Return ==
    /\ worker' = Idle
    /\ UNCHANGED queue

\* Mutants of Branch: one without the finalizer, and one that takes the
\* finalizer for the mark of a deletion.
ConnectsFirst(c) == IF c.del THEN "disconnect" ELSE "connect"
DisconnectsRegistered(c) == IF c.fin THEN "disconnect" ELSE "register"

\* What Reconcile does first with an object that it has not finished with.
Branch(c) ==
    IF c.del THEN "disconnect" ELSE IF c.fin THEN "connect" ELSE "register"

\* An object in deletion that no longer has our finalizer.
LetGo(c) == c.del /\ ~c.fin

Finished(c) == c = NoObj \/ LetGo(c)

Get ==
    /\ worker.pc = "get"
    /\ LET c == Cached(worker.key)
       IN  IF Finished(c)
           THEN Return
           ELSE /\ worker' = [worker EXCEPT !.pc = Branch(c), !.rv = seen[worker.key]]
                /\ UNCHANGED queue
    /\ UNCHANGED <<storeVars, remote>>

\* Mutant of AddFinalizer: it goes on to connect although the Update failed.
AddFinalizerOrNot ==
    /\ worker.pc = "register"
    /\ \E ok \in BOOLEAN :
           /\ Update(worker.key, worker.rv, [Copy EXCEPT !.fin = TRUE], ok)
           /\ worker' = [worker EXCEPT !.pc = "connect", !.rv = IF ok THEN @ + 1 ELSE @]
    /\ UNCHANGED <<seen, queue, remote>>

AddFinalizer ==
    /\ worker.pc = "register"
    /\ \E ok \in BOOLEAN :
           /\ Update(worker.key, worker.rv, [Copy EXCEPT !.fin = TRUE], ok)
           /\ IF ok
              THEN /\ worker' = [worker EXCEPT !.pc = "connect", !.rv = @ + 1]
                   /\ UNCHANGED queue
              ELSE Requeue
    /\ UNCHANGED <<seen, remote>>

\* Mutant of Connect: a failed request is not tried again.
ConnectOnce ==
    /\ worker.pc = "connect"
    /\ \E ok \in BOOLEAN : Call([op |-> "connect", id |-> Copy.id], ok) /\ Return
    /\ UNCHANGED <<log, seen, outside>>

Connect ==
    /\ worker.pc = "connect"
    /\ \E ok \in BOOLEAN :
           /\ Call([op |-> "connect", id |-> Copy.id], ok)
           /\ IF ok THEN Return ELSE Requeue
    /\ UNCHANGED <<log, seen, outside>>

\* Mutant of Disconnect: it lets go of the object although the request failed.
DisconnectOrNot ==
    /\ worker.pc = "disconnect"
    /\ \E ok \in BOOLEAN : Call([op |-> "disconnect", id |-> Copy.id], ok)
    /\ worker' = [worker EXCEPT !.pc = "unregister"]
    /\ UNCHANGED <<log, seen, queue, outside>>

Disconnect ==
    /\ worker.pc = "disconnect"
    /\ \E ok \in BOOLEAN :
           /\ Call([op |-> "disconnect", id |-> Copy.id], ok)
           /\ IF ok
              THEN /\ worker' = [worker EXCEPT !.pc = "unregister"]
                   /\ UNCHANGED queue
              ELSE Requeue
    /\ UNCHANGED <<log, seen, outside>>

\* Mutant of RemoveFinalizer: reconciliation does not stop here.
RemoveFinalizerAndGoOn ==
    /\ worker.pc = "unregister"
    /\ \E ok \in BOOLEAN :
           /\ Update(worker.key, worker.rv, NoObj, ok)
           /\ IF ok
              THEN /\ worker' = [worker EXCEPT !.pc = "connect", !.rv = @ + 1]
                   /\ UNCHANGED queue
              ELSE Requeue
    /\ UNCHANGED <<seen, remote>>

\* The object is being deleted: without its finalizer it is gone.
RemoveFinalizer ==
    /\ worker.pc = "unregister"
    /\ \E ok \in BOOLEAN :
           /\ Update(worker.key, worker.rv, NoObj, ok)
           /\ IF ok THEN Return ELSE Requeue
    /\ UNCHANGED <<seen, remote>>

Work == Get \/ AddFinalizer \/ Connect \/ Disconnect \/ RemoveFinalizer

-----------------------------------------------------------------------------
(* The rest of the system.                                                 *)

\* The status watcher of this or of another process, which writes the status
\* of an object that it has read, if that is still the newest version.
StatusWrite(n) ==
    /\ Live(n) # NoObj
    /\ Spend("status")
    /\ \E s \in States :
           Write(n, [Live(n) EXCEPT !.st = [state |-> s, cid |-> Live(n).id]])
    /\ UNCHANGED <<seen, queue, worker, remote>>

\* NewClient returns, and main starts the manager and the goroutines.
Dial ==
    /\ process = "dialing"
    /\ server = "up"
    /\ process' = "serving"
    /\ UNCHANGED <<storeVars, queue, worker, conns, late, server>>

\* The process ends, by a crash, a probe, a lost lease or a new rollout, and
\* another one begins, with nothing in memory and with the dial.
Crash ==
    /\ Spend("crash")
    /\ seen' = [n \in Names |-> 0]
    /\ queue' = {}
    /\ worker' = Idle
    /\ process' = "dialing"
    /\ UNCHANGED <<log, conns, late, server>>

User(n) ==
    /\ UserCreate(n) \/ UserDelete(n) \/ UserEdit(n)
    /\ UNCHANGED <<queue, worker, remote>>

Init ==
    /\ StoreInit
    /\ queue = {}
    /\ worker = Idle
    /\ conns = {}
    /\ late = {}
    /\ server \in {"up", "down"}
    /\ process = "dialing"

\* The process without the worker, and what is around it.
Manager == Dial \/ List \/ Relist \/ \E n \in Names : Deliver(n) \/ Dequeue(n)

World == Outage \/ Recovery \/ (\E r \in late : Land(r)) \/ \E n \in Names : User(n)

\* The same with a status watcher that is not modelled as such.
Surroundings == World \/ \E n \in Names : StatusWrite(n)

Rest == Manager \/ Surroundings \/ Crash

Next == Work \/ Rest

Spec == Init /\ [][Next]_vars

(***************************************************************************)
(* The server comes back, a dial to it returns, watch events arrive, a     *)
(* started reconciliation goes on, and the queue is first in, first out    *)
(* with finite back-off, so that a name that waits there is taken although *)
(* the worker keeps being busy with others.  The user, the status watcher  *)
(* and the faults owe nobody anything.                                     *)
(***************************************************************************)
Fairness ==
    /\ WF_vars(Recovery) /\ WF_vars(Dial) /\ WF_vars(List) /\ WF_vars(Work)
    /\ \A n \in Names : WF_vars(Deliver(n)) /\ SF_vars(Dequeue(n))

FairSpec == Spec /\ Fairness

-----------------------------------------------------------------------------
(* Properties.                                                             *)

WorkerTypeOK ==
    \/ worker = Idle
    \/ /\ worker \in [pc : {"get"} \cup Updating \cup Calling, key : Names, rv : Nat]
       /\ seen[worker.key] > 0
       /\ worker.pc = "get" <=> worker.rv = 0
       /\ worker.rv > 0 => worker.rv <= Len(log[worker.key]) /\ Copy # NoObj

(***************************************************************************)
(* The types.  A reconciliation that got past Get holds a real version of  *)
(* its object, whatever has happened to that object since.                 *)
(***************************************************************************)
TypeOK ==
    /\ StoreTypeOK
    /\ queue \subseteq Names
    /\ \A n \in queue : seen[n] > 0
    /\ WorkerTypeOK
    /\ conns \subseteq Ids
    /\ late \subseteq Request
    /\ server \in {"up", "down"}
    /\ process \in {"dialing", "serving"}

\* n is an object that is connected, or is to be.
Wanted(n) == Live(n) # NoObj /\ ~Live(n).del

\* The operator has nothing more to do for n.
Quiet(n) == seen[n] = Len(log[n]) /\ n \notin queue /\ worker.key # n

(***************************************************************************)
(* A connection at the server always has an object that stands for it and  *)
(* that cannot go away without the reconciler: no delete of a CR leaves    *)
(* its connection behind.                                                  *)
(***************************************************************************)
NoOrphan ==
    \A i \in conns : \E n \in Names : Live(n) # NoObj /\ Live(n).fin /\ Live(n).id = i

(***************************************************************************)
(* When the operator rests, what the user asked for is so: an object that  *)
(* exists is not waiting to be deleted, and its connection exists.         *)
(***************************************************************************)
IntentKept ==
    \A n \in Names : Quiet(n) => Live(n) = NoObj \/ (Wanted(n) /\ Live(n).id \in conns)

\* When all objects are gone, so are all connections: the part of NoOrphan
\* that a user sees.
RemovedMeansDestroyed == (\A n \in Names : Live(n) = NoObj) => conns = {}

\* The half of IntentKept about deletion: a delete is never forgotten.
DeletionKept ==
    \A n \in Names : Quiet(n) => Live(n) = NoObj \/ Wanted(n)

(***************************************************************************)
(* Reconciliations of stale copies included, the operator never tears down *)
(* the connection of an object that nobody is deleting.                    *)
(***************************************************************************)
ServiceKept ==
    [][\A n \in Names : Wanted(n) /\ Live(n).id \in conns => Live(n).id \in conns']_vars

(***************************************************************************)
(* Whatever faults happen, a connection is opened only for an object that  *)
(* had the finalizer with this very spec first.                            *)
(***************************************************************************)
Registered ==
    \A i \in conns \cup {r.id : r \in late} :
        \E n \in Names : \E k \in 1..Len(log[n]) :
            log[n][k] # NoObj /\ log[n][k].fin /\ log[n][k].id = i

(***************************************************************************)
(* Once the user stops and the faults stop, the server has the connections *)
(* of the objects, no more and no fewer.                                   *)
(***************************************************************************)
Converges == <>[](conns = {Live(n).id : n \in {m \in Names : Wanted(m)}})

\* A deleted object does not hang in Terminating.
Released == \A n \in Names :
    (Live(n) # NoObj /\ Live(n).del) ~> (Live(n) = NoObj)

-----------------------------------------------------------------------------
(* Why NoOrphan and ServiceKept hold when specs are not edited, no two     *)
(* objects ask for the same connection, and the server serves a request    *)
(* in time or never: an invariant that the steps preserve.                 *)

\* A version of n that the worker may still read: the cache never goes back
\* while the process lives, and starts at the newest version.
Readable(n, k) == 0 < seen[n] /\ seen[n] <= k /\ log[n][k] # NoObj

Owned ==
    \A n \in Names : \A k \in 1..Len(log[n]) :
        log[n][k] # NoObj => log[n][k].id \in MayUse[n]

\* No edit and no late request is possible any more.
Calm ==
    /\ "edit" \notin Free /\ budget["edit"] = 0
    /\ "late" \notin Free /\ budget["late"] = 0
    /\ late = {}

\* If the worker can still read that n is to be connected, n still has its
\* finalizer: only the worker takes it off, once the cache has the delete.
ConnectReadable ==
    \A n \in Names : \A k \in 1..Len(log[n]) :
        Readable(n, k) /\ ~log[n][k].del /\ log[n][k].fin =>
            Live(n) # NoObj /\ Live(n).fin /\ Live(n).id = log[n][k].id

\* If the worker can still read that n is to be disconnected, a new n that
\* the user has created since does not have the finalizer yet.
DisconnectReadable ==
    \A n \in Names : \A k \in 1..Len(log[n]) :
        Readable(n, k) /\ log[n][k].del => ~(Wanted(n) /\ Live(n).fin)

\* What the worker knows of its object when it is about to ...
WorkerKnows ==
    LET n == worker.key
    IN  /\ worker.pc \in {"register", "disconnect", "unregister"} => worker.rv <= seen[n]
        /\ worker.pc = "register" => ~Copy.del /\ ~Copy.fin
        /\ worker.pc = "connect" => Live(n) # NoObj /\ Live(n).fin /\ Live(n).id = Copy.id
        /\ worker.pc \in {"disconnect", "unregister"} =>
               Copy.del /\ Copy.fin /\ ~(Wanted(n) /\ Live(n).fin)
        /\ worker.pc = "unregister" => Copy.id \notin conns

(***************************************************************************)
(* The inductive invariant: what the worker can still read, and what it    *)
(* has in hand, is never so stale that acting on it opens a connection for *)
(* an object that is gone or closes that of an object that is wanted.      *)
(***************************************************************************)
IInv ==
    /\ TypeOK /\ Owned /\ Calm
    /\ ConnectReadable /\ DisconnectReadable /\ WorkerKnows
    /\ NoOrphan

-----------------------------------------------------------------------------
(* Why DeletionKept holds in any case, and IntentKept if specs are not     *)
(* edited, no two objects ask for the same connection, the server serves a *)
(* request in time or never, and no watch expires: what the cache shows    *)
(* and is not done yet waits in the queue or is in the worker's hands.     *)

At(n, places) == worker.key = n /\ worker.pc \in places

\* Only what has the finalizer is ever seen to be in deletion.
DeletesGuarded ==
    \A n \in Names : \A k \in 1..Len(log[n]) :
        log[n][k] # NoObj /\ log[n][k].del => log[n][k].fin

DeletionPending ==
    \A n \in Names :
        seen[n] = Len(log[n]) /\ Live(n) # NoObj /\ Live(n).del =>
            n \in queue \/ At(n, {"get", "disconnect", "unregister"})

(***************************************************************************)
(* The inductive invariant of deletion: an object whose deletion is in the *)
(* cache is queued or being reconciled, whatever edits, late requests,     *)
(* expired watches and crashes there were.                                 *)
(***************************************************************************)
DeletionIInv == TypeOK /\ DeletesGuarded /\ DeletionPending

\* An object in deletion stays so until it is gone.
DeletionLasts ==
    \A n \in Names : \A k \in 1..Len(log[n]) - 1 :
        log[n][k] # NoObj /\ log[n][k].del => log[n][k + 1] = NoObj \/ log[n][k + 1].del

\* The versions of one object ask for one connection.
IdLasts ==
    \A n \in Names : \A j, k \in 1..Len(log[n]) :
        j <= k /\ (\A i \in j..k : log[n][i] # NoObj) => log[n][j].id = log[n][k].id

\* From version k of n to now, n has been there and was wanted.
SteadyFrom(n, k) ==
    0 < k /\ \A j \in k..Len(log[n]) : log[n][j] # NoObj /\ ~log[n][j].del

Steady(n) == SteadyFrom(n, seen[n])

\* The worker acts on a copy that is no longer what is wanted only while the
\* name is queued again.
CopyInHand ==
    /\ worker.pc = "register" => ~Copy.del
    /\ worker.pc \in {"disconnect", "unregister"} => Copy.del
    /\ worker.rv > 0 /\ Steady(worker.key) /\ worker.key \notin queue =>
           SteadyFrom(worker.key, worker.rv)

Waits(n) == n \in queue \/ At(n, {"get", "register", "connect"})

ConnectPending == \A n \in Names : Steady(n) => Waits(n) \/ Live(n).id \in conns

(***************************************************************************)
(* The inductive invariant of the user's intent: an object that the cache  *)
(* shows, and that has not been touched since, is connected unless it is   *)
(* queued or being reconciled.                                             *)
(***************************************************************************)
IntentIInv ==
    /\ DeletionIInv /\ Owned /\ Calm
    /\ "relist" \notin Free /\ budget["relist"] = 0
    /\ DeletionLasts /\ IdLasts /\ CopyInHand /\ ConnectPending

-----------------------------------------------------------------------------
\* The resource that an object stands for in ConnectionPromise.
Phase(o) == IF o.del THEN "leaving" ELSE IF o.fin THEN "guarded" ELSE "asked"
Promised(n) ==
    IF Live(n) = NoObj THEN NoObj ELSE [id |-> Live(n).id, phase |-> Phase(Live(n))]

Promise == INSTANCE ConnectionPromise
           WITH cr <- [n \in Names |-> Promised(n)], Absent <- NoObj

(***************************************************************************)
(* The reconciler with its cache, queue and retries keeps the promise:     *)
(* whoever looks only at the objects and the connections sees the steps of *)
(* ConnectionPromise, in its order.                                        *)
(***************************************************************************)
KeepsPromise == Promise!Spec

\* And it keeps it in time: what Reconcile has to do for an object, through its
\* retries and restarts, is not put off forever.
KeepsPromiseInTime == Promise!Fairness
=============================================================================
