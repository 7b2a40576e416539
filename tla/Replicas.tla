-------------------------------- MODULE Replicas --------------------------------
(***************************************************************************)
(* Two processes of the operator over one API server and one AWI server,   *)
(* as there are during a rollout or after a process has failed, with and   *)
(* without --leader-elect (main.go).                                       *)
(*                                                                         *)
(* Each process is one of ConnectionController with a cache, a queue and a *)
(* worker of its own.  The variables of ConnectionController are those of  *)
(* the process whose turn it is, and the other one is kept in other; Swap  *)
(* is the other's turn.  The two are alike, so neither has a name.         *)
(*                                                                         *)
(* With leader election only the process that holds the lease runs its     *)
(* controllers.  The status watcher does not wait for the lease, and its   *)
(* List has the manager start the cache: a process that takes the lease    *)
(* over begins with the objects of a cache that may be behind what the     *)
(* last leader has written.                                                *)
(***************************************************************************)
EXTENDS ConnectionController

VARIABLES
    elects,  \* --leader-elect, the same for both
    lease,   \* who has the lease: "this" process, the "other" one, or "none"
    other,   \* the process whose turn it is not
    lagged   \* history: has a process led from a cache that was behind?

replicaVars == <<vars, elects, lease, other, lagged>>

\* The process whose turn it is, and one that has not dialed yet.
Here == [seen |-> seen, queue |-> queue, worker |-> worker, process |-> process]

Unstarted ==
    [seen |-> [n \in Names |-> 0], queue |-> {}, worker |-> Idle, process |-> "dialing"]

\* Mutant of Leads: the controllers start in either process.
LeadsAnyway == TRUE

\* Do the controllers of this process run?
Leads == elects => lease = "this"

-----------------------------------------------------------------------------

Turned == [this |-> "other", other |-> "this", none |-> "none"]

Swap ==
    /\ seen' = other.seen /\ queue' = other.queue
    /\ worker' = other.worker /\ process' = other.process
    /\ other' = Here
    /\ lease' = Turned[lease]
    /\ UNCHANGED <<log, budget, conns, late, server, elects, lagged>>

\* The cache of a process that does not lead: it is filled for the watcher,
\* and no controller is told of it.
Follow ==
    /\ ~Leads /\ process = "serving"
    /\ \/ (\A n \in Names : seen[n] = 0) /\ seen' = Newest
       \/ \E n \in Names :
              0 < seen[n] /\ seen[n] < Len(log[n]) /\ seen' = [seen EXCEPT ![n] = @ + 1]
    /\ UNCHANGED <<log, budget, queue, worker, remote>>

\* What one process does with all of ConnectionController, or without its
\* controllers, and what goes on around both.
Turn ==
    /\ \/ Leads /\ (Work \/ Manager)
       \/ ~Leads /\ Dial
       \/ Follow
       \/ Surroundings
    /\ UNCHANGED <<elects, lease, other, lagged>>

\* Mutant of Acquire: the controllers are not told of what is cached already.
AcquireSilently ==
    /\ elects /\ lease = "none" /\ process = "serving"
    /\ lease' = "this"
    /\ lagged' = (lagged \/ \E n \in Names : 0 < seen[n] /\ seen[n] < Len(log[n]))
    /\ UNCHANGED <<vars, elects, other>>

\* The lease is free and this process gets it.  Its controllers start, and
\* are told of every object in the cache as if it had just been created.
Acquire ==
    /\ elects /\ lease = "none" /\ process = "serving"
    /\ lease' = "this"
    /\ queue' = {n \in Names : Cached(n) # NoObj}
    /\ lagged' = (lagged \/ \E n \in Names : 0 < seen[n] /\ seen[n] < Len(log[n]))
    /\ UNCHANGED <<storeVars, worker, remote, elects, other>>

\* Mutant of Ends: the lease is kept.
EndsWithLease == Crash /\ UNCHANGED <<elects, lease, other, lagged>>

\* A process ends, or loses its lease and ends for that; in time its lease
\* is free again.
Ends ==
    /\ Crash
    /\ lease' = IF lease = "this" THEN "none" ELSE lease
    /\ UNCHANGED <<elects, other, lagged>>

ReplicasInit ==
    /\ Init
    /\ elects \in BOOLEAN
    /\ lease = "none"
    /\ other = Unstarted
    /\ lagged = FALSE

ReplicasNext == Turn \/ Swap \/ Acquire \/ Ends

ReplicasSpec == ReplicasInit /\ [][ReplicasNext]_replicaVars

\* Either process gets its turns, and what ConnectionController is fair to is
\* done in one of them: what starts a process or moves its cache can be done
\* only so often, so that both get to the end of it.
Starts == Turn /\ (Dial \/ List \/ Follow \/ \E n \in Names : Deliver(n))

ReplicasFairness ==
    /\ WF_replicaVars(Swap) /\ WF_replicaVars(Recovery /\ Turn)
    /\ SF_replicaVars(Starts \/ Acquire)
    /\ SF_replicaVars(Work /\ Turn)
    /\ \A n \in Names : SF_replicaVars(Dequeue(n) /\ Turn)

ReplicasFairSpec == ReplicasSpec /\ ReplicasFairness

-----------------------------------------------------------------------------
(* Properties.                                                             *)

\* The types; without the lease a process of an elected pair has no work, and
\* a process that has not dialed has nothing at all.
ReplicasTypeOK ==
    /\ TypeOK
    /\ elects \in BOOLEAN /\ lagged \in BOOLEAN
    /\ lease \in {"this", "other", "none"}
    /\ ~Leads => queue = {} /\ worker = Idle
    /\ process = "dialing" => lease # "this" /\ Here = Unstarted

\* The other process, as it sees the same objects and connections.
Other == INSTANCE ConnectionController
         WITH seen <- other.seen, queue <- other.queue,
              worker <- other.worker, process <- other.process

OtherLeads == elects => lease = "other"

(***************************************************************************)
(* When every process whose controllers run has nothing left to do for an  *)
(* object, the object is connected or gone.  A takeover from an old cache, *)
(* and a second reconciler that works from copies of its own, may undo     *)
(* what was done, but then something is left to do.                        *)
(***************************************************************************)
IntentKeptByAll ==
    \A n \in Names : Leads /\ Quiet(n) /\ (elects \/ Other!Quiet(n)) =>
        Live(n) = NoObj \/ (Wanted(n) /\ Live(n).id \in conns)

\* One process at a time, and each began from a cache that was not behind.
Led == elects /\ ~lagged

(***************************************************************************)
(* "Enabling this will ensure there is only one active controller          *)
(* manager": then no change of leader leaves a connection behind.          *)
(***************************************************************************)
NoOrphanIfLed == Led => NoOrphan

(***************************************************************************)
(* And no change of leader, in whatever step the last one was, closes the  *)
(* connection of an object that nobody is deleting.                        *)
(***************************************************************************)
ServiceKeptIfLed ==
    [][Led => \A n \in Names : Wanted(n) /\ Live(n).id \in conns => Live(n).id \in conns']_replicaVars

(***************************************************************************)
(* Two processes do not keep each other from finishing: once users and     *)
(* faults rest, every object that is wanted is connected, and none hangs   *)
(* in its deletion, whoever leads or although both do.                     *)
(***************************************************************************)
ServedByAny ==
    /\ <>[](\A n \in Names : Wanted(n) => Live(n).id \in conns)
    /\ <>[](\A n \in Names : Live(n) # NoObj => ~Live(n).del)

-----------------------------------------------------------------------------
(* Why they hold.                                                          *)

\* What ReplicasTypeOK says, of both.
PairTypeOK ==
    /\ ReplicasTypeOK
    /\ other = [seen |-> other.seen, queue |-> other.queue,
                worker |-> other.worker, process |-> other.process]
    /\ Other!TypeOK
    /\ ~OtherLeads => other.queue = {} /\ other.worker = Idle
    /\ other.process = "dialing" => lease # "other" /\ other = Unstarted

(***************************************************************************)
(* The inductive invariant of a pair with one leader at a time: what the   *)
(* leader has read and has in hand is as in ConnectionController, and what *)
(* the other one has cached meanwhile does not matter before it leads.     *)
(***************************************************************************)
LedIInv ==
    /\ PairTypeOK
    /\ Led => /\ Owned /\ Calm /\ NoOrphan
              /\ lease = "this" => IInv
              /\ lease = "other" => Other!IInv

\* An object that is steady in the cache of each leader, of one or of two, is
\* connected unless it waits in one of them.
PairPending ==
    \A n \in Names :
        (Leads \/ OtherLeads) /\ (Leads => Steady(n)) /\ (OtherLeads => Other!Steady(n)) =>
            Waits(n) \/ Other!Waits(n) \/ Live(n).id \in conns

(***************************************************************************)
(* The inductive invariant of the user's intent with two processes.  It    *)
(* does without IInv: one of two leaders, or a new one with an old cache,  *)
(* may close what is wanted or open what is not, but only with a copy that *)
(* the other one, or the new cache, will find to be old.                   *)
(***************************************************************************)
PairIInv ==
    /\ PairTypeOK
    /\ DeletesGuarded /\ Owned /\ DeletionLasts /\ IdLasts /\ Calm
    /\ "relist" \notin Free /\ budget["relist"] = 0
    /\ CopyInHand /\ Other!CopyInHand
    /\ Leads => DeletionPending
    /\ OtherLeads => Other!DeletionPending
    /\ PairPending
=============================================================================
