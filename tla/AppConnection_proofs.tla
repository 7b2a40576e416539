-------------------------- MODULE AppConnection_proofs --------------------------
(***************************************************************************)
(* The app connection reconciler implements the connection reconciler with *)
(* its search hidden (ReconcilesAlike), so that what is proved of the one  *)
(* holds of the other: the lemmas of ConnectionIntent_proofs, and of the   *)
(* modules that it extends, are taken here for the mapped state.           *)
(***************************************************************************)
EXTENDS AppConnectionController, TLAPS

Safe == INSTANCE ConnectionIntent_proofs WITH
    worker <- Unsearched,
    ServerForgives <- TRUE,
    Free <- Free \cup {"crash"},
    budget <- [budget EXCEPT !["crash"] = 0],
    Limit <- [Limit EXCEPT !["crash"] = 0]

\* As for the connection reconciler: no edits and no late requests, no two
\* objects that ask for the same connection, and no watch that expires.
CalmLimit ==
    /\ "edit" \notin Free /\ Limit["edit"] = 0
    /\ "late" \notin Free /\ Limit["late"] = 0

DisjointUse == \A m, n \in Names : m # n => MayUse[m] \cap MayUse[n] = {}

WatchesLast == "relist" \notin Free /\ Limit["relist"] = 0

-----------------------------------------------------------------------------
(* The assumptions of the instance.                                        *)

LEMMA Assumptions ==
    /\ Safe!StoreAssumption /\ Safe!ControllerAssumption
    /\ CalmLimit => Safe!CalmLimit
    /\ DisjointUse => Safe!DisjointUse
    /\ WatchesLast => Safe!WatchesLast
<1>1. Safe!StoreAssumption
    BY StoreAssumption
       DEF Safe!StoreAssumption, Safe!Budgets, Safe!Object, Safe!Status,
           StoreAssumption, Budgets, Object, Status
<1>2. Safe!ControllerAssumption
    BY ControllerAssumption DEF Safe!ControllerAssumption, ControllerAssumption
<1>3. CalmLimit => Safe!CalmLimit
    BY StoreAssumption DEF Safe!CalmLimit, CalmLimit, StoreAssumption, Budgets
<1>4. DisjointUse => Safe!DisjointUse
    BY DEF Safe!DisjointUse, DisjointUse
<1>5. WatchesLast => Safe!WatchesLast
    BY StoreAssumption DEF Safe!WatchesLast, WatchesLast, StoreAssumption, Budgets
<1> QED
    BY <1>1, <1>2, <1>3, <1>4, <1>5

\* The two instances of ConnectionController are one.
LEMMA OneInstance ==
    (Alike!Init <=> Safe!Init) /\ (Alike!Next <=> Safe!Next) /\ Alike!vars = Safe!vars
BY DEF Alike!Init, Safe!Init, Alike!StoreInit, Safe!StoreInit, Alike!Idle, Safe!Idle,
       Alike!Next, Safe!Next, Alike!Work, Safe!Work, Alike!Rest, Safe!Rest,
       Alike!Manager, Safe!Manager, Alike!Surroundings, Safe!Surroundings, Alike!World, Safe!World,
       Alike!Dial, Safe!Dial, Alike!List, Safe!List, Alike!Relist, Safe!Relist,
       Alike!Deliver, Safe!Deliver, Alike!Dequeue, Safe!Dequeue, Alike!Inform, Safe!Inform,
       Alike!Admits, Safe!Admits, Alike!Newest, Safe!Newest, Alike!Cached, Safe!Cached,
       Alike!Live, Safe!Live, Alike!Spend, Safe!Spend, Alike!Write, Safe!Write,
       Alike!Update, Safe!Update, Alike!UserCreate, Safe!UserCreate, Alike!UserDelete, Safe!UserDelete,
       Alike!UserEdit, Safe!UserEdit, Alike!User, Safe!User, Alike!StatusWrite, Safe!StatusWrite,
       Alike!Outage, Safe!Outage, Alike!Recovery, Safe!Recovery, Alike!Land, Safe!Land,
       Alike!Served, Safe!Served, Alike!Accepts, Safe!Accepts, Alike!Call, Safe!Call,
       Alike!Crash, Safe!Crash, Alike!Get, Safe!Get, Alike!Finished, Safe!Finished,
       Alike!LetGo, Safe!LetGo,
       Alike!Branch, Safe!Branch, Alike!Return, Safe!Return, Alike!Requeue, Safe!Requeue,
       Alike!AddFinalizer, Safe!AddFinalizer, Alike!Connect, Safe!Connect, Alike!Disconnect, Safe!Disconnect,
       Alike!RemoveFinalizer, Safe!RemoveFinalizer, Alike!Copy, Safe!Copy, Alike!remote, Safe!remote,
       Alike!outside, Safe!outside, Alike!storeVars, Safe!storeVars, Alike!vars, Safe!vars

LEMMA OneStep == [Safe!Next]_Safe!vars <=> [Alike!Next]_Alike!vars
BY OneInstance DEF Alike!vars, Safe!vars

LEMMA SafeInvariant ==
    ASSUME Safe!IInv, [Safe!Next]_Safe!vars
    PROVE  Safe!IInv'
BY Assumptions, Safe!IInvNext DEF Safe!StoreAssumption, Safe!ControllerAssumption

-----------------------------------------------------------------------------
(* The operators under the mapping.                                        *)

Typed == budget \in [Budgets -> Nat] /\ Safe!TypeOK

LEMMA Same ==
    /\ \A n : Safe!Live(n) = Live(n) /\ Safe!Cached(n) = Cached(n)
    /\ Safe!Budgets = Budgets /\ Safe!Idle = Idle /\ Safe!Newest = Newest
    /\ \A n, v : Safe!Write(n, v) <=> Write(n, v)
    /\ \A old, new : Safe!Admits(old, new) <=> Admits(old, new)
    /\ \A ns, vs : Safe!Inform(ns, vs) <=> Inform(ns, vs)
    /\ \A r : Safe!Served(r) = Served(r)
BY DEF Safe!Live, Live, Safe!Cached, Cached, Safe!Budgets, Budgets, Safe!Idle, Idle, Safe!Newest,
       Newest, Safe!Write, Write, Safe!Admits, Admits, Safe!Inform, Inform, Safe!Served, Served

LEMMA Spends ==
    ASSUME budget \in [Budgets -> Nat], NEW b \in Budgets, Spend(b)
    PROVE  Safe!Spend(b)
BY DEF Spend, Safe!Spend, Budgets

LEMMA Updates ==
    ASSUME budget \in [Budgets -> Nat], NEW n, NEW rv, NEW v, NEW ok, Update(n, rv, v, ok)
    PROVE  Safe!Update(n, rv, v, ok)
<1>1. Spend("fault") => Safe!Spend("fault")
    BY Spends DEF Budgets
<1> QED
    BY <1>1, Same DEF Update, Safe!Update

LEMMA Calls ==
    ASSUME budget \in [Budgets -> Nat], NEW r, NEW ok, Call(r, ok), Accepts(r)
    PROVE  Safe!Call(r, ok)
<1>1. /\ Spend("fault") => Safe!Spend("fault")
      /\ Spend("late") => Safe!Spend("late")
    BY Spends DEF Budgets
<1> QED
    BY <1>1, Same DEF Call, Safe!Call, Accepts, Safe!Accepts

-----------------------------------------------------------------------------
(* Every step is one of the other reconciler's, or none at all.            *)

WorkerPlaces == {"idle", "get", "register", "unregister", "connect", "disconnect", "teardown"}

\* What the steps of the search rely on: no other step takes the connection
\* away between the list and the disconnect.
AppInv ==
    /\ Safe!IInv
    /\ budget \in [Budgets -> Nat]
    /\ worker \in [pc : WorkerPlaces, key : Names \cup {NoName}, rv : Nat]
    /\ worker.pc = "teardown" => Copy.id \in conns

\* Outside a search the mapping changes nothing.
Plain == worker.pc # "teardown" /\ worker'.pc # "teardown"

LEMMA PlainWorker ==
    ASSUME Plain
    PROVE  Unsearched = worker /\ Unsearched' = worker' /\ Safe!Copy = Copy
BY DEF Plain, Unsearched, Safe!Copy, Copy

LEMMA ReconcilesPlain ==
    ASSUME AppInv, Get \/ AddFinalizer \/ RemoveFinalizer \/ AppConnect
    PROVE  Safe!Work
<1>1. Plain /\ budget \in [Budgets -> Nat]
    <2>1. DOMAIN worker = {"pc", "key", "rv"} /\ budget \in [Budgets -> Nat]
        BY DEF AppInv
    <2>2. Return \/ Requeue => worker'.pc = "idle"
        BY DEF Return, Requeue, Idle
    <2>3. CASE Get
        <3>1. \A c : Branch(c) # "teardown"
            BY DEF Branch
        <3>2. worker.pc = "get"
              /\ (Return \/ \E c : worker' = [worker EXCEPT !.pc = Branch(c),
                                                        !.rv = seen[worker.key]])
            BY <2>3 DEF Get
        <3> QED
            BY <2>1, <2>2, <3>1, <3>2 DEF Plain
    <2>4. CASE AddFinalizer
        BY <2>1, <2>2, <2>4 DEF Plain, AddFinalizer
    <2>5. CASE RemoveFinalizer
        BY <2>1, <2>2, <2>5 DEF Plain, RemoveFinalizer
    <2>6. CASE AppConnect
        BY <2>1, <2>2, <2>6 DEF Plain, AppConnect, Connect
    <2> QED
        BY <2>1, <2>3, <2>4, <2>5, <2>6
<1>2. Unsearched = worker /\ Unsearched' = worker' /\ Safe!Copy = Copy
    BY <1>1, PlainWorker
<1>3. (Requeue => Safe!Requeue) /\ (Return => Safe!Return)
    BY <1>2, Same DEF Requeue, Safe!Requeue, Return, Safe!Return
<1>4. UNCHANGED budget => UNCHANGED [budget EXCEPT !["crash"] = 0]
    OBVIOUS
<1>5. Get => Safe!Get
    BY <1>2, <1>3, <1>4, Same
       DEF Get, Safe!Get, Finished, Safe!Finished, LetGo, Safe!LetGo, Branch, Safe!Branch, storeVars, Safe!storeVars,
           remote, Safe!remote
<1>6. AddFinalizer => Safe!AddFinalizer
    <2> SUFFICES ASSUME AddFinalizer PROVE Safe!AddFinalizer
        OBVIOUS
    <2>1. PICK ok \in BOOLEAN :
              /\ Update(worker.key, worker.rv, [Copy EXCEPT !.fin = TRUE], ok)
              /\ IF ok
                 THEN /\ worker' = [worker EXCEPT !.pc = "connect", !.rv = @ + 1]
                      /\ UNCHANGED queue
                 ELSE Requeue
        BY DEF AddFinalizer
    <2>2. Safe!Update(worker.key, worker.rv, [Copy EXCEPT !.fin = TRUE], ok)
        BY <1>1, <2>1, Updates
    <2> QED
        BY <1>2, <1>3, <2>1, <2>2 DEF AddFinalizer, Safe!AddFinalizer, remote, Safe!remote
<1>7. RemoveFinalizer => Safe!RemoveFinalizer
    <2> SUFFICES ASSUME RemoveFinalizer PROVE Safe!RemoveFinalizer
        OBVIOUS
    <2>1. PICK ok \in BOOLEAN :
              /\ Update(worker.key, worker.rv, NoObj, ok)
              /\ IF ok THEN Return ELSE Requeue
        BY DEF RemoveFinalizer
    <2>2. Safe!Update(worker.key, worker.rv, NoObj, ok)
        BY <1>1, <2>1, Updates
    <2> QED
        BY <1>2, <1>3, <2>1, <2>2 DEF RemoveFinalizer, Safe!RemoveFinalizer, remote, Safe!remote
<1>8. AppConnect => Safe!Connect
    <2> SUFFICES ASSUME AppConnect PROVE Safe!Connect
        OBVIOUS
    <2>1. PICK ok \in BOOLEAN :
              /\ Call([op |-> "connect", id |-> Copy.id], ok)
              /\ IF ok THEN Return ELSE Requeue
        BY DEF AppConnect, Connect
    <2>2. Accepts([op |-> "connect", id |-> Copy.id])
        BY DEF Accepts
    <2>3. Safe!Call([op |-> "connect", id |-> Copy.id], ok)
        BY <1>1, <2>1, <2>2, Calls
    <2> QED
        BY <1>2, <1>3, <2>1, <2>3
           DEF AppConnect, Connect, Safe!Connect, outside, Safe!outside
<1> QED
    BY <1>5, <1>6, <1>7, <1>8 DEF Safe!Work

\* The list and the search, and the disconnect that follows.
LEMMA ReconcilesSearching ==
    ASSUME AppInv, Find \/ Teardown
    PROVE  Safe!Disconnect \/ UNCHANGED Safe!vars
<1>1. /\ budget \in [Budgets -> Nat]
      /\ worker \in [pc : WorkerPlaces, key : Names \cup {NoName}, rv : Nat]
      /\ worker.pc = "teardown" => Copy.id \in conns
    BY DEF AppInv
<1>2. worker.pc \in {"disconnect", "teardown"}
    BY DEF Find, Teardown
<1>3. Unsearched.pc = "disconnect" /\ Safe!Copy = Copy
      /\ Unsearched.key = worker.key /\ Unsearched.rv = worker.rv
    BY <1>1, <1>2 DEF Unsearched, Safe!Copy, Copy
<1>4. Requeue => Safe!Requeue
    BY <1>3, Same DEF Requeue, Safe!Requeue, Idle, Unsearched
<1>5. ASSUME worker' = [worker EXCEPT !.pc = "unregister"]
      PROVE  Unsearched' = [Unsearched EXCEPT !.pc = "unregister"]
    BY <1>1, <1>2, <1>5 DEF Unsearched
<1> DEFINE r == [op |-> "disconnect", id |-> Copy.id]
<1>6. CASE Find
    <2>1. UNCHANGED <<log, seen, remote>> /\ UNCHANGED <<conns, late, server, process>>
        BY <1>6 DEF Find, remote
    <2>2. CASE Copy.id \in conns /\ worker' = [worker EXCEPT !.pc = "teardown"]
               /\ UNCHANGED <<queue, budget>>
        <3>1. Unsearched' = Unsearched
            BY <1>1, <1>2, <1>6, <2>2 DEF Unsearched, Find
        <3> QED
            BY <2>1, <2>2, <3>1 DEF Safe!vars
    <2>3. CASE server = "up" /\ Copy.id \notin conns
               /\ worker' = [worker EXCEPT !.pc = "unregister"] /\ UNCHANGED <<queue, budget>>
        <3>1. Safe!Call(r, TRUE)
            BY <2>1, <2>3, Same DEF Safe!Call, Safe!Accepts, Served
        <3> QED
            BY <1>3, <1>5, <2>1, <2>3, <3>1 DEF Safe!Disconnect, Safe!outside
    <2>4. CASE Requeue /\ IF server = "up" THEN Spend("fault") ELSE UNCHANGED budget
        <3>1. Spend("fault") => Safe!Spend("fault")
            BY <1>1, Spends DEF Budgets
        <3>2. server = "down" \/ server = "up"
            BY DEF AppInv, Safe!IInv, Safe!TypeOK
        <3>3. Safe!Call(r, FALSE)
            BY <2>1, <2>4, <3>1, <3>2 DEF Safe!Call
        <3> QED
            BY <1>3, <1>4, <2>1, <2>4, <3>3 DEF Safe!Disconnect, Safe!outside
    <2> QED
        BY <1>6, <2>2, <2>3, <2>4 DEF Find
<1>7. CASE Teardown
    <2>1. PICK ok \in BOOLEAN :
              /\ Call(r, ok)
              /\ IF ok
                 THEN /\ worker' = [worker EXCEPT !.pc = "unregister"]
                      /\ UNCHANGED queue
                 ELSE Requeue
        BY <1>7 DEF Teardown
    <2>2. Accepts(r)
        BY <1>1, <1>7 DEF Accepts, Teardown
    <2>3. Safe!Call(r, ok)
        BY <1>1, <2>1, <2>2, Calls
    <2> QED
        BY <1>3, <1>4, <1>5, <1>7, <2>1, <2>3
           DEF Teardown, Safe!Disconnect, outside, Safe!outside
<1> QED
    BY <1>6, <1>7

\* What goes on around the worker is the same for both.
LEMMA RestIsRest ==
    ASSUME AppInv, Rest \/ Panic
    PROVE  Safe!Rest
<1>1. budget \in [Budgets -> Nat]
    BY DEF AppInv
<1>2. /\ UNCHANGED budget => UNCHANGED [budget EXCEPT !["crash"] = 0]
      /\ UNCHANGED worker => UNCHANGED Unsearched
      /\ worker' = Idle => Unsearched' = Safe!Idle
    BY DEF Unsearched, Idle, Safe!Idle
<1>3. \A b \in Budgets : Spend(b) => Safe!Spend(b)
    BY <1>1, Spends
<1> USE DEF storeVars, Safe!storeVars, remote, Safe!remote, outside, Safe!outside
<1>4. Dial => Safe!Dial
    BY <1>2 DEF Dial, Safe!Dial
<1>5. List => Safe!List
    BY <1>2, Same DEF List, Safe!List
<1>6. Relist => Safe!Relist
    BY <1>2, <1>3, Same DEF Relist, Safe!Relist, Budgets
<1>7. \A n \in Names : Deliver(n) => Safe!Deliver(n)
    BY <1>2, Same DEF Deliver, Safe!Deliver
<1>8. ASSUME NEW n \in Names, Dequeue(n)
      PROVE  Safe!Dequeue(n)
    <2>1. Unsearched.pc = "idle" /\ Unsearched' = [pc |-> "get", key |-> n, rv |-> 0]
        BY <1>8 DEF Dequeue, Unsearched
    <2> QED
        BY <1>2, <1>8, <2>1 DEF Dequeue, Safe!Dequeue
<1>9. \A n \in Names : StatusWrite(n) => Safe!StatusWrite(n)
    BY <1>2, <1>3, Same DEF StatusWrite, Safe!StatusWrite, Budgets
<1>10. \A n \in Names : User(n) => Safe!User(n)
    <2>1. \A n \in Names : UserCreate(n) => Safe!UserCreate(n)
        BY <1>3, Same DEF UserCreate, Safe!UserCreate, Budgets
    <2>2. \A n \in Names : UserDelete(n) => Safe!UserDelete(n)
        BY <1>2, Same DEF UserDelete, Safe!UserDelete
    <2>3. \A n \in Names : UserEdit(n) => Safe!UserEdit(n)
        BY <1>3, Same DEF UserEdit, Safe!UserEdit, Budgets
    <2> QED
        BY <1>2, <2>1, <2>2, <2>3 DEF User, Safe!User
<1>11. Outage => Safe!Outage
    BY <1>2, <1>3 DEF Outage, Safe!Outage, Budgets
<1>12. Recovery => Safe!Recovery
    BY <1>2 DEF Recovery, Safe!Recovery
<1>13. \A r \in late : Land(r) => Safe!Land(r)
    BY <1>2, Same DEF Land, Safe!Land
<1>14. Crash \/ Panic => Safe!Crash
    <2>1. Spend("crash") \/ UNCHANGED budget => Safe!Spend("crash")
        BY <1>2, <1>3 DEF Safe!Spend, Budgets
    <2> QED
        BY <1>2, <2>1 DEF Crash, Panic, Safe!Crash
<1>15. Manager => Safe!Manager
    BY <1>4, <1>5, <1>6, <1>7, <1>8 DEF Manager, Safe!Manager
<1>16. Surroundings => Safe!Surroundings
    BY <1>9, <1>10, <1>11, <1>12, <1>13
       DEF Surroundings, Safe!Surroundings, World, Safe!World
<1> QED
    BY <1>14, <1>15, <1>16 DEF Rest, Safe!Rest

LEMMA StepMaps ==
    ASSUME AppInv, [AppNext]_vars
    PROVE  [Safe!Next]_Safe!vars
<1>1. CASE UNCHANGED vars
    BY <1>1 DEF vars, Safe!vars, Unsearched
<1>2. CASE AppNext
    <2>1. Safe!Work \/ Safe!Rest \/ Safe!Disconnect \/ UNCHANGED Safe!vars
        BY <1>2, ReconcilesPlain, ReconcilesSearching, RestIsRest DEF AppNext, AppWork
    <2> QED
        BY <2>1 DEF Safe!Next, Safe!Work
<1> QED
    BY <1>1, <1>2

-----------------------------------------------------------------------------
(* The invariant.                                                          *)

LEMMA InitMaps == Init => Safe!Init /\ budget \in [Budgets -> Nat] /\ worker = Idle
<1> SUFFICES ASSUME Init PROVE Safe!Init /\ budget \in [Budgets -> Nat] /\ worker = Idle
    OBVIOUS
<1>1. budget = Limit /\ Limit \in [Budgets -> Nat]
    BY StoreAssumption DEF Init, StoreInit, StoreAssumption
<1>2. Unsearched = Safe!Idle
    BY DEF Init, Unsearched, Idle, Safe!Idle
<1> QED
    BY <1>1, <1>2 DEF Init, StoreInit, Safe!Init, Safe!StoreInit

LEMMA AppInit == ASSUME CalmLimit, Init PROVE AppInv
<1>1. Safe!Init /\ budget \in [Budgets -> Nat] /\ worker = Idle
    BY InitMaps
<1>2. Safe!IInv
    BY <1>1, Assumptions, Safe!IInvInit DEF Safe!StoreAssumption, Safe!ControllerAssumption
<1> QED
    BY <1>1, <1>2 DEF AppInv, Idle, WorkerPlaces

LEMMA WorkerMoves ==
    ASSUME AppInv, [AppNext]_vars
    PROVE  /\ budget' \in [Budgets -> Nat]
           /\ worker' \in [pc : WorkerPlaces, key : Names \cup {NoName}, rv : Nat]
           /\ worker'.pc = "teardown" => Copy'.id \in conns'
<1>1. /\ budget \in [Budgets -> Nat]
      /\ worker \in [pc : WorkerPlaces, key : Names \cup {NoName}, rv : Nat]
      /\ worker.pc = "teardown" => Copy.id \in conns
      /\ late = {} /\ log \in [Names -> Seq(Version)] /\ seen \in [Names -> Nat]
    BY DEF AppInv, Safe!IInv, Safe!Calm, Safe!TypeOK, Safe!StoreTypeOK, Safe!Version, Safe!Object,
           Safe!Status, Version, Object, Status
<1>2. Idle \in [pc : WorkerPlaces, key : Names \cup {NoName}, rv : Nat]
    BY DEF Idle, WorkerPlaces
<1>3. \A b \in Budgets : Spend(b) => budget' \in [Budgets -> Nat]
    BY <1>1 DEF Spend
<1>4. ASSUME NEW n, NEW rv, NEW v, NEW ok, Update(n, rv, v, ok)
      PROVE  budget' \in [Budgets -> Nat]
    BY <1>1, <1>3, <1>4 DEF Update, Budgets
<1>5. ASSUME NEW r, NEW ok, Call(r, ok)
      PROVE  budget' \in [Budgets -> Nat]
    BY <1>1, <1>3, <1>5 DEF Call, Budgets
<1>6. budget' \in [Budgets -> Nat]
    <2>1. CASE Get \/ Panic \/ UNCHANGED vars
        BY <1>1, <2>1 DEF Get, Panic, vars, storeVars
    <2>2. CASE AddFinalizer \/ RemoveFinalizer
        BY <1>4, <2>2 DEF AddFinalizer, RemoveFinalizer
    <2>3. CASE AppConnect \/ Teardown
        BY <1>5, <2>3 DEF AppConnect, Connect, Teardown
    <2>4. CASE Find
        BY <1>1, <1>3, <2>4 DEF Find, Budgets
    <2>5. CASE Rest
        BY <1>1, <1>3, <2>5
           DEF Rest, Manager, Surroundings, World, Dial, List, Relist, Deliver, Dequeue, StatusWrite,
               User, UserCreate, UserDelete, UserEdit, Outage, Recovery, Land, Crash, storeVars,
               Budgets
    <2> QED
        BY <2>1, <2>2, <2>3, <2>4, <2>5 DEF AppNext, AppWork
<1>7. \/ UNCHANGED worker /\ (Rest \/ UNCHANGED vars)
      \/ worker' = Idle
      \/ \E n \in Names : worker' = [pc |-> "get", key |-> n, rv |-> 0]
      \/ Find /\ Copy.id \in conns /\ worker' = [worker EXCEPT !.pc = "teardown"]
      \/ \E pc \in WorkerPlaces \ {"teardown"} :
             \/ worker' = [worker EXCEPT !.pc = pc]
             \/ worker' = [worker EXCEPT !.pc = pc, !.rv = @ + 1]
             \/ worker' = [worker EXCEPT !.pc = pc, !.rv = seen[worker.key]] /\ worker.key \in Names
    <2>1. CASE Get
        <3>1. \A c : Branch(c) \in WorkerPlaces \ {"teardown"}
            BY DEF Branch, WorkerPlaces
        <3>2. worker.key \in Names
            <4>1. Unsearched = worker
                BY <2>1 DEF Get, Unsearched
            <4> QED
                BY <2>1, <4>1
                   DEF Get, AppInv, Safe!IInv, Safe!TypeOK, Safe!WorkerTypeOK, Safe!Idle
        <3> QED
            BY <2>1, <3>1, <3>2 DEF Get, Return
    <2>2. CASE AddFinalizer \/ RemoveFinalizer
        BY <2>2 DEF AddFinalizer, RemoveFinalizer, Return, Requeue, WorkerPlaces
    <2>3. CASE AppConnect \/ Teardown \/ Panic
        BY <2>3 DEF AppConnect, Connect, Teardown, Panic, Return, Requeue, WorkerPlaces
    <2>4. CASE Find
        BY <2>4 DEF Find, Requeue, WorkerPlaces
    <2>5. CASE Rest \/ UNCHANGED vars
        BY <2>5
           DEF Rest, Manager, Surroundings, World, Dial, List, Relist, Deliver, Dequeue, StatusWrite,
               User, Outage, Recovery, Land, Crash, vars
    <2> QED
        BY <2>1, <2>2, <2>3, <2>4, <2>5 DEF AppNext, AppWork
<1>8. worker' \in [pc : WorkerPlaces, key : Names \cup {NoName}, rv : Nat]
    <2>1. \A pc \in WorkerPlaces, rv \in Nat :
              [worker EXCEPT !.pc = pc] \in [pc : WorkerPlaces, key : Names \cup {NoName}, rv : Nat]
              /\ [worker EXCEPT !.pc = pc, !.rv = rv]
                     \in [pc : WorkerPlaces, key : Names \cup {NoName}, rv : Nat]
        BY <1>1
    <2>2. worker.rv + 1 \in Nat /\ (worker.key \in Names => seen[worker.key] \in Nat)
        BY <1>1
    <2>3. "teardown" \in WorkerPlaces /\ "get" \in WorkerPlaces
        BY DEF WorkerPlaces
    <2>4. CASE \E n \in Names : worker' = [pc |-> "get", key |-> n, rv |-> 0]
        BY <2>3, <2>4
    <2>5. CASE Find /\ Copy.id \in conns /\ worker' = [worker EXCEPT !.pc = "teardown"]
        BY <2>1, <2>3, <2>5
    <2>6. ASSUME NEW pc \in WorkerPlaces \ {"teardown"},
                 \/ worker' = [worker EXCEPT !.pc = pc]
                 \/ worker' = [worker EXCEPT !.pc = pc, !.rv = @ + 1]
                 \/ worker' = [worker EXCEPT !.pc = pc, !.rv = seen[worker.key]]
                    /\ worker.key \in Names
          PROVE  worker' \in [pc : WorkerPlaces, key : Names \cup {NoName}, rv : Nat]
        BY <2>1, <2>2, <2>6
    <2> QED
        BY <1>1, <1>2, <1>7, <2>4, <2>5, <2>6
<1>9. ASSUME worker'.pc = "teardown"
      PROVE  Copy'.id \in conns'
    <2>1. CASE Find /\ Copy.id \in conns /\ worker' = [worker EXCEPT !.pc = "teardown"]
        BY <1>1, <2>1 DEF Find, Copy, remote
    <2>2. CASE UNCHANGED worker /\ (Rest \/ UNCHANGED vars)
        <3>1. worker.pc = "teardown" /\ Copy.id \in conns
            BY <1>1, <1>9, <2>2
        <3>2. worker.key \in Names /\ worker.rv \in 1..Len(log[worker.key])
            <4>1. /\ Unsearched.pc = "disconnect" /\ Unsearched.key = worker.key
                  /\ Unsearched.rv = worker.rv
                BY <1>1, <3>1 DEF Unsearched
            <4> QED
                BY <4>1 DEF AppInv, Safe!IInv, Safe!TypeOK, Safe!WorkerTypeOK, Safe!Idle
        <3>3. UNCHANGED conns
            BY <1>1, <2>2
               DEF Rest, Manager, Surroundings, World, Dial, List, Relist, Deliver, Dequeue,
                   StatusWrite, User, Outage, Recovery, Land, Crash, vars, remote
        <3>4. UNCHANGED log \/ \E n \in Names : \E v : Write(n, v)
            BY <2>2
               DEF Rest, Manager, Surroundings, World, Dial, List, Relist, Deliver, Dequeue,
                   StatusWrite, User, UserCreate, UserDelete, UserEdit, Outage, Recovery, Land,
                   Crash, vars, storeVars
        <3>5. log'[worker.key][worker.rv] = log[worker.key][worker.rv]
            BY <1>1, <3>2, <3>4 DEF Write
        <3> QED
            BY <2>2, <3>1, <3>3, <3>5 DEF Copy
    <2>3. worker' # Idle /\ \A n \in Names : worker' # [pc |-> "get", key |-> n, rv |-> 0]
        BY <1>9 DEF Idle
    <2>4. ASSUME NEW pc \in WorkerPlaces \ {"teardown"}, NEW rv
          PROVE  worker' # [worker EXCEPT !.pc = pc] /\ worker' # [worker EXCEPT !.pc = pc, !.rv = rv]
        BY <1>1, <1>9
    <2> QED
        BY <1>7, <2>1, <2>2, <2>3, <2>4
<1> QED
    BY <1>6, <1>8, <1>9

LEMMA AppNextInv ==
    ASSUME AppInv, [AppNext]_vars
    PROVE  AppInv'
<1>1. Safe!IInv'
    BY StepMaps, SafeInvariant DEF AppInv
<1> QED
    BY <1>1, WorkerMoves DEF AppInv, Copy

LEMMA AppInvariance == ASSUME CalmLimit PROVE AppSpec => []AppInv
<1>1. Init => AppInv
    BY AppInit
<1>2. AppInv /\ [AppNext]_vars => AppInv'
    BY AppNextInv
<1> QED
    BY <1>1, <1>2, PTL DEF AppSpec

-----------------------------------------------------------------------------
(* The theorems.                                                           *)

(***************************************************************************)
(* With its list and its search hidden, the app connection reconciler does *)
(* what the connection reconciler does before a server that forgives.      *)
(***************************************************************************)
THEOREM AppReconcilesAlike == ASSUME CalmLimit PROVE AppSpec => ReconcilesAlike
<1>1. Init => Alike!Init
    BY InitMaps, OneInstance
<1>2. AppInv /\ [AppNext]_vars => [Alike!Next]_Alike!vars
    BY StepMaps, OneStep
<1> QED
    BY <1>1, <1>2, AppInvariance, PTL DEF AppSpec, ReconcilesAlike, Alike!Spec

(***************************************************************************)
(* The types, with the place between the search and the disconnect.        *)
(***************************************************************************)
THEOREM AppTypeCorrect == ASSUME CalmLimit PROVE AppSpec => []AppTypeOK
<1>1. AppInv => AppTypeOK
    <2> SUFFICES ASSUME AppInv PROVE AppTypeOK
        OBVIOUS
    <2>1. Safe!TypeOK /\ Safe!WorkerKnows /\ budget \in [Budgets -> Nat]
        BY DEF AppInv, Safe!IInv
    <2>2. StoreTypeOK
        BY <2>1 DEF Safe!TypeOK, Safe!StoreTypeOK, StoreTypeOK, Safe!Version, Safe!Object,
                    Safe!Status, Version, Object, Status
    <2>3. ASSUME worker.pc = "teardown"
          PROVE  Copy \in Object /\ Copy.del /\ Copy.fin
        <3>1. /\ Unsearched.pc = "disconnect" /\ Unsearched.key = worker.key
              /\ Unsearched.rv = worker.rv /\ Safe!Copy = Copy
            BY <2>3 DEF AppInv, Unsearched, Safe!Copy, Copy
        <3>2. Copy.del /\ Copy.fin
            BY <2>1, <3>1 DEF Safe!WorkerKnows
        <3>3. Copy # NoObj /\ worker.key \in Names /\ worker.rv \in 1..Len(log[worker.key])
            BY <2>1, <3>1 DEF Safe!TypeOK, Safe!WorkerTypeOK, Safe!Idle
        <3>4. Copy \in Version
            BY <2>2, <3>3 DEF StoreTypeOK, Copy
        <3> QED
            BY <3>2, <3>3, <3>4 DEF Version
    <2>4. ASSUME worker.pc # "teardown"
          PROVE  WorkerTypeOK
        <3>1. Unsearched = worker /\ Safe!Copy = Copy
            BY <2>4 DEF Unsearched, Safe!Copy, Copy
        <3> QED
            BY <2>1, <3>1 DEF Safe!TypeOK, Safe!WorkerTypeOK, WorkerTypeOK, Safe!Idle, Idle,
                              Safe!Updating, Updating, Safe!Calling, Calling
    <2> QED
        BY <2>1, <2>2, <2>3, <2>4 DEF AppTypeOK, Safe!TypeOK
<1> QED
    BY <1>1, AppInvariance, PTL

(***************************************************************************)
(* No app connection is left behind at the server: although the client     *)
(* does not know its id, every one has an object that stands for it.       *)
(***************************************************************************)
THEOREM AppNeverOrphans == ASSUME CalmLimit PROVE AppSpec => []NoOrphan
<1>1. AppInv => NoOrphan
    BY Same DEF AppInv, Safe!IInv, Safe!NoOrphan, NoOrphan
<1> QED
    BY <1>1, AppInvariance, PTL

(***************************************************************************)
(* When the app connection reconciler rests, the user's intent is so: a    *)
(* search that found nothing, a panic and the crash it is leave nothing    *)
(* undone that no queue has.                                               *)
(***************************************************************************)
THEOREM AppIntentServed ==
    ASSUME CalmLimit, WatchesLast, DisjointUse PROVE AppSpec => []IntentKept
<1>1. AppInv /\ Safe!IntentIInv /\ [AppNext]_vars => Safe!IntentIInv'
    BY StepMaps, Assumptions, Safe!IntentNext DEF Safe!StoreAssumption, Safe!DisjointUse
<1>2. Init => Safe!IntentIInv
    BY InitMaps, Assumptions, Safe!IntentInit
       DEF Safe!StoreAssumption, Safe!CalmLimit, Safe!WatchesLast
<1>3. AppInv /\ Safe!IntentIInv => IntentKept
    <2> SUFFICES ASSUME AppInv, Safe!IntentIInv, NEW n \in Names, Quiet(n)
                 PROVE  Live(n) = NoObj \/ (Wanted(n) /\ Live(n).id \in conns)
        BY DEF IntentKept
    <2>1. Safe!IntentKept
        BY Assumptions, Safe!RestingIntent DEF Safe!StoreAssumption, Safe!ControllerAssumption
    <2>2. Unsearched.key = worker.key
        BY DEF Unsearched, AppInv
    <2>3. Safe!Live(n) = Live(n) /\ (Safe!Quiet(n) <=> Quiet(n)) /\ (Safe!Wanted(n) <=> Wanted(n))
        BY <2>2, Same DEF Safe!Quiet, Quiet, Safe!Wanted, Wanted
    <2> QED
        BY <2>1, <2>3 DEF Safe!IntentKept
<1> QED
    BY <1>1, <1>2, <1>3, AppInvariance, PTL DEF AppSpec

(***************************************************************************)
(* When no two objects ask for the same app connection, none that is       *)
(* wanted is cut off, by the search for another one least of all.          *)
(***************************************************************************)
THEOREM AppNeverInterrupts == ASSUME CalmLimit, DisjointUse PROVE AppSpec => ServiceKept
<1> DEFINE Kept == \A n \in Names : Wanted(n) /\ Live(n).id \in conns => Live(n).id \in conns'
<1>1. ASSUME AppInv, [AppNext]_vars, NEW n \in Names, Wanted(n), Live(n).id \in conns
      PROVE  Live(n).id \in conns'
    <2>1. Safe!Wanted(n) /\ Safe!Live(n) = Live(n)
        BY <1>1, Same DEF Wanted, Safe!Wanted
    <2>2. Safe!IInv /\ [Safe!Next]_Safe!vars
        BY <1>1, StepMaps DEF AppInv
    <2> QED
        BY <1>1, <2>1, <2>2, Assumptions, Safe!ServiceStep
           DEF Safe!StoreAssumption, Safe!DisjointUse
<1>2. AppInv /\ [AppNext]_vars => [Kept]_vars
    BY <1>1
<1> QED
    BY <1>2, AppInvariance, PTL DEF AppSpec, ServiceKept

(***************************************************************************)
(* An object that is held is let go of only when the server has nothing    *)
(* for it: a search that finds nothing is as good as a disconnect.         *)
(***************************************************************************)
THEOREM AppDropsNothing == ASSUME CalmLimit PROVE AppSpec => DropsNothing
<1> DEFINE Drops == \A n \in Names :
               Live(n) # NoObj /\ Live(n).fin /\ Live(n)' = NoObj => Live(n).id \notin conns
<1>1. ASSUME AppInv, [AppNext]_vars, NEW n \in Names,
             Live(n) # NoObj, Live(n).fin, Live(n)' = NoObj
      PROVE  Live(n).id \notin conns
    <2>1. Safe!Live(n) = Live(n) /\ Safe!Live(n)' = Live(n)'
        BY DEF Live, Safe!Live
    <2>2. Safe!IInv /\ [Safe!Next]_Safe!vars
        BY <1>1, StepMaps DEF AppInv
    <2> QED
        BY <1>1, <2>1, <2>2, Assumptions, Safe!DropStep DEF Safe!StoreAssumption
<1>2. AppInv /\ [AppNext]_vars => [Drops]_vars
    BY <1>1
<1> QED
    BY <1>2, AppInvariance, PTL DEF AppSpec, DropsNothing

=============================================================================
