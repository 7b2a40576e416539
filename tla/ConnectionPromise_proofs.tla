----------------------- MODULE ConnectionPromise_proofs -----------------------
(***************************************************************************)
(* The reconciler with its cache, queue and retries implements             *)
(* ConnectionPromise: its first states are first states there, and every   *)
(* step of it is one step there, or none.                                  *)
(***************************************************************************)
EXTENDS ConnectionSafety_proofs

\* "No object" cannot be taken for a resource of ConnectionPromise.
AbsentIsNone == NoObj \notin [id : Ids, phase : {"asked", "guarded", "leaving"}]

\* The resource that a version stands for, and all of them.
Resource(v) == IF v = NoObj THEN NoObj ELSE [id |-> v.id, phase |-> Phase(v)]
Resources == [n \in Names |-> Promised(n)]

-----------------------------------------------------------------------------
\* An object is a resource in one of the three phases.
LEMMA ResourceFacts ==
    ASSUME AbsentIsNone, NEW v \in Version, v # NoObj
    PROVE  /\ Resource(v) = [id |-> v.id, phase |-> Phase(v)]
           /\ Resource(v) # NoObj
           /\ v.del \in BOOLEAN /\ v.fin \in BOOLEAN
<1>1. v.id \in Ids /\ v.del \in BOOLEAN /\ v.fin \in BOOLEAN
  BY DEF Version, Object
<1>2. Phase(v) \in {"asked", "guarded", "leaving"}
  BY <1>1 DEF Phase
<1> QED
  BY <1>1, <1>2 DEF Resource, AbsentIsNone

\* A write changes the resource it is of.
LEMMA ResourceWritten ==
    ASSUME TypeOK, StoreAssumption, NEW n \in Names, NEW v \in Version, Write(n, v)
    PROVE  /\ Resources[n] = Resource(Live(n))
           /\ Resources' = [Resources EXCEPT ![n] = Resource(v)]
<1>1. Live(n)' = v /\ \A m \in Names \ {n} : log'[m] = log[m]
  BY WriteFacts DEF TypeOK, StoreTypeOK
<1>2. Promised(n)' = Resource(v)
  BY <1>1 DEF Promised, Resource
<1>3. \A m \in Names \ {n} : Promised(m)' = Promised(m)
  BY <1>1 DEF Promised, Live
<1>4. Resources[n] = Resource(Live(n))
  BY DEF Resources, Promised, Resource
<1> QED
  BY <1>2, <1>3, <1>4 DEF Resources

LEMMA ResourcesSame == ASSUME UNCHANGED log PROVE UNCHANGED Resources
BY DEF Resources, Promised, Live

\* A resource moves on to its next phase.
LEMMA PhaseMoved ==
    ASSUME NEW n \in Names, NEW i, NEW p, NEW q, [id |-> i, phase |-> p] # NoObj,
           Resources[n] = [id |-> i, phase |-> p],
           Resources' = [Resources EXCEPT ![n] = [id |-> i, phase |-> q]],
           UNCHANGED conns
    PROVE  Promise!In(n, {p}) /\ Promise!Move(n, q)
<1> DEFINE r == [id |-> i, phase |-> p]
<1>1. [Resources EXCEPT ![n].phase = q] = [Resources EXCEPT ![n] = [id |-> i, phase |-> q]]
  <2>1. [r EXCEPT !.phase = q] = [id |-> i, phase |-> q]
    OBVIOUS
  <2>2. [Resources EXCEPT ![n].phase = q] = [Resources EXCEPT ![n] = [Resources[n] EXCEPT !.phase = q]]
    OBVIOUS
  <2> QED
    BY <2>1, <2>2
<1> QED
  BY <1>1 DEF Promise!In, Promise!Move, Resources

-----------------------------------------------------------------------------
(* The steps.                                                              *)

LEMMA UserPromise ==
    ASSUME IInv, StoreAssumption, AbsentIsNone, NEW n \in Names,
           UserCreate(n) \/ UserDelete(n) \/ StatusWrite(n), UNCHANGED conns
    PROVE  Promise!Next \/ UNCHANGED Promise!vars
<1>1. TypeOK /\ Live(n) \in Version
  BY ObjectTypes DEF IInv
<1>2. CASE UserCreate(n)
  <2>1. PICK i \in MayUse[n] :
            Write(n, [id |-> i, del |-> FALSE, fin |-> FALSE, st |-> NoStatus])
    BY <1>2 DEF UserCreate
  <2> DEFINE v == [id |-> i, del |-> FALSE, fin |-> FALSE, st |-> NoStatus]
  <2>2. v \in Version /\ v # NoObj
    <3>1. v \in Object
      BY DEF StoreAssumption, Object
    <3> QED
      BY <3>1 DEF StoreAssumption, Version
  <2>3. Resource(v) = [id |-> i, phase |-> "asked"]
    BY <2>2 DEF Resource, Phase
  <2>4. Resources[n] = NoObj
    BY <1>1, <1>2, <2>1, <2>2, ResourceWritten DEF UserCreate, Resource
  <2>5. Resources' = [Resources EXCEPT ![n] = [id |-> i, phase |-> "asked"]]
    BY <1>1, <2>1, <2>2, <2>3, ResourceWritten
  <2>6. Promise!Declare(n)
    BY <2>4, <2>5 DEF Promise!Declare, Promise!Resource, Resources
  <2> QED
    BY <2>6 DEF Promise!Next
<1>3. CASE UserDelete(n)
  <2> DEFINE r(p) == [id |-> Live(n).id, phase |-> p]
  <2>1. Live(n) # NoObj /\ ~Live(n).del /\ Live(n) \in Object
    BY <1>1, <1>3 DEF UserDelete, Version
  <2>2. CASE Live(n).fin
    <3> DEFINE v == [Live(n) EXCEPT !.del = TRUE]
    <3>1. v \in Version /\ v # NoObj /\ v.del /\ v.id = Live(n).id
      BY <2>1 DEF StoreAssumption, Version, Object
    <3>2. Write(n, v)
      BY <1>3, <2>2 DEF UserDelete
    <3>3. Resource(v) = r("leaving") /\ Resource(Live(n)) = r("guarded") /\ r("guarded") # NoObj
      BY <1>1, <2>1, <2>2, <3>1, ResourceFacts DEF Phase
    <3> HIDE DEF v
    <3>4. Promise!In(n, {"guarded"}) /\ Promise!Move(n, "leaving")
      BY <1>1, <3>1, <3>2, <3>3, ResourceWritten, PhaseMoved
    <3> QED
      BY <3>4 DEF Promise!Withdraw, Promise!Next
  <2>3. CASE ~Live(n).fin
    <3>1. Write(n, NoObj) /\ NoObj \in Version
      BY <1>3, <2>3 DEF UserDelete, Version
    <3>2. Resource(NoObj) = NoObj /\ Resource(Live(n)) = r("asked") /\ r("asked") # NoObj
      BY <1>1, <2>1, <2>3, ResourceFacts DEF Phase, Resource
    <3>3. Resources[n] = r("asked") /\ Resources' = [Resources EXCEPT ![n] = NoObj]
      BY <1>1, <3>1, <3>2, ResourceWritten
    <3>4. Promise!Withdraw(n)
      BY <3>2, <3>3 DEF Promise!Withdraw, Promise!In, Resources
    <3> QED
      BY <3>4 DEF Promise!Next
  <2> QED
    BY <2>2, <2>3
<1>4. CASE StatusWrite(n)
  <2>1. PICK s \in States : Write(n, [Live(n) EXCEPT !.st = [state |-> s, cid |-> Live(n).id]])
    BY <1>4 DEF StatusWrite
  <2> DEFINE v == [Live(n) EXCEPT !.st = [state |-> s, cid |-> Live(n).id]]
  <2>2. Live(n) # NoObj /\ Live(n) \in Object
    BY <1>1, <1>4 DEF StatusWrite, Version
  <2>3. v \in Version /\ v # NoObj /\ v.id = Live(n).id /\ v.del = Live(n).del /\ v.fin = Live(n).fin
    BY <2>2 DEF StoreAssumption, Version, Object, Status
  <2>4. Resource(v) = Resource(Live(n))
    BY <2>2, <2>3 DEF Resource, Phase
  <2> HIDE DEF v
  <2>5. Resources' = [Resources EXCEPT ![n] = Resources[n]]
    BY <1>1, <2>1, <2>3, <2>4, ResourceWritten DEF v
  <2>6. UNCHANGED Resources
    BY <2>5 DEF Resources
  <2> QED
    BY <2>6 DEF Promise!vars, Resources
<1> QED
  BY <1>2, <1>3, <1>4

\* A finalizer is added to, or taken off, the object as it is: the Update has
\* been refused otherwise.
LEMMA UpdatePromise ==
    ASSUME IInv, StoreAssumption, AbsentIsNone, AddFinalizer \/ RemoveFinalizer
    PROVE  Promise!Next \/ UNCHANGED Promise!vars
<1> DEFINE n == worker.key
           v == IF worker.pc = "register" THEN [Copy EXCEPT !.fin = TRUE] ELSE NoObj
           r(p) == [id |-> Copy.id, phase |-> p]
<1>1. /\ TypeOK /\ StoreTypeOK /\ worker.pc \in Updating /\ UNCHANGED conns
      /\ n \in Names /\ Copy \in Object /\ [Copy EXCEPT !.fin = TRUE] \in Object
  BY ObjectTypes DEF IInv, TypeOK, AddFinalizer, RemoveFinalizer, Updating, remote
<1>2. v \in Version /\ Copy \in Version /\ Copy # NoObj
  BY <1>1 DEF Version, StoreAssumption
<1>3. PICK ok \in BOOLEAN : Update(n, worker.rv, v, ok)
  BY DEF AddFinalizer, RemoveFinalizer
<1>4. log' = log \/ (worker.rv = Len(log[n]) /\ Write(n, v))
  <2> HIDE DEF v
  <2> QED
    BY <1>1, <1>2, <1>3, UpdateFacts
<1>5. CASE log' = log
  BY <1>1, <1>5, ResourcesSame DEF Promise!vars, Resources
<1>6. CASE worker.rv = Len(log[n]) /\ Write(n, v)
  <2>1. Live(n) = Copy
    BY <1>6 DEF Live, Copy
  <2>2. Resources[n] = Resource(Copy) /\ Resources' = [Resources EXCEPT ![n] = Resource(v)]
    <3> HIDE DEF v
    <3> QED
      BY <1>1, <1>2, <1>6, <2>1, ResourceWritten
  <2>3. CASE worker.pc = "register"
    <3>1. v # NoObj /\ v.id = Copy.id /\ v.fin /\ ~v.del /\ ~Copy.del /\ ~Copy.fin
      BY <1>1, <2>3 DEF IInv, WorkerKnows, Object, StoreAssumption
    <3>2. Resource(v) = r("guarded") /\ Resource(Copy) = r("asked") /\ r("asked") # NoObj
      BY <1>2, <3>1, ResourceFacts DEF Phase
    <3>3. Promise!In(n, {"asked"}) /\ Promise!Move(n, "guarded")
      BY <1>1, <2>2, <3>2, PhaseMoved
    <3> QED
      BY <1>1, <3>3 DEF Promise!Guard, Promise!Next
  <2>4. CASE worker.pc = "unregister"
    <3>1. Copy.del /\ Copy.id \notin conns
      BY <2>4 DEF IInv, WorkerKnows
    <3>2. Resource(v) = NoObj /\ Resource(Copy) = r("leaving") /\ r("leaving") # NoObj
      BY <1>2, <2>4, <3>1, ResourceFacts DEF Phase, Resource
    <3>3. Resources[n] = r("leaving") /\ Resources' = [Resources EXCEPT ![n] = NoObj]
      BY <2>2, <3>2
    <3>4. Promise!Finish(n)
      BY <1>1, <3>1, <3>2, <3>3 DEF Promise!Finish, Promise!In, Resources
    <3> QED
      BY <1>1, <3>4 DEF Promise!Next
  <2> QED
    BY <1>1, <2>3, <2>4 DEF Updating
<1> QED
  BY <1>4, <1>5, <1>6

\* A connection is opened for an object that is guarded or leaving, and closed
\* for one that is leaving: what the worker knows of a stale copy is enough.
LEMMA CallPromise ==
    ASSUME IInv, StoreAssumption, AbsentIsNone, DisjointUse, Connect \/ Disconnect
    PROVE  Promise!Next \/ UNCHANGED Promise!vars
<1> DEFINE n == worker.key
           req == [op |-> worker.pc, id |-> Copy.id]
<1>1. TypeOK /\ n \in Names /\ UNCHANGED log /\ req \in Request
  BY RequestType DEF IInv, Connect, Disconnect, Calling
<1>2. conns' \in {conns, Served(req)}
  <2>1. PICK ok \in BOOLEAN : Call(req, ok)
    BY DEF Connect, Disconnect
  <2> HIDE DEF req
  <2> QED
    BY <1>1, <2>1, CallTypes
<1>3. UNCHANGED Resources
  BY <1>1, ResourcesSame
<1>4. CASE conns' = conns
  BY <1>3, <1>4 DEF Promise!vars, Resources
<1>5. ASSUME Live(n) # NoObj, Live(n).id = Copy.id
      PROVE  /\ Resources[n] = [id |-> Copy.id, phase |-> Phase(Live(n))]
             /\ Resources[n] # NoObj /\ Live(n).del \in BOOLEAN
  <2>1. Live(n) \in Version
    BY <1>1, ObjectTypes
  <2>2. Resources[n] = Resource(Live(n))
    BY <1>1 DEF Resources, Promised, Resource
  <2> QED
    BY <1>5, <2>1, <2>2, ResourceFacts
<1>6. CASE Connect /\ conns' = conns \cup {Copy.id}
  <2>1. Live(n) # NoObj /\ Live(n).fin /\ Live(n).id = Copy.id
    BY <1>6 DEF Connect, IInv, WorkerKnows
  <2>2. Phase(Live(n)) \in {"guarded", "leaving"}
    BY <2>1 DEF Phase
  <2>3. Promise!In(n, {"guarded", "leaving"}) /\ Resources[n].id = Copy.id
    BY <1>1, <1>5, <2>1, <2>2 DEF Promise!In, Resources
  <2>4. Promise!Open(n)
    BY <1>1, <1>3, <1>6, <2>3 DEF Promise!Open, Resources
  <2> QED
    BY <1>1, <2>4 DEF Promise!Next
<1>7. CASE Disconnect /\ conns' = conns \ {Copy.id} /\ Copy.id \in conns
  <2>1. /\ worker.pc = "disconnect" /\ Copy # NoObj /\ worker.rv \in 1..Len(log[n])
        /\ ~(Wanted(n) /\ Live(n).fin)
    BY <1>1, <1>7 DEF Disconnect, TypeOK, StoreTypeOK, WorkerTypeOK, Idle, IInv, WorkerKnows
  <2>2. PICK m \in Names : Live(m) # NoObj /\ Live(m).fin /\ Live(m).id = Copy.id
    BY <1>7 DEF IInv, NoOrphan
  <2>3. Copy.id \in MayUse[n] /\ Live(m).id \in MayUse[m]
    <3>1. Len(log[m]) \in 1..Len(log[m])
      BY <1>1, ObjectTypes
    <3> QED
      BY <1>1, <2>1, <2>2, <3>1 DEF IInv, Owned, Live, Copy
  <2>4. m = n
    BY <1>1, <2>2, <2>3 DEF DisjointUse
  <2>5. Live(n).del
    BY <2>1, <2>2, <2>4 DEF Wanted
  <2>6. Promise!In(n, {"leaving"}) /\ Resources[n].id = Copy.id
    BY <1>1, <1>5, <2>2, <2>4, <2>5 DEF Promise!In, Resources, Phase
  <2>7. Promise!Close(n)
    BY <1>1, <1>3, <1>7, <2>6 DEF Promise!Close, Resources
  <2> QED
    BY <1>1, <2>7 DEF Promise!Next
<1>8. Served(req) = IF Connect THEN conns \cup {Copy.id} ELSE conns \ {Copy.id}
  BY DEF Connect, Disconnect, Served
<1>9. Copy.id \notin conns => conns \ {Copy.id} = conns
  OBVIOUS
<1> QED
  BY <1>2, <1>4, <1>6, <1>7, <1>8, <1>9

LEMMA StepKeepsPromise ==
    ASSUME IInv, StoreAssumption, AbsentIsNone, DisjointUse, [Next]_vars
    PROVE  Promise!Next \/ UNCHANGED Promise!vars
<1>1. ASSUME NEW n \in Names, User(n) \/ StatusWrite(n)
      PROVE  Promise!Next \/ UNCHANGED Promise!vars
  <2>1. UserCreate(n) \/ UserDelete(n) \/ StatusWrite(n)
    BY <1>1 DEF User, UserEdit, Spend, IInv, Calm
  <2>2. UNCHANGED conns
    BY <1>1 DEF User, StatusWrite, remote
  <2> QED
    BY <2>1, <2>2, UserPromise
<1>2. CASE AddFinalizer \/ RemoveFinalizer
  BY <1>2, UpdatePromise
<1>3. CASE Connect \/ Disconnect
  BY <1>3, CallPromise
<1>4. ~ \E r \in late : Land(r)
  BY DEF IInv, Calm
<1>5. CASE \/ Get \/ Dial \/ List \/ Relist \/ Outage \/ Recovery \/ Crash \/ UNCHANGED vars
           \/ \E n \in Names : Deliver(n) \/ Dequeue(n)
  <2>1. UNCHANGED <<log, conns>>
    BY <1>5 DEF Get, Dial, List, Relist, Outage, Recovery, Crash, Deliver, Dequeue,
                storeVars, remote, vars
  <2> QED
    BY <2>1, ResourcesSame DEF Promise!vars, Resources
<1> QED
  BY <1>1, <1>2, <1>3, <1>4, <1>5 DEF Next, Work, Rest, Manager, Surroundings, World

(***************************************************************************)
(* The reconciler keeps the promise: whoever looks only at the objects and *)
(* the connections sees a resource asked for, guarded, opened, closed and  *)
(* finished in that order, and no connection outside of it.                *)
(***************************************************************************)
THEOREM PromiseKept ==
    ASSUME CalmLimit, DisjointUse, AbsentIsNone PROVE Spec => KeepsPromise
<1>1. Init => Promise!Init
  BY DEF Init, StoreInit, Promise!Init, Promised, Live
<1>2. IInv /\ [Next]_vars => [Promise!Next]_(Promise!vars)
  BY StoreAssumption, StepKeepsPromise
<1>3. Spec => []IInv
  BY Invariance
<1> QED
  BY <1>1, <1>2, <1>3, PTL DEF Spec, KeepsPromise, Promise!Spec
=============================================================================
