------------------------ MODULE ConnectionIntent_proofs ------------------------
(***************************************************************************)
(* The two inductive invariants of ConnectionController that say what is   *)
(* still to be done, and what follows from them: no delete is forgotten,   *)
(* and an operator that rests has done what the user asked for.            *)
(***************************************************************************)
EXTENDS ConnectionSafety_proofs

\* Where a worker is whose object is in deletion.
Deleting == {"get", "disconnect", "unregister"}

-----------------------------------------------------------------------------
(* A delete is never forgotten.                                            *)

\* A version that is in deletion has the finalizer.
Guarded(v) == v # NoObj /\ v.del => v.fin

\* No user and no status watcher takes the finalizer off an object that is
\* in deletion.
LEMMA OthersWriteGuarded ==
    ASSUME TypeOK, DeletesGuarded, StoreAssumption, NEW n \in Names,
           UserCreate(n) \/ UserDelete(n) \/ UserEdit(n) \/ StatusWrite(n)
    PROVE  /\ \E v \in Version : Guarded(v) /\ Write(n, v)
           /\ UNCHANGED seen
<1>1. Live(n) \in Version /\ Guarded(Live(n))
  <2>1. Len(log[n]) \in 1..Len(log[n])
    BY ObjectTypes
  <2> QED
    BY <2>1, ObjectTypes DEF DeletesGuarded, Guarded, Live
<1>2. ASSUME UserCreate(n) PROVE \E v \in Version : Guarded(v) /\ Write(n, v)
  <2>1. PICK i \in MayUse[n] :
            Write(n, [id |-> i, del |-> FALSE, fin |-> FALSE, st |-> NoStatus])
    BY <1>2 DEF UserCreate
  <2> DEFINE v == [id |-> i, del |-> FALSE, fin |-> FALSE, st |-> NoStatus]
  <2>2. v \in Version /\ Guarded(v)
    BY DEF StoreAssumption, Version, Object, Guarded
  <2> QED
    BY <2>1, <2>2
<1>3. ASSUME UserDelete(n) PROVE \E v \in Version : Guarded(v) /\ Write(n, v)
  <2>1. CASE Live(n).fin
    <3> DEFINE v == [Live(n) EXCEPT !.del = TRUE]
    <3>1. v \in Version /\ v.fin
      BY <1>1, <1>3, <2>1 DEF UserDelete, Version, Object
    <3> QED
      BY <1>3, <2>1, <3>1 DEF UserDelete, Guarded
  <2>2. CASE ~Live(n).fin
    BY <1>3, <2>2 DEF UserDelete, Guarded, Version
  <2> QED
    BY <2>1, <2>2
<1>4. ASSUME UserEdit(n) PROVE \E v \in Version : Guarded(v) /\ Write(n, v)
  <2>1. PICK i \in MayUse[n] : Write(n, [Live(n) EXCEPT !.id = i])
    BY <1>4 DEF UserEdit
  <2> DEFINE v == [Live(n) EXCEPT !.id = i]
  <2>2. Live(n) \in Object /\ Live(n) # NoObj
    BY <1>1, <1>4 DEF UserEdit, Version
  <2>3. v \in Version /\ v.del = Live(n).del /\ v.fin = Live(n).fin
    BY <2>2 DEF StoreAssumption, Version, Object
  <2> QED
    BY <1>1, <2>1, <2>2, <2>3 DEF Guarded
<1>5. ASSUME StatusWrite(n) PROVE \E v \in Version : Guarded(v) /\ Write(n, v)
  <2>1. PICK s \in States : Write(n, [Live(n) EXCEPT !.st = [state |-> s, cid |-> Live(n).id]])
    BY <1>5 DEF StatusWrite
  <2> DEFINE v == [Live(n) EXCEPT !.st = [state |-> s, cid |-> Live(n).id]]
  <2>2. Live(n) \in Object /\ Live(n) # NoObj
    BY <1>1, <1>5 DEF StatusWrite, Version
  <2>3. v \in Version /\ v.del = Live(n).del /\ v.fin = Live(n).fin
    BY <2>2 DEF Version, Object, Status
  <2> QED
    BY <1>1, <2>1, <2>2, <2>3 DEF Guarded
<1> QED
  BY <1>2, <1>3, <1>4, <1>5, UserWrites

\* What waits goes on waiting, but for the one name n.
KeptWaiting(n, places) ==
    \A m \in Names \ {n} : m \in queue \/ At(m, places) => m \in queue' \/ At(m, places)'

\* After a write the cache is behind, and nothing is pending for it.
LEMMA WriteKeepsDeletion ==
    ASSUME DeletionIInv, NEW n \in Names, NEW v \in Version, Guarded(v), Write(n, v),
           UNCHANGED seen, KeptWaiting(n, Deleting)
    PROVE  DeletesGuarded' /\ DeletionPending'
<1>1. log \in [Names -> Seq(Version)] /\ seen[n] \in Nat /\ seen[n] <= Len(log[n])
  BY DEF DeletionIInv, TypeOK, StoreTypeOK
<1>2. /\ Len(log'[n]) = Len(log[n]) + 1 /\ Len(log[n]) \in Nat
      /\ log'[n][Len(log[n]) + 1] = v
      /\ \A m \in Names \ {n} : log'[m] = log[m]
      /\ \A k \in 1..Len(log[n]) : log'[n][k] = log[n][k]
  BY <1>1, WriteFacts
<1>3. DeletesGuarded'
  <2>1. ASSUME NEW m \in Names, NEW k \in 1..Len(log'[m]) PROVE Guarded(log'[m][k])
    <3>1. CASE m = n /\ k = Len(log[n]) + 1
      BY <1>2, <3>1
    <3>2. CASE m # n \/ k \in 1..Len(log[n])
      <4>1. k \in 1..Len(log[m]) /\ log'[m][k] = log[m][k]
        BY <1>2, <3>2
      <4> QED
        BY <4>1 DEF DeletionIInv, DeletesGuarded, Guarded
    <3> QED
      BY <1>2, <3>1, <3>2
  <2> QED
    BY <2>1 DEF DeletesGuarded, Guarded
<1>4. DeletionPending'
  <2>1. ASSUME NEW m \in Names,
               seen'[m] = Len(log'[m]), Live(m)' # NoObj, Live(m)'.del
        PROVE  m \in queue' \/ At(m, Deleting)'
    <3>1. m # n
      BY <1>1, <1>2, <2>1
    <3>2. m \in queue \/ At(m, Deleting)
      BY <1>2, <2>1, <3>1 DEF DeletionIInv, DeletionPending, Live, Deleting
    <3> QED
      BY <3>1, <3>2 DEF KeptWaiting
  <2> QED
    BY <2>1 DEF DeletionPending, Deleting
<1> QED
  BY <1>3, <1>4

\* A step that writes nothing and leaves the cache alone.
LEMMA StillKeepsDeletion ==
    ASSUME DeletionIInv, UNCHANGED <<log, seen>>,
           \A m \in Names : seen[m] = Len(log[m]) /\ Live(m) # NoObj /\ Live(m).del =>
               (m \in queue \/ At(m, Deleting) => m \in queue' \/ At(m, Deleting)')
    PROVE  DeletesGuarded' /\ DeletionPending'
BY DEF DeletionIInv, DeletesGuarded, DeletionPending, Live, Deleting

\* The informer queues every object that it moves to a version in deletion.
LEMMA InformKeepsDeletion ==
    ASSUME DeletionIInv, NEW ns \in SUBSET Names, NEW vs,
           \A m \in Names \ ns : vs[m] = seen[m],
           Inform(ns, vs), UNCHANGED <<log, worker>>
    PROVE  DeletesGuarded' /\ DeletionPending'
<1>1. ASSUME NEW m \in Names, seen'[m] = Len(log[m]), Live(m) # NoObj, Live(m).del
      PROVE  m \in queue' \/ At(m, Deleting)
  <2>1. CASE m \in ns
    BY <1>1, <2>1 DEF Inform, Admits, Live
  <2>2. CASE m \notin ns
    BY <1>1, <2>2 DEF DeletionIInv, DeletionPending, Inform, Deleting
  <2> QED
    BY <2>1, <2>2
<1> QED
  BY <1>1 DEF DeletionIInv, DeletesGuarded, DeletionPending, Live, At, Deleting

LEMMA GetKeepsDeletion ==
    ASSUME DeletionIInv, StoreAssumption, Get
    PROVE  DeletesGuarded' /\ DeletionPending'
<1>1. UNCHANGED <<log, seen, queue>> /\ worker.pc = "get"
  BY DEF Get, Return, storeVars
<1>2. PICK n \in Names : seen[n] > 0 /\ worker = [pc |-> "get", key |-> n, rv |-> worker.rv]
  BY DEF DeletionIInv, TypeOK, WorkerTypeOK, Get, Idle
<1>3. worker.key = n
  BY <1>2
<1>4. ASSUME seen[n] = Len(log[n]), Live(n) # NoObj, Live(n).del
      PROVE  At(n, Deleting)'
  <2>1. Cached(n) = Live(n) /\ Len(log[n]) \in 1..Len(log[n])
    BY <1>2, <1>4, ObjectTypes DEF DeletionIInv, Cached, Live
  <2>2. Live(n).fin
    BY <1>2, <1>4, <2>1 DEF DeletionIInv, DeletesGuarded, Live
  <2>3. ~Finished(Cached(n)) /\ Branch(Cached(n)) = "disconnect"
    BY <1>4, <2>1, <2>2 DEF Finished, LetGo, Branch
  <2>4. worker' = [worker EXCEPT !.pc = Branch(Cached(n)), !.rv = seen[n]]
    <3>1. ~Finished(Cached(worker.key))
      BY <1>3, <2>3
    <3>2. worker' = [worker EXCEPT !.pc = Branch(Cached(worker.key)), !.rv = seen[worker.key]]
      BY <3>1 DEF Get
    <3> QED
      BY <1>3, <3>2
  <2>5. worker' = [pc |-> Branch(Cached(n)), key |-> n, rv |-> seen[n]]
    BY <1>1, <1>3, <2>4 DEF DeletionIInv, TypeOK, WorkerTypeOK, Idle
  <2> QED
    BY <2>3, <2>5 DEF At, Deleting
<1>5. ASSUME NEW m \in Names, m # n PROVE ~At(m, Deleting)
  BY <1>3, <1>5 DEF At
<1> QED
  BY <1>1, <1>4, <1>5, StillKeepsDeletion

\* A reconciliation that fails puts its name back into the queue, and one that
\* disconnects goes on to take the finalizer off.
LEMMA CallKeepsDeletion ==
    ASSUME DeletionIInv, StoreAssumption, Connect \/ Disconnect
    PROVE  DeletesGuarded' /\ DeletionPending'
<1>1. UNCHANGED <<log, seen>> /\ queue \subseteq queue'
  BY DEF Connect, Disconnect, Return, Requeue
<1>2. ASSUME NEW n \in Names, At(n, Deleting)
      PROVE  n \in queue' \/ At(n, Deleting)'
  <2>1. Disconnect
    BY <1>2 DEF Connect, At, Deleting
  <2>2. worker = [pc |-> "disconnect", key |-> n, rv |-> worker.rv]
    BY <1>2, <2>1 DEF DeletionIInv, TypeOK, WorkerTypeOK, Disconnect, Idle, At
  <2> QED
    BY <2>1, <2>2 DEF Disconnect, Requeue, At, Deleting
<1> QED
  BY <1>1, <1>2, StillKeepsDeletion

LEMMA UpdateKeepsDeletion ==
    ASSUME DeletionIInv, StoreAssumption, AddFinalizer \/ RemoveFinalizer
    PROVE  DeletesGuarded' /\ DeletionPending'
<1> DEFINE n == worker.key
           v == IF worker.pc = "register" THEN [Copy EXCEPT !.fin = TRUE] ELSE NoObj
<1>1. /\ TypeOK /\ StoreTypeOK /\ worker.pc \in Updating /\ UNCHANGED seen
      /\ n \in Names /\ [Copy EXCEPT !.fin = TRUE] \in Object /\ Copy \in Object
  BY ObjectTypes DEF DeletionIInv, TypeOK, AddFinalizer, RemoveFinalizer, Updating
<1>2. v \in Version /\ Guarded(v)
  BY <1>1 DEF Version, Object, Guarded
<1>3. /\ queue \subseteq queue'
      /\ \A m \in Names \ {n} : ~At(m, Deleting)
  BY DEF AddFinalizer, RemoveFinalizer, Return, Requeue, At
<1>4. PICK ok \in BOOLEAN :
          /\ Update(n, worker.rv, v, ok)
          /\ ~ok => Requeue
  BY DEF AddFinalizer, RemoveFinalizer
<1>5. log' = log \/ Write(n, v)
  <2> HIDE DEF v
  <2> QED
    BY <1>1, <1>2, <1>4, UpdateFacts
<1>6. CASE Write(n, v)
  <2> HIDE DEF v
  <2> QED
    BY <1>1, <1>2, <1>3, <1>6, WriteKeepsDeletion DEF KeptWaiting
<1>7. CASE log' = log
  <2>1. ~ok
    <3>1. Len(log'[n]) # Len(log[n]) \/ ~ok
      <4> HIDE DEF v
      <4>1. ok => Write(n, v)
        BY <1>1, <1>2, <1>4, UpdateFacts
      <4>2. Write(n, v) => Len(log'[n]) = Len(log[n]) + 1 /\ Len(log[n]) \in Nat
        BY <1>1, <1>2, WriteFacts DEF StoreTypeOK
      <4> QED
        BY <4>1, <4>2
    <3> QED
      BY <1>7, <3>1
  <2>2. n \in queue'
    BY <1>4, <2>1 DEF Requeue
  <2> QED
    BY <1>1, <1>3, <1>7, <2>2, StillKeepsDeletion
<1> QED
  BY <1>5, <1>6, <1>7

LEMMA DeletionInit == ASSUME StoreAssumption, Init PROVE DeletionIInv
<1>1. TypeOK /\ \A n \in Names : seen[n] = 0 /\ log[n] = <<NoObj>>
  BY TypeInit DEF Init, StoreInit
<1> QED
  BY <1>1 DEF DeletionIInv, DeletesGuarded, DeletionPending, Live

LEMMA DeletionNext ==
    ASSUME DeletionIInv, StoreAssumption, [Next]_vars PROVE DeletionIInv'
<1>0. TypeOK /\ TypeOK'
  BY TypeNext DEF DeletionIInv
<1> SUFFICES DeletesGuarded' /\ DeletionPending'
  BY <1>0 DEF DeletionIInv
<1>1. ASSUME NEW n \in Names, User(n) \/ StatusWrite(n)
      PROVE  DeletesGuarded' /\ DeletionPending'
  <2>1. /\ UserCreate(n) \/ UserDelete(n) \/ UserEdit(n) \/ StatusWrite(n)
        /\ UNCHANGED <<queue, worker>>
    BY <1>1 DEF User, StatusWrite
  <2>2. (\E v \in Version : Guarded(v) /\ Write(n, v)) /\ UNCHANGED seen
    BY <1>0, <2>1, OthersWriteGuarded DEF DeletionIInv
  <2>3. KeptWaiting(n, Deleting)
    BY <2>1 DEF KeptWaiting, At
  <2> QED
    BY <2>2, <2>3, WriteKeepsDeletion
<1>2. ASSUME NEW n \in Names, Deliver(n) PROVE DeletesGuarded' /\ DeletionPending'
  <2> DEFINE vs == [seen EXCEPT ![n] = @ + 1]
  <2>1. \A m \in Names \ {n} : vs[m] = seen[m]
    BY <1>0 DEF TypeOK, StoreTypeOK
  <2>2. Inform({n}, vs) /\ UNCHANGED <<log, worker>>
    BY <1>2 DEF Deliver
  <2> HIDE DEF vs
  <2> QED
    BY <2>1, <2>2, InformKeepsDeletion
<1>3. CASE List \/ Relist
  <2>1. Inform(Names, Newest) /\ UNCHANGED <<log, worker>>
    BY <1>3 DEF List, Relist
  <2> QED
    BY <2>1, InformKeepsDeletion
<1>4. ASSUME NEW n \in Names, Dequeue(n) PROVE DeletesGuarded' /\ DeletionPending'
  <2>1. /\ UNCHANGED <<log, seen>> /\ queue' = queue \ {n}
        /\ worker.pc = "idle" /\ worker' = [pc |-> "get", key |-> n, rv |-> 0]
    BY <1>4 DEF Dequeue, storeVars
  <2>2. At(n, Deleting)' /\ \A m \in Names : ~At(m, Deleting)
    BY <2>1 DEF At, Deleting
  <2> QED
    BY <2>1, <2>2, StillKeepsDeletion
<1>5. CASE Get
  BY <1>5, GetKeepsDeletion
<1>6. CASE AddFinalizer \/ RemoveFinalizer
  BY <1>6, UpdateKeepsDeletion
<1>7. CASE Connect \/ Disconnect
  BY <1>7, CallKeepsDeletion
<1>8. CASE Crash
  <2>1. UNCHANGED log /\ \A m \in Names : seen'[m] = 0 /\ Len(log[m]) # 0
    BY <1>0, <1>8 DEF Crash, TypeOK, StoreTypeOK
  <2> QED
    BY <2>1 DEF DeletionIInv, DeletesGuarded, DeletionPending
<1>9. CASE Dial \/ Outage \/ Recovery \/ (\E r \in late : Land(r)) \/ UNCHANGED vars
  <2>1. UNCHANGED <<log, seen, queue, worker>>
    BY <1>9 DEF Dial, Outage, Recovery, Land, storeVars, vars
  <2> QED
    BY <2>1, StillKeepsDeletion DEF At
<1> QED
  BY <1>1, <1>2, <1>3, <1>4, <1>5, <1>6, <1>7, <1>8, <1>9
     DEF Next, Work, Rest, Manager, Surroundings, World

(***************************************************************************)
(* An object whose deletion the cache has is queued or being reconciled,   *)
(* in every behaviour: of any number of objects, with edits, late          *)
(* requests, expired watches and crashes.                                  *)
(***************************************************************************)
THEOREM DeletionInvariance == Spec => []DeletionIInv
<1>1. Init => DeletionIInv
  BY StoreAssumption, DeletionInit
<1>2. DeletionIInv /\ [Next]_vars => DeletionIInv'
  BY StoreAssumption, DeletionNext
<1> QED
  BY <1>1, <1>2, PTL DEF Spec

LEMMA RestingDeletion == ASSUME DeletionIInv PROVE DeletionKept
BY DEF DeletionIInv, DeletionPending, DeletionKept, Quiet, Wanted, At

(***************************************************************************)
(* No delete is forgotten: when the operator has nothing left to do for an *)
(* object, the object is gone or nobody is deleting it.                    *)
(***************************************************************************)
THEOREM DeletesRemembered == Spec => []DeletionKept
<1>1. DeletionIInv => DeletionKept
  BY RestingDeletion
<1> QED
  BY <1>1, DeletionInvariance, PTL

-----------------------------------------------------------------------------
(* What is written to the log, by whomever.                                *)

\* In addition to CalmLimit: no watch expires.
WatchesLast == "relist" \notin Free /\ Limit["relist"] = 0

\* What the log says of its objects.
LogIInv == TypeOK /\ DeletesGuarded /\ Owned /\ DeletionLasts /\ IdLasts

\* A write that keeps an object what it is, and in deletion if it is.
Plain(n, v) ==
    /\ v \in Version /\ Guarded(v)
    /\ v # NoObj => v.id \in MayUse[n]
    /\ Live(n) # NoObj /\ v # NoObj => v.id = Live(n).id /\ (Live(n).del => v.del)

\* No step of anybody writes anything else, and none writes and moves the
\* cache on.
Wrote == log' = log \/ \E n \in Names : \E v : Plain(n, v) /\ Write(n, v)

LEMMA LiveFacts ==
    ASSUME LogIInv, StoreAssumption, NEW n \in Names
    PROVE  /\ Len(log[n]) \in 1..Len(log[n]) /\ Live(n) \in Version /\ Guarded(Live(n))
           /\ Live(n) # NoObj => Live(n) \in Object /\ Live(n).id \in MayUse[n]
<1>1. Len(log[n]) \in 1..Len(log[n]) /\ Live(n) \in Version
  BY ObjectTypes DEF LogIInv
<1> QED
  BY <1>1 DEF LogIInv, DeletesGuarded, Owned, Guarded, Live, Version

LEMMA OthersArePlain ==
    ASSUME LogIInv, StoreAssumption, NEW n \in Names,
           UserCreate(n) \/ UserDelete(n) \/ StatusWrite(n)
    PROVE  \E v : Plain(n, v) /\ Write(n, v)
<1>1. /\ Live(n) \in Version /\ Guarded(Live(n))
      /\ Live(n) # NoObj => Live(n) \in Object /\ Live(n).id \in MayUse[n]
  BY LiveFacts
<1>2. ASSUME UserCreate(n) PROVE \E v : Plain(n, v) /\ Write(n, v)
  <2>1. PICK i \in MayUse[n] :
            Write(n, [id |-> i, del |-> FALSE, fin |-> FALSE, st |-> NoStatus])
    BY <1>2 DEF UserCreate
  <2> DEFINE v == [id |-> i, del |-> FALSE, fin |-> FALSE, st |-> NoStatus]
  <2>2. v \in Version
    BY DEF StoreAssumption, Version, Object
  <2>3. Plain(n, v)
    BY <1>2, <2>2 DEF Plain, Guarded, UserCreate
  <2> QED
    BY <2>1, <2>3
<1>3. ASSUME UserDelete(n) PROVE \E v : Plain(n, v) /\ Write(n, v)
  <2>1. CASE Live(n).fin
    <3> DEFINE v == [Live(n) EXCEPT !.del = TRUE]
    <3>1. v \in Version /\ v.fin /\ v.del /\ v.id = Live(n).id
      BY <1>1, <1>3, <2>1 DEF UserDelete, Version, Object
    <3>2. Write(n, v)
      BY <1>3, <2>1 DEF UserDelete
    <3> HIDE DEF v
    <3>3. Plain(n, v)
      BY <1>1, <1>3, <3>1 DEF Plain, Guarded, UserDelete
    <3> QED
      BY <3>2, <3>3
  <2>2. CASE ~Live(n).fin
    <3>1. Plain(n, NoObj)
      BY DEF Plain, Guarded, Version
    <3> QED
      BY <1>3, <2>2, <3>1 DEF UserDelete
  <2> QED
    BY <2>1, <2>2
<1>4. ASSUME StatusWrite(n) PROVE \E v : Plain(n, v) /\ Write(n, v)
  <2>1. PICK s \in States : Write(n, [Live(n) EXCEPT !.st = [state |-> s, cid |-> Live(n).id]])
    BY <1>4 DEF StatusWrite
  <2> DEFINE v == [Live(n) EXCEPT !.st = [state |-> s, cid |-> Live(n).id]]
  <2>2. Live(n) \in Object /\ Live(n) # NoObj
    BY <1>1, <1>4 DEF StatusWrite
  <2>3. v \in Version /\ v.del = Live(n).del /\ v.fin = Live(n).fin /\ v.id = Live(n).id
    BY <2>2 DEF Version, Object, Status
  <2> HIDE DEF v
  <2>4. Plain(n, v)
    BY <1>1, <2>2, <2>3 DEF Plain, Guarded
  <2> QED
    BY <2>1, <2>4 DEF v
<1> QED
  BY <1>2, <1>3, <1>4

\* What an Update of the worker does: it leaves the store alone and fails, or
\* writes on top of the version it is based on, whatever its answer is.
LEMMA UpdateIsPlain ==
    ASSUME LogIInv, CopyInHand, StoreAssumption, AddFinalizer \/ RemoveFinalizer,
           NEW n \in Names, worker.key = n
    PROVE  \/ log' = log /\ Requeue
           \/ \E v : /\ Plain(n, v) /\ Write(n, v)
                     /\ \/ v = NoObj /\ Live(n).del /\ (Return \/ Requeue)
                        \/ /\ v # NoObj /\ ~v.del
                           /\ \/ Requeue
                              \/ /\ UNCHANGED queue
                                 /\ worker' = [pc |-> "connect", key |-> n, rv |-> Len(log[n]) + 1]
<1> DEFINE v == IF worker.pc = "register" THEN [Copy EXCEPT !.fin = TRUE] ELSE NoObj
<1>1. /\ TypeOK /\ StoreTypeOK /\ worker.pc \in Updating /\ worker.rv \in Nat \ {0}
      /\ Copy \in Object /\ [Copy EXCEPT !.fin = TRUE] \in Object /\ Copy # NoObj
  BY ObjectTypes
     DEF LogIInv, TypeOK, AddFinalizer, RemoveFinalizer, Updating, StoreAssumption
<1>2. v \in Version
  BY <1>1 DEF Version
<1>3. PICK ok \in BOOLEAN :
          /\ Update(n, worker.rv, v, ok)
          /\ ~ok => Requeue
          /\ ok => IF worker.pc = "register"
                   THEN /\ worker' = [worker EXCEPT !.pc = "connect", !.rv = @ + 1]
                        /\ UNCHANGED queue
                   ELSE Return
  BY DEF AddFinalizer, RemoveFinalizer
<1>4. /\ log' = log \/ (worker.rv = Len(log[n]) /\ Write(n, v))
      /\ ok => worker.rv = Len(log[n]) /\ Write(n, v)
  <2> HIDE DEF v
  <2>1. Update(n, worker.rv, v, ok)
    BY <1>3
  <2> QED
    BY <1>1, <1>2, <2>1, UpdateFacts
<1>5. CASE worker.rv = Len(log[n]) /\ Write(n, v)
  <2>1. Live(n) = Copy /\ Copy.id \in MayUse[n]
    <3>1. Live(n) = Copy
      BY <1>5 DEF Live, Copy
    <3> QED
      BY <1>1, <3>1, LiveFacts
  <2>2. CASE worker.pc = "register"
    <3>1. v # NoObj /\ v.id = Copy.id /\ v.fin /\ ~v.del /\ ~Copy.del
      BY <1>1, <2>2 DEF CopyInHand, Object, StoreAssumption
    <3>2. ok => worker' = [pc |-> "connect", key |-> n, rv |-> Len(log[n]) + 1]
      BY <1>1, <1>3, <1>5, <2>2 DEF TypeOK, WorkerTypeOK, Idle
    <3>3. Requeue \/ (UNCHANGED queue /\ worker' = [pc |-> "connect", key |-> n, rv |-> Len(log[n]) + 1])
      BY <1>3, <2>2, <3>2
    <3> HIDE DEF v
    <3>4. Plain(n, v)
      BY <1>2, <2>1, <3>1 DEF Plain, Guarded
    <3> QED
      BY <1>5, <3>1, <3>3, <3>4
  <2>3. CASE worker.pc = "unregister"
    <3>1. v = NoObj /\ Live(n).del /\ (Return \/ Requeue)
      BY <1>3, <2>1, <2>3 DEF CopyInHand
    <3>2. Plain(n, NoObj)
      BY DEF Plain, Guarded, Version
    <3> HIDE DEF v
    <3> QED
      BY <1>5, <3>1, <3>2
  <2> QED
    BY <1>1, <2>2, <2>3 DEF Updating
<1>6. CASE log' = log /\ ~(worker.rv = Len(log[n]) /\ Write(n, v))
  BY <1>3, <1>4, <1>6
<1> QED
  BY <1>4, <1>5, <1>6

LEMMA StepWrites ==
    ASSUME LogIInv, CopyInHand, Calm, StoreAssumption, [Next]_vars
    PROVE  Wrote
<1>1. ASSUME NEW n \in Names, User(n) \/ StatusWrite(n) PROVE Wrote
  <2>1. UserCreate(n) \/ UserDelete(n) \/ StatusWrite(n)
    BY <1>1 DEF User, UserEdit, Spend, Calm
  <2> QED
    BY <2>1, OthersArePlain DEF Wrote
<1>2. CASE AddFinalizer \/ RemoveFinalizer
  <2>1. worker.key \in Names
    BY <1>2, ObjectTypes DEF LogIInv, AddFinalizer, RemoveFinalizer, Updating
  <2> QED
    BY <1>2, <2>1, UpdateIsPlain DEF Wrote
<1>3. CASE ~(AddFinalizer \/ RemoveFinalizer \/ \E n \in Names : User(n) \/ StatusWrite(n))
  <2>1. log' = log
    BY <1>3
       DEF Next, Work, Rest, Manager, Surroundings, World, Get, Connect, Disconnect, Dial, List,
           Relist, Deliver, Dequeue, Outage, Recovery, Land, Crash, storeVars, vars
  <2> QED
    BY <2>1 DEF Wrote
<1> QED
  BY <1>1, <1>2, <1>3

\* How the log of one object comes out of a step.
Grown(m) ==
    /\ \A k \in 1..Len(log[m]) : log'[m][k] = log[m][k]
    /\ \/ log'[m] = log[m]
       \/ /\ Len(log'[m]) = Len(log[m]) + 1
          /\ Plain(m, log'[m][Len(log[m]) + 1])

LEMMA WroteGrows ==
    ASSUME LogIInv, StoreAssumption, Wrote, NEW m \in Names
    PROVE  Grown(m)
<1>1. CASE log' = log
  BY <1>1 DEF Grown
<1>2. ASSUME NEW n \in Names, NEW v, Plain(n, v), Write(n, v) PROVE Grown(m)
  <2>1. v \in Version /\ log \in [Names -> Seq(Version)]
    BY <1>2 DEF Plain, LogIInv, TypeOK, StoreTypeOK
  <2>2. /\ Len(log'[n]) = Len(log[n]) + 1 /\ log'[n][Len(log[n]) + 1] = v
        /\ \A i \in Names \ {n} : log'[i] = log[i]
        /\ \A k \in 1..Len(log[m]) : log'[m][k] = log[m][k]
    BY <1>2, <2>1, WriteFacts
  <2> QED
    BY <1>2, <2>2 DEF Grown
<1> QED
  BY <1>1, <1>2 DEF Wrote

\* The log goes on saying the same of its objects.
LEMMA LogNext ==
    ASSUME LogIInv, StoreAssumption, Wrote, TypeOK'
    PROVE  LogIInv'
<1> SUFFICES DeletesGuarded' /\ Owned' /\ DeletionLasts' /\ IdLasts'
  BY DEF LogIInv
<1>1. ASSUME NEW m \in Names
      PROVE  Grown(m) /\ Len(log[m]) \in Nat \ {0} /\ Len(log'[m]) \in Nat \ {0}
  BY <1>1, WroteGrows DEF LogIInv, TypeOK, StoreTypeOK
<1>2. DeletesGuarded' /\ Owned'
  <2>1. ASSUME NEW m \in Names, NEW k \in 1..Len(log'[m])
        PROVE  /\ Guarded(log'[m][k])
               /\ log'[m][k] # NoObj => log'[m][k].id \in MayUse[m]
    <3>1. CASE k \in 1..Len(log[m])
      <4>1. log'[m][k] = log[m][k]
        BY <1>1, <3>1 DEF Grown
      <4> QED
        BY <3>1, <4>1 DEF LogIInv, DeletesGuarded, Owned, Guarded
    <3>2. CASE k \notin 1..Len(log[m])
      BY <1>1, <2>1, <3>2 DEF Grown, Plain
    <3> QED
      BY <3>1, <3>2
  <2> QED
    BY <2>1 DEF DeletesGuarded, Owned, Guarded
<1>3. DeletionLasts'
  <2>1. ASSUME NEW m \in Names, NEW k \in 1..Len(log'[m]) - 1, log'[m][k] # NoObj, log'[m][k].del
        PROVE  log'[m][k + 1] = NoObj \/ log'[m][k + 1].del
    <3>1. CASE k \in 1..Len(log[m]) - 1
      <4>1. k \in 1..Len(log[m]) /\ k + 1 \in 1..Len(log[m])
        BY <1>1, <3>1
      <4>2. log'[m][k] = log[m][k] /\ log'[m][k + 1] = log[m][k + 1]
        BY <1>1, <4>1 DEF Grown
      <4> QED
        BY <2>1, <3>1, <4>2 DEF LogIInv, DeletionLasts
    <3>2. CASE k \notin 1..Len(log[m]) - 1
      <4>1. k = Len(log[m]) /\ Len(log[m]) \in 1..Len(log[m]) /\ Plain(m, log'[m][k + 1])
        BY <1>1, <2>1, <3>2 DEF Grown
      <4>2. log'[m][k] = Live(m)
        BY <1>1, <4>1 DEF Grown, Live
      <4> QED
        BY <2>1, <4>1, <4>2 DEF Plain
    <3> QED
      BY <3>1, <3>2
  <2> QED
    BY <2>1 DEF DeletionLasts
<1>4. IdLasts'
  <2>1. ASSUME NEW m \in Names, NEW j \in 1..Len(log'[m]), NEW k \in 1..Len(log'[m]), j <= k,
               \A i \in j..k : log'[m][i] # NoObj
        PROVE  log'[m][j].id = log'[m][k].id
    <3>1. CASE k \in 1..Len(log[m])
      <4>1. \A i \in j..k : log'[m][i] = log[m][i]
        BY <1>1, <3>1 DEF Grown
      <4>2. j \in 1..Len(log[m]) /\ \A i \in j..k : log[m][i] # NoObj
        BY <1>1, <2>1, <3>1, <4>1
      <4>3. log[m][j].id = log[m][k].id
        BY <2>1, <3>1, <4>2 DEF LogIInv, IdLasts
      <4>4. j \in j..k /\ k \in j..k
        BY <2>1
      <4> QED
        BY <4>1, <4>3, <4>4
    <3>2. CASE k \notin 1..Len(log[m]) /\ j # k
      <4>1. /\ k = Len(log[m]) + 1 /\ j \in 1..Len(log[m]) /\ Len(log[m]) \in 1..Len(log[m])
            /\ Plain(m, log'[m][k])
        BY <1>1, <2>1, <3>2 DEF Grown
      <4>2. \A i \in j..Len(log[m]) : log'[m][i] = log[m][i] /\ i \in j..k
        BY <1>1, <4>1 DEF Grown
      <4>3. log[m][j].id = Live(m).id
        BY <2>1, <4>1, <4>2 DEF LogIInv, IdLasts, Live
      <4>4. Live(m) # NoObj /\ log'[m][k] # NoObj /\ log'[m][j] = log[m][j]
        BY <2>1, <4>1, <4>2 DEF Live
      <4> QED
        BY <4>1, <4>3, <4>4 DEF Plain
    <3> QED
      BY <3>1, <3>2
  <2> QED
    BY <2>1 DEF IdLasts
<1> QED
  BY <1>2, <1>3, <1>4

-----------------------------------------------------------------------------
(* What is steady, and what is done about it.                              *)

\* An object that is steady after a step was so before it, if the cache
\* had it then, and has asked for the same connection since.
LEMMA SteadyThen ==
    ASSUME LogIInv, StoreAssumption, Wrote, NEW m \in Names, NEW k \in 1..Len(log[m]),
           \A j \in k..Len(log'[m]) : log'[m][j] # NoObj /\ ~log'[m][j].del
    PROVE  /\ SteadyFrom(m, k)
           /\ Live(m)'.id = Live(m).id
<1>1. Grown(m) /\ Len(log[m]) \in Nat \ {0}
  BY WroteGrows DEF LogIInv, TypeOK, StoreTypeOK
<1>2. Len(log[m]) <= Len(log'[m]) /\ Len(log'[m]) \in Nat
  BY <1>1 DEF Grown
<1>3. \A j \in k..Len(log[m]) : log[m][j] # NoObj /\ ~log[m][j].del
  BY <1>1, <1>2 DEF Grown
<1>4. SteadyFrom(m, k)
  BY <1>3 DEF SteadyFrom
<1>5. Live(m)'.id = Live(m).id
  <2>1. CASE log'[m] = log[m]
    BY <2>1 DEF Live
  <2>2. CASE Len(log'[m]) = Len(log[m]) + 1 /\ Plain(m, log'[m][Len(log[m]) + 1])
    <3>1. /\ Len(log[m]) \in k..Len(log[m]) /\ Len(log[m]) + 1 \in k..Len(log'[m])
          /\ Live(m)' = log'[m][Len(log[m]) + 1]
      BY <1>1, <2>2 DEF Live
    <3>2. Live(m) # NoObj /\ Live(m)' # NoObj
      BY <1>3, <3>1 DEF Live
    <3> QED
      BY <2>2, <3>1, <3>2 DEF Plain
  <2> QED
    BY <1>1, <2>1, <2>2 DEF Grown
<1> QED
  BY <1>4, <1>5

\* The same of what is in the cache, and of the copy in the worker's hands.
LEMMA StillSteady ==
    ASSUME LogIInv, StoreAssumption, Wrote, UNCHANGED seen, NEW m \in Names, Steady(m)'
    PROVE  /\ Steady(m) /\ Live(m)'.id = Live(m).id
           /\ \A k \in 1..Len(log[m]) : SteadyFrom(m, k) =>
                  \A j \in k..Len(log'[m]) : log'[m][j] # NoObj /\ ~log'[m][j].del
<1>1. /\ seen[m] \in Nat /\ seen[m] <= Len(log[m]) /\ Len(log[m]) \in Nat /\ seen[m] > 0
      /\ \A j \in seen[m]..Len(log'[m]) : log'[m][j] # NoObj /\ ~log'[m][j].del
  BY DEF Steady, SteadyFrom, LogIInv, TypeOK, StoreTypeOK
<1>2. Steady(m) /\ Live(m)'.id = Live(m).id
  BY <1>1, SteadyThen DEF Steady
<1>3. ASSUME NEW k \in 1..Len(log[m]), SteadyFrom(m, k), NEW j \in k..Len(log'[m])
      PROVE  log'[m][j] # NoObj /\ ~log'[m][j].del
  <2>1. CASE j <= Len(log[m])
    <3>1. j \in k..Len(log[m]) /\ log'[m][j] = log[m][j]
      BY <1>3, <2>1, WroteGrows DEF Grown
    <3> QED
      BY <1>3, <3>1 DEF SteadyFrom
  <2>2. CASE ~(j <= Len(log[m]))
    BY <1>1, <1>3, <2>2
  <2> QED
    BY <2>1, <2>2
<1> QED
  BY <1>2, <1>3

\* What a step does about an object that the cache shows as steady after it:
\* it has it wait for the worker; or else it was steady already, and is
\* waiting or connected still if it was.
Followed(m) ==
    Steady(m)' =>
        \/ Waits(m)'
        \/ /\ Steady(m) /\ Live(m)'.id = Live(m).id
           /\ Waits(m) \/ Live(m).id \in conns => Waits(m)' \/ Live(m).id \in conns'

LEMMA FollowedPends ==
    ASSUME ConnectPending, \A m \in Names : Followed(m)
    PROVE  ConnectPending'
BY DEF ConnectPending, Followed

\* What others write leaves a worker with the copy it had in hand, and what it
\* knew of it.
LEMMA ForeignHand ==
    ASSUME LogIInv, CopyInHand, StoreAssumption, Wrote, UNCHANGED <<seen, queue, worker>>
    PROVE  CopyInHand'
<1>1. TypeOK
  BY DEF LogIInv
<1>2. CASE worker.rv = 0
  BY <1>1, <1>2 DEF TypeOK, WorkerTypeOK, CopyInHand, Idle
<1>3. CASE worker.rv # 0
  <2>1. PICK n \in Names : worker.key = n
    BY <1>1, <1>3 DEF TypeOK, WorkerTypeOK, Idle
  <2>2. worker.rv \in 1..Len(log[n]) /\ Copy' = Copy
    <3>1. worker.rv \in 1..Len(log[n])
      BY <1>1, <1>3, <2>1 DEF TypeOK, WorkerTypeOK, Idle, StoreTypeOK
    <3> QED
      BY <2>1, <3>1, WroteGrows DEF Copy, Grown
  <2>3. ASSUME Steady(n)', n \notin queue PROVE SteadyFrom(n, worker.rv)'
    <3>1. Steady(n)
      BY <2>3, StillSteady
    <3>2. SteadyFrom(n, worker.rv)
      BY <2>1, <2>2, <2>3, <3>1 DEF CopyInHand
    <3>3. \A j \in worker.rv..Len(log'[n]) : log'[n][j] # NoObj /\ ~log'[n][j].del
      BY <2>2, <2>3, <3>2, StillSteady
    <3> QED
      BY <3>2, <3>3 DEF SteadyFrom
  <2> QED
    BY <2>1, <2>2, <2>3 DEF CopyInHand
<1> QED
  BY <1>2, <1>3

LEMMA ForeignDeletion ==
    ASSUME LogIInv, DeletionPending, StoreAssumption, Wrote, UNCHANGED <<seen, queue, worker>>
    PROVE  DeletionPending'
<1>1. ASSUME NEW m \in Names, seen[m] = Len(log'[m]) PROVE log'[m] = log[m]
  <2>1. Grown(m) /\ seen[m] <= Len(log[m]) /\ Len(log[m]) \in Nat
    BY WroteGrows DEF LogIInv, TypeOK, StoreTypeOK
  <2> QED
    BY <1>1, <2>1 DEF Grown
<1> QED
  BY <1>1 DEF DeletionPending, Live, At

LEMMA ForeignFollowed ==
    ASSUME LogIInv, StoreAssumption, Wrote, UNCHANGED <<seen, queue, worker, conns>>
    PROVE  \A m \in Names : Followed(m)
<1>1. ASSUME NEW m \in Names, Steady(m)' PROVE Steady(m) /\ Live(m)'.id = Live(m).id
  BY <1>1, StillSteady
<1> QED
  BY <1>1 DEF Followed, Waits, At

\* The informer queues what it had not cached, and sees every version of an
\* object that it has: what is steady and not queued was steady before.
LEMMA InformFollowed ==
    ASSUME LogIInv, CopyInHand, StoreAssumption, NEW ns \in SUBSET Names, NEW vs \in [Names -> Nat],
           \A m \in Names : vs[m] <= Len(log[m]),
           \A m \in Names \ ns : vs[m] = seen[m],
           \A m \in ns : seen[m] = 0 \/ (seen[m] > 0 /\ vs[m] = seen[m] + 1),
           Inform(ns, vs), UNCHANGED <<log, worker, conns>>
    PROVE  CopyInHand' /\ \A m \in Names : Followed(m)
<1>1. \A m \in Names :
          /\ seen[m] \in Nat /\ Len(log[m]) \in Nat
          /\ seen'[m] = vs[m] /\ vs[m] \in Nat /\ vs[m] <= Len(log[m])
  BY DEF LogIInv, TypeOK, StoreTypeOK, Inform
<1>2. ASSUME NEW m \in Names, Steady(m)' PROVE m \in queue' \/ Steady(m)
  <2>0. seen'[m] > 0 /\ \A k \in seen'[m]..Len(log[m]) : log[m][k] # NoObj /\ ~log[m][k].del
    BY <1>2 DEF Steady, SteadyFrom
  <2>1. CASE m \notin ns
    BY <1>2, <2>1 DEF Inform, Steady, SteadyFrom
  <2>2. CASE m \in ns /\ Cached(m) = NoObj
    <3>1. vs[m] \in seen'[m]..Len(log[m]) /\ log[m][vs[m]] # NoObj
      BY <1>1, <2>0
    <3> QED
      BY <2>2, <3>1 DEF Inform, Admits
  <2>3. CASE m \in ns /\ Cached(m) # NoObj
    <3>1. /\ seen[m] > 0 /\ seen'[m] = seen[m] + 1
          /\ log[m][seen[m]] = Cached(m)
      BY <2>3 DEF Inform, Cached
    <3>2. seen[m] \in 1..Len(log[m]) - 1
      BY <1>1, <2>0, <3>1
    <3>3. log[m][seen[m] + 1] # NoObj /\ ~log[m][seen[m] + 1].del
      BY <1>1, <2>0, <3>1, <3>2
    <3>4. ~log[m][seen[m]].del
      BY <2>3, <3>1, <3>2, <3>3 DEF LogIInv, DeletionLasts
    <3>5. \A k \in seen[m]..Len(log[m]) : k = seen[m] \/ k \in seen'[m]..Len(log[m])
      BY <1>1, <3>1
    <3>6. Steady(m)
      BY <2>0, <2>3, <3>1, <3>4, <3>5 DEF Steady, SteadyFrom
    <3> QED
      BY <3>6
  <2> QED
    BY <2>1, <2>2, <2>3
<1>3. queue \subseteq queue' /\ \A m \in Names : Live(m)' = Live(m)
  BY DEF Inform, Live
<1>4. CopyInHand'
  <2>1. CASE worker.rv > 0
    <3>1. worker.key \in Names /\ Copy' = Copy
      BY <2>1 DEF LogIInv, TypeOK, WorkerTypeOK, Idle, Copy
    <3>2. ASSUME Steady(worker.key)', worker.key \notin queue' PROVE SteadyFrom(worker.key, worker.rv)'
      <4>1. PICK n \in Names : worker.key = n
        BY <3>1
      <4>2. Steady(n) /\ n \notin queue
        BY <1>2, <1>3, <3>2, <4>1
      <4>3. SteadyFrom(n, worker.rv)
        BY <2>1, <4>1, <4>2 DEF CopyInHand
      <4> QED
        BY <4>1, <4>3 DEF SteadyFrom
    <3> QED
      BY <3>1, <3>2 DEF CopyInHand
  <2>2. CASE ~(worker.rv > 0)
    BY <2>2 DEF LogIInv, TypeOK, WorkerTypeOK, CopyInHand, Idle, Copy
  <2> QED
    BY <2>1, <2>2
<1> QED
  BY <1>2, <1>3, <1>4 DEF Followed, Waits, At

LEMMA DequeueFollowed ==
    ASSUME LogIInv, NEW n \in Names, Dequeue(n)
    PROVE  CopyInHand' /\ \A m \in Names : Followed(m)
<1>1. /\ UNCHANGED <<log, seen, conns>> /\ queue' = queue \ {n}
      /\ worker.pc = "idle" /\ worker' = [pc |-> "get", key |-> n, rv |-> 0]
  BY DEF Dequeue, storeVars, remote
<1>2. \A m \in Names : Waits(m) => Waits(m)'
  BY <1>1 DEF Waits, At
<1>3. \A m \in Names : Live(m)' = Live(m) /\ Steady(m)' = Steady(m)
  BY <1>1 DEF Live, Steady, SteadyFrom
<1> QED
  BY <1>1, <1>2, <1>3 DEF Followed, CopyInHand

LEMMA GetFollowed ==
    ASSUME LogIInv, StoreAssumption, Get
    PROVE  CopyInHand' /\ \A m \in Names : Followed(m)
<1>1. UNCHANGED <<log, seen, queue, conns>> /\ worker.pc = "get" /\ TypeOK
  BY DEF Get, Return, storeVars, remote, LogIInv
<1>2. PICK n \in Names : worker.key = n
  BY <1>1 DEF TypeOK, WorkerTypeOK, Idle
<1>3. \A m \in Names : Live(m)' = Live(m) /\ Steady(m)' = Steady(m)
  BY <1>1 DEF Live, Steady, SteadyFrom
<1>4. \/ Finished(Cached(n)) /\ worker' = Idle
      \/ /\ ~Finished(Cached(n))
         /\ worker' = [pc |-> Branch(Cached(n)), key |-> n, rv |-> seen[n]]
  <2>1. \/ Finished(Cached(n)) /\ worker' = Idle
        \/ /\ ~Finished(Cached(n))
           /\ worker' = [worker EXCEPT !.pc = Branch(Cached(n)), !.rv = seen[n]]
    BY <1>2 DEF Get, Return
  <2> QED
    BY <1>1, <1>2, <2>1 DEF TypeOK, WorkerTypeOK, Idle
<1>5. seen[n] > 0 /\ seen[n] \in seen[n]..Len(log[n]) /\ Cached(n) = log[n][seen[n]]
  BY <1>1, <1>2 DEF TypeOK, WorkerTypeOK, StoreTypeOK, Idle, Cached
<1>6. Steady(n) => At(n, {"register", "connect"})'
  <2>1. Steady(n) => Cached(n) # NoObj /\ ~Cached(n).del
    BY <1>5 DEF Steady, SteadyFrom
  <2> QED
    BY <1>4, <2>1 DEF Finished, LetGo, Branch, At
<1>7. CopyInHand'
  <2>1. CASE worker' = Idle
    BY <2>1 DEF CopyInHand, Idle
  <2>2. CASE worker' = [pc |-> Branch(Cached(n)), key |-> n, rv |-> seen[n]]
    <3>1. Copy' = Cached(n)
      BY <1>1, <1>5, <2>2 DEF Copy
    <3>2. Steady(n)' => SteadyFrom(n, worker.rv)'
      BY <1>1, <2>2 DEF Steady, SteadyFrom
    <3>3. /\ worker'.pc \in {"register", "connect"} => ~Copy'.del
          /\ worker'.pc \in {"disconnect", "unregister"} => Copy'.del
      BY <2>2, <3>1 DEF Branch
    <3>4. worker'.key = n
      BY <2>2
    <3> QED
      BY <3>2, <3>3, <3>4 DEF CopyInHand
  <2> QED
    BY <1>4, <2>1, <2>2
<1>8. \A m \in Names \ {n} : Waits(m) => Waits(m)'
  BY <1>1, <1>2 DEF Waits, At
<1> QED
  BY <1>1, <1>3, <1>6, <1>7, <1>8 DEF Followed, Waits, At

\* A connection is closed by a worker with a copy in deletion only: the object
\* is queued again, or nobody wants it.  One that is opened is that of the
\* object as it is, if the object is wanted and not queued.
LEMMA CallFollowed ==
    ASSUME LogIInv, CopyInHand, Calm, StoreAssumption, DisjointUse, Connect \/ Disconnect
    PROVE  CopyInHand' /\ \A m \in Names : Followed(m)
<1> DEFINE r == [op |-> worker.pc, id |-> Copy.id]
<1>1. UNCHANGED <<log, seen>> /\ queue \subseteq queue' /\ TypeOK /\ worker.pc \in Calling
  BY DEF Connect, Disconnect, Return, Requeue, LogIInv, Calling
<1>2. PICK n \in Names : worker.key = n
  BY <1>1, RequestType
<1>3. worker.rv \in 1..Len(log[n]) /\ Copy # NoObj /\ Copy = log[n][worker.rv]
  <2>1. worker.rv > 0 /\ worker.rv \in Nat
    BY <1>1, ObjectTypes
  <2> QED
    BY <1>1, <1>2, <2>1 DEF TypeOK, WorkerTypeOK, Idle, Copy, StoreTypeOK
<1>4. \A m \in Names : Live(m)' = Live(m) /\ Steady(m)' = Steady(m)
  BY <1>1 DEF Live, Steady, SteadyFrom
<1>5. PICK ok \in BOOLEAN :
          /\ Call(r, ok)
          /\ ~ok => Requeue
          /\ ok /\ worker.pc = "disconnect" =>
                 worker' = [worker EXCEPT !.pc = "unregister"] /\ UNCHANGED queue
          /\ ok /\ worker.pc = "connect" => Return
  BY DEF Connect, Disconnect
<1>6. conns' \in {conns, Served(r)} /\ (ok => conns' = Served(r))
  <2>1. r \in Request
    BY <1>1, RequestType
  <2> HIDE DEF r
  <2> QED
    BY <1>1, <1>5, <2>1, CallTypes
<1>7. n \in queue' \/ (ok /\ UNCHANGED queue)
  BY <1>1, <1>2, <1>5 DEF Requeue, Return, Calling
<1>8. ASSUME Steady(n), n \notin queue PROVE Copy.id = Live(n).id /\ ~Copy.del
  <2>1. SteadyFrom(n, worker.rv)
    BY <1>2, <1>3, <1>8 DEF CopyInHand
  <2>2. \A j \in worker.rv..Len(log[n]) : log[n][j] # NoObj /\ ~log[n][j].del
    BY <2>1 DEF SteadyFrom
  <2>3. Len(log[n]) \in 1..Len(log[n]) /\ worker.rv <= Len(log[n]) /\ worker.rv \in worker.rv..Len(log[n])
    BY <1>3
  <2>4. log[n][worker.rv].id = log[n][Len(log[n])].id
    BY <1>3, <2>2, <2>3 DEF LogIInv, IdLasts
  <2> QED
    BY <1>3, <2>2, <2>3, <2>4 DEF Live
<1>9. ASSUME NEW m \in Names, Steady(m), m # n, Live(m).id \in conns PROVE Live(m).id \in conns'
  <2>1. Copy.id \in MayUse[n]
    BY <1>3 DEF LogIInv, Owned
  <2>2. Live(m).id \in MayUse[m]
    <3>1. Live(m) # NoObj
      BY <1>9 DEF Steady, SteadyFrom, Live, LogIInv, TypeOK, StoreTypeOK
    <3> QED
      BY <3>1, LiveFacts
  <2> QED
    BY <1>6, <1>9, <2>1, <2>2 DEF DisjointUse, Served
<1>10. ASSUME Steady(n) PROVE Waits(n)' \/ Live(n).id \in conns'
  <2>1. CASE n \in queue'
    BY <2>1 DEF Waits
  <2>2. CASE n \notin queue'
    <3>1. ok /\ n \notin queue /\ Copy.id = Live(n).id /\ ~Copy.del
      BY <1>1, <1>7, <1>8, <1>10, <2>2
    <3>2. worker.pc = "connect"
      BY <1>1, <3>1 DEF CopyInHand, Calling
    <3> QED
      BY <1>6, <3>1, <3>2 DEF Served
  <2> QED
    BY <2>1, <2>2
<1>11. \A m \in Names \ {n} : Waits(m) => Waits(m)'
  BY <1>1, <1>2 DEF Waits, At
<1>12. CopyInHand'
  <2>1. CASE worker' = Idle
    BY <2>1 DEF CopyInHand, Idle
  <2>2. CASE worker' # Idle
    <3>1. ok /\ worker.pc = "disconnect" /\ UNCHANGED queue
      BY <1>1, <1>5, <2>2 DEF Requeue, Return, Calling
    <3>2. worker' = [pc |-> "unregister", key |-> n, rv |-> worker.rv]
      BY <1>1, <1>2, <1>5, <3>1 DEF TypeOK, WorkerTypeOK, Idle
    <3>3. Copy' = Copy /\ Copy.del
      BY <1>1, <1>2, <3>1, <3>2 DEF CopyInHand, Copy
    <3>4. SteadyFrom(n, worker.rv) => SteadyFrom(n, worker.rv)'
      BY <1>1, <3>2 DEF SteadyFrom
    <3>5. Steady(n)' /\ n \notin queue' => SteadyFrom(n, worker.rv)
      BY <1>2, <1>3, <1>4, <3>1 DEF CopyInHand
    <3>6. /\ worker'.pc = "unregister" /\ Copy'.del
          /\ Steady(n)' /\ n \notin queue' => SteadyFrom(n, worker.rv)'
      BY <3>2, <3>3, <3>4, <3>5
    <3>7. worker'.key = n
      BY <3>2
    <3> QED
      BY <3>6, <3>7 DEF CopyInHand
  <2> QED
    BY <2>1, <2>2
<1> QED
  BY <1>4, <1>9, <1>10, <1>11, <1>12 DEF Followed

LEMMA UpdateFollowed ==
    ASSUME LogIInv, CopyInHand, StoreAssumption, AddFinalizer \/ RemoveFinalizer
    PROVE  CopyInHand' /\ \A m \in Names : Followed(m)
<1>1. UNCHANGED <<seen, conns>> /\ queue \subseteq queue' /\ TypeOK /\ worker.key \in Names
  BY ObjectTypes
     DEF AddFinalizer, RemoveFinalizer, Return, Requeue, remote, LogIInv, Updating
<1>2. PICK n \in Names : worker.key = n
  BY <1>1
<1>3. \/ log' = log /\ Requeue
      \/ \E v : /\ Plain(n, v) /\ Write(n, v)
                /\ \/ v = NoObj /\ Live(n).del /\ (Return \/ Requeue)
                   \/ /\ v # NoObj /\ ~v.del
                      /\ \/ Requeue
                         \/ /\ UNCHANGED queue
                            /\ worker' = [pc |-> "connect", key |-> n, rv |-> Len(log[n]) + 1]
  BY <1>2, UpdateIsPlain
<1>4. Wrote
  BY <1>3 DEF Wrote
<1>5. ASSUME NEW m \in Names, Steady(m)'
      PROVE  Steady(m) /\ Live(m)'.id = Live(m).id /\ Live(m) # NoObj /\ ~Live(m).del
  <2>1. Steady(m) /\ Live(m)'.id = Live(m).id
    BY <1>1, <1>4, <1>5, StillSteady
  <2> QED
    BY <1>1, <2>1 DEF Steady, SteadyFrom, Live, TypeOK, StoreTypeOK
<1>6. \A m \in Names \ {n} : Waits(m) => Waits(m)'
  BY <1>1, <1>2 DEF Waits, At
<1>7. CopyInHand' /\ (Steady(n)' => Waits(n)')
  <2>1. CASE Requeue
    BY <1>2, <2>1 DEF Requeue, CopyInHand, Idle, Waits
  <2>2. CASE Live(n).del /\ Return
    <3>1. ~Steady(n)'
      BY <1>5, <2>2
    <3> QED
      BY <2>2, <3>1 DEF Return, CopyInHand, Idle
  <2>3. ASSUME NEW v, Plain(n, v), Write(n, v), v # NoObj, ~v.del,
               worker' = [pc |-> "connect", key |-> n, rv |-> Len(log[n]) + 1]
        PROVE  CopyInHand' /\ (Steady(n)' => Waits(n)')
    <3>1. /\ Len(log'[n]) = Len(log[n]) + 1 /\ log'[n][Len(log[n]) + 1] = v
          /\ Len(log[n]) \in Nat
      BY <1>1, <2>3, WriteFacts DEF Plain, TypeOK, StoreTypeOK
    <3>2. \A j \in (Len(log[n]) + 1)..Len(log'[n]) : log'[n][j] = v
      BY <3>1
    <3>3. SteadyFrom(n, worker.rv)'
      BY <2>3, <3>1, <3>2 DEF SteadyFrom
    <3>4. At(n, {"get", "register", "connect"})' /\ worker'.key = n /\ worker'.pc = "connect"
      BY <2>3 DEF At
    <3> QED
      BY <3>3, <3>4 DEF CopyInHand, Waits
  <2> QED
    BY <1>3, <2>1, <2>2, <2>3
<1> QED
  BY <1>1, <1>5, <1>6, <1>7 DEF Followed

\* A process that begins again has nothing in its cache.
LEMMA CrashFollowed ==
    ASSUME Crash
    PROVE  CopyInHand' /\ \A m \in Names : Followed(m)
<1>1. worker' = Idle /\ \A m \in Names : seen'[m] = 0
  BY DEF Crash
<1> QED
  BY <1>1 DEF CopyInHand, Idle, Followed, Steady, SteadyFrom

LEMMA StepFollowed ==
    ASSUME LogIInv, CopyInHand, Calm, "relist" \notin Free, budget["relist"] = 0,
           StoreAssumption, DisjointUse, [Next]_vars
    PROVE  CopyInHand' /\ \A m \in Names : Followed(m)
<1>0. Wrote /\ TypeOK
  BY StepWrites DEF LogIInv
<1>1. CASE UNCHANGED <<seen, queue, worker, conns>>
  BY <1>0, <1>1, ForeignHand, ForeignFollowed
<1>2. ASSUME NEW n \in Names, Deliver(n) PROVE CopyInHand' /\ \A m \in Names : Followed(m)
  <2> DEFINE vs == [seen EXCEPT ![n] = @ + 1]
  <2>1. vs \in [Names -> Nat] /\ \A m \in Names : vs[m] = IF m = n THEN seen[n] + 1 ELSE seen[m]
    BY <1>0 DEF TypeOK, StoreTypeOK
  <2>2. \A m \in Names : vs[m] <= Len(log[m])
    BY <1>0, <1>2, <2>1 DEF Deliver, TypeOK, StoreTypeOK
  <2>3. Inform({n}, vs) /\ UNCHANGED <<log, worker, conns>> /\ seen[n] > 0
    BY <1>0, <1>2 DEF Deliver, remote, TypeOK, StoreTypeOK
  <2> HIDE DEF vs
  <2> QED
    BY <2>1, <2>2, <2>3, InformFollowed
<1>3. CASE List
  <2>1. Newest \in [Names -> Nat] /\ \A m \in Names : Newest[m] <= Len(log[m])
    BY <1>0, ObjectTypes DEF Newest
  <2>2. Inform(Names, Newest) /\ UNCHANGED <<log, worker, conns>> /\ \A m \in Names : seen[m] = 0
    BY <1>3 DEF List, remote
  <2> QED
    BY <2>1, <2>2, InformFollowed
<1>4. ~Relist
  BY DEF Relist, Spend
<1>5. ASSUME NEW n \in Names, Dequeue(n) PROVE CopyInHand' /\ \A m \in Names : Followed(m)
  BY <1>5, DequeueFollowed
<1>6. CASE Get
  BY <1>6, GetFollowed
<1>7. CASE AddFinalizer \/ RemoveFinalizer
  BY <1>7, UpdateFollowed
<1>8. CASE Connect \/ Disconnect
  BY <1>8, CallFollowed
<1>9. ~ \E r \in late : Land(r)
  BY DEF Calm
<1>10. CASE Crash
  BY <1>10, CrashFollowed
<1>11. CASE \/ Dial \/ Outage \/ Recovery \/ UNCHANGED vars
            \/ \E n \in Names : User(n) \/ StatusWrite(n)
  <2>1. UNCHANGED <<queue, worker, conns, seen>>
    BY <1>11
       DEF Dial, Outage, Recovery, User, UserCreate, UserDelete, UserEdit, StatusWrite,
           storeVars, remote, vars
  <2> QED
    BY <1>1, <2>1
<1> QED
  BY <1>2, <1>3, <1>4, <1>5, <1>6, <1>7, <1>8, <1>9, <1>10, <1>11
     DEF Next, Work, Rest, Manager, Surroundings, World

-----------------------------------------------------------------------------
(* An operator that rests has done what the user asked for.                *)

\* What has been spent does not come back.
LEMMA BudgetShrinks ==
    ASSUME TypeOK, [Next]_vars, NEW b \in Budgets
    PROVE  budget'[b] <= budget[b]
<1>1. budget' = budget \/ \E c \in Budgets : Spend(c)
  <2>1. ASSUME NEW n \in Names, User(n) \/ StatusWrite(n) \/ Deliver(n) \/ Dequeue(n)
        PROVE  budget' = budget \/ \E c \in Budgets : Spend(c)
    BY <2>1 DEF User, UserCreate, UserDelete, UserEdit, StatusWrite, Deliver, Dequeue,
                storeVars, Budgets
  <2>2. CASE AddFinalizer \/ RemoveFinalizer
    BY <2>2 DEF AddFinalizer, RemoveFinalizer, Update, Budgets
  <2>3. CASE Connect \/ Disconnect
    BY <2>3 DEF Connect, Disconnect, Call, Budgets
  <2>4. CASE \/ Get \/ Dial \/ List \/ Relist \/ Outage \/ Recovery \/ Crash
             \/ (\E r \in late : Land(r)) \/ UNCHANGED vars
    BY <2>4 DEF Get, Dial, List, Relist, Outage, Recovery, Crash, Land, storeVars, vars, Budgets
  <2> QED
    BY <2>1, <2>2, <2>3, <2>4 DEF Next, Work, Rest, Manager, Surroundings, World
<1>2. budget[b] \in Nat
  BY DEF TypeOK, StoreTypeOK
<1> QED
  BY <1>1, <1>2, SpendTypes

\* What cannot happen any more does not happen later either.
LEMMA CalmNext ==
    ASSUME TypeOK, StoreAssumption, Calm, [Next]_vars
    PROVE  /\ Calm'
           /\ "relist" \notin Free /\ budget["relist"] = 0 => budget'["relist"] = 0
<1>1. \A b \in Budgets : budget'[b] <= budget[b] /\ budget'[b] \in Nat
  BY BudgetShrinks, TypeNext DEF TypeOK, StoreTypeOK
<1>2. late' = {}
  <2>1. CASE Connect \/ Disconnect
    <3>1. PICK ok \in BOOLEAN : Call([op |-> worker.pc, id |-> Copy.id], ok)
      BY <2>1 DEF Connect, Disconnect
    <3>2. [op |-> worker.pc, id |-> Copy.id] \in Request
      BY <2>1, RequestType DEF Connect, Disconnect, Calling
    <3> QED
      BY <3>1, <3>2, CallTypes DEF Calm
  <2>2. CASE ~(Connect \/ Disconnect)
    BY <2>2
       DEF Calm, Next, Work, Rest, Manager, Surroundings, World, Get, AddFinalizer, RemoveFinalizer,
           User, StatusWrite, Dial, List, Relist, Deliver, Dequeue, Outage, Recovery, Land, Crash,
           remote, vars
  <2> QED
    BY <2>1, <2>2
<1> QED
  BY <1>1, <1>2 DEF Calm, Budgets

LEMMA IntentInit ==
    ASSUME StoreAssumption, CalmLimit, WatchesLast, Init PROVE IntentIInv
<1>1. IInv /\ DeletionIInv
  BY IInvInit, DeletionInit
<1>2. \A n \in Names : seen[n] = 0 /\ log[n] = <<NoObj>>
  BY DEF Init, StoreInit
<1>3. DeletionLasts /\ IdLasts /\ ConnectPending
  BY <1>2 DEF DeletionLasts, IdLasts, ConnectPending, Steady, SteadyFrom
<1>4. CopyInHand
  BY DEF Init, CopyInHand, Idle
<1> QED
  BY <1>1, <1>3, <1>4 DEF IntentIInv, IInv, Init, StoreInit, WatchesLast

LEMMA IntentNext ==
    ASSUME IntentIInv, StoreAssumption, DisjointUse, [Next]_vars PROVE IntentIInv'
<1>1. DeletionIInv' /\ TypeOK'
  BY DeletionNext DEF IntentIInv, DeletionIInv
<1>2. LogIInv /\ CopyInHand /\ Calm /\ TypeOK
  BY DEF IntentIInv, DeletionIInv, LogIInv
<1>3. LogIInv'
  BY <1>1, <1>2, StepWrites, LogNext
<1>4. Calm' /\ budget'["relist"] = 0
  BY <1>2, CalmNext DEF IntentIInv
<1>5. CopyInHand' /\ \A m \in Names : Followed(m)
  BY <1>2, StepFollowed DEF IntentIInv
<1>6. ConnectPending'
  BY <1>5, FollowedPends DEF IntentIInv
<1> QED
  BY <1>1, <1>3, <1>4, <1>5, <1>6 DEF IntentIInv, LogIInv

(***************************************************************************)
(* What the cache shows as wanted is connected, queued or being            *)
(* reconciled, whatever the user creates and deletes, the server loses or  *)
(* refuses, and however often the process crashes.                         *)
(***************************************************************************)
THEOREM IntentInvariance ==
    ASSUME CalmLimit, WatchesLast, DisjointUse PROVE Spec => []IntentIInv
<1>1. Init => IntentIInv
  BY StoreAssumption, IntentInit
<1>2. IntentIInv /\ [Next]_vars => IntentIInv'
  BY StoreAssumption, IntentNext
<1> QED
  BY <1>1, <1>2, PTL DEF Spec

LEMMA RestingIntent == ASSUME IntentIInv PROVE IntentKept
<1>1. TypeOK /\ DeletionKept
  BY RestingDeletion DEF IntentIInv, DeletionIInv
<1>2. ASSUME NEW n \in Names, Quiet(n), Wanted(n) PROVE Live(n).id \in conns
  <2>1. seen[n] > 0 /\ seen[n] = Len(log[n]) /\ \A k \in seen[n]..Len(log[n]) : k = Len(log[n])
    BY <1>1, <1>2 DEF TypeOK, StoreTypeOK, Quiet
  <2>2. Steady(n)
    BY <1>2, <2>1 DEF Steady, SteadyFrom, Wanted, Live
  <2> QED
    BY <1>2, <2>2 DEF IntentIInv, ConnectPending, Waits, At, Quiet
<1> QED
  BY <1>1, <1>2 DEF IntentKept, DeletionKept

(***************************************************************************)
(* When the operator rests, an object that exists is not waiting to be     *)
(* deleted, and its connection exists.                                     *)
(***************************************************************************)
THEOREM IntentServed ==
    ASSUME CalmLimit, WatchesLast, DisjointUse PROVE Spec => []IntentKept
<1>1. IntentIInv => IntentKept
  BY RestingIntent
<1> QED
  BY <1>1, IntentInvariance, PTL
=============================================================================
