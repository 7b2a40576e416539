------------------------ MODULE ConnectionSafety_proofs ------------------------
(***************************************************************************)
(* The inductive invariant IInv of ConnectionController, and what follows  *)
(* from it: no orphaned connection, and no interrupted service.            *)
(***************************************************************************)
EXTENDS ConnectionController_proofs

\* The instances the theorems are about: specs are not edited, and a request
\* the client gave up on is never served.
CalmLimit ==
    /\ "edit" \notin Free /\ Limit["edit"] = 0
    /\ "late" \notin Free /\ Limit["late"] = 0

\* No two objects ask for the same connection.
DisjointUse == \A m, n \in Names : m # n => MayUse[m] \cap MayUse[n] = {}

-----------------------------------------------------------------------------
(* The writes of the user and of the status watcher.                       *)

\* A write that leaves the finalizer and its connection alone.
Tame(n, v) ==
    /\ v \in Version /\ (v # NoObj => v.id \in MayUse[n])
    /\ Live(n) = NoObj => v # NoObj /\ ~v.fin /\ ~v.del
    /\ Live(n) # NoObj /\ Live(n).fin => v # NoObj /\ v.fin /\ v.id = Live(n).id
    /\ Live(n) # NoObj /\ ~Live(n).fin => v = NoObj \/ ~v.fin
    /\ Live(n) # NoObj /\ Live(n).del => v = NoObj \/ v.del

\* With no edit left, the user and the status watcher write nothing else.
LEMMA OthersAreTame ==
    ASSUME IInv, StoreAssumption, NEW n \in Names,
           UserCreate(n) \/ UserDelete(n) \/ UserEdit(n) \/ StatusWrite(n)
    PROVE  /\ \E v : Tame(n, v) /\ Write(n, v)
           /\ budget' \in [Budgets -> Nat] /\ UNCHANGED seen
           /\ \A b \in {"edit", "late"} : budget'[b] = budget[b]
<1> USE DEF Budgets
<1>1. TypeOK /\ Live(n) \in Version /\ budget \in [Budgets -> Nat]
      /\ "edit" \notin Free /\ budget["edit"] = 0
  BY ObjectTypes DEF IInv, Calm, TypeOK, StoreTypeOK
<1>2. Live(n) # NoObj => Live(n) \in Object /\ Live(n).id \in MayUse[n]
  <2>1. Len(log[n]) \in Nat \ {0}
    BY <1>1, ObjectTypes
  <2>2. Len(log[n]) \in 1..Len(log[n])
    BY <2>1
  <2> QED
    BY <1>1, <2>2 DEF IInv, Owned, Live, Version
<1>3. ASSUME UserCreate(n) PROVE \E v : Tame(n, v) /\ Write(n, v)
  <2>1. PICK i \in MayUse[n] :
            Write(n, [id |-> i, del |-> FALSE, fin |-> FALSE, st |-> NoStatus])
    BY <1>3 DEF UserCreate
  <2> DEFINE v == [id |-> i, del |-> FALSE, fin |-> FALSE, st |-> NoStatus]
  <2>2. v \in Object
    BY DEF StoreAssumption, Object
  <2>3. v # NoObj
    BY <2>2 DEF StoreAssumption
  <2>4. Tame(n, v)
    BY <1>3, <2>2, <2>3 DEF Tame, UserCreate, Version
  <2> QED
    BY <2>1, <2>4
<1>4. ASSUME UserDelete(n) PROVE \E v : Tame(n, v) /\ Write(n, v)
  <2>1. CASE Live(n).fin
    <3> DEFINE v == [Live(n) EXCEPT !.del = TRUE]
    <3>1. v \in Object /\ v.id = Live(n).id /\ v.fin = Live(n).fin /\ v.del
      BY <1>2, <1>4 DEF UserDelete, Object
    <3>2. v # NoObj
      BY <3>1 DEF StoreAssumption
    <3>3. Tame(n, v)
      BY <1>2, <1>4, <2>1, <3>1, <3>2 DEF Tame, UserDelete, Version
    <3> QED
      BY <1>4, <2>1, <3>3 DEF UserDelete
  <2>2. CASE ~Live(n).fin
    <3>1. Tame(n, NoObj)
      BY <1>4, <2>2 DEF Tame, UserDelete, Version
    <3> QED
      BY <1>4, <2>2, <3>1 DEF UserDelete
  <2> QED
    BY <2>1, <2>2
<1>5. ~UserEdit(n)
  BY <1>1 DEF UserEdit, Spend
<1>6. ASSUME StatusWrite(n) PROVE \E v : Tame(n, v) /\ Write(n, v)
  <2>1. PICK s \in States : Write(n, [Live(n) EXCEPT !.st = [state |-> s, cid |-> Live(n).id]])
    BY <1>6 DEF StatusWrite
  <2> DEFINE v == [Live(n) EXCEPT !.st = [state |-> s, cid |-> Live(n).id]]
  <2>2. Live(n) \in Object /\ Live(n) # NoObj
    BY <1>2, <1>6 DEF StatusWrite
  <2>3. /\ v.id = Live(n).id /\ v.fin = Live(n).fin /\ v.del = Live(n).del
        /\ v \in Object
    BY <2>2 DEF Object, Status
  <2>4. v # NoObj
    BY <2>3 DEF StoreAssumption
  <2>5. Tame(n, v)
    BY <1>2, <2>2, <2>3, <2>4 DEF Tame, Version
  <2> QED
    BY <2>1, <2>5
<1>7. UserCreate(n) \/ UserDelete(n) \/ StatusWrite(n)
  BY <1>5
<1>8. budget' \in [Budgets -> Nat] /\ UNCHANGED seen
  BY <1>1, <1>7, UserWrites
<1>9. \A b \in {"edit", "late"} : budget'[b] = budget[b]
  BY <1>1, <1>7 DEF UserCreate, UserDelete, StatusWrite, Spend
<1> QED
  BY <1>3, <1>4, <1>6, <1>7, <1>8, <1>9

LEMMA OthersKeepIInv ==
    ASSUME IInv, StoreAssumption, NEW n \in Names, NEW v, Tame(n, v), Write(n, v),
           budget' \in [Budgets -> Nat], \A b \in {"edit", "late"} : budget'[b] = budget[b],
           UNCHANGED <<seen, queue, worker, remote>>
    PROVE  IInv'
<1>1. TypeOK /\ v \in Version /\ log \in [Names -> Seq(Version)]
  BY DEF IInv, TypeOK, StoreTypeOK, Tame
<1>2. /\ Len(log'[n]) = Len(log[n]) + 1 /\ Live(n)' = v
      /\ log'[n][Len(log[n]) + 1] = v
      /\ \A m \in Names \ {n} : log'[m] = log[m] /\ Live(m)' = Live(m)
      /\ \A k \in 1..Len(log[n]) : log'[n][k] = log[n][k]
      /\ Len(log[n]) \in Nat
  BY <1>1, WriteFacts DEF Live
<1>3. TypeOK' /\ (worker.pc \in Updating \cup Calling => Copy' = Copy)
  BY <1>1, OthersWriteTypes
<1>4. \A k \in 1..Len(log'[n]) : k \in 1..Len(log[n]) \/ (k = Len(log[n]) + 1 /\ log'[n][k] = v)
  BY <1>2
<1>5. Owned'
  BY <1>2, <1>4 DEF IInv, Owned, Tame
<1>6. Calm'
  BY DEF IInv, Calm, remote
<1>7. ConnectReadable'
  <2>1. ASSUME NEW m \in Names, NEW k \in 1..Len(log'[m]),
               Readable(m, k)', ~log'[m][k].del, log'[m][k].fin
        PROVE  Live(m)' # NoObj /\ Live(m)'.fin /\ Live(m)'.id = log'[m][k].id
    <3>1. CASE m # n
      BY <1>2, <2>1, <3>1 DEF IInv, ConnectReadable, Readable
    <3>2. CASE m = n /\ k \in 1..Len(log[n])
      <4>1. log'[n][k] = log[n][k] /\ Readable(n, k)
        BY <1>2, <2>1, <3>2 DEF Readable
      <4>2. Live(n) # NoObj /\ Live(n).fin /\ Live(n).id = log[n][k].id
        BY <2>1, <3>2, <4>1 DEF IInv, ConnectReadable
      <4> QED
        BY <1>2, <3>2, <4>1, <4>2 DEF Tame
    <3>3. CASE m = n /\ log'[n][k] = v
      BY <1>2, <2>1, <3>3 DEF Readable
    <3> QED
      BY <1>4, <3>1, <3>2, <3>3
  <2> QED
    BY <2>1 DEF ConnectReadable
<1>8. DisconnectReadable'
  <2>1. ASSUME NEW m \in Names, NEW k \in 1..Len(log'[m]), Readable(m, k)', log'[m][k].del
        PROVE  ~(Wanted(m)' /\ Live(m)'.fin)
    <3>1. CASE m # n
      BY <1>2, <2>1, <3>1 DEF IInv, DisconnectReadable, Readable, Wanted
    <3>2. CASE m = n /\ k \in 1..Len(log[n])
      BY <1>2, <2>1, <3>2 DEF IInv, DisconnectReadable, Readable, Wanted, Tame
    <3>3. CASE m = n /\ log'[n][k] = v
      BY <1>2, <2>1, <3>3 DEF Wanted
    <3> QED
      BY <1>4, <3>1, <3>2, <3>3
  <2> QED
    BY <2>1 DEF DisconnectReadable
<1>9. WorkerKnows'
  <2>1. worker.pc \in Updating \cup Calling => worker.key \in Names
    BY <1>1, ObjectTypes
  <2>2. UNCHANGED <<seen, worker, conns>>
    BY DEF remote
  <2> QED
    BY <1>2, <1>3, <2>1, <2>2 DEF IInv, WorkerKnows, Updating, Calling, Wanted, Tame
<1>10. NoOrphan'
  BY <1>2 DEF IInv, NoOrphan, Tame, remote
<1> QED
  BY <1>3, <1>5, <1>6, <1>7, <1>8, <1>9, <1>10 DEF IInv

-----------------------------------------------------------------------------
(* The informer.                                                           *)

\* The cache moves forward, or to the newest version if it was empty.
LEMMA InformKeepsIInv ==
    ASSUME IInv, StoreAssumption, NEW ns \in SUBSET Names, NEW vs \in [Names -> Nat],
           \A n \in Names :
               /\ seen[n] <= vs[n] /\ vs[n] <= Len(log[n]) /\ (n \in ns => 0 < vs[n])
               /\ seen[n] = 0 => vs[n] \in {0, Len(log[n])},
           Inform(ns, vs), UNCHANGED <<log, worker, remote>>,
           budget' \in [Budgets -> Nat], \A b \in {"edit", "late"} : budget'[b] = budget[b]
    PROVE  IInv'
<1>1. TypeOK'
  BY InformTypes DEF IInv
<1>2. \A n \in Names : Len(log[n]) \in Nat \ {0} /\ seen[n] \in Nat /\ vs[n] \in Nat
  BY ObjectTypes DEF IInv, TypeOK, StoreTypeOK
<1>3. ASSUME NEW n \in Names, NEW k \in 1..Len(log[n]), Readable(n, k)'
      PROVE  Readable(n, k) \/ log[n][k] = Live(n)
  BY <1>2, <1>3 DEF Readable, Inform, Live
<1>4. \A n \in Names : Live(n)' = Live(n)
  BY DEF Live
<1>5. ConnectReadable'
  BY <1>3, <1>4 DEF IInv, ConnectReadable, Readable
<1>6. DisconnectReadable'
  BY <1>3, <1>4 DEF IInv, DisconnectReadable, Readable, Wanted
<1>7. WorkerKnows'
  <2>1. worker.pc \in Updating \cup Calling => worker.key \in Names /\ worker.rv \in Nat
    BY ObjectTypes DEF IInv
  <2>2. Copy' = Copy
    BY DEF Copy
  <2> QED
    BY <1>2, <1>4, <2>1, <2>2 DEF IInv, WorkerKnows, Inform, Updating, Calling, Wanted, remote
<1> QED
  BY <1>1, <1>4, <1>5, <1>6, <1>7 DEF IInv, Owned, Calm, NoOrphan, remote

-----------------------------------------------------------------------------
(* The worker.                                                             *)

\* A worker that knows nothing claims nothing.
LEMMA IdleKnows == ASSUME worker' = Idle PROVE WorkerKnows'
BY DEF WorkerKnows, Idle

\* A step that leaves the store alone.
LEMMA StoreSame ==
    ASSUME IInv, UNCHANGED <<log, seen>>
    PROVE  Owned' /\ ConnectReadable' /\ DisconnectReadable'
BY DEF IInv, Owned, ConnectReadable, DisconnectReadable, Readable, Live, Wanted

\* A write of the worker: it adds a finalizer, or takes it off an object that
\* is being deleted and disconnected, and it does so on what the cache has.
LEMMA OwnWrite ==
    ASSUME IInv, NEW n \in Names, NEW v \in Version, Write(n, v), UNCHANGED <<seen, conns>>,
           seen[n] = Len(log[n]), Live(n) # NoObj,
           \/ v = NoObj /\ Live(n).del /\ Live(n).id \notin conns
           \/ /\ v # NoObj /\ v.id = Live(n).id /\ v.fin /\ ~v.del
              /\ ~Live(n).del /\ ~Live(n).fin
    PROVE  Owned' /\ ConnectReadable' /\ DisconnectReadable' /\ NoOrphan'
<1>1. TypeOK /\ log \in [Names -> Seq(Version)]
  BY DEF IInv, TypeOK, StoreTypeOK
<1>2. /\ Len(log'[n]) = Len(log[n]) + 1 /\ Live(n)' = v
      /\ log'[n][Len(log[n]) + 1] = v
      /\ \A m \in Names \ {n} : log'[m] = log[m] /\ Live(m)' = Live(m)
      /\ \A k \in 1..Len(log[n]) : log'[n][k] = log[n][k]
      /\ Len(log[n]) \in Nat /\ Len(log[n]) > 0
  BY <1>1, WriteFacts DEF Live, TypeOK, StoreTypeOK
<1>3. \A k \in 1..Len(log'[n]) : k \in 1..Len(log[n]) \/ (k = Len(log[n]) + 1 /\ log'[n][k] = v)
  BY <1>2
<1>4. ASSUME NEW k \in 1..Len(log'[n]), Readable(n, k)'
      PROVE  log'[n][k] = Live(n) \/ log'[n][k] = v
  BY <1>2, <1>3, <1>4 DEF Readable, Live
<1>5. Owned'
  <2>1. Live(n).id \in MayUse[n]
    BY <1>2 DEF IInv, Owned, Live
  <2> QED
    BY <1>2, <1>3, <2>1 DEF IInv, Owned
<1>6. ConnectReadable'
  <2>1. ASSUME NEW m \in Names, NEW k \in 1..Len(log'[m]),
               Readable(m, k)', ~log'[m][k].del, log'[m][k].fin
        PROVE  Live(m)' # NoObj /\ Live(m)'.fin /\ Live(m)'.id = log'[m][k].id
    <3>1. CASE m # n
      BY <1>2, <2>1, <3>1 DEF IInv, ConnectReadable, Readable
    <3>2. CASE m = n
      BY <1>2, <1>4, <2>1, <3>2 DEF Readable
    <3> QED
      BY <3>1, <3>2
  <2> QED
    BY <2>1 DEF ConnectReadable
<1>7. DisconnectReadable'
  <2>1. ASSUME NEW m \in Names, NEW k \in 1..Len(log'[m]), Readable(m, k)', log'[m][k].del
        PROVE  ~(Wanted(m)' /\ Live(m)'.fin)
    <3>1. CASE m # n
      BY <1>2, <2>1, <3>1 DEF IInv, DisconnectReadable, Readable, Wanted
    <3>2. CASE m = n
      BY <1>2, <1>4, <2>1, <3>2 DEF Readable, Wanted
    <3> QED
      BY <3>1, <3>2
  <2> QED
    BY <2>1 DEF DisconnectReadable
<1>8. NoOrphan'
  BY <1>2 DEF IInv, NoOrphan
<1> QED
  BY <1>5, <1>6, <1>7, <1>8

LEMMA GetKeepsIInv == ASSUME IInv, StoreAssumption, Get, TypeOK' PROVE IInv'
<1> DEFINE n == worker.key
           c == Cached(n)
<1>1. UNCHANGED <<storeVars, conns, late>>
  BY DEF Get, remote
<1>2. n \in Names /\ seen[n] > 0 /\ seen[n] \in 1..Len(log[n]) /\ c = log[n][seen[n]]
  BY DEF IInv, TypeOK, StoreTypeOK, WorkerTypeOK, Get, Idle, Cached
<1>3. WorkerKnows'
  <2>1. CASE Return
    BY <2>1, IdleKnows DEF Return
  <2>2. CASE ~Finished(c) /\ worker' = [worker EXCEPT !.pc = Branch(c), !.rv = seen[n]]
    <3>1. worker' = [pc |-> Branch(c), key |-> n, rv |-> seen[n]]
      BY <2>2 DEF IInv, TypeOK, WorkerTypeOK, Get, Idle
    <3>2. Copy' = c /\ c # NoObj /\ Live(n)' = Live(n) /\ seen' = seen
      BY <1>1, <1>2, <2>2, <3>1 DEF Copy, Finished, LetGo, Live, storeVars
    <3>3. Readable(n, seen[n])
      BY <1>2, <3>2 DEF Readable
    <3>4. c.del \in BOOLEAN /\ c.fin \in BOOLEAN
      BY <1>2, <3>2, ObjectTypes DEF IInv, Version, Object
    <3>5. CASE c.del
      <4>1. Branch(c) = "disconnect" /\ c.fin
        BY <2>2, <3>2, <3>5 DEF Branch, Finished, LetGo
      <4>2. ~(Wanted(n) /\ Live(n).fin)
        BY <1>2, <3>3, <3>5 DEF IInv, DisconnectReadable
      <4> QED
        BY <1>1, <1>2, <3>1, <3>2, <3>5, <4>1, <4>2 DEF WorkerKnows, Wanted
    <3>6. CASE ~c.del /\ c.fin
      <4>1. Live(n) # NoObj /\ Live(n).fin /\ Live(n).id = c.id
        BY <1>2, <3>3, <3>6 DEF IInv, ConnectReadable
      <4> QED
        BY <1>1, <3>1, <3>2, <3>6, <4>1 DEF WorkerKnows, Branch
    <3>7. CASE ~c.del /\ ~c.fin
      BY <1>1, <1>2, <3>1, <3>2, <3>7 DEF WorkerKnows, Branch
    <3> QED
      BY <3>4, <3>5, <3>6, <3>7
  <2> QED
    BY <2>1, <2>2 DEF Get
<1>4. Owned' /\ ConnectReadable' /\ DisconnectReadable'
  BY <1>1, StoreSame DEF storeVars
<1> QED
  BY <1>1, <1>3, <1>4 DEF IInv, Calm, NoOrphan, Live, storeVars

LEMMA CallKeepsIInv ==
    ASSUME IInv, StoreAssumption, Connect \/ Disconnect, TypeOK'
    PROVE  IInv'
<1> DEFINE r == [op |-> worker.pc, id |-> Copy.id]
           n == worker.key
<1>1. worker.pc \in Calling /\ UNCHANGED <<log, seen>>
  BY DEF Connect, Disconnect, Calling
<1>2. PICK ok \in BOOLEAN :
          /\ Call(r, ok)
          /\ \/ worker' = Idle
             \/ /\ ok /\ worker.pc = "disconnect"
                /\ worker' = [worker EXCEPT !.pc = "unregister"]
  BY DEF Connect, Disconnect, Return, Requeue
<1>3. TypeOK /\ r \in Request /\ n \in Names
  BY <1>1, RequestType DEF IInv
<1>4. /\ conns' \in {conns, Served(r)} /\ (ok => conns' = Served(r))
      /\ budget' \in [Budgets -> Nat]
      /\ \A b \in {"edit", "late"} : budget'[b] <= budget[b]
      /\ "late" \notin Free /\ budget["late"] = 0 => late' = late
  BY <1>2, <1>3, CallTypes
<1>5. Calm'
  <2>1. budget'["edit"] <= 0 /\ budget'["late"] <= 0 /\ late' = {}
    BY <1>4 DEF IInv, Calm
  <2> QED
    BY <1>4, <2>1 DEF IInv, Calm, Budgets
<1>6. \A m \in Names : Live(m)' = Live(m)
  BY <1>1 DEF Live
<1>7. NoOrphan'
  <2>1. CASE worker.pc = "connect"
    <3>1. Live(n) # NoObj /\ Live(n).fin /\ Live(n).id = Copy.id
      BY <2>1 DEF IInv, WorkerKnows
    <3> QED
      BY <1>3, <1>4, <1>6, <2>1, <3>1 DEF IInv, NoOrphan, Served
  <2>2. CASE worker.pc = "disconnect"
    BY <1>4, <1>6, <2>2 DEF IInv, NoOrphan, Served
  <2> QED
    BY <1>1, <2>1, <2>2 DEF Calling
<1>8. WorkerKnows'
  <2>1. CASE worker' = Idle
    BY <2>1, IdleKnows
  <2>2. CASE ok /\ worker.pc = "disconnect" /\ worker' = [worker EXCEPT !.pc = "unregister"]
    <3>1. /\ worker'.pc = "unregister" /\ worker'.key = n /\ worker'.rv = worker.rv
          /\ Copy' = Copy
      BY <1>1, <1>3, <2>2 DEF TypeOK, WorkerTypeOK, Copy, Idle
    <3>2. Copy.id \notin conns'
      BY <1>4, <2>2 DEF Served
    <3> QED
      BY <1>1, <1>3, <1>6, <2>2, <3>1, <3>2 DEF IInv, WorkerKnows, Wanted
  <2> QED
    BY <1>2, <2>1, <2>2
<1>9. Owned' /\ ConnectReadable' /\ DisconnectReadable'
  BY <1>1, StoreSame
<1> QED
  BY <1>5, <1>7, <1>8, <1>9 DEF IInv

LEMMA UpdateKeepsIInv ==
    ASSUME IInv, StoreAssumption, AddFinalizer \/ RemoveFinalizer, TypeOK'
    PROVE  IInv'
<1> DEFINE n == worker.key
           v == IF worker.pc = "register" THEN [Copy EXCEPT !.fin = TRUE] ELSE NoObj
<1>1. worker.pc \in Updating /\ UNCHANGED <<seen, conns, late>>
  BY DEF AddFinalizer, RemoveFinalizer, Updating, remote
<1>2. PICK ok \in BOOLEAN :
          /\ Update(n, worker.rv, v, ok)
          /\ \/ worker' = Idle
             \/ /\ ok /\ worker.pc = "register"
                /\ worker' = [worker EXCEPT !.pc = "connect", !.rv = @ + 1]
  BY DEF AddFinalizer, RemoveFinalizer, Return, Requeue
<1>3. /\ TypeOK /\ n \in Names /\ worker.rv \in Nat \ {0}
      /\ Copy \in Object /\ [Copy EXCEPT !.fin = TRUE] \in Object
      /\ v \in Version /\ StoreTypeOK
  BY <1>1, ObjectTypes DEF IInv, TypeOK, Version
<1>4. /\ budget' \in [Budgets -> Nat] /\ (log' = log \/ (worker.rv = Len(log[n]) /\ Write(n, v)))
      /\ \A b \in {"edit", "late"} : budget'[b] = budget[b]
      /\ ok => worker.rv = Len(log[n]) /\ Write(n, v)
  BY <1>2, <1>3, UpdateFacts
<1>5. Calm'
  BY <1>1, <1>4 DEF IInv, Calm
<1>6. Owned' /\ ConnectReadable' /\ DisconnectReadable' /\ NoOrphan'
  <2>1. CASE log' = log
    BY <1>1, <2>1, StoreSame DEF IInv, NoOrphan, Live
  <2>2. CASE worker.rv = Len(log[n]) /\ Write(n, v)
    <3>1. Live(n) = Copy /\ Live(n) # NoObj
      BY <1>3, <2>2 DEF Live, Copy, StoreAssumption
    <3>2. seen[n] = Len(log[n])
      <4>1. worker.rv <= seen[n]
        BY <1>1 DEF IInv, WorkerKnows, Updating
      <4> QED
        BY <1>3, <2>2, <4>1 DEF StoreTypeOK
    <3>3. CASE worker.pc = "register"
      <4>1. v \in Object /\ v.id = Copy.id /\ v.fin /\ v.del = Copy.del
        BY <1>3, <3>3 DEF Object
      <4>2. v # NoObj
        BY <4>1 DEF StoreAssumption
      <4>3. ~Copy.del /\ ~Copy.fin
        BY <3>3 DEF IInv, WorkerKnows
      <4> HIDE DEF v
      <4> QED
        BY <1>1, <1>3, <2>2, <3>1, <3>2, <4>1, <4>2, <4>3, OwnWrite
    <3>4. CASE worker.pc = "unregister"
      <4>1. v = NoObj /\ Copy.del /\ Copy.id \notin conns
        BY <3>4 DEF IInv, WorkerKnows
      <4> HIDE DEF v
      <4> QED
        BY <1>1, <1>3, <2>2, <3>1, <3>2, <4>1, OwnWrite
    <3> QED
      BY <1>1, <3>3, <3>4 DEF Updating
  <2> QED
    BY <1>4, <2>1, <2>2
<1>7. WorkerKnows'
  <2>1. CASE worker' = Idle
    BY <2>1, IdleKnows
  <2>2. CASE ok /\ worker.pc = "register" /\ worker' = [worker EXCEPT !.pc = "connect", !.rv = @ + 1]
    <3>1. worker.rv = Len(log[n]) /\ Write(n, v)
      BY <1>4, <2>2
    <3>2. worker' = [pc |-> "connect", key |-> n, rv |-> Len(log[n]) + 1]
      BY <1>1, <1>3, <2>2, <3>1 DEF TypeOK, WorkerTypeOK, Idle, Updating
    <3>3. log'[n][Len(log'[n])] = v /\ log'[n][Len(log[n]) + 1] = v
      <4> HIDE DEF v
      <4> QED
        BY <1>3, <3>1, WriteFacts DEF StoreTypeOK
    <3>4. v \in Object /\ v.fin /\ v # NoObj
      BY <1>3, <2>2 DEF Object, StoreAssumption
    <3> QED
      BY <3>2, <3>3, <3>4 DEF WorkerKnows, Copy, Live
  <2> QED
    BY <1>2, <2>1, <2>2
<1> QED
  BY <1>5, <1>6, <1>7 DEF IInv

-----------------------------------------------------------------------------
(* The invariant.                                                          *)

LEMMA IInvInit == ASSUME StoreAssumption, CalmLimit, Init PROVE IInv
<1>1. TypeOK
  BY TypeInit
<1>2. \A n \in Names : seen[n] = 0 /\ log[n] = <<NoObj>>
  BY DEF Init, StoreInit
<1>3. Calm
  BY DEF Init, StoreInit, Calm, CalmLimit
<1>4. Owned
  BY <1>2 DEF Owned
<1>5. ConnectReadable /\ DisconnectReadable
  BY <1>2 DEF ConnectReadable, DisconnectReadable, Readable
<1>6. WorkerKnows /\ NoOrphan
  BY DEF Init, Idle, WorkerKnows, NoOrphan
<1> QED
  BY <1>1, <1>3, <1>4, <1>5, <1>6 DEF IInv

LEMMA IInvNext == ASSUME IInv, StoreAssumption, [Next]_vars PROVE IInv'
<1>0. TypeOK /\ TypeOK'
  BY TypeNext DEF IInv
<1>1. ASSUME NEW n \in Names, User(n) \/ StatusWrite(n) PROVE IInv'
  <2>1. /\ UserCreate(n) \/ UserDelete(n) \/ UserEdit(n) \/ StatusWrite(n)
        /\ UNCHANGED <<queue, worker, remote>>
    BY <1>1 DEF User, StatusWrite
  <2> QED
    BY <2>1, OthersAreTame, OthersKeepIInv
<1>2. ASSUME NEW n \in Names, Deliver(n) PROVE IInv'
  <2> DEFINE vs == [seen EXCEPT ![n] = @ + 1]
  <2>1. \A m \in Names : seen[m] \in Nat /\ Len(log[m]) \in Nat /\ seen[m] <= Len(log[m])
    BY <1>0 DEF TypeOK, StoreTypeOK
  <2>2. vs \in [Names -> Nat] /\ \A m \in Names : vs[m] = IF m = n THEN seen[n] + 1 ELSE seen[m]
    BY <1>0 DEF TypeOK, StoreTypeOK
  <2>3. \A m \in Names :
            /\ seen[m] <= vs[m] /\ vs[m] <= Len(log[m]) /\ (m \in {n} => 0 < vs[m])
            /\ seen[m] = 0 => vs[m] \in {0, Len(log[m])}
    BY <1>2, <2>1, <2>2 DEF Deliver
  <2>4. Inform({n}, vs) /\ UNCHANGED <<log, budget, worker, remote>>
    BY <1>2 DEF Deliver
  <2>5. budget' \in [Budgets -> Nat] /\ \A b \in {"edit", "late"} : budget'[b] = budget[b]
    BY <1>0, <2>4 DEF TypeOK, StoreTypeOK
  <2> HIDE DEF vs
  <2> QED
    BY <2>2, <2>3, <2>4, <2>5, InformKeepsIInv
<1>3. CASE List \/ Relist
  <2>1. Newest \in [Names -> Nat]
    BY <1>0, ObjectTypes DEF Newest
  <2>2. \A m \in Names :
            /\ seen[m] <= Newest[m] /\ Newest[m] <= Len(log[m]) /\ 0 < Newest[m]
            /\ seen[m] = 0 => Newest[m] \in {0, Len(log[m])}
    BY <1>0, ObjectTypes DEF Newest, TypeOK, StoreTypeOK
  <2>3. budget' \in [Budgets -> Nat] /\ \A b \in {"edit", "late"} : budget'[b] = budget[b]
    BY <1>0, <1>3 DEF List, Relist, Spend, Budgets, TypeOK, StoreTypeOK
  <2>4. Inform(Names, Newest) /\ UNCHANGED <<log, worker, remote>>
    BY <1>3 DEF List, Relist
  <2> QED
    BY <2>1, <2>2, <2>3, <2>4, InformKeepsIInv
<1>4. ASSUME NEW n \in Names, Dequeue(n) PROVE IInv'
  <2>1. worker'.pc = "get" /\ UNCHANGED <<log, seen, budget, conns, late>>
    BY <1>4 DEF Dequeue, storeVars, remote
  <2>2. WorkerKnows'
    BY <2>1 DEF WorkerKnows
  <2> QED
    BY <1>0, <2>1, <2>2, StoreSame DEF IInv, Calm, NoOrphan, Live
<1>5. CASE Get
  BY <1>0, <1>5, GetKeepsIInv
<1>6. CASE AddFinalizer \/ RemoveFinalizer
  BY <1>0, <1>6, UpdateKeepsIInv
<1>7. CASE Connect \/ Disconnect
  BY <1>0, <1>7, CallKeepsIInv
<1>8. ~ \E r \in late : Land(r)
  BY DEF IInv, Calm
<1>9. CASE Crash
  <2>1. /\ \A n \in Names : seen'[n] = 0
        /\ worker' = Idle /\ UNCHANGED <<log, conns, late>>
    BY <1>9 DEF Crash
  <2>2. ConnectReadable' /\ DisconnectReadable'
    BY <2>1 DEF ConnectReadable, DisconnectReadable, Readable
  <2>3. WorkerKnows'
    BY <2>1, IdleKnows
  <2>4. Calm'
    BY <1>0, <1>9 DEF Crash, Spend, IInv, Calm, TypeOK, StoreTypeOK, Budgets
  <2> QED
    BY <1>0, <2>1, <2>2, <2>3, <2>4 DEF IInv, Owned, NoOrphan, Live
<1>10. CASE Dial \/ Outage \/ Recovery
  <2>1. UNCHANGED <<log, seen, worker, conns, late>>
    BY <1>10 DEF Dial, Outage, Recovery, storeVars
  <2>2. WorkerKnows'
    BY <2>1 DEF IInv, WorkerKnows, Copy, Live, Wanted
  <2>3. Calm'
    BY <1>0, <1>10, <2>1
       DEF Dial, Outage, Recovery, storeVars, Spend, IInv, Calm, TypeOK, StoreTypeOK, Budgets
  <2> QED
    BY <1>0, <2>1, <2>2, <2>3, StoreSame DEF IInv, NoOrphan, Live
<1>11. CASE UNCHANGED vars
  <2>1. UNCHANGED <<log, seen, budget, queue, worker, conns, late>>
    BY <1>11 DEF vars
  <2>2. WorkerKnows'
    BY <2>1 DEF IInv, WorkerKnows, Copy, Live, Wanted
  <2> QED
    BY <1>0, <2>1, <2>2, StoreSame DEF IInv, Calm, NoOrphan, Live
<1> QED
  BY <1>1, <1>2, <1>3, <1>4, <1>5, <1>6, <1>7, <1>8, <1>9, <1>10, <1>11
     DEF Next, Work, Rest, Manager, Surroundings, World

(***************************************************************************)
(* The invariant holds for any number of objects, any number of creates,   *)
(* deletes, status writes, lost requests and answers, watches that expire  *)
(* and crashes.                                                            *)
(***************************************************************************)
THEOREM Invariance == ASSUME CalmLimit PROVE Spec => []IInv
<1>1. Init => IInv
  BY StoreAssumption, IInvInit
<1>2. IInv /\ [Next]_vars => IInv'
  BY StoreAssumption, IInvNext
<1> QED
  BY <1>1, <1>2, PTL DEF Spec

(***************************************************************************)
(* A connection at the server always has an object with the finalizer that *)
(* stands for it: the order of the reconciler's steps, and its trust in a  *)
(* cache that lags behind, lose no connection.                             *)
(***************************************************************************)
THEOREM NeverOrphaned == ASSUME CalmLimit PROVE Spec => []NoOrphan
<1>1. IInv => NoOrphan
  BY DEF IInv
<1> QED
  BY <1>1, Invariance, PTL

\* A step that tears down the connection of an object that is wanted would
\* be a Disconnect by a worker with a copy that is being deleted, of an
\* object that IInv says is not connected.
LEMMA ServiceStep ==
    ASSUME IInv, StoreAssumption, DisjointUse, [Next]_vars,
           NEW n \in Names, Wanted(n), Live(n).id \in conns
    PROVE  Live(n).id \in conns'
<1>1. TypeOK /\ late = {} /\ Live(n) # NoObj
  BY DEF IInv, Calm, Wanted
<1>2. CASE Connect
  BY <1>1, <1>2 DEF Connect, Call, Served
<1>3. CASE Disconnect
  <2> DEFINE r == [op |-> worker.pc, id |-> Copy.id]
  <2>1. worker.pc = "disconnect" /\ conns' \in {conns, conns \ {Copy.id}}
    BY <1>3 DEF Disconnect, Call, Served
  <2>2. worker.key \in Names /\ Copy # NoObj /\ worker.rv \in 1..Len(log[worker.key])
    BY <1>1, <2>1 DEF TypeOK, StoreTypeOK, WorkerTypeOK, Idle
  <2>3. Copy.id \in MayUse[worker.key] /\ ~(Wanted(worker.key) /\ Live(worker.key).fin)
    BY <2>1, <2>2 DEF IInv, Owned, WorkerKnows, Copy
  <2>4. PICK m \in Names : Live(m) # NoObj /\ Live(m).fin /\ Live(m).id = Live(n).id
    BY DEF IInv, NoOrphan
  <2>5. Live(n).id \in MayUse[n] /\ Live(m).id \in MayUse[m]
    <3>1. Len(log[n]) \in 1..Len(log[n]) /\ Len(log[m]) \in 1..Len(log[m])
      BY <1>1, ObjectTypes
    <3> QED
      BY <1>1, <2>4, <3>1 DEF IInv, Owned, Live
  <2>6. m = n
    BY <2>4, <2>5 DEF DisjointUse
  <2>7. worker.key # n
    BY <2>3, <2>4, <2>6
  <2>8. Copy.id # Live(n).id
    BY <2>2, <2>3, <2>5, <2>7 DEF DisjointUse
  <2> QED
    BY <2>1, <2>8
<1>4. CASE ~(Connect \/ Disconnect)
  <2>1. UNCHANGED conns
    BY <1>1, <1>4 DEF Next, Work, Rest, Manager, Surroundings, World, User, Deliver, Dequeue,
                      StatusWrite, List, Relist, Get, AddFinalizer, RemoveFinalizer,
                      Crash, Dial, Outage, Recovery, remote, vars
  <2> QED
    BY <2>1
<1> QED
  BY <1>2, <1>3, <1>4

(***************************************************************************)
(* When no two objects ask for the same connection, no step of the         *)
(* operator tears down the connection of an object nobody is deleting.     *)
(***************************************************************************)
THEOREM NeverInterrupted == ASSUME CalmLimit, DisjointUse PROVE Spec => ServiceKept
<1> DEFINE Kept == \A n \in Names : Wanted(n) /\ Live(n).id \in conns => Live(n).id \in conns'
<1>1. IInv /\ [Next]_vars => [Kept]_vars
  BY StoreAssumption, ServiceStep
<1>2. Spec => []IInv
  BY Invariance
<1> QED
  BY <1>1, <1>2, PTL DEF Spec, ServiceKept

\* An object that is held goes away by the hand of the worker only, which has
\* seen its connection gone.
LEMMA DropStep ==
    ASSUME IInv, StoreAssumption, [Next]_vars,
           NEW n \in Names, Live(n) # NoObj, Live(n).fin, Live(n)' = NoObj
    PROVE  Live(n).id \notin conns
<1>1. TypeOK /\ StoreTypeOK
  BY DEF IInv, TypeOK
<1>2. ASSUME NEW m \in Names, NEW v \in Version, Write(m, v)
      PROVE  m = n /\ v = NoObj
  <2>1. Live(m)' = v /\ \A k \in Names \ {m} : log'[k] = log[k]
    BY <1>1, <1>2, WriteFacts DEF StoreTypeOK
  <2> QED
    BY <2>1 DEF Live
<1>3. log' # log
  BY DEF Live
<1>4. ASSUME NEW m \in Names, User(m) \/ StatusWrite(m)
      PROVE  FALSE
  <2>1. PICK v : Tame(m, v) /\ Write(m, v)
    BY <1>4, OthersAreTame DEF User
  <2>2. m = n /\ v = NoObj
    BY <1>2, <2>1 DEF Tame
  <2> QED
    BY <2>1, <2>2 DEF Tame
<1>5. AddFinalizer \/ RemoveFinalizer
  BY <1>3, <1>4
     DEF Next, Work, Rest, Manager, Surroundings, World, Dial, List, Relist, Deliver, Dequeue,
         Outage, Recovery, Land, Crash, Get, Connect, Disconnect, storeVars, vars
<1>6. /\ worker.key \in Names /\ worker.rv \in Nat \ {0}
      /\ Copy \in Object /\ [Copy EXCEPT !.fin = TRUE] \in Object
  BY <1>1, <1>5, ObjectTypes DEF AddFinalizer, RemoveFinalizer, Updating
<1>7. CASE AddFinalizer
  <2>1. PICK ok \in BOOLEAN :
            Update(worker.key, worker.rv, [Copy EXCEPT !.fin = TRUE], ok)
    BY <1>7 DEF AddFinalizer
  <2>2. Write(worker.key, [Copy EXCEPT !.fin = TRUE])
    BY <1>1, <1>3, <1>6, <2>1, UpdateFacts DEF Version
  <2> QED
    BY <1>2, <1>6, <2>2 DEF Version, StoreAssumption
<1>8. CASE RemoveFinalizer
  <2>1. PICK ok \in BOOLEAN : Update(worker.key, worker.rv, NoObj, ok)
    BY <1>8 DEF RemoveFinalizer
  <2>2. worker.rv = Len(log[worker.key]) /\ Write(worker.key, NoObj)
    BY <1>1, <1>3, <1>6, <2>1, UpdateFacts DEF Version
  <2>3. worker.key = n /\ Copy = Live(n)
    BY <1>2, <1>6, <2>2 DEF Version, Copy, Live
  <2>4. Copy.id \notin conns
    BY <1>8 DEF IInv, WorkerKnows, RemoveFinalizer
  <2> QED
    BY <2>3, <2>4
<1> QED
  BY <1>5, <1>7, <1>8

=============================================================================
