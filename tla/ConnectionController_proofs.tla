---------------------- MODULE ConnectionController_proofs ----------------------
(***************************************************************************)
(* Proofs about ConnectionController: type correctness, and the inductive  *)
(* invariant IInv with the two safety properties that follow from it.      *)
(***************************************************************************)
EXTENDS ConnectionController, TLAPS

-----------------------------------------------------------------------------
(* Lemmas about the store.                                                 *)

\* A write appends one version to the log of one object and changes nothing
\* else in the log.
LEMMA WriteFacts ==
    ASSUME log \in [Names -> Seq(Version)], NEW n \in Names, NEW v \in Version, Write(n, v)
    PROVE  /\ log' \in [Names -> Seq(Version)]
           /\ Len(log'[n]) = Len(log[n]) + 1
           /\ Live(n)' = v
           /\ log'[n][Len(log[n]) + 1] = v
           /\ \A m \in Names \ {n} : log'[m] = log[m]
           /\ \A m \in Names : Len(log[m]) <= Len(log'[m])
           /\ \A m \in Names : \A k \in 1..Len(log[m]) : log'[m][k] = log[m][k]
<1> DEFINE s == log[n]
<1>1. s \in Seq(Version) /\ log' = [log EXCEPT ![n] = Append(s, v)]
  BY DEF Write
<1>2. /\ Append(s, v) \in Seq(Version)
      /\ Len(Append(s, v)) = Len(s) + 1
      /\ Append(s, v)[Len(s) + 1] = v
      /\ \A k \in 1..Len(s) : Append(s, v)[k] = s[k]
  BY <1>1
<1>3. log'[n] = Append(s, v) /\ \A m \in Names \ {n} : log'[m] = log[m]
  BY <1>1
<1>4. \A m \in Names : Len(log[m]) \in Nat
  OBVIOUS
<1> QED
  BY <1>1, <1>2, <1>3, <1>4 DEF Live

\* What an Update does to the store, and when it is answered without an error.
LEMMA UpdateFacts ==
    ASSUME StoreTypeOK, StoreAssumption,
           NEW n \in Names, NEW rv, NEW v \in Version, NEW ok \in BOOLEAN, Update(n, rv, v, ok)
    PROVE  /\ budget' \in [Budgets -> Nat]
           /\ \A b \in {"edit", "late"} : budget'[b] = budget[b]
           /\ log' = log \/ (rv = Len(log[n]) /\ Write(n, v))
           /\ ok => rv = Len(log[n]) /\ Write(n, v)
<1>1. UNCHANGED budget \/ Spend("fault")
  BY DEF Update
<1>2. budget \in [Budgets -> Nat]
  BY DEF StoreTypeOK
<1>3. budget' \in [Budgets -> Nat] /\ \A b \in {"edit", "late"} : budget'[b] = budget[b]
  BY <1>1, <1>2 DEF Spend, Budgets
<1> QED
  BY <1>3 DEF Update

-----------------------------------------------------------------------------
(* Type correctness.                                                       *)

\* Moving the cache on, be it by one version or to the newest ones, keeps
\* the types, and a name that enters the queue is one the cache has listed.
LEMMA InformTypes ==
    ASSUME TypeOK, NEW ns \in SUBSET Names, NEW vs \in [Names -> Nat],
           \A n \in Names : seen[n] <= vs[n] /\ vs[n] <= Len(log[n]) /\ (n \in ns => 0 < vs[n]),
           Inform(ns, vs), UNCHANGED <<log, worker, remote>>,
           budget' \in [Budgets -> Nat]
    PROVE  TypeOK'
<1>1. seen' = vs /\ queue' \subseteq queue \cup ns
  BY DEF Inform
<1>2. StoreTypeOK'
  BY <1>1 DEF TypeOK, StoreTypeOK
<1>3. \A n \in Names : Len(log[n]) \in Nat /\ seen[n] \in Nat
  BY DEF TypeOK, StoreTypeOK
<1>4. queue' \subseteq Names /\ \A n \in queue' : seen'[n] > 0
  BY <1>1, <1>3 DEF TypeOK
<1>5. WorkerTypeOK'
  BY <1>1, <1>3 DEF TypeOK, WorkerTypeOK, Copy, Idle
<1> QED
  BY <1>2, <1>4, <1>5 DEF TypeOK, remote, outside

\* Writing a version keeps the types of the store, and the version in the
\* worker's hands: nothing is ever removed from a log.
LEMMA WriteTypes ==
    ASSUME TypeOK, NEW n \in Names, NEW v \in Version, Write(n, v),
           budget' \in [Budgets -> Nat], UNCHANGED seen
    PROVE  /\ StoreTypeOK'
           /\ worker.pc \in Updating \cup Calling =>
                  /\ worker.rv <= Len(log'[worker.key])
                  /\ log'[worker.key][worker.rv] = Copy
<1>1. log \in [Names -> Seq(Version)]
  BY DEF TypeOK, StoreTypeOK
<1>2. /\ log' \in [Names -> Seq(Version)]
      /\ \A m \in Names : Len(log[m]) <= Len(log'[m])
      /\ \A m \in Names : \A k \in 1..Len(log[m]) : log'[m][k] = log[m][k]
  BY <1>1, WriteFacts
<1>3. \A m \in Names : Len(log[m]) \in Nat /\ Len(log'[m]) \in Nat
  BY <1>1, <1>2
<1>4. StoreTypeOK'
  BY <1>2, <1>3 DEF TypeOK, StoreTypeOK
<1>5. worker.pc \in Updating \cup Calling =>
          worker.rv <= Len(log'[worker.key]) /\ log'[worker.key][worker.rv] = Copy
  BY <1>2, <1>3 DEF TypeOK, WorkerTypeOK, Copy, Updating, Calling, Idle
<1> QED
  BY <1>4, <1>5

\* A write by somebody else than the worker.
LEMMA OthersWriteTypes ==
    ASSUME TypeOK, NEW n \in Names, NEW v \in Version, Write(n, v),
           budget' \in [Budgets -> Nat], UNCHANGED <<seen, queue, worker, remote>>
    PROVE  TypeOK' /\ (worker.pc \in Updating \cup Calling => Copy' = Copy)
<1>1. StoreTypeOK'
  BY WriteTypes
<1>2. worker.pc \in Updating \cup Calling =>
          worker.rv <= Len(log'[worker.key]) /\ log'[worker.key][worker.rv] = Copy
  BY WriteTypes
<1>3. WorkerTypeOK'
  BY <1>2 DEF TypeOK, WorkerTypeOK, Copy, Updating, Calling, Idle
<1> QED
  BY <1>1, <1>2, <1>3 DEF TypeOK, Copy, remote, outside

LEMMA SpendTypes ==
    ASSUME TypeOK, NEW b \in Budgets, Spend(b)
    PROVE  budget' \in [Budgets -> Nat] /\ \A c \in Budgets : budget'[c] <= budget[c]
BY DEF TypeOK, StoreTypeOK, Spend

\* The objects in the store and in the worker's hands are versions, and so
\* is what is made of them.
LEMMA ObjectTypes ==
    ASSUME TypeOK, StoreAssumption
    PROVE  /\ \A n \in Names : Len(log[n]) \in Nat \ {0} /\ Live(n) \in Version
           /\ \A n \in Names : seen[n] > 0 => Cached(n) \in Version
           /\ worker.pc \in Updating \cup Calling =>
                 /\ worker.key \in Names /\ worker.rv \in Nat \ {0}
                 /\ Copy \in Object /\ Copy.id \in Ids
                 /\ [Copy EXCEPT !.fin = TRUE] \in Object
<1>1. ASSUME NEW n \in Names PROVE Len(log[n]) \in Nat \ {0} /\ Live(n) \in Version
  <2>1. log[n] \in Seq(Version) /\ Len(log[n]) > 0
    BY DEF TypeOK, StoreTypeOK
  <2>2. Len(log[n]) \in 1..Len(log[n])
    BY <2>1
  <2> QED
    BY <2>1, <2>2 DEF Live
<1>2. \A n \in Names : seen[n] > 0 => Cached(n) \in Version
  BY <1>1 DEF TypeOK, StoreTypeOK, Cached
<1>3. worker.pc \in Updating \cup Calling =>
          worker.key \in Names /\ worker.rv \in Nat \ {0} /\ Copy \in Object
  BY <1>1 DEF TypeOK, StoreTypeOK, WorkerTypeOK, Copy, Updating, Calling, Idle, Version
<1>4. \A o \in Object : o.id \in Ids /\ [o EXCEPT !.fin = TRUE] \in Object
  BY DEF Object
<1> QED
  BY <1>1, <1>2, <1>3, <1>4

LEMMA TypeInit == StoreAssumption /\ Init => TypeOK
<1> SUFFICES ASSUME StoreAssumption, Init PROVE TypeOK
  OBVIOUS
<1>1. log \in [Names -> Seq(Version)] /\ \A n \in Names : Len(log[n]) = 1
  BY DEF Init, StoreInit, Version
<1>2. StoreTypeOK
  BY <1>1 DEF Init, StoreInit, StoreTypeOK, StoreAssumption
<1> QED
  BY <1>2 DEF Init, TypeOK, WorkerTypeOK

\* A write by the user or the status watcher.
LEMMA UserWrites ==
    ASSUME TypeOK, StoreAssumption, NEW n \in Names
    PROVE  /\ UserCreate(n) \/ UserDelete(n) \/ UserEdit(n) =>
                 /\ \E v \in Version : Write(n, v)
                 /\ budget' \in [Budgets -> Nat] /\ UNCHANGED seen
           /\ StatusWrite(n) =>
                 /\ \E v \in Version : Write(n, v)
                 /\ budget' \in [Budgets -> Nat] /\ UNCHANGED seen
<1> USE DEF Budgets
<1>1. Live(n) \in Version /\ budget \in [Budgets -> Nat]
  BY ObjectTypes DEF TypeOK, StoreTypeOK
<1>2. ASSUME UserCreate(n)
      PROVE  (\E v \in Version : Write(n, v)) /\ budget' \in [Budgets -> Nat] /\ UNCHANGED seen
  <2>1. PICK i \in MayUse[n] :
            Write(n, [id |-> i, del |-> FALSE, fin |-> FALSE, st |-> NoStatus])
    BY <1>2 DEF UserCreate
  <2>2. [id |-> i, del |-> FALSE, fin |-> FALSE, st |-> NoStatus] \in Version
    BY DEF StoreAssumption, Version, Object
  <2> QED
    BY <1>2, <2>1, <2>2, SpendTypes DEF UserCreate
<1>3. ASSUME UserDelete(n)
      PROVE  (\E v \in Version : Write(n, v)) /\ budget' \in [Budgets -> Nat] /\ UNCHANGED seen
  <2>1. [Live(n) EXCEPT !.del = TRUE] \in Version
    BY <1>1, <1>3 DEF UserDelete, Version, Object
  <2>2. NoObj \in Version
    BY DEF Version
  <2> QED
    BY <1>1, <1>3, <2>1, <2>2 DEF UserDelete
<1>4. ASSUME UserEdit(n)
      PROVE  (\E v \in Version : Write(n, v)) /\ budget' \in [Budgets -> Nat] /\ UNCHANGED seen
  <2>1. PICK i \in MayUse[n] : Write(n, [Live(n) EXCEPT !.id = i])
    BY <1>4 DEF UserEdit
  <2>2. [Live(n) EXCEPT !.id = i] \in Version
    BY <1>1, <1>4 DEF UserEdit, StoreAssumption, Version, Object
  <2> QED
    BY <1>4, <2>1, <2>2, SpendTypes DEF UserEdit
<1>5. ASSUME StatusWrite(n)
      PROVE  (\E v \in Version : Write(n, v)) /\ budget' \in [Budgets -> Nat] /\ UNCHANGED seen
  <2>1. PICK s \in States : Write(n, [Live(n) EXCEPT !.st = [state |-> s, cid |-> Live(n).id]])
    BY <1>5 DEF StatusWrite
  <2>2. Live(n) \in Object
    BY <1>1, <1>5 DEF StatusWrite, Version
  <2>3. [state |-> s, cid |-> Live(n).id] \in Status
    BY <2>2 DEF Object, Status
  <2>4. [Live(n) EXCEPT !.st = [state |-> s, cid |-> Live(n).id]] \in Version
    BY <2>2, <2>3 DEF Version, Object
  <2> QED
    BY <1>5, <2>1, <2>4, SpendTypes DEF StatusWrite
<1> QED
  BY <1>2, <1>3, <1>4, <1>5

\* What a call may do to the connections and to the late requests.
LEMMA CallTypes ==
    ASSUME TypeOK, NEW r \in Request, NEW ok \in BOOLEAN, Call(r, ok)
    PROVE  /\ conns' \in SUBSET Ids /\ conns' \in {conns, Served(r)}
           /\ late' \in SUBSET Request
           /\ budget' \in [Budgets -> Nat]
           /\ \A b \in {"edit", "late"} : budget'[b] <= budget[b]
           /\ "late" \notin Free /\ budget["late"] = 0 => late' = late
           /\ ok => conns' = Served(r)
<1>1. conns' \in {conns, Served(r)} /\ (ok => conns' = Served(r))
  BY DEF Call
<1>2. Served(r) \in SUBSET Ids
  BY DEF TypeOK, Served, Request
<1>3. late' = late \/ (late' = late \cup {r} /\ Spend("late"))
  BY DEF Call
<1>4. UNCHANGED budget \/ Spend("late") \/ Spend("fault")
  BY DEF Call
<1>5. budget' \in [Budgets -> Nat] /\ \A b \in Budgets : budget'[b] <= budget[b]
  BY <1>4, SpendTypes DEF TypeOK, StoreTypeOK, Budgets
<1>6. "late" \notin Free /\ budget["late"] = 0 => late' = late
  BY <1>3 DEF Spend
<1> QED
  BY <1>1, <1>2, <1>3, <1>5, <1>6 DEF TypeOK, Budgets

\* Whoever goes back to the queue was taken from it.
LEMMA RequeueTypes ==
    ASSUME TypeOK, worker # Idle, UNCHANGED seen, Requeue \/ Return
    PROVE  /\ queue' \subseteq Names /\ \A n \in queue' : seen'[n] > 0
           /\ WorkerTypeOK'
BY DEF TypeOK, WorkerTypeOK, Requeue, Return

LEMMA UpdateTypes ==
    ASSUME TypeOK, StoreAssumption, AddFinalizer \/ RemoveFinalizer
    PROVE  TypeOK'
<1> DEFINE n == worker.key
<1>1. /\ worker.pc \in Updating \cup Calling /\ worker # Idle
      /\ worker.key \in Names /\ worker.rv \in Nat \ {0}
      /\ [Copy EXCEPT !.fin = TRUE] \in Version /\ NoObj \in Version
  <2>1. worker.pc \in Updating
    BY DEF AddFinalizer, RemoveFinalizer, Updating
  <2>2. worker # Idle
    BY <2>1 DEF Updating, Idle
  <2> QED
    BY <2>1, <2>2, ObjectTypes DEF Version
<1>2. ASSUME NEW v \in Version, NEW ok \in BOOLEAN, Update(n, worker.rv, v, ok), UNCHANGED seen
      PROVE  StoreTypeOK'
  <2>1. budget' \in [Budgets -> Nat] /\ (log' = log \/ Write(n, v))
    BY <1>1, <1>2, UpdateFacts DEF TypeOK
  <2>2. CASE log' = log
    BY <1>2, <2>1, <2>2 DEF TypeOK, StoreTypeOK
  <2>3. CASE Write(n, v)
    BY <1>1, <1>2, <2>1, <2>3, WriteTypes
  <2> QED
    BY <2>1, <2>2, <2>3
<1>3. CASE AddFinalizer
  <2> DEFINE v == [Copy EXCEPT !.fin = TRUE]
  <2>1. PICK ok \in BOOLEAN :
            /\ Update(n, worker.rv, v, ok)
            /\ IF ok
               THEN /\ worker' = [worker EXCEPT !.pc = "connect", !.rv = @ + 1]
                    /\ UNCHANGED queue
               ELSE Requeue
    BY <1>3 DEF AddFinalizer
  <2>2. UNCHANGED <<seen, remote>>
    BY <1>3 DEF AddFinalizer
  <2>3. StoreTypeOK'
    BY <1>1, <1>2, <2>1, <2>2
  <2>4. CASE ~ok
    <3>1. Requeue
      BY <2>1, <2>4
    <3> QED
      BY <1>1, <2>2, <2>3, <3>1, RequeueTypes DEF TypeOK, remote, outside
  <2>5. CASE ok
    <3>1. worker.rv = Len(log[n]) /\ Write(n, v)
      BY <1>1, <2>1, <2>5, UpdateFacts DEF TypeOK
    <3>2. Len(log'[n]) = Len(log[n]) + 1 /\ log'[n][Len(log[n]) + 1] = v
      BY <1>1, <3>1, WriteFacts DEF TypeOK, StoreTypeOK
    <3>3. v # NoObj
      BY <1>1, ObjectTypes DEF StoreAssumption
    <3>4. worker' = [pc |-> "connect", key |-> n, rv |-> Len(log[n]) + 1] /\ queue' = queue
      BY <1>1, <2>1, <2>5, <3>1 DEF TypeOK, WorkerTypeOK
    <3>5. WorkerTypeOK'
      BY <1>1, <2>2, <3>1, <3>2, <3>3, <3>4 DEF TypeOK, WorkerTypeOK, Copy, Calling
    <3> QED
      BY <2>2, <2>3, <3>4, <3>5 DEF TypeOK, remote, outside
  <2> QED
    BY <2>4, <2>5
<1>4. CASE RemoveFinalizer
  <2>1. PICK ok \in BOOLEAN :
            Update(n, worker.rv, NoObj, ok) /\ IF ok THEN Return ELSE Requeue
    BY <1>4 DEF RemoveFinalizer
  <2>2. UNCHANGED <<seen, remote>>
    BY <1>4 DEF RemoveFinalizer
  <2>3. StoreTypeOK'
    BY <1>1, <1>2, <2>1, <2>2
  <2> QED
    BY <1>1, <2>1, <2>2, <2>3, RequeueTypes DEF TypeOK, remote, outside
<1> QED
  BY <1>3, <1>4

\* The request the worker is about to send.
LEMMA RequestType ==
    ASSUME TypeOK, StoreAssumption, worker.pc \in Calling
    PROVE  /\ worker.key \in Names /\ worker # Idle
           /\ [op |-> worker.pc, id |-> Copy.id] \in Request
<1>1. worker # Idle
  BY DEF Calling, Idle
<1>2. worker.key \in Names /\ Copy.id \in Ids
  BY ObjectTypes
<1> QED
  BY <1>1, <1>2 DEF Request

LEMMA CallingTypes ==
    ASSUME TypeOK, StoreAssumption, Connect \/ Disconnect
    PROVE  TypeOK'
<1> DEFINE r == [op |-> worker.pc, id |-> Copy.id]
<1>1. worker.pc \in Calling /\ UNCHANGED <<log, seen, server, process>>
  BY DEF Connect, Disconnect, Calling, outside
<1>2. PICK ok \in BOOLEAN :
          /\ Call(r, ok)
          /\ \/ Return \/ Requeue
             \/ /\ worker.pc = "disconnect"
                /\ worker' = [worker EXCEPT !.pc = "unregister"]
                /\ UNCHANGED queue
  BY DEF Connect, Disconnect
<1>3. r \in Request /\ worker # Idle
  BY <1>1, RequestType
<1>4. conns' \in SUBSET Ids /\ late' \in SUBSET Request /\ budget' \in [Budgets -> Nat]
  BY <1>2, <1>3, CallTypes
<1>5. StoreTypeOK'
  BY <1>1, <1>4 DEF TypeOK, StoreTypeOK
<1>6. CASE Return \/ Requeue
  BY <1>1, <1>3, <1>4, <1>5, <1>6, RequeueTypes DEF TypeOK
<1>7. CASE worker' = [worker EXCEPT !.pc = "unregister"] /\ UNCHANGED queue
  <2>1. WorkerTypeOK'
    BY <1>1, <1>3, <1>7 DEF TypeOK, WorkerTypeOK, Copy, Calling, Updating, Idle
  <2> QED
    BY <1>1, <1>4, <1>5, <1>7, <2>1 DEF TypeOK
<1> QED
  BY <1>2, <1>6, <1>7

LEMMA TypeNext ==
    ASSUME TypeOK, StoreAssumption, [Next]_vars
    PROVE  TypeOK'
<1>1. ASSUME NEW n \in Names, User(n) PROVE TypeOK'
  BY <1>1, UserWrites, OthersWriteTypes DEF User
<1>2. ASSUME NEW n \in Names, StatusWrite(n) PROVE TypeOK'
  BY <1>2, UserWrites, OthersWriteTypes DEF StatusWrite
<1>3. ASSUME NEW n \in Names, Deliver(n) PROVE TypeOK'
  <2> DEFINE vs == [seen EXCEPT ![n] = @ + 1]
  <2>1. \A m \in Names : seen[m] \in Nat /\ Len(log[m]) \in Nat /\ seen[m] <= Len(log[m])
    BY DEF TypeOK, StoreTypeOK
  <2>2. vs \in [Names -> Nat]
    BY DEF TypeOK, StoreTypeOK
  <2>3. \A m \in Names : seen[m] <= vs[m] /\ vs[m] <= Len(log[m]) /\ (m \in {n} => 0 < vs[m])
    <3>1. ASSUME NEW m \in Names
          PROVE  vs[m] = IF m = n THEN seen[n] + 1 ELSE seen[m]
      BY DEF TypeOK, StoreTypeOK
    <3> QED
      BY <1>3, <2>1, <3>1 DEF Deliver
  <2>4. Inform({n}, vs) /\ UNCHANGED <<log, budget, worker, remote>>
    BY <1>3 DEF Deliver
  <2>5. budget' \in [Budgets -> Nat]
    BY <2>4 DEF TypeOK, StoreTypeOK
  <2> HIDE DEF vs
  <2> QED
    BY <2>2, <2>3, <2>4, <2>5, InformTypes
<1>4. CASE List \/ Relist
  <2>1. Newest \in [Names -> Nat]
    BY ObjectTypes DEF Newest
  <2>2. \A m \in Names : seen[m] <= Newest[m] /\ Newest[m] <= Len(log[m]) /\ 0 < Newest[m]
    BY ObjectTypes DEF Newest, TypeOK, StoreTypeOK
  <2>3. budget' \in [Budgets -> Nat]
    BY <1>4, SpendTypes DEF Budgets, List, Relist, TypeOK, StoreTypeOK
  <2>4. Inform(Names, Newest) /\ UNCHANGED <<log, worker, remote>>
    BY <1>4 DEF List, Relist
  <2> QED
    BY <2>1, <2>2, <2>3, <2>4, InformTypes
<1>5. ASSUME NEW n \in Names, Dequeue(n) PROVE TypeOK'
  <2>1. seen[n] > 0
    BY <1>5 DEF Dequeue, TypeOK
  <2> QED
    BY <1>5, <2>1 DEF Dequeue, TypeOK, StoreTypeOK, WorkerTypeOK, storeVars, remote, outside
<1>6. CASE Get
  <2> DEFINE n == worker.key
  <2>1. worker # Idle /\ n \in Names /\ seen[n] > 0 /\ UNCHANGED <<storeVars, remote>>
    BY <1>6 DEF Get, TypeOK, WorkerTypeOK, Idle
  <2>2. StoreTypeOK'
    BY <2>1 DEF TypeOK, StoreTypeOK, storeVars
  <2>3. CASE Return
    BY <2>1, <2>2, <2>3, RequeueTypes DEF TypeOK, storeVars, remote, outside
  <2>4. CASE /\ ~Finished(Cached(n))
             /\ worker' = [worker EXCEPT !.pc = Branch(Cached(n)), !.rv = seen[n]]
             /\ UNCHANGED queue
    <3>1. Branch(Cached(n)) \in Updating \cup Calling /\ Branch(Cached(n)) # "get"
      BY DEF Branch, Updating, Calling
    <3>2. worker' = [pc |-> Branch(Cached(n)), key |-> n, rv |-> seen[n]]
      BY <1>6, <2>1, <2>4 DEF TypeOK, WorkerTypeOK
    <3>3. Copy' = Cached(n) /\ Copy' # NoObj
      BY <2>1, <2>4, <3>2 DEF Copy, Cached, Finished, LetGo, storeVars
    <3>4. WorkerTypeOK'
      BY <2>1, <3>1, <3>2, <3>3 DEF TypeOK, StoreTypeOK, WorkerTypeOK, storeVars, remote, outside
    <3> QED
      BY <2>1, <2>2, <2>4, <3>4 DEF TypeOK, storeVars, remote, outside
  <2> QED
    BY <1>6, <2>3, <2>4 DEF Get
<1>7. CASE AddFinalizer \/ RemoveFinalizer
  BY <1>7, UpdateTypes
<1>8. CASE Connect \/ Disconnect
  BY <1>8, CallingTypes
<1>9. ASSUME NEW r \in late, Land(r) PROVE TypeOK'
  <2>1. conns' \subseteq Ids /\ late' \subseteq Request
    BY <1>9 DEF Land, Served, TypeOK, Request
  <2> QED
    BY <1>9, <2>1 DEF Land, TypeOK, StoreTypeOK, WorkerTypeOK, Copy, storeVars, remote, outside
<1>10. CASE Crash
  <2>1. \A n \in Names : seen'[n] = 0 /\ Len(log[n]) \in Nat
    BY <1>10 DEF Crash, TypeOK, StoreTypeOK
  <2>2. budget' \in [Budgets -> Nat] /\ seen' \in [Names -> Nat] /\ UNCHANGED log
    BY <1>10, SpendTypes DEF Budgets, Crash
  <2>3. log' \in [Names -> Seq(Version)] /\ \A n \in Names : Len(log'[n]) > 0
    BY <2>2 DEF TypeOK, StoreTypeOK
  <2>4. \A n \in Names : seen'[n] <= Len(log'[n])
    BY <2>1, <2>2
  <2>5. StoreTypeOK'
    BY <2>2, <2>3, <2>4 DEF StoreTypeOK
  <2> QED
    BY <1>10, <2>5 DEF Crash, TypeOK, WorkerTypeOK
<1>11. CASE Dial \/ Outage \/ Recovery
  <2>1. budget' \in [Budgets -> Nat]
    BY <1>11, SpendTypes DEF Budgets, Dial, Outage, Recovery, TypeOK, StoreTypeOK, storeVars
  <2> QED
    BY <1>11, <2>1
       DEF Dial, Outage, Recovery, TypeOK, StoreTypeOK, WorkerTypeOK, Copy, storeVars
<1>12. CASE UNCHANGED vars
  BY <1>12 DEF vars, TypeOK, StoreTypeOK, WorkerTypeOK, Copy
<1> QED
  BY <1>1, <1>2, <1>3, <1>4, <1>5, <1>6, <1>7, <1>8, <1>9, <1>10, <1>11, <1>12
     DEF Next, Work, Rest, Manager, Surroundings, World

(***************************************************************************)
(* In every behaviour, faults, edits, late requests and crashes included,  *)
(* the variables have their types and a reconciliation that got past Get   *)
(* holds a real version of its object.                                     *)
(***************************************************************************)
THEOREM TypeCorrect == Spec => []TypeOK
<1>1. Init => TypeOK
  BY StoreAssumption, TypeInit
<1>2. TypeOK /\ [Next]_vars => TypeOK'
  BY StoreAssumption, TypeNext
<1> QED
  BY <1>1, <1>2, PTL DEF Spec

-----------------------------------------------------------------------------
(* What is opened has been registered, whatever else goes wrong.           *)

\* Versions are added to a log, and never changed or removed.
LEMMA LogGrows ==
    ASSUME StoreAssumption, TypeOK, [Next]_vars
    PROVE  \A n \in Names : /\ Len(log[n]) <= Len(log'[n])
                            /\ \A k \in 1..Len(log[n]) : log'[n][k] = log[n][k]
<1>1. log \in [Names -> Seq(Version)] /\ \A n \in Names : Len(log[n]) \in Nat
  BY DEF TypeOK, StoreTypeOK
<1>2. ASSUME NEW n \in Names, User(n) \/ StatusWrite(n)
      PROVE  \E m \in Names, v \in Version : Write(m, v)
  BY <1>2, UserWrites DEF User
<1>3. ASSUME AddFinalizer \/ RemoveFinalizer
      PROVE  log' = log \/ \E m \in Names, v \in Version : Write(m, v)
  <2>1. worker.pc \in Updating
    BY <1>3 DEF AddFinalizer, RemoveFinalizer, Updating
  <2>2. worker.key \in Names /\ [Copy EXCEPT !.fin = TRUE] \in Version /\ NoObj \in Version
    BY <2>1, ObjectTypes DEF Version
  <2>3. PICK v \in Version, ok \in BOOLEAN : Update(worker.key, worker.rv, v, ok)
    BY <1>3, <2>2 DEF AddFinalizer, RemoveFinalizer
  <2>4. log' = log \/ Write(worker.key, v)
    BY <2>3 DEF Update
  <2> QED
    BY <2>2, <2>4
<1>4. ASSUME NEW n \in Names, Deliver(n) \/ Dequeue(n) PROVE log' = log
  BY <1>4 DEF Deliver, Dequeue, storeVars
<1>5. ASSUME \/ Get \/ Connect \/ Disconnect \/ Dial \/ List \/ Relist
             \/ Outage \/ Recovery \/ Crash \/ (\E r \in late : Land(r)) \/ UNCHANGED vars
      PROVE  log' = log
  BY <1>5 DEF Get, Connect, Disconnect, Dial, List, Relist, Outage, Recovery, Crash, Land,
              storeVars, vars
<1>6. log' = log \/ \E m \in Names, v \in Version : Write(m, v)
  BY <1>2, <1>3, <1>4, <1>5 DEF Next, Work, Rest, Manager, Surroundings, World
<1>7. ASSUME NEW m \in Names, NEW v \in Version, Write(m, v)
      PROVE  \A n \in Names : /\ Len(log[n]) <= Len(log'[n])
                              /\ \A k \in 1..Len(log[n]) : log'[n][k] = log[n][k]
  BY <1>1, <1>7, WriteFacts
<1> QED
  BY <1>1, <1>6, <1>7

\* The id i has been the spec of an object with the finalizer.
RegisteredId(i) ==
    \E n \in Names : \E k \in 1..Len(log[n]) :
        log[n][k] # NoObj /\ log[n][k].fin /\ log[n][k].id = i

\* The worker sends a request only for a version that has the finalizer.
RequestsRegistered ==
    /\ worker.pc \in Calling => Copy.fin
    /\ worker.pc = "register" => ~Copy.del

LEMMA RegisteredStays ==
    ASSUME StoreAssumption, TypeOK, [Next]_vars
    PROVE  \A i : RegisteredId(i) =>
               \E n \in Names : \E k \in 1..Len(log'[n]) :
                   log'[n][k] # NoObj /\ log'[n][k].fin /\ log'[n][k].id = i
<1> SUFFICES ASSUME NEW i, RegisteredId(i)
             PROVE  \E n \in Names : \E k \in 1..Len(log'[n]) :
                        log'[n][k] # NoObj /\ log'[n][k].fin /\ log'[n][k].id = i
  OBVIOUS
<1>0. PICK n \in Names : \E k \in 1..Len(log[n]) :
          log[n][k] # NoObj /\ log[n][k].fin /\ log[n][k].id = i
  BY DEF RegisteredId
<1>1. PICK k \in 1..Len(log[n]) : log[n][k] # NoObj /\ log[n][k].fin /\ log[n][k].id = i
  BY <1>0
<1>2. Len(log[n]) \in Nat /\ Len(log'[n]) \in Nat
  BY TypeNext DEF TypeOK, StoreTypeOK
<1>3. k \in 1..Len(log'[n]) /\ log'[n][k] = log[n][k]
  BY <1>1, <1>2, LogGrows
<1> QED
  BY <1>1, <1>3

LEMMA RequestsNext ==
    ASSUME StoreAssumption, TypeOK, RequestsRegistered, [Next]_vars
    PROVE  RequestsRegistered'
<1>1. TypeOK' /\ \A n \in Names : Len(log[n]) \in Nat /\ Len(log'[n]) \in Nat
  BY TypeNext DEF TypeOK, StoreTypeOK
<1>2. CASE worker'.pc \notin Calling \cup {"register"}
  BY <1>2 DEF RequestsRegistered
<1>3. CASE UNCHANGED worker /\ worker.pc \in Calling \cup {"register"}
  <2>1. worker.key \in Names /\ worker.rv \in 1..Len(log[worker.key])
    BY <1>1, <1>3, ObjectTypes DEF TypeOK, StoreTypeOK, WorkerTypeOK, Calling, Updating, Idle
  <2>2. Copy' = Copy
    BY <1>3, <2>1, LogGrows DEF Copy
  <2> QED
    BY <1>3, <2>2 DEF RequestsRegistered
<1>4. CASE Get /\ ~Finished(Cached(worker.key))
  <2> DEFINE n == worker.key
             c == Cached(n)
  <2>1. worker # Idle /\ n \in Names /\ seen[n] > 0
    BY <1>4 DEF Get, TypeOK, WorkerTypeOK, Idle
  <2>2. worker' = [pc |-> Branch(c), key |-> n, rv |-> seen[n]] /\ UNCHANGED <<log, seen>>
    BY <1>4, <2>1 DEF Get, TypeOK, WorkerTypeOK, storeVars
  <2>3. Copy' = c /\ c \in Object
    BY <1>4, <2>1, <2>2, ObjectTypes DEF Copy, Cached, Finished, LetGo, Version
  <2>4. c.del \in BOOLEAN /\ c.fin \in BOOLEAN
    BY <2>3 DEF Object
  <2> QED
    BY <1>4, <2>2, <2>3, <2>4 DEF RequestsRegistered, Branch, Finished, LetGo, Calling
<1>5. CASE AddFinalizer /\ worker'.pc = "connect"
  <2> DEFINE n == worker.key
             v == [Copy EXCEPT !.fin = TRUE]
  <2>1. worker.pc \in Updating /\ worker # Idle
    BY <1>5 DEF AddFinalizer, Updating, Idle
  <2>2. /\ n \in Names /\ v \in Version /\ v.fin /\ worker.rv \in Nat
        /\ worker = [pc |-> "register", key |-> n, rv |-> worker.rv]
    BY <1>5, <2>1, ObjectTypes DEF AddFinalizer, TypeOK, WorkerTypeOK, Version, Object
  <2>3. PICK ok \in BOOLEAN :
            /\ Update(n, worker.rv, v, ok)
            /\ IF ok THEN worker' = [worker EXCEPT !.pc = "connect", !.rv = @ + 1]
                     ELSE worker' = Idle
    BY <1>5 DEF AddFinalizer, Requeue
  <2>4. ok /\ worker.rv = Len(log[n]) /\ Write(n, v)
    BY <1>5, <2>3 DEF Update, Idle
  <2>5. log'[n][Len(log[n]) + 1] = v
    <3> HIDE DEF v
    <3> QED
      BY <2>2, <2>4, WriteFacts DEF TypeOK, StoreTypeOK
  <2>6. worker' = [pc |-> "connect", key |-> n, rv |-> Len(log[n]) + 1]
    BY <2>2, <2>3, <2>4
  <2> QED
    BY <2>2, <2>5, <2>6 DEF RequestsRegistered, Copy
<1>6. CASE Work
  <2>1. CASE Get
    BY <1>2, <1>4, <2>1 DEF Get, Return, Idle, Calling
  <2>2. CASE AddFinalizer
    <3>1. worker # Idle
      BY <2>2 DEF AddFinalizer, Idle
    <3>2. worker \in [pc : {"get"} \cup Updating \cup Calling, key : Names, rv : Nat]
      BY <3>1 DEF TypeOK, WorkerTypeOK
    <3>3. CASE worker' = [worker EXCEPT !.pc = "connect", !.rv = @ + 1]
      <4>1. worker'.pc = "connect"
        BY <3>2, <3>3
      <4> QED
        BY <1>5, <2>2, <4>1
    <3>4. CASE worker' = Idle
      BY <1>2, <3>4 DEF Idle, Calling
    <3> QED
      BY <2>2, <3>3, <3>4 DEF AddFinalizer, Requeue
  <2>3. CASE RemoveFinalizer \/ Connect
    BY <1>2, <2>3 DEF RemoveFinalizer, Connect, Return, Requeue, Idle, Calling
  <2>4. CASE Disconnect
    <3>1. worker # Idle
      BY <2>4 DEF Disconnect, Idle
    <3>2. worker'.pc \in {"unregister", "idle"}
      BY <2>4, <3>1 DEF Disconnect, Requeue, Idle, TypeOK, WorkerTypeOK
    <3> QED
      BY <1>2, <3>2 DEF Calling
  <2> QED
    BY <1>6, <2>1, <2>2, <2>3, <2>4 DEF Work
<1>7. CASE Crash \/ \E n \in Names : Dequeue(n)
  BY <1>2, <1>7 DEF Crash, Dequeue, Idle, Calling
<1>8. CASE UNCHANGED worker
  BY <1>2, <1>3, <1>8
<1> QED
  BY <1>6, <1>7, <1>8
     DEF Next, Rest, Manager, Surroundings, World, Deliver, List, Relist, Dial, Outage,
         Recovery, Land, User, StatusWrite, vars

LEMMA RegisteredNext ==
    ASSUME StoreAssumption, TypeOK, RequestsRegistered, Registered, [Next]_vars
    PROVE  Registered'
<1>1. ASSUME NEW i \in conns' \cup {r.id : r \in late'} PROVE RegisteredId(i)
  <2>1. CASE i \in conns \cup {r.id : r \in late}
    BY <2>1 DEF Registered, RegisteredId
  <2>2. CASE Connect \/ Disconnect
    <3>1. worker.pc \in Calling
      BY <2>2 DEF Connect, Disconnect, Calling
    <3>2. Copy.id = i \/ i \in conns \cup {r.id : r \in late}
      BY <1>1, <2>2 DEF Connect, Disconnect, Call, Served
    <3>3. worker.key \in Names /\ worker.rv \in 1..Len(log[worker.key]) /\ Copy # NoObj
      BY <3>1 DEF TypeOK, StoreTypeOK, WorkerTypeOK, Calling, Updating, Idle
    <3> QED
      BY <2>1, <3>1, <3>2, <3>3 DEF RequestsRegistered, RegisteredId, Copy
  <2>3. CASE \E r \in late : Land(r)
    BY <1>1, <2>1, <2>3 DEF Land, Served
  <2>4. CASE UNCHANGED <<conns, late>>
    BY <1>1, <2>1, <2>4
  <2> QED
    BY <2>2, <2>3, <2>4
       DEF Next, Work, Rest, Manager, Surroundings, World, Get, AddFinalizer, RemoveFinalizer,
           Deliver, Dequeue, List, Relist, Dial, Outage, Recovery, User, StatusWrite, Crash,
           remote, vars
<1> QED
  BY <1>1, RegisteredStays DEF Registered

(***************************************************************************)
(* In every behaviour, with edits, late requests, expired watches and      *)
(* crashes, whatever is connected at the server, or may be yet, has been   *)
(* the spec of an object that had the finalizer first.                     *)
(***************************************************************************)
THEOREM OnlyRegistered == Spec => []Registered
<1> DEFINE Inv == TypeOK /\ RequestsRegistered /\ Registered
<1>1. Init => Inv
  BY StoreAssumption, TypeInit DEF Init, RequestsRegistered, Registered, Idle, Calling
<1>2. Inv /\ [Next]_vars => Inv'
  BY StoreAssumption, TypeNext, RequestsNext, RegisteredNext
<1> QED
  BY <1>1, <1>2, PTL DEF Spec
=============================================================================
