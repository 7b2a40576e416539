----------------------------- MODULE Operator_proofs -----------------------------
(***************************************************************************)
(* Proofs about Operator: the status watcher does nothing to the objects   *)
(* that ConnectionController does not allow, so that what is proved of the *)
(* reconciler alone holds in the composition.                              *)
(***************************************************************************)
EXTENDS Operator, ConnectionIntent_proofs

\* What the watcher holds, and the types of both parts.
Held == TypeOK /\ W!TypeOK

-----------------------------------------------------------------------------
(* The steps of the operator are steps of ConnectionController.            *)

\* What the pass has read of an object is a version of it.
LEMMA CheckHeld ==
    ASSUME Held, NEW n \in Names, watcher.pc = "read", n \in DOMAIN watcher.todo
    PROVE  watcher.todo[n] \in 1..Len(log[n]) /\ log[n][watcher.todo[n]] \in Object
<1>1. watcher.todo[n] \in 1..Len(log[n]) /\ log[n][watcher.todo[n]] # NoObj
  BY DEF Held, W!TypeOK
<1>2. log[n] \in Seq(Version)
  BY DEF Held, TypeOK, StoreTypeOK
<1>3. log[n][watcher.todo[n]] \in Version
  BY <1>1, <1>2
<1> QED
  BY <1>1, <1>3 DEF Version

\* What Check writes is the status of the newest version of an object.
LEMMA CheckIsStatusWrite ==
    ASSUME StoreAssumption, Held, "status" \in Free, NEW n \in Names, W!Check(n),
           UNCHANGED <<budget, queue, worker, remote>>
    PROVE  StatusWrite(n) \/ UNCHANGED vars
<1> DEFINE rv == watcher.todo[n]
           c == log[n][rv]
           s == watcher.answer[c.id]
<1>1. /\ watcher.pc = "read" /\ n \in DOMAIN watcher.todo /\ UNCHANGED seen
      /\ IF W!Skips(c, s)
         THEN UNCHANGED <<log, allowed>>
         ELSE \E ok \in BOOLEAN : W!Update(n, rv, W!Stamp(c, s), ok)
  BY DEF W!Check
<1>2. rv \in 1..Len(log[n]) /\ c \in Object
  BY <1>1, CheckHeld
<1>3. s \in States \cup {NotServed}
  BY <1>1, <1>2 DEF Held, W!TypeOK, Object
<1>4. CASE UNCHANGED log
  BY <1>1, <1>4 DEF vars, remote
<1>5. CASE ~UNCHANGED log
  <2>1. ~W!Skips(c, s) /\ rv = Len(log[n]) /\ W!Write(n, W!Stamp(c, s))
    BY <1>1, <1>5 DEF W!Update
  <2>2. s \in States
    BY <1>3, <2>1 DEF W!Skips
  <2>3. c = Live(n) /\ Live(n) # NoObj
    BY <1>2, <2>1 DEF Live, StoreAssumption
  <2>4. Write(n, [Live(n) EXCEPT !.st = [state |-> s, cid |-> Live(n).id]])
    BY <2>1, <2>3 DEF W!Write, W!Stamp, Write
  <2> QED
    BY <1>1, <2>2, <2>3, <2>4 DEF StatusWrite, Spend
<1> QED
  BY <1>4, <1>5

LEMMA StepsAlone ==
    ASSUME StoreAssumption, Held, "status" \in Free, [OperatorNext]_operatorVars
    PROVE  [Next]_vars
<1>1. CASE Reconciles
  BY <1>1 DEF Reconciles, Next, Rest, Surroundings
<1>2. CASE Watches
  <2>1. W!Pass /\ UNCHANGED <<budget, queue, worker, remote>>
    BY <1>2 DEF Watches
  <2>2. CASE W!Ask \/ W!Read \/ W!Sleep
    BY <2>1, <2>2 DEF W!Ask, W!Read, W!Sleep, vars, remote
  <2>3. ASSUME NEW n \in Names, W!Check(n) PROVE [Next]_vars
    BY <2>1, <2>3, CheckIsStatusWrite DEF Next, Rest, Surroundings
  <2> QED
    BY <2>1, <2>2, <2>3 DEF W!Pass
<1>3. CASE Ends
  BY <1>3 DEF Ends, Next, Rest
<1>4. ASSUME NEW i \in Ids, ServerMoves(i) PROVE [Next]_vars
  BY <1>4 DEF ServerMoves, W!ServerMoves, vars, remote
<1>5. CASE UNCHANGED operatorVars
  BY <1>5 DEF operatorVars
<1> QED
  BY <1>1, <1>2, <1>3, <1>4, <1>5 DEF OperatorNext

-----------------------------------------------------------------------------
(* The types of both parts.                                                *)

\* What the server and the budgets of the watcher do.
LEMMA ReportTypes ==
    ASSUME StoreAssumption, OperatorAssumption, Held, [OperatorNext]_operatorVars
    PROVE  /\ reports' \in [Ids -> Seq(States \cup {NotServed})]
           /\ \A i \in Ids : Len(reports'[i]) > 0
           /\ allowed' \in [Budgets -> Nat]
<1>1. /\ reports \in [Ids -> Seq(States \cup {NotServed})]
      /\ \A i \in Ids : Len(reports[i]) > 0
      /\ allowed \in [Budgets -> Nat]
  BY DEF Held, W!TypeOK, W!StoreTypeOK, Budgets, W!Budgets
<1>2. \A i \in Ids : \A s \in States \cup {NotServed} :
          /\ Append(reports[i], s) \in Seq(States \cup {NotServed})
          /\ Len(Append(reports[i], s)) > 0
  <2> TAKE i \in Ids
  <2>1. reports[i] \in Seq(States \cup {NotServed})
    BY <1>1
  <2> QED
    BY <2>1
<1>3. ASSUME NEW b \in Budgets, W!Spend(b) PROVE allowed' \in [Budgets -> Nat]
  <2>1. allowed' = allowed \/ (allowed[b] > 0 /\ allowed' = [allowed EXCEPT ![b] = @ - 1])
    BY <1>3 DEF W!Spend
  <2>2. allowed[b] \in Nat /\ (allowed[b] > 0 => allowed[b] - 1 \in Nat)
    BY <1>1
  <2> QED
    BY <1>1, <2>1, <2>2
<1>4. CASE Reconciles
  <2>1. PICK s \in Opening : reports' = [i \in Ids |-> Report(i, s)]
    BY <1>4 DEF Reconciles, Reports
  <2>2. \A i \in Ids : /\ Report(i, s) \in Seq(States \cup {NotServed})
                       /\ Len(Report(i, s)) > 0
    BY <1>1, <1>2 DEF Report, OperatorAssumption
  <2> QED
    BY <1>1, <1>4, <2>1, <2>2 DEF Reconciles
<1>5. CASE Watches
  <2>1. W!Pass
    BY <1>5 DEF Watches
  <2>2. UNCHANGED reports
    BY <2>1 DEF W!Pass, W!Ask, W!Read, W!Sleep, W!Check
  <2>3. UNCHANGED allowed \/ W!Spend("fault")
    BY <2>1 DEF W!Pass, W!Ask, W!Read, W!Sleep, W!Check, W!Update
  <2>4. allowed' \in [Budgets -> Nat]
    BY <1>1, <1>3, <2>3 DEF Budgets
  <2> QED
    BY <1>1, <2>2, <2>4
<1>6. ASSUME NEW i \in Ids, ServerMoves(i)
      PROVE  /\ reports' \in [Ids -> Seq(States \cup {NotServed})]
             /\ \A j \in Ids : Len(reports'[j]) > 0
             /\ allowed' \in [Budgets -> Nat]
  <2>1. W!Spend("move")
    BY <1>6 DEF ServerMoves, W!ServerMoves
  <2>2. allowed' \in [Budgets -> Nat]
    BY <1>3, <2>1 DEF Budgets
  <2>3. PICK s \in States \cup {NotServed} : reports' = [reports EXCEPT ![i] = Append(@, s)]
    BY <1>6 DEF ServerMoves, W!ServerMoves
  <2> QED
    BY <1>1, <1>2, <2>2, <2>3
<1>7. CASE Ends \/ UNCHANGED operatorVars
  BY <1>1, <1>7 DEF Ends, operatorVars
<1> QED
  BY <1>4, <1>5, <1>6, <1>7 DEF OperatorNext

\* The watcher's part of the types that a step of the watcher can disturb.
WatcherTypeOK ==
    /\ DOMAIN watcher = {"pc", "answer", "todo"}
    /\ watcher.pc \in {"waiting", "asked", "read"}
    /\ watcher.pc # "waiting" => watcher.answer \in [Ids -> States \cup {NotServed}]
    /\ DOMAIN watcher.todo \subseteq Names
    /\ \A n \in DOMAIN watcher.todo :
           watcher.todo[n] \in 1..Len(log[n]) /\ log[n][watcher.todo[n]] # NoObj

LEMMA WaitingTypes == ASSUME watcher' = W!Waiting PROVE WatcherTypeOK'
BY DEF WatcherTypeOK, W!Waiting

\* What has been read stays what it was, whoever writes.
LEMMA WatcherSame ==
    ASSUME StoreAssumption, TypeOK, WatcherTypeOK, [Next]_vars, UNCHANGED watcher
    PROVE  WatcherTypeOK'
<1>1. \A n \in Names : Len(log[n]) \in Nat /\ Len(log'[n]) \in Nat
  <2>1. TypeOK'
    BY TypeNext
  <2> QED
    BY <2>1 DEF TypeOK, StoreTypeOK
<1> QED
  BY <1>1, LogGrows DEF WatcherTypeOK

\* A step of a pass.
LEMMA PassTypes ==
    ASSUME StoreAssumption, Held, WatcherTypeOK, W!Pass, [Next]_vars
    PROVE  WatcherTypeOK'
<1>0. CASE UNCHANGED watcher
  BY <1>0, WatcherSame DEF Held
<1>1. CASE W!Ask
  <2>1. \A i \in Ids : W!Now(i) \in States \cup {NotServed}
    BY DEF Held, W!TypeOK, W!Now
  <2>2. CASE watcher' = [watcher EXCEPT !.pc = "asked", !.answer = [i \in Ids |-> W!Now(i)]]
    BY <1>1, <2>1, <2>2 DEF WatcherTypeOK, W!Ask
  <2> QED
    BY <1>0, <1>1, <2>2 DEF W!Ask
<1>2. CASE W!Read
  <2> DEFINE todo == [n \in {m \in Names : W!Cached(m) # NoObj} |-> seen[n]]
  <2>1. CASE watcher' = W!Waiting
    BY <2>1, WaitingTypes
  <2>2. CASE (\A n \in Names : seen[n] > 0) /\ watcher' = [watcher EXCEPT !.pc = "read", !.todo = todo]
    <3>1. \A n \in Names :
              seen[n] \in 1..Len(log[n]) /\ W!Cached(n) = log[n][seen[n]]
      BY <2>2 DEF Held, TypeOK, StoreTypeOK, W!Cached
    <3>2. watcher'.pc = "read" /\ watcher'.todo = todo /\ watcher'.answer = watcher.answer
      BY <2>2 DEF WatcherTypeOK
    <3>3. /\ DOMAIN watcher' = {"pc", "answer", "todo"}
          /\ watcher.pc = "asked" /\ UNCHANGED log
      BY <1>2, <2>2 DEF WatcherTypeOK, W!Read
    <3> QED
      BY <3>1, <3>2, <3>3 DEF WatcherTypeOK
  <2> QED
    BY <1>2, <2>1, <2>2 DEF W!Read
<1>3. CASE W!Sleep
  BY <1>3, WaitingTypes DEF W!Sleep
<1>4. ASSUME NEW n \in Names, W!Check(n) PROVE WatcherTypeOK'
  <2>1. watcher' = [watcher EXCEPT !.todo = W!Left(@, n)]
    BY <1>4 DEF W!Check
  <2>2. \A m \in Names : Len(log[m]) \in Nat /\ Len(log'[m]) \in Nat
    BY TypeNext DEF Held, TypeOK, StoreTypeOK
  <2>3. \A m \in Names : /\ Len(log[m]) <= Len(log'[m])
                         /\ \A k \in 1..Len(log[m]) : log'[m][k] = log[m][k]
    BY LogGrows DEF Held
  <2>4. /\ DOMAIN watcher' = {"pc", "answer", "todo"}
        /\ watcher'.pc = watcher.pc /\ watcher'.answer = watcher.answer
        /\ watcher'.todo = W!Left(watcher.todo, n)
    BY <2>1 DEF WatcherTypeOK
  <2>5. /\ DOMAIN watcher'.todo \subseteq DOMAIN watcher.todo
        /\ \A m \in DOMAIN watcher'.todo : watcher'.todo[m] = watcher.todo[m]
    BY <2>4 DEF W!Left
  <2>6. ASSUME NEW m \in DOMAIN watcher.todo
        PROVE  watcher.todo[m] \in 1..Len(log'[m]) /\ log'[m][watcher.todo[m]] # NoObj
    <3>1. m \in Names /\ watcher.todo[m] \in 1..Len(log[m]) /\ log[m][watcher.todo[m]] # NoObj
      BY <2>6 DEF WatcherTypeOK
    <3> QED
      BY <2>2, <2>3, <3>1
  <2> QED
    BY <2>4, <2>5, <2>6 DEF WatcherTypeOK
<1> QED
  BY <1>1, <1>2, <1>3, <1>4 DEF W!Pass

LEMMA HeldInit == ASSUME StoreAssumption, OperatorAssumption, OperatorInit PROVE Held
<1>1. TypeOK
  BY TypeInit DEF OperatorInit
<1>2. W!StoreTypeOK
  BY <1>1 DEF TypeOK, StoreTypeOK, W!StoreTypeOK, W!Version, Version, W!Object, Object,
              W!Status, Status, W!Budgets, Budgets, OperatorInit, OperatorAssumption
<1>3. <<NotServed>> \in Seq(States \cup {NotServed}) /\ Len(<<NotServed>>) > 0
  OBVIOUS
<1> QED
  BY <1>1, <1>2, <1>3 DEF Held, W!TypeOK, OperatorInit, W!Waiting

LEMMA HeldNext ==
    ASSUME StoreAssumption, OperatorAssumption, "status" \in Free, Held,
           [OperatorNext]_operatorVars
    PROVE  Held'
<1>1. [Next]_vars
  BY StepsAlone
<1>2. TypeOK /\ TypeOK' /\ WatcherTypeOK
  BY <1>1, TypeNext DEF Held, W!TypeOK, WatcherTypeOK
<1>3. WatcherTypeOK'
  <2>1. CASE Reconciles \/ (\E i \in Ids : ServerMoves(i)) \/ UNCHANGED operatorVars
    <3>1. UNCHANGED watcher
      BY <2>1 DEF Reconciles, ServerMoves, W!ServerMoves, operatorVars
    <3> QED
      BY <1>1, <1>2, <3>1, WatcherSame
  <2>2. CASE Watches
    BY <1>1, <1>2, <2>2, PassTypes DEF Watches
  <2>3. CASE Ends
    BY <2>3, WaitingTypes DEF Ends
  <2> QED
    BY <2>1, <2>2, <2>3 DEF OperatorNext
<1>4. W!StoreTypeOK'
  BY <1>2, ReportTypes DEF TypeOK, StoreTypeOK, W!StoreTypeOK, W!Version, Version, W!Object,
                           Object, W!Status, Status, W!Budgets, Budgets
<1> QED
  BY <1>2, <1>3, <1>4, ReportTypes DEF Held, W!TypeOK, WatcherTypeOK

-----------------------------------------------------------------------------
(* What the two parts know of each other.                                  *)

\* The server has a status for what it has, and a process that has not
\* dialed runs no pass.
Agree ==
    /\ \A i \in Ids : i \in conns <=> W!Now(i) # NotServed
    /\ process = "dialing" => watcher = W!Waiting

LEMMA AgreeNext ==
    ASSUME StoreAssumption, OperatorAssumption, Held, Agree, [OperatorNext]_operatorVars
    PROVE  Agree'
<1>1. /\ reports \in [Ids -> Seq(States \cup {NotServed})]
      /\ \A i \in Ids : Len(reports[i]) > 0
  BY DEF Held, W!TypeOK
<1>2. \A i \in Ids : \A s \in States \cup {NotServed} :
          LET r == Append(reports[i], s) IN r[Len(r)] = s
  BY <1>1
<1>3. CASE Reconciles
  <2>1. PICK s \in Opening : reports' = [i \in Ids |-> Report(i, s)]
    BY <1>3 DEF Reconciles, Reports
  <2>2. s \in States /\ s # NotServed
    BY DEF OperatorAssumption
  <2>3. ASSUME NEW i \in Ids PROVE i \in conns' <=> W!Now(i)' # NotServed
    <3>1. reports'[i] = Report(i, s)
      BY <2>1
    <3> QED
      BY <1>2, <2>2, <3>1 DEF Agree, W!Now, Report
  <2>4. process' = "dialing" => process = "dialing" /\ UNCHANGED watcher
    BY <1>3 DEF Reconciles, Work, Get, AddFinalizer, Connect, Disconnect, RemoveFinalizer,
                Manager, Dial, List, Relist, Deliver, Dequeue, World, Outage, Recovery, Land,
                User, remote, outside
  <2> QED
    BY <2>3, <2>4 DEF Agree
<1>4. CASE Watches
  <2>1. UNCHANGED <<conns, process, reports>> /\ process = "serving"
    BY <1>4 DEF Watches, W!Pass, W!Ask, W!Read, W!Sleep, W!Check, remote
  <2> QED
    BY <2>1 DEF Agree, W!Now
<1>5. ASSUME NEW i \in Ids, ServerMoves(i) PROVE Agree'
  <2>1. i \in conns /\ UNCHANGED <<conns, process, watcher>> /\ W!Now(i)' # NotServed
    BY <1>5 DEF ServerMoves, W!ServerMoves, remote
  <2>2. \A j \in Ids \ {i} : reports'[j] = reports[j]
    BY <1>1, <1>5 DEF ServerMoves, W!ServerMoves
  <2> QED
    BY <2>1, <2>2 DEF Agree, W!Now
<1>6. CASE Ends
  BY <1>6 DEF Ends, Crash, Agree, W!Now
<1>7. CASE UNCHANGED operatorVars
  BY <1>7 DEF operatorVars, vars, Agree, W!Now
<1> QED
  BY <1>3, <1>4, <1>5, <1>6, <1>7 DEF OperatorNext

-----------------------------------------------------------------------------
(* What is written.                                                        *)

\* An Update of the worker writes the status that it has read, and is refused
\* when that is not the status any more.
LEMMA WorkerWrites ==
    ASSUME StoreAssumption, TypeOK, AddFinalizer \/ RemoveFinalizer
    PROVE  \/ UNCHANGED log
           \/ \E n \in Names, v \in Version :
                  /\ Write(n, v)
                  /\ v # NoObj => Live(n) # NoObj /\ v.st = Live(n).st
<1>1. worker.pc \in Updating
  BY DEF AddFinalizer, RemoveFinalizer, Updating
<1>2. /\ worker.key \in Names /\ Copy \in Object /\ worker.rv \in Nat
      /\ [Copy EXCEPT !.fin = TRUE] \in Version /\ NoObj \in Version
  BY <1>1, ObjectTypes DEF Version
<1>3. PICK v \in {[Copy EXCEPT !.fin = TRUE], NoObj}, ok \in BOOLEAN :
          Update(worker.key, worker.rv, v, ok)
  BY DEF AddFinalizer, RemoveFinalizer
<1>4. CASE worker.rv = Len(log[worker.key]) /\ Write(worker.key, v)
  <2>1. Live(worker.key) = Copy /\ Copy # NoObj
    BY <1>2, <1>4 DEF Live, Copy, StoreAssumption
  <2>2. v # NoObj => v.st = Copy.st
    BY <1>2, <1>3 DEF Object
  <2> QED
    BY <1>2, <1>3, <1>4, <2>1, <2>2
<1> QED
  BY <1>3, <1>4 DEF Update

\* A new version of an object has no status, or that of the version before.
LEMMA OthersKeepStatus ==
    ASSUME StoreAssumption, TypeOK, Work \/ Manager \/ World
    PROVE  \/ UNCHANGED log
           \/ \E n \in Names, v \in Version :
                  /\ Write(n, v)
                  /\ v # NoObj => \/ v.st = NoStatus
                                  \/ Live(n) # NoObj /\ v.st = Live(n).st
<1>1. ASSUME NEW n \in Names, User(n)
      PROVE  \E v \in Version :
                  /\ Write(n, v)
                  /\ v # NoObj => \/ v.st = NoStatus
                                  \/ Live(n) # NoObj /\ v.st = Live(n).st
  <2>1. NoObj \in Version /\ (Live(n) # NoObj => Live(n) \in Object)
    BY ObjectTypes DEF Version
  <2>2. CASE UserCreate(n)
    <3>1. PICK i \in MayUse[n] :
              Write(n, [id |-> i, del |-> FALSE, fin |-> FALSE, st |-> NoStatus])
      BY <2>2 DEF UserCreate
    <3> DEFINE v == [id |-> i, del |-> FALSE, fin |-> FALSE, st |-> NoStatus]
    <3>2. v \in Version /\ v.st = NoStatus
      BY DEF StoreAssumption, Version, Object
    <3>3. Write(n, v)
      BY <3>1
    <3> HIDE DEF v
    <3> QED
      BY <3>2, <3>3
  <2>3. CASE UserDelete(n)
    <3>1. PICK v \in {NoObj, [Live(n) EXCEPT !.del = TRUE]} : Write(n, v) /\ Live(n) # NoObj
      BY <2>3 DEF UserDelete
    <3>2. v \in Version /\ (v # NoObj => v.st = Live(n).st)
      BY <2>1, <3>1 DEF Version, Object
    <3> QED
      BY <3>1, <3>2
  <2>4. CASE UserEdit(n)
    <3>1. PICK i \in MayUse[n] : Write(n, [Live(n) EXCEPT !.id = i]) /\ Live(n) # NoObj
      BY <2>4 DEF UserEdit
    <3>2. [Live(n) EXCEPT !.id = i] \in Version /\ [Live(n) EXCEPT !.id = i].st = Live(n).st
      BY <2>1, <3>1 DEF StoreAssumption, Version, Object
    <3> QED
      BY <3>1, <3>2
  <2> QED
    BY <1>1, <2>2, <2>3, <2>4 DEF User
<1>2. CASE AddFinalizer \/ RemoveFinalizer
  BY <1>2, WorkerWrites
<1>3. ASSUME NEW n \in Names, Deliver(n) \/ Dequeue(n) PROVE UNCHANGED log
  BY <1>3 DEF Deliver, Dequeue, storeVars
<1>4. ASSUME \/ Get \/ Connect \/ Disconnect \/ Dial \/ List \/ Relist
             \/ Outage \/ Recovery \/ \E r \in late : Land(r)
      PROVE  UNCHANGED log
  BY <1>4 DEF Get, Connect, Disconnect, Dial, List, Relist, Outage, Recovery, Land, storeVars
<1> QED
  BY <1>1, <1>2, <1>3, <1>4 DEF Work, Manager, World

-----------------------------------------------------------------------------
(* Why an object shows nothing but what the server has said.               *)

\* The server has had the status s for i.
Was(i, s) == \E k \in 1..Len(reports[i]) : reports[i][k] = s

\* No version of an object shows what has never been so.
LogTrue ==
    \A n \in Names : \A k \in 1..Len(log[n]) :
        LET o == log[n][k]
        IN  o # NoObj /\ o.st # NoStatus => o.st \in Status /\ Was(o.st.cid, o.st.state)

\* The answer of the server is true, and so is what is made of it.
AllTrue ==
    /\ watcher.pc # "waiting" => \A i \in Ids : Was(i, watcher.answer[i])
    /\ LogTrue

\* The server adds to what it has reported.
LEMMA ReportsGrow ==
    ASSUME StoreAssumption, Held, [OperatorNext]_operatorVars, NEW i \in Ids
    PROVE  UNCHANGED reports \/ reports'[i] = reports[i]
             \/ \E s \in States \cup {NotServed} \cup Opening : reports'[i] = Append(reports[i], s)
<1>1. reports \in [Ids -> Seq(States \cup {NotServed})]
  BY DEF Held, W!TypeOK
<1>2. CASE Reconciles
  <2>1. PICK s \in Opening : reports' = [j \in Ids |-> Report(j, s)]
    BY <1>2 DEF Reconciles, Reports
  <2> QED
    BY <2>1 DEF Report
<1>3. CASE Watches
  BY <1>3 DEF Watches, W!Pass, W!Ask, W!Read, W!Sleep, W!Check
<1>4. ASSUME NEW j \in Ids, ServerMoves(j)
      PROVE  \/ reports'[i] = reports[i]
             \/ \E s \in States \cup {NotServed} : reports'[i] = Append(reports[i], s)
  BY <1>1, <1>4 DEF ServerMoves, W!ServerMoves
<1>5. CASE Ends \/ UNCHANGED operatorVars
  BY <1>5 DEF Ends, operatorVars
<1> QED
  BY <1>2, <1>3, <1>4, <1>5 DEF OperatorNext

LEMMA WasStays ==
    ASSUME StoreAssumption, OperatorAssumption, Held, [OperatorNext]_operatorVars
    PROVE  \A i \in Ids : \A s : Was(i, s) =>
               \E k \in 1..Len(reports'[i]) : reports'[i][k] = s
<1> SUFFICES ASSUME NEW i \in Ids, NEW s, Was(i, s)
             PROVE  \E k \in 1..Len(reports'[i]) : reports'[i][k] = s
  OBVIOUS
<1>1. reports[i] \in Seq(States \cup {NotServed})
  BY DEF Held, W!TypeOK
<1>2. ASSUME NEW t \in States \cup {NotServed}, reports'[i] = Append(reports[i], t)
      PROVE  \E k \in 1..Len(reports'[i]) : reports'[i][k] = s
  <2>1. /\ Len(reports'[i]) = Len(reports[i]) + 1
        /\ \A k \in 1..Len(reports[i]) : reports'[i][k] = reports[i][k]
    BY <1>1, <1>2
  <2>2. Len(reports[i]) \in Nat
    BY <1>1
  <2>3. PICK k \in 1..Len(reports[i]) : reports[i][k] = s
    BY DEF Was
  <2>4. k \in 1..Len(reports'[i]) /\ reports'[i][k] = s
    BY <2>1, <2>2, <2>3
  <2> QED
    BY <2>4
<1> QED
  BY <1>2, ReportsGrow DEF Was, OperatorAssumption

\* A true status may be written to any object.
LEMMA WriteTrue ==
    ASSUME StoreAssumption, OperatorAssumption, Held, LogTrue, [OperatorNext]_operatorVars,
           NEW n \in Names, NEW v \in Version, Write(n, v),
           v # NoObj /\ v.st # NoStatus => v.st \in Status /\ Was(v.st.cid, v.st.state)
    PROVE  LogTrue'
<1>1. log \in [Names -> Seq(Version)] /\ \A m \in Names : Len(log[m]) \in Nat
  BY DEF Held, TypeOK, StoreTypeOK
<1>2. /\ Len(log'[n]) = Len(log[n]) + 1
      /\ log'[n][Len(log[n]) + 1] = v
      /\ \A m \in Names \ {n} : log'[m] = log[m]
      /\ \A m \in Names : \A k \in 1..Len(log[m]) : log'[m][k] = log[m][k]
  BY <1>1, WriteFacts
<1>3. ASSUME NEW m \in Names, NEW k \in 1..Len(log'[m])
      PROVE  (k \in 1..Len(log[m]) /\ log'[m][k] = log[m][k]) \/ log'[m][k] = v
  <2>1. CASE m = n
    BY <1>1, <1>2, <1>3, <2>1
  <2>2. CASE m # n
    BY <1>2, <1>3, <2>2
  <2> QED
    BY <2>1, <2>2
<1>4. ASSUME NEW m \in Names, NEW k \in 1..Len(log'[m]),
             log'[m][k] # NoObj, log'[m][k].st # NoStatus
      PROVE  LET t == log'[m][k].st
             IN  t \in Status /\ \E h \in 1..Len(reports'[t.cid]) : reports'[t.cid][h] = t.state
  <2> DEFINE t == log'[m][k].st
  <2>1. t \in Status /\ Was(t.cid, t.state)
    BY <1>3, <1>4 DEF LogTrue
  <2>2. t.cid \in Ids
    BY <2>1 DEF Status
  <2> HIDE DEF t
  <2>3. \E h \in 1..Len(reports'[t.cid]) : reports'[t.cid][h] = t.state
    BY <2>1, <2>2, WasStays
  <2> QED
    BY <2>1, <2>3 DEF t
<1> QED
  BY <1>4 DEF LogTrue, Was

LEMMA AllTrueInit == ASSUME OperatorInit PROVE AllTrue
<1>1. \A n \in Names : log[n] = <<NoObj>>
  BY DEF OperatorInit, Init, StoreInit
<1>2. LogTrue
  BY <1>1 DEF LogTrue
<1> QED
  BY <1>2 DEF OperatorInit, AllTrue, W!Waiting

\* What Check writes is what the server said of the connection of the object.
LEMMA CheckTrue ==
    ASSUME StoreAssumption, OperatorAssumption, Held, AllTrue, [OperatorNext]_operatorVars,
           NEW n \in Names, W!Check(n)
    PROVE  LogTrue' \/ UNCHANGED log
<1> DEFINE rv == watcher.todo[n]
           c == log[n][rv]
           s == watcher.answer[c.id]
           v == [c EXCEPT !.st = [state |-> s, cid |-> c.id]]
<1>1. /\ watcher.pc = "read" /\ n \in DOMAIN watcher.todo
      /\ IF W!Skips(c, s)
         THEN UNCHANGED <<log, allowed>>
         ELSE \E ok \in BOOLEAN : W!Update(n, rv, v, ok)
  BY DEF W!Check, W!Stamp
<1>2. rv \in 1..Len(log[n]) /\ c \in Object
  BY <1>1, CheckHeld
<1>3. c.id \in Ids /\ s \in States \cup {NotServed} /\ Was(c.id, s)
  BY <1>1, <1>2 DEF Held, W!TypeOK, Object, AllTrue
<1>4. CASE ~UNCHANGED log
  <2>1. ~W!Skips(c, s) /\ W!Write(n, v)
    BY <1>1, <1>4 DEF W!Update
  <2>2. s \in States
    BY <1>3, <2>1 DEF W!Skips
  <2>3. [state |-> s, cid |-> c.id] \in Status
    BY <1>3, <2>2 DEF Status
  <2>4. v \in Version /\ v.st = [state |-> s, cid |-> c.id]
    <3>1. \A o \in Object : \A t \in Status : LET w == [o EXCEPT !.st = t] IN w \in Object /\ w.st = t
      BY DEF Object
    <3> HIDE DEF c, s
    <3> QED
      BY <1>2, <2>3, <3>1 DEF Version
  <2> HIDE DEF v, s, c
  <2>5. v.st.cid = c.id /\ v.st.state = s /\ v.st \in Status
    BY <2>3, <2>4
  <2>6. Write(n, v)
    BY <2>1 DEF Write, W!Write
  <2>7. Was(v.st.cid, v.st.state)
    BY <1>3, <2>5
  <2> QED
    BY <2>4, <2>5, <2>6, <2>7, WriteTrue DEF AllTrue
<1> QED
  BY <1>4

LEMMA AllTrueNext ==
    ASSUME StoreAssumption, OperatorAssumption, Held, AllTrue, [OperatorNext]_operatorVars
    PROVE  AllTrue'
<1>1. TypeOK /\ LogTrue
  BY DEF Held, AllTrue
<1>2. ASSUME UNCHANGED log PROVE LogTrue'
  <2>1. ASSUME NEW n \in Names, NEW k \in 1..Len(log[n]),
               log[n][k] # NoObj, log[n][k].st # NoStatus
        PROVE  LET t == log[n][k].st
               IN  t \in Status /\ \E h \in 1..Len(reports'[t.cid]) : reports'[t.cid][h] = t.state
    <3> DEFINE t == log[n][k].st
    <3>1. t \in Status /\ Was(t.cid, t.state)
      BY <1>1, <2>1 DEF LogTrue
    <3>2. t.cid \in Ids
      BY <3>1 DEF Status
    <3> HIDE DEF t
    <3>3. \E h \in 1..Len(reports'[t.cid]) : reports'[t.cid][h] = t.state
      BY <3>1, <3>2, WasStays
    <3> QED
      BY <3>1, <3>3 DEF t
  <2> QED
    BY <1>2, <2>1 DEF LogTrue, Was
<1>3. ASSUME Reconciles PROVE LogTrue'
  <2>1. ASSUME NEW n \in Names, NEW v \in Version, Write(n, v),
               v # NoObj => \/ v.st = NoStatus
                            \/ Live(n) # NoObj /\ v.st = Live(n).st
        PROVE  LogTrue'
    <3>1. Len(log[n]) \in 1..Len(log[n])
      BY <1>1, ObjectTypes
    <3>2. Live(n) # NoObj /\ Live(n).st # NoStatus =>
              Live(n).st \in Status /\ Was(Live(n).st.cid, Live(n).st.state)
      BY <1>1, <3>1 DEF LogTrue, Live
    <3>3. v # NoObj /\ v.st # NoStatus => v.st \in Status /\ Was(v.st.cid, v.st.state)
      BY <2>1, <3>2
    <3> QED
      BY <1>1, <2>1, <3>3, WriteTrue
  <2> QED
    BY <1>1, <1>2, <1>3, <2>1, OthersKeepStatus DEF Reconciles
<1>4. ASSUME Watches PROVE LogTrue'
  <2>1. W!Pass
    BY <1>4 DEF Watches
  <2>2. CASE W!Ask \/ W!Read \/ W!Sleep
    BY <1>2, <2>2 DEF W!Ask, W!Read, W!Sleep
  <2>3. ASSUME NEW n \in Names, W!Check(n) PROVE LogTrue'
    BY <1>2, <2>3, CheckTrue
  <2> QED
    BY <2>1, <2>2, <2>3 DEF W!Pass
<1>5. LogTrue'
  BY <1>2, <1>3, <1>4
     DEF OperatorNext, Ends, Crash, ServerMoves, W!ServerMoves, operatorVars, vars
<1>6. ASSUME watcher'.pc # "waiting", NEW i \in Ids
      PROVE  \E k \in 1..Len(reports'[i]) : reports'[i][k] = watcher'.answer[i]
  <2>1. DOMAIN watcher = {"pc", "answer", "todo"}
    BY DEF Held, W!TypeOK
  <2>2. CASE watcher.pc # "waiting" /\ watcher'.answer = watcher.answer
    BY <2>2, WasStays DEF AllTrue
  <2>3. CASE W!Ask /\ UNCHANGED watcher
    BY <1>6, <2>3 DEF W!Ask
  <2>4. CASE W!Ask /\ watcher' = [watcher EXCEPT !.pc = "asked", !.answer = [j \in Ids |-> W!Now(j)]]
    <3>1. watcher'.answer[i] = W!Now(i) /\ UNCHANGED reports
      BY <2>1, <2>4 DEF W!Ask
    <3>2. Len(reports[i]) \in 1..Len(reports[i])
      BY DEF Held, W!TypeOK
    <3> QED
      BY <3>1, <3>2 DEF W!Now
  <2>5. CASE W!Read \/ W!Sleep \/ \E n \in Names : W!Check(n)
    <3>1. watcher' # W!Waiting
      BY <1>6 DEF W!Waiting
    <3>2. watcher.pc # "waiting"
      BY <2>5 DEF W!Read, W!Sleep, W!Check
    <3>3. \/ \E todo : watcher' = [watcher EXCEPT !.pc = "read", !.todo = todo]
          \/ \E todo : watcher' = [watcher EXCEPT !.todo = todo]
      BY <2>5, <3>1 DEF W!Read, W!Sleep, W!Check
    <3>4. watcher'.answer = watcher.answer
      BY <2>1, <3>3
    <3> QED
      BY <2>2, <3>2, <3>4
  <2>6. CASE Ends
    BY <1>6, <2>6 DEF Ends, W!Waiting
  <2>7. CASE UNCHANGED watcher
    BY <1>6, <2>2, <2>7
  <2> QED
    BY <2>3, <2>4, <2>5, <2>6, <2>7
       DEF OperatorNext, Reconciles, Watches, W!Pass, W!Ask, ServerMoves, W!ServerMoves,
           operatorVars
<1> QED
  BY <1>5, <1>6 DEF AllTrue, Was

-----------------------------------------------------------------------------
(* The theorems.                                                           *)

(***************************************************************************)
(* In every behaviour of the composition both parts have their types, the  *)
(* server has a status for exactly its connections, and a process that has *)
(* not reached the server runs no pass.                                    *)
(***************************************************************************)
THEOREM OperatorTypeCorrect ==
    ASSUME "status" \in Free PROVE OperatorSpec => []OperatorTypeOK
<1>1. OperatorInit => Held /\ Agree
  <2>1. OperatorInit => Held
    BY StoreAssumption, OperatorAssumption, HeldInit
  <2>2. OperatorInit => Agree
    BY DEF OperatorInit, Init, Agree, W!Now
  <2> QED
    BY <2>1, <2>2
<1>2. Held /\ Agree /\ [OperatorNext]_operatorVars => Held' /\ Agree'
  BY StoreAssumption, OperatorAssumption, HeldNext, AgreeNext
<1>3. Held /\ Agree => OperatorTypeOK
  BY DEF Held, Agree, OperatorTypeOK
<1> QED
  BY <1>1, <1>2, <1>3, PTL DEF OperatorSpec

(***************************************************************************)
(* The reconciler sees nothing of the watcher but objects that get a       *)
(* status: the operator's steps are steps of ConnectionController,         *)
(* whatever the watcher has read, and when.                                *)
(***************************************************************************)
THEOREM ActsAlone == ASSUME "status" \in Free PROVE OperatorSpec => ReconcilerAsAlone
<1>1. OperatorInit => Held /\ Init
  BY StoreAssumption, OperatorAssumption, HeldInit DEF OperatorInit
<1>2. Held /\ [OperatorNext]_operatorVars => Held' /\ [Next]_vars
  BY StoreAssumption, OperatorAssumption, HeldNext, StepsAlone
<1> QED
  BY <1>1, <1>2, PTL DEF OperatorSpec, ReconcilerAsAlone, Spec

(***************************************************************************)
(* So no connection is left behind by an operator whose watcher writes the *)
(* objects that the reconciler works on.                                   *)
(***************************************************************************)
THEOREM OperatorNeverOrphans ==
    ASSUME "status" \in Free, CalmLimit PROVE OperatorSpec => []NoOrphan
BY ActsAlone, NeverOrphaned, PTL DEF ReconcilerAsAlone

(***************************************************************************)
(* And no delete is forgotten for all the versions that the watcher puts   *)
(* between those of the user.                                              *)
(***************************************************************************)
THEOREM OperatorRemembers ==
    ASSUME "status" \in Free PROVE OperatorSpec => []DeletionKept
BY ActsAlone, DeletesRemembered, PTL DEF ReconcilerAsAlone

(***************************************************************************)
(* When the operator rests, what the user asked for is so, whatever the    *)
(* watcher is doing.                                                       *)
(***************************************************************************)
THEOREM OperatorServesIntent ==
    ASSUME "status" \in Free, CalmLimit, WatchesLast, DisjointUse
    PROVE  OperatorSpec => []IntentKept
BY ActsAlone, IntentServed, PTL DEF ReconcilerAsAlone

(***************************************************************************)
(* Whatever is edited, deleted, made anew or crashes between the answer of *)
(* the server and the write, an object shows a status only if the server   *)
(* has had it for the connection that the status names.                    *)
(***************************************************************************)
THEOREM OnlyTruthShown == ASSUME "status" \in Free PROVE OperatorSpec => []ShowsTruth
<1>1. OperatorInit => Held /\ AllTrue
  BY StoreAssumption, OperatorAssumption, HeldInit, AllTrueInit
<1>2. Held /\ AllTrue /\ [OperatorNext]_operatorVars => Held' /\ AllTrue'
  BY StoreAssumption, OperatorAssumption, HeldNext, AllTrueNext
<1>3. Held /\ AllTrue => ShowsTruth
  <2> SUFFICES ASSUME Held, AllTrue, NEW n \in Names, Live(n) # NoObj, Live(n).st # NoStatus
               PROVE  Was(Live(n).st.cid, Live(n).st.state)
    BY DEF ShowsTruth, W!Truthful, W!Live, Live, Was
  <2>1. Len(log[n]) \in 1..Len(log[n])
    BY DEF Held, TypeOK, StoreTypeOK
  <2> QED
    BY <2>1 DEF AllTrue, LogTrue, Live
<1> QED
  BY <1>1, <1>2, <1>3, PTL DEF OperatorSpec
=============================================================================
