----------------------------- MODULE Replicas_proofs -----------------------------
(***************************************************************************)
(* Proofs about Replicas: what two processes keep between them, with one   *)
(* leader at a time and without.                                           *)
(*                                                                         *)
(* A step of the process whose turn it is is one of ConnectionController,  *)
(* and for the other process it is a write by somebody else: the lemmas    *)
(* about ConnectionController are taken for both, here and as O.           *)
(***************************************************************************)
EXTENDS Replicas, ConnectionIntent_proofs

O == INSTANCE ConnectionIntent_proofs
     WITH seen <- other.seen, queue <- other.queue,
          worker <- other.worker, process <- other.process

\* The other process of Replicas is that of the lemmas.
LEMMA OneOther ==
    /\ Other!TypeOK <=> O!TypeOK
    /\ Other!IInv <=> O!IInv
    /\ Other!CopyInHand <=> O!CopyInHand
    /\ Other!DeletionPending <=> O!DeletionPending
    /\ \A n : (Other!Waits(n) <=> O!Waits(n)) /\ (Other!Steady(n) <=> O!Steady(n))
BY DEF Other!TypeOK, O!TypeOK, Other!StoreTypeOK, O!StoreTypeOK, Other!WorkerTypeOK, O!WorkerTypeOK,
       Other!Idle, O!Idle, Other!Copy, O!Copy, Other!Request, O!Request, Other!Calling, O!Calling,
       Other!Updating, O!Updating, Other!Version, O!Version, Other!Object, O!Object,
       Other!Status, O!Status, Other!Budgets, O!Budgets, Other!IInv, O!IInv,
       Other!Owned, O!Owned, Other!Calm, O!Calm, Other!ConnectReadable, O!ConnectReadable,
       Other!DisconnectReadable, O!DisconnectReadable, Other!Readable, O!Readable,
       Other!Live, O!Live, Other!Wanted, O!Wanted, Other!WorkerKnows, O!WorkerKnows,
       Other!NoOrphan, O!NoOrphan, Other!CopyInHand, O!CopyInHand, Other!Steady, O!Steady,
       Other!SteadyFrom, O!SteadyFrom, Other!DeletionPending, O!DeletionPending,
       Other!At, O!At, Other!Waits, O!Waits

-----------------------------------------------------------------------------
(* The types.                                                              *)

\* PairTypeOK in parts that are the same for both.
Fresh ==
    process = "dialing" =>
        lease # "this" /\ seen = Unstarted.seen /\ queue = {} /\ worker = Idle

OtherFresh ==
    other.process = "dialing" =>
        /\ lease # "other" /\ other.seen = Unstarted.seen
        /\ other.queue = {} /\ other.worker = Idle

Shared ==
    /\ elects \in BOOLEAN /\ lagged \in BOOLEAN /\ lease \in {"this", "other", "none"}
    /\ other = [seen |-> other.seen, queue |-> other.queue,
                worker |-> other.worker, process |-> other.process]

PairParts ==
    /\ Shared /\ TypeOK /\ O!TypeOK /\ Fresh /\ OtherFresh
    /\ ~Leads => queue = {} /\ worker = Idle
    /\ ~OtherLeads => other.queue = {} /\ other.worker = Idle

LEMMA PairOfParts == PairTypeOK <=> PairParts
<1>1. Here = Unstarted <=>
          seen = Unstarted.seen /\ queue = {} /\ worker = Idle /\ process = "dialing"
  BY DEF Here, Unstarted
<1>2. ASSUME NEW s, NEW q, NEW w, NEW p,
             other = [seen |-> s, queue |-> q, worker |-> w, process |-> p]
      PROVE  other = Unstarted <=>
                 s = Unstarted.seen /\ q = {} /\ w = Idle /\ p = "dialing"
  BY <1>2 DEF Unstarted
<1> QED
  BY <1>1, <1>2, OneOther
     DEF PairTypeOK, PairParts, ReplicasTypeOK, Shared, Fresh, OtherFresh

\* What this process writes is added to the log, and the other one keeps its
\* types.
LEMMA OtherTypes ==
    ASSUME O!TypeOK, TypeOK', UNCHANGED other,
           \A n \in Names : /\ Len(log[n]) <= Len(log'[n])
                            /\ \A k \in 1..Len(log[n]) : log'[n][k] = log[n][k]
    PROVE  O!TypeOK'
<1>0. \A n \in Names : Len(log[n]) \in Nat /\ Len(log'[n]) \in Nat
  BY DEF O!TypeOK, O!StoreTypeOK, TypeOK, StoreTypeOK
<1> USE DEF O!Idle, O!Version, O!Object, O!Status, O!Budgets, Version, Object, Status, Budgets
<1>1. O!StoreTypeOK'
  <2>1. StoreTypeOK' /\ other.seen \in [Names -> Nat] /\ \A n \in Names : other.seen[n] <= Len(log[n])
    BY DEF O!TypeOK, O!StoreTypeOK, TypeOK
  <2>2. \A n \in Names : other.seen[n] <= Len(log'[n])
    BY <1>0, <2>1
  <2> QED
    BY <2>1, <2>2 DEF O!StoreTypeOK, StoreTypeOK
<1>2. O!WorkerTypeOK'
  <2>1. CASE other.worker = O!Idle
    BY <2>1 DEF O!WorkerTypeOK
  <2>2. CASE other.worker # O!Idle
    <3>1. /\ other.worker.key \in Names /\ other.worker.rv \in Nat
          /\ \A n \in Names : Len(log[n]) \in Nat /\ Len(log'[n]) \in Nat
      BY <1>0, <2>2 DEF O!TypeOK, O!WorkerTypeOK
    <3>2. other.worker.rv > 0 =>
              /\ other.worker.rv <= Len(log'[other.worker.key])
              /\ log'[other.worker.key][other.worker.rv] = O!Copy
      BY <2>2, <3>1 DEF O!TypeOK, O!WorkerTypeOK, O!Copy
    <3> QED
      BY <2>2, <3>1, <3>2 DEF O!TypeOK, O!WorkerTypeOK, O!Copy
  <2> QED
    BY <2>1, <2>2
<1> QED
  BY <1>1, <1>2
     DEF O!TypeOK, O!Request, O!Calling, TypeOK, Request, Calling

LEMMA PairInit == ASSUME StoreAssumption, ReplicasInit PROVE PairParts
<1>1. TypeOK
  BY TypeInit DEF ReplicasInit
<1>2. /\ other.seen = seen /\ other.queue = queue /\ other.worker = worker
      /\ other.process = process
  BY DEF ReplicasInit, Unstarted, Init, StoreInit
<1>3. O!TypeOK
  BY <1>1, <1>2
     DEF O!TypeOK, O!StoreTypeOK, O!WorkerTypeOK, O!Idle, O!Copy, O!Version, O!Object,
         O!Status, O!Budgets, O!Request, O!Calling, O!Updating, TypeOK, StoreTypeOK,
         WorkerTypeOK, Idle, Copy, Version, Object, Status, Budgets, Request, Calling, Updating
<1> QED
  BY <1>1, <1>2, <1>3
     DEF PairParts, Shared, Fresh, OtherFresh, ReplicasInit, Unstarted, Init, StoreInit

\* A turn is a step of ConnectionController, or moves a cache that no
\* controller follows.
LEMMA TurnSteps ==
    ASSUME Turn
    PROVE  /\ Next \/ Follow
           /\ UNCHANGED <<elects, lease, other, lagged>>
           /\ ~Leads => Dial \/ Follow \/ Surroundings
           /\ Leads => Work \/ Manager \/ Surroundings
BY DEF Turn, Follow, Next, Rest, Manager

LEMMA FollowTypes ==
    ASSUME TypeOK, StoreAssumption, Follow
    PROVE  TypeOK'
<1>1. PICK vs \in [Names -> Nat] :
          /\ \A n \in Names : seen[n] <= vs[n] /\ vs[n] <= Len(log[n])
          /\ seen' = vs
  <2>1. CASE seen' = Newest
    <3>1. Newest \in [Names -> Nat]
      BY ObjectTypes DEF Newest
    <3>2. \A m \in Names : seen[m] <= Newest[m] /\ Newest[m] <= Len(log[m])
      BY ObjectTypes DEF Newest, TypeOK, StoreTypeOK
    <3> QED
      BY <2>1, <3>1, <3>2
  <2>2. ASSUME NEW n \in Names, seen[n] < Len(log[n]), seen' = [seen EXCEPT ![n] = @ + 1]
        PROVE  \E vs \in [Names -> Nat] :
                   /\ \A m \in Names : seen[m] <= vs[m] /\ vs[m] <= Len(log[m])
                   /\ seen' = vs
    <3>1. /\ [seen EXCEPT ![n] = @ + 1] \in [Names -> Nat]
          /\ \A m \in Names : /\ seen[m] <= [seen EXCEPT ![n] = @ + 1][m]
                              /\ [seen EXCEPT ![n] = @ + 1][m] <= Len(log[m])
      BY <2>2, ObjectTypes DEF TypeOK, StoreTypeOK
    <3> QED
      BY <2>2, <3>1
  <2> QED
    BY <2>1, <2>2 DEF Follow
<1>2. Inform({}, vs) /\ UNCHANGED <<log, worker, remote>> /\ budget' \in [Budgets -> Nat]
  BY <1>1 DEF Follow, Inform, TypeOK, StoreTypeOK
<1> QED
  BY <1>1, <1>2, InformTypes

LEMMA TurnLog ==
    ASSUME TypeOK, StoreAssumption, Turn
    PROVE  /\ TypeOK'
           /\ \A n \in Names : /\ Len(log[n]) <= Len(log'[n])
                               /\ \A k \in 1..Len(log[n]) : log'[n][k] = log[n][k]
<1>1. CASE Next
  BY <1>1, TypeNext, LogGrows
<1>2. CASE Follow
  BY <1>2, FollowTypes, ObjectTypes DEF Follow
<1> QED
  BY <1>1, <1>2, TurnSteps

\* A process that has not dialed does nothing else, and one that does not
\* lead neither queues nor takes anything.
LEMMA TurnTypes ==
    ASSUME PairParts, StoreAssumption, Turn
    PROVE  PairParts'
<1>1. TypeOK' /\ O!TypeOK' /\ UNCHANGED <<elects, lease, other, lagged>>
  BY TurnLog, OtherTypes, TurnSteps DEF PairParts
<1>2. CASE ~Leads
  <2>1. UNCHANGED <<queue, worker>>
    BY <1>2, TurnSteps
       DEF Dial, Follow, Surroundings, World, Outage, Recovery, Land, User, StatusWrite
  <2>2. process' = "dialing" => process = "dialing" /\ seen' = seen
    BY <1>2, TurnSteps
       DEF Dial, Follow, Surroundings, World, Outage, Recovery, Land, User, StatusWrite,
           UserCreate, UserDelete, UserEdit, storeVars, remote, outside
  <2> QED
    BY <1>1, <1>2, <2>1, <2>2
       DEF PairParts, Shared, Fresh, OtherFresh, Leads, OtherLeads
<1>3. CASE Leads
  <2>1. ASSUME process' = "dialing"
        PROVE  process = "dialing" /\ UNCHANGED <<seen, queue, worker>>
    <3>1. process = "dialing"
      BY <1>3, <2>1, TurnSteps
         DEF Work, Get, AddFinalizer, Connect, Disconnect, RemoveFinalizer, Manager, Dial, List,
             Relist, Deliver, Dequeue, Surroundings, World, Outage, Recovery, Land, User,
             StatusWrite, remote, outside
    <3>2. \A n \in Names : seen[n] = 0
      BY <3>1 DEF PairParts, Fresh, Unstarted
    <3>3. queue = {} /\ worker.pc = "idle"
      BY <3>1 DEF PairParts, Fresh, Idle
    <3>4. ~Work /\ ~Dial /\ ~List /\ \A n \in Names : ~Deliver(n) /\ ~Dequeue(n)
      BY <2>1, <3>1, <3>2, <3>3
         DEF Work, Get, AddFinalizer, Connect, Disconnect, RemoveFinalizer, Dial, List, Deliver, Dequeue
    <3>5. CASE Relist
      <4>1. Names = {}
        <5>1. \A n \in Names : seen[n] > 0
          BY <3>5 DEF Relist
        <5> QED
          BY <3>2, <5>1
      <4>2. seen' = Newest /\ queue' = queue
        BY <3>5, <4>1 DEF Relist, Inform
      <4>3. seen = Newest
        BY <3>1, <4>1 DEF Newest, PairParts, Fresh, Unstarted
      <4> QED
        BY <3>1, <3>5, <4>2, <4>3 DEF Relist
    <3>6. CASE Surroundings
      BY <3>1, <3>6
         DEF Surroundings, World, Outage, Recovery, Land, User, StatusWrite,
             UserCreate, UserDelete, UserEdit, storeVars
    <3> QED
      BY <1>3, <3>4, <3>5, <3>6, TurnSteps DEF Manager
  <2> QED
    BY <1>1, <1>3, <2>1 DEF PairParts, Shared, Fresh, OtherFresh, Leads, OtherLeads
<1> QED
  BY <1>2, <1>3

\* Swap gives each the place of the other.
LEMMA SwapFacts ==
    ASSUME Shared, Swap
    PROVE  /\ other'.seen = seen /\ other'.queue = queue
           /\ other'.worker = worker /\ other'.process = process
           /\ seen' = other.seen /\ queue' = other.queue
           /\ worker' = other.worker /\ process' = other.process
           /\ UNCHANGED <<log, budget, conns, late, server, elects, lagged>>
           /\ lease' = "this" <=> lease = "other"
           /\ lease' = "other" <=> lease = "this"
           /\ (Leads' <=> OtherLeads) /\ (OtherLeads' <=> Leads)
           /\ Shared'
BY DEF Shared, Swap, Here, Turned, Leads, OtherLeads

LEMMA SwapTypes == ASSUME PairParts, Swap PROVE PairParts'
<1>1. Shared
  BY DEF PairParts
<1> USE DEF O!TypeOK, O!StoreTypeOK, O!WorkerTypeOK, O!Idle, O!Copy, O!Version, O!Object,
            O!Status, O!Budgets, O!Request, O!Calling, O!Updating, TypeOK, StoreTypeOK,
            WorkerTypeOK, Idle, Copy, Version, Object, Status, Budgets, Request, Calling, Updating
<1>2. O!TypeOK => TypeOK'
  BY <1>1, SwapFacts
<1>3. TypeOK => O!TypeOK'
  BY <1>1, SwapFacts
<1>4. (OtherFresh => Fresh') /\ (Fresh => OtherFresh')
  BY <1>1, SwapFacts DEF Fresh, OtherFresh, Unstarted
<1> QED
  BY <1>1, <1>2, <1>3, <1>4, SwapFacts DEF PairParts

LEMMA AcquireTypes == ASSUME PairParts, Acquire PROVE PairParts'
<1>1. /\ UNCHANGED <<log, seen, budget, worker, conns, late, server, process, elects, other>>
      /\ lease' = "this" /\ lease = "none" /\ elects /\ process = "serving"
      /\ lagged' \in BOOLEAN
      /\ queue' = {n \in Names : Cached(n) # NoObj}
  BY DEF Acquire, storeVars, remote, PairParts, Shared
<1>2. \A n \in queue' : n \in Names /\ seen[n] > 0
  BY <1>1 DEF Cached, PairParts, TypeOK, StoreTypeOK
<1>3. TypeOK'
  BY <1>1, <1>2 DEF PairParts, TypeOK, StoreTypeOK, WorkerTypeOK, Copy
<1>4. O!TypeOK'
  BY <1>1 DEF PairParts, O!TypeOK, O!StoreTypeOK, O!WorkerTypeOK, O!Copy
<1> QED
  BY <1>1, <1>3, <1>4 DEF PairParts, Shared, Fresh, OtherFresh, Leads, OtherLeads

LEMMA EndsTypes == ASSUME PairParts, StoreAssumption, Ends PROVE PairParts'
<1>1. /\ UNCHANGED <<log, conns, late, server, elects, other, lagged>>
      /\ Spend("crash") /\ Crash
      /\ seen' = [n \in Names |-> 0] /\ queue' = {} /\ worker' = Idle /\ process' = "dialing"
      /\ lease' = IF lease = "this" THEN "none" ELSE lease
  BY DEF Ends, Crash
<1>2. TypeOK'
  BY <1>1, TypeNext DEF PairParts, Next, Rest
<1>3. O!TypeOK'
  BY <1>1, <1>2, OtherTypes, ObjectTypes DEF PairParts
<1> QED
  BY <1>1, <1>2, <1>3 DEF PairParts, Shared, Fresh, OtherFresh, Leads, OtherLeads, Unstarted

LEMMA PairNext ==
    ASSUME PairParts, StoreAssumption, [ReplicasNext]_replicaVars
    PROVE  PairParts'
<1>1. CASE UNCHANGED replicaVars
  <2>1. UNCHANGED <<log, seen, budget, queue, worker, conns, late, server, process,
                    elects, lease, other, lagged>>
    BY <1>1 DEF replicaVars, vars
  <2>2. TypeOK'
    BY <2>1 DEF PairParts, TypeOK, StoreTypeOK, WorkerTypeOK, Copy
  <2>3. O!TypeOK'
    BY <2>1 DEF PairParts, O!TypeOK, O!StoreTypeOK, O!WorkerTypeOK, O!Copy
  <2> QED
    BY <2>1, <2>2, <2>3 DEF PairParts, Shared, Fresh, OtherFresh, Leads, OtherLeads
<1> QED
  BY <1>1, TurnTypes, SwapTypes, AcquireTypes, EndsTypes DEF ReplicasNext

LEMMA PairInvariance == ReplicasSpec => []PairParts
<1>1. ReplicasInit => PairParts
  BY StoreAssumption, PairInit
<1>2. PairParts /\ [ReplicasNext]_replicaVars => PairParts'
  BY StoreAssumption, PairNext
<1> QED
  BY <1>1, <1>2, PTL DEF ReplicasSpec

(***************************************************************************)
(* Both processes keep their types, and neither works without the lease    *)
(* where one is needed, or before it has dialed.                           *)
(***************************************************************************)
THEOREM ReplicasTypeCorrect == ReplicasSpec => []ReplicasTypeOK
<1>1. PairParts => ReplicasTypeOK
  BY PairOfParts DEF PairTypeOK
<1> QED
  BY <1>1, PairInvariance, PTL

-----------------------------------------------------------------------------
(* One leader at a time.                                                   *)

\* What every process is to a leader that is still to come: it has cached
\* nothing and does nothing.
V == INSTANCE ConnectionIntent_proofs
     WITH seen <- [n \in Names |-> 0], queue <- {}, worker <- Idle, process <- "dialing"

\* To others than the process itself, a step without controllers is one of
\* their surroundings, or none.
LEMMA StepsOfOthers ==
    ASSUME Dial \/ Follow \/ Surroundings, UNCHANGED other
    PROVE  [V!Next]_V!vars /\ [O!Next]_O!vars
<1>1. CASE Dial \/ Follow
  <2>1. UNCHANGED <<log, budget, conns, late, server>>
    BY <1>1 DEF Dial, Follow, storeVars, remote
  <2> QED
    BY <2>1 DEF V!vars, O!vars, Idle
<1>2. CASE Outage \/ Recovery \/ \E r \in late : Land(r)
  <2>1. V!Outage \/ V!Recovery \/ \E r \in late : V!Land(r)
    BY <1>2
       DEF Outage, V!Outage, Recovery, V!Recovery, Land, V!Land, V!Spend, Spend, storeVars, V!storeVars,
           outside, V!outside, Served, V!Served, Idle
  <2>2. O!Outage \/ O!Recovery \/ \E r \in late : O!Land(r)
    BY <1>2
       DEF Outage, O!Outage, Recovery, O!Recovery, Land, O!Land, O!Spend, Spend, storeVars, O!storeVars,
           outside, O!outside, Served, O!Served
  <2> QED
    BY <2>1, <2>2 DEF V!Next, V!Rest, V!Surroundings, V!World, O!Next, O!Rest, O!Surroundings, O!World
<1>3. ASSUME NEW n \in Names, User(n) PROVE V!User(n) /\ O!User(n)
  <2>1. V!User(n)
    BY <1>3
       DEF User, V!User, UserCreate, V!UserCreate, UserDelete, V!UserDelete, UserEdit, V!UserEdit,
           Live, V!Live, Spend, V!Spend, Write, V!Write, remote, V!remote, Idle
  <2>2. O!User(n)
    BY <1>3
       DEF User, O!User, UserCreate, O!UserCreate, UserDelete, O!UserDelete, UserEdit, O!UserEdit,
           Live, O!Live, Spend, O!Spend, Write, O!Write, remote, O!remote
  <2> QED
    BY <2>1, <2>2
<1>4. ASSUME NEW n \in Names, StatusWrite(n) PROVE V!StatusWrite(n) /\ O!StatusWrite(n)
  BY <1>4
     DEF StatusWrite, V!StatusWrite, O!StatusWrite, Live, V!Live, O!Live, Spend, V!Spend, O!Spend,
         Write, V!Write, O!Write, remote, V!remote, O!remote, Idle
<1> QED
  BY <1>1, <1>2, <1>3, <1>4
     DEF Surroundings, World, V!Next, V!Rest, V!Surroundings, V!World,
         O!Next, O!Rest, O!Surroundings, O!World

\* What holds of the objects and connections alone.
Kept == Owned /\ Calm /\ NoOrphan

LEMMA VacantIInv == TypeOK => (V!IInv <=> Kept)
<1>0. ASSUME TypeOK, NEW n \in Names PROVE Len(log[n]) \in Nat
  BY <1>0 DEF TypeOK, StoreTypeOK
<1> USE DEF V!Idle, Idle, V!Version, V!Object, V!Status, V!Budgets, Version, Object, Status, Budgets
<1>1. TypeOK => V!TypeOK
  <2>1. TypeOK => V!StoreTypeOK
    <3>1. \A n \in Names : [m \in Names |-> 0][n] = 0
      OBVIOUS
    <3>2. [m \in Names |-> 0] \in [Names -> Nat]
      OBVIOUS
    <3> QED
      BY <1>0, <3>1, <3>2 DEF TypeOK, StoreTypeOK, V!StoreTypeOK
  <2> QED
    BY <2>1 DEF TypeOK, V!TypeOK, V!WorkerTypeOK, V!Request, Request, V!Calling, Calling
<1>2. V!ConnectReadable /\ V!DisconnectReadable /\ V!WorkerKnows
  BY DEF V!ConnectReadable, V!DisconnectReadable, V!WorkerKnows, V!Readable
<1>3. (V!Owned <=> Owned) /\ (V!Calm <=> Calm) /\ (V!NoOrphan <=> NoOrphan)
  BY DEF V!Owned, Owned, V!Calm, Calm, V!NoOrphan, NoOrphan, V!Live, Live
<1> QED
  BY <1>1, <1>2, <1>3 DEF V!IInv, Kept

LedParts ==
    Led => /\ Kept
           /\ lease = "this" => IInv
           /\ lease = "other" => O!IInv

LEMMA LedTurn ==
    ASSUME PairParts, LedParts, StoreAssumption, ControllerAssumption, Turn
    PROVE  LedParts'
<1>1. TypeOK /\ TypeOK' /\ UNCHANGED <<elects, lease, other, lagged>>
  BY TurnLog, TurnSteps DEF PairParts
<1> SUFFICES ASSUME Led
             PROVE  Kept' /\ (lease = "this" => IInv') /\ (lease = "other" => O!IInv')
  BY <1>1 DEF LedParts, Led
<1>2. CASE lease = "this"
  <2>1. Next
    BY <1>2, TurnSteps DEF Leads, Next, Rest
  <2>2. IInv'
    BY <1>2, <2>1, IInvNext DEF LedParts
  <2> QED
    BY <1>2, <2>2 DEF IInv, Kept
<1>3. CASE lease # "this"
  <2>1. Dial \/ Follow \/ Surroundings
    BY <1>3, TurnSteps DEF Leads, Led
  <2>2. [V!Next]_V!vars /\ [O!Next]_O!vars
    BY <1>1, <2>1, StepsOfOthers
  <2>3. V!StoreAssumption /\ O!StoreAssumption /\ V!ControllerAssumption /\ O!ControllerAssumption
    BY DEF V!StoreAssumption, O!StoreAssumption, StoreAssumption,
           V!ControllerAssumption, O!ControllerAssumption, ControllerAssumption,
           V!Object, V!Status, V!Budgets, O!Object, O!Status, O!Budgets, Object, Status, Budgets
  <2>4. V!IInv
    BY <1>1, VacantIInv DEF LedParts
  <2>5. V!IInv'
    BY <2>2, <2>3, <2>4, V!IInvNext
  <2>6. (TypeOK => (V!IInv <=> Kept))'
    BY VacantIInv, PTL
  <2>7. lease = "other" => O!IInv'
    BY <2>2, <2>3, O!IInvNext DEF LedParts
  <2> QED
    BY <1>1, <1>3, <2>5, <2>6, <2>7
<1> QED
  BY <1>2, <1>3

LEMMA LedSwap ==
    ASSUME PairParts, LedParts, Swap
    PROVE  LedParts'
<1>0. Shared
  BY DEF PairParts
<1>1. PairParts'
  BY SwapTypes
<1>2. Kept => Kept'
  BY <1>0, SwapFacts DEF Kept, Owned, Calm, NoOrphan, Live
<1>3. O!IInv => IInv'
  <2>1. O!ConnectReadable => ConnectReadable'
    BY <1>0, SwapFacts DEF O!ConnectReadable, ConnectReadable, O!Readable, Readable, O!Live, Live
  <2>2. O!DisconnectReadable => DisconnectReadable'
    BY <1>0, SwapFacts
       DEF O!DisconnectReadable, DisconnectReadable, O!Readable, Readable, O!Live, Live, O!Wanted, Wanted
  <2>3. O!WorkerKnows => WorkerKnows'
    <3>1. Copy' = O!Copy /\ (\A n : Live(n)' = O!Live(n) /\ (Wanted(n)' <=> O!Wanted(n)))
      BY <1>0, SwapFacts DEF O!Copy, Copy, O!Live, Live, O!Wanted, Wanted
    <3> QED
      BY <1>0, <3>1, SwapFacts DEF O!WorkerKnows, WorkerKnows
  <2>4. O!Owned /\ O!Calm /\ O!NoOrphan => Kept'
    BY <1>0, SwapFacts
       DEF Kept, O!Owned, Owned, O!Calm, Calm, O!NoOrphan, NoOrphan, O!Live, Live
  <2> QED
    BY <1>1, <2>1, <2>2, <2>3, <2>4 DEF PairParts, O!IInv, IInv, Kept
<1>4. IInv => O!IInv'
  <2>1. ConnectReadable => O!ConnectReadable'
    BY <1>0, SwapFacts DEF O!ConnectReadable, ConnectReadable, O!Readable, Readable, O!Live, Live
  <2>2. DisconnectReadable => O!DisconnectReadable'
    BY <1>0, SwapFacts
       DEF O!DisconnectReadable, DisconnectReadable, O!Readable, Readable, O!Live, Live, O!Wanted, Wanted
  <2>3. WorkerKnows => O!WorkerKnows'
    <3>1. O!Copy' = Copy /\ (\A n : O!Live(n)' = Live(n) /\ (O!Wanted(n)' <=> Wanted(n)))
      BY <1>0, SwapFacts DEF O!Copy, Copy, O!Live, Live, O!Wanted, Wanted
    <3> QED
      BY <1>0, <3>1, SwapFacts DEF O!WorkerKnows, WorkerKnows
  <2>4. Owned /\ Calm /\ NoOrphan => O!Owned' /\ O!Calm' /\ O!NoOrphan'
    BY <1>0, SwapFacts
       DEF O!Owned, Owned, O!Calm, Calm, O!NoOrphan, NoOrphan, O!Live, Live
  <2> QED
    BY <1>1, <2>1, <2>2, <2>3, <2>4 DEF PairParts, O!IInv, IInv
<1> QED
  BY <1>0, <1>2, <1>3, <1>4, SwapFacts DEF LedParts, Led

\* A leader that begins with what is newest has nothing stale to read.
LEMMA LedAcquire ==
    ASSUME PairParts, LedParts, Acquire
    PROVE  LedParts'
<1>1. /\ UNCHANGED <<log, seen, budget, worker, conns, late, server, process, elects, other>>
      /\ lease' = "this" /\ lease = "none" /\ elects
      /\ lagged' = (lagged \/ \E n \in Names : 0 < seen[n] /\ seen[n] < Len(log[n]))
  BY DEF Acquire, storeVars, remote
<1> SUFFICES ASSUME Led' PROVE Kept' /\ IInv'
  BY <1>1 DEF LedParts
<1>2. Led /\ \A n \in Names : ~(0 < seen[n] /\ seen[n] < Len(log[n]))
  BY <1>1 DEF Led, PairParts, Shared
<1>3. worker = Idle /\ TypeOK
  BY <1>1 DEF PairParts, Leads
<1>4. Kept'
  BY <1>1, <1>2 DEF LedParts, Kept, Owned, Calm, NoOrphan, Live
<1>5. TypeOK'
  BY AcquireTypes DEF PairParts
<1>6. ASSUME NEW n \in Names, NEW k \in 1..Len(log[n]), Readable(n, k)
      PROVE  log[n][k] = Live(n)
  <2>1. k = Len(log[n])
    BY <1>2, <1>3, <1>6 DEF Readable, TypeOK, StoreTypeOK
  <2> QED
    BY <2>1 DEF Live
<1>7. ConnectReadable /\ DisconnectReadable
  <2>1. ConnectReadable
    BY <1>6 DEF ConnectReadable, Readable
  <2>2. DisconnectReadable
    BY <1>6 DEF DisconnectReadable, Readable, Wanted
  <2> QED
    BY <2>1, <2>2
<1>8. ConnectReadable' /\ DisconnectReadable'
  BY <1>1, <1>7 DEF ConnectReadable, DisconnectReadable, Readable, Live, Wanted
<1>9. WorkerKnows'
  BY <1>1, <1>3, IdleKnows
<1> QED
  BY <1>4, <1>5, <1>8, <1>9 DEF IInv, Kept

LEMMA LedEnds ==
    ASSUME PairParts, LedParts, StoreAssumption, Ends
    PROVE  LedParts'
<1>1. /\ UNCHANGED <<log, conns, late, other, elects, lagged>>
      /\ lease' = IF lease = "this" THEN "none" ELSE lease
      /\ Spend("crash")
  BY DEF Ends, Crash
<1>2. PairParts'
  BY EndsTypes
<1>3. \A b \in Budgets \ {"crash"} : budget'[b] = budget[b]
  BY <1>1 DEF Spend, PairParts, TypeOK, StoreTypeOK
<1>4. Kept => Kept'
  BY <1>1, <1>3 DEF Kept, Owned, Calm, NoOrphan, Live, Budgets
<1>5. O!IInv => O!IInv'
  <2>1. O!Owned /\ O!Calm /\ O!NoOrphan => O!Owned' /\ O!Calm' /\ O!NoOrphan'
    BY <1>1, <1>3 DEF O!Owned, O!Calm, O!NoOrphan, O!Live, Budgets
  <2>2. /\ O!ConnectReadable => O!ConnectReadable'
        /\ O!DisconnectReadable => O!DisconnectReadable'
        /\ O!WorkerKnows => O!WorkerKnows'
    BY <1>1 DEF O!ConnectReadable, O!DisconnectReadable, O!WorkerKnows, O!Readable, O!Live,
                O!Wanted, O!Copy
  <2> QED
    BY <1>2, <2>1, <2>2 DEF PairParts, O!IInv
<1> QED
  BY <1>1, <1>4, <1>5 DEF LedParts, Led

(***************************************************************************)
(* With leader election and no leader that began behind, what the leader   *)
(* has read and has in hand is as it is for one process alone.             *)
(***************************************************************************)
THEOREM LedInvariance == ASSUME CalmLimit PROVE ReplicasSpec => []LedIInv
<1> DEFINE Inv == PairParts /\ LedParts
<1>1. ReplicasInit => Inv
  <2>1. ReplicasInit => PairParts /\ IInv /\ lease = "none"
    BY StoreAssumption, PairInit, IInvInit DEF ReplicasInit
  <2> QED
    BY <2>1 DEF LedParts, IInv, Kept
<1>2. Inv /\ [ReplicasNext]_replicaVars => Inv'
  <2> SUFFICES ASSUME PairParts, LedParts, [ReplicasNext]_replicaVars PROVE Inv'
    OBVIOUS
  <2>1. PairParts'
    BY StoreAssumption, PairNext
  <2>2. CASE UNCHANGED replicaVars
    <3>1. UNCHANGED <<log, seen, budget, queue, worker, conns, late, elects, lease, other, lagged>>
      BY <2>2 DEF replicaVars, vars
    <3>2. Kept => Kept'
      BY <3>1 DEF Kept, Owned, Calm, NoOrphan, Live
    <3>3. ConnectReadable /\ DisconnectReadable => ConnectReadable' /\ DisconnectReadable'
      BY <3>1 DEF ConnectReadable, DisconnectReadable, Readable, Live, Wanted
    <3>4. WorkerKnows => WorkerKnows'
      BY <3>1 DEF WorkerKnows, Live, Wanted, Copy
    <3>5. O!ConnectReadable /\ O!DisconnectReadable => O!ConnectReadable' /\ O!DisconnectReadable'
      BY <3>1 DEF O!ConnectReadable, O!DisconnectReadable, O!Readable, O!Live, O!Wanted
    <3>6. O!WorkerKnows => O!WorkerKnows'
      BY <3>1 DEF O!WorkerKnows, O!Live, O!Wanted, O!Copy
    <3>7. O!Owned /\ O!Calm /\ O!NoOrphan => O!Owned' /\ O!Calm' /\ O!NoOrphan'
      BY <3>1 DEF O!Owned, O!Calm, O!NoOrphan, O!Live
    <3>8. (IInv => IInv') /\ (O!IInv => O!IInv')
      BY <2>1, <3>2, <3>3, <3>4, <3>5, <3>6, <3>7 DEF PairParts, IInv, O!IInv, Kept
    <3> QED
      BY <2>1, <3>1, <3>2, <3>8 DEF LedParts, Led
  <2> QED
    BY <2>1, <2>2, StoreAssumption, ControllerAssumption, LedTurn, LedSwap, LedAcquire, LedEnds
       DEF ReplicasNext
<1>3. Inv => LedIInv
  BY PairOfParts, OneOther DEF LedIInv, LedParts, Kept
<1> HIDE DEF Inv
<1> QED
  BY <1>1, <1>2, <1>3, PTL DEF ReplicasSpec

(***************************************************************************)
(* No change of leader leaves a connection behind, whatever the last one   *)
(* was doing.                                                              *)
(***************************************************************************)
THEOREM ReplicasNeverOrphan == ASSUME CalmLimit PROVE ReplicasSpec => []NoOrphanIfLed
<1>1. LedIInv => NoOrphanIfLed
  BY DEF LedIInv, NoOrphanIfLed
<1> QED
  BY <1>1, LedInvariance, PTL

\* Only a leader closes connections, and it does so with what IInv says of it.
LEMMA LedService ==
    ASSUME LedIInv, StoreAssumption, DisjointUse, Led, [ReplicasNext]_replicaVars,
           NEW n \in Names, Wanted(n), Live(n).id \in conns
    PROVE  Live(n).id \in conns'
<1>1. CASE Turn /\ lease = "this"
  <2>1. Next /\ IInv
    BY <1>1, TurnSteps DEF Leads, Next, Rest, LedIInv
  <2> QED
    BY <2>1, ServiceStep
<1>2. CASE Turn /\ lease # "this"
  <2>1. Dial \/ Follow \/ Surroundings
    BY <1>2, TurnSteps DEF Leads, Led
  <2>2. late = {}
    BY DEF LedIInv, Calm
  <2> QED
    BY <2>1, <2>2
       DEF Dial, Follow, Surroundings, World, Outage, Recovery, User, StatusWrite, remote
<1>3. CASE Swap \/ Acquire \/ Ends \/ UNCHANGED replicaVars
  BY <1>3 DEF Swap, Acquire, Ends, Crash, remote, replicaVars, vars
<1> QED
  BY <1>1, <1>2, <1>3 DEF ReplicasNext

(***************************************************************************)
(* No change of leader closes the connection of an object that nobody is   *)
(* deleting.                                                               *)
(***************************************************************************)
THEOREM ReplicasNeverInterrupt ==
    ASSUME CalmLimit, DisjointUse PROVE ReplicasSpec => ServiceKeptIfLed
<1> DEFINE Step == Led => \A n \in Names :
                              Wanted(n) /\ Live(n).id \in conns => Live(n).id \in conns'
<1>1. LedIInv /\ [ReplicasNext]_replicaVars => [Step]_replicaVars
  BY StoreAssumption, LedService
<1>2. ReplicasSpec => []LedIInv
  BY LedInvariance
<1> QED
  BY <1>1, <1>2, PTL DEF ReplicasSpec, ServiceKeptIfLed

-----------------------------------------------------------------------------
(* The user's intent, with one leader or two.                              *)

Calmed == Calm /\ "relist" \notin Free /\ budget["relist"] = 0

IntentParts ==
    /\ PairParts /\ LogIInv /\ Calmed
    /\ CopyInHand /\ O!CopyInHand
    /\ Leads => DeletionPending
    /\ OtherLeads => O!DeletionPending
    /\ PairPending

\* What the two have in common, in the terms of the lemmas about the other.
LEMMA SameLog ==
    /\ LogIInv /\ O!TypeOK => O!LogIInv
    /\ O!Wrote <=> Wrote
    /\ O!StoreAssumption /\ O!ControllerAssumption
    /\ \A n : O!Live(n) = Live(n)
<1>1. LogIInv /\ O!TypeOK => O!LogIInv
  BY DEF LogIInv, O!LogIInv, DeletesGuarded, O!DeletesGuarded, Owned, O!Owned,
         DeletionLasts, O!DeletionLasts, IdLasts, O!IdLasts
<1>2. O!Wrote <=> Wrote
  BY DEF O!Wrote, Wrote, O!Plain, Plain, O!Guarded, Guarded, O!Write, Write, O!Live, Live,
         O!Version, Version, O!Object, Object, O!Status, Status
<1>3. O!StoreAssumption /\ O!ControllerAssumption
  BY StoreAssumption, ControllerAssumption
     DEF O!StoreAssumption, StoreAssumption, O!Object, O!Status, O!Budgets, Object, Status, Budgets,
         O!ControllerAssumption, ControllerAssumption
<1> QED
  BY <1>1, <1>2, <1>3 DEF O!Live, Live

\* What every turn does to the objects, and what it cannot do any more.
LEMMA TurnWrites ==
    ASSUME TypeOK, LogIInv, CopyInHand, Calmed, StoreAssumption, Turn
    PROVE  Wrote /\ LogIInv' /\ Calmed'
<1>1. TypeOK'
  BY TurnLog
<1>2. CASE Next
  BY <1>1, <1>2, StepWrites, LogNext, CalmNext DEF Calmed
<1>3. CASE Follow
  <2>1. UNCHANGED <<log, budget, late>>
    BY <1>3 DEF Follow, remote
  <2>2. Wrote
    BY <2>1 DEF Wrote
  <2> QED
    BY <1>1, <2>1, <2>2, LogNext DEF Calmed, Calm
<1> QED
  BY <1>2, <1>3, TurnSteps

\* A turn of a process that does not lead leaves the connections alone.
LEMMA TurnOfFollower ==
    ASSUME Calmed, Turn, ~Leads
    PROVE  UNCHANGED conns
BY TurnSteps
   DEF Dial, Follow, Surroundings, World, Outage, Recovery, Land, User, StatusWrite, remote, Calmed, Calm

LEMMA IntentTurn ==
    ASSUME IntentParts, StoreAssumption, DisjointUse, Turn
    PROVE  IntentParts'
<1>1. /\ PairParts /\ TypeOK /\ LogIInv /\ Calmed /\ CopyInHand /\ O!CopyInHand /\ O!TypeOK
      /\ O!LogIInv /\ O!StoreAssumption /\ O!ControllerAssumption
  BY SameLog DEF IntentParts, PairParts
<1>2. PairParts' /\ UNCHANGED <<elects, lease, other, lagged>>
  BY <1>1, TurnTypes, TurnSteps
<1>3. (Leads' <=> Leads) /\ (OtherLeads' <=> OtherLeads)
  BY <1>2 DEF Leads, OtherLeads
<1>4. Wrote /\ LogIInv' /\ Calmed' /\ O!Wrote
  BY <1>1, TurnWrites, SameLog
<1>5. UNCHANGED <<other.seen, other.queue, other.worker>>
  BY <1>2
<1>6. Leads => CopyInHand' /\ (\A m \in Names : Followed(m)) /\ DeletionPending'
  <2> SUFFICES ASSUME Leads PROVE CopyInHand' /\ (\A m \in Names : Followed(m)) /\ DeletionPending'
    OBVIOUS
  <2>1. Next
    BY TurnSteps DEF Next, Rest
  <2>2. DeletionIInv
    BY <1>1 DEF IntentParts, DeletionIInv, LogIInv
  <2>3. DeletionPending'
    BY <2>1, <2>2, DeletionNext DEF DeletionIInv
  <2> QED
    BY <1>1, <2>1, <2>3, StepFollowed DEF Calmed
<1>7. CopyInHand'
  <2>1. CASE ~Leads
    <3>1. worker' = Idle
      BY <1>2, <1>3, <2>1 DEF PairParts
    <3> QED
      BY <3>1 DEF CopyInHand, Idle
  <2> QED
    BY <1>6, <2>1
<1>8. O!CopyInHand'
  BY <1>1, <1>4, <1>5, O!ForeignHand
<1>9. OtherLeads => O!DeletionPending'
  BY <1>1, <1>4, <1>5, O!ForeignDeletion DEF IntentParts
<1>10. ASSUME NEW m \in Names, O!Steady(m)'
       PROVE  O!Steady(m) /\ Live(m)'.id = Live(m).id
  <2>1. O!Steady(m) /\ O!Live(m)'.id = O!Live(m).id
    BY <1>1, <1>4, <1>5, <1>10, O!StillSteady
  <2> QED
    BY <2>1 DEF O!Live, Live
<1>11. \A m \in Names : O!Waits(m)' <=> O!Waits(m)
  BY <1>5 DEF O!Waits, O!At
<1>12. ASSUME NEW m \in Names, Leads \/ OtherLeads, Leads => Steady(m)', OtherLeads => O!Steady(m)'
       PROVE  Waits(m)' \/ O!Waits(m)' \/ (Live(m).id \in conns' /\ Live(m)'.id = Live(m).id)
  <2>1. CASE Leads /\ ~Waits(m)'
    <3>1. /\ Steady(m) /\ Live(m)'.id = Live(m).id
          /\ Waits(m) \/ Live(m).id \in conns => Waits(m)' \/ Live(m).id \in conns'
      BY <1>6, <1>12, <2>1 DEF Followed
    <3>2. Waits(m) \/ O!Waits(m) \/ Live(m).id \in conns
      BY <1>10, <1>12, <2>1, <3>1, OneOther DEF IntentParts, PairPending
    <3> QED
      BY <1>11, <3>1, <3>2
  <2>2. CASE ~Leads
    <3>1. O!Steady(m) /\ Live(m)'.id = Live(m).id /\ OtherLeads
      BY <1>10, <1>12, <2>2
    <3>2. Waits(m) \/ O!Waits(m) \/ Live(m).id \in conns
      BY <2>2, <3>1, OneOther DEF IntentParts, PairPending
    <3>3. ~Waits(m)
      BY <1>1, <2>2 DEF PairParts, Waits, At, Idle
    <3>4. conns' = conns
      BY <1>1, <2>2, TurnOfFollower
    <3> QED
      BY <1>11, <3>1, <3>2, <3>3, <3>4
  <2> QED
    BY <2>1, <2>2
<1>13. PairPending'
  <2>1. (\A n : (Other!Waits(n) <=> O!Waits(n)) /\ (Other!Steady(n) <=> O!Steady(n)))'
    BY OneOther, PTL
  <2>2. ASSUME NEW m \in Names, Leads' \/ OtherLeads', Leads' => Steady(m)',
               OtherLeads' => Other!Steady(m)'
        PROVE  Waits(m)' \/ Other!Waits(m)' \/ Live(m)'.id \in conns'
    BY <1>3, <1>12, <2>1, <2>2
  <2> QED
    BY <2>2 DEF PairPending
<1> QED
  BY <1>2, <1>3, <1>4, <1>6, <1>7, <1>8, <1>9, <1>13 DEF IntentParts

LEMMA LogSame == ASSUME LogIInv, TypeOK', UNCHANGED log PROVE LogIInv'
BY DEF LogIInv, DeletesGuarded, Owned, DeletionLasts, IdLasts

LEMMA IntentSwap ==
    ASSUME IntentParts, Swap
    PROVE  IntentParts'
<1>0. Shared /\ PairParts
  BY DEF IntentParts, PairParts
<1>1. PairParts'
  BY <1>0, SwapTypes
<1>2. LogIInv'
  <2>1. log' = log /\ TypeOK'
    BY <1>0, <1>1, SwapFacts DEF PairParts
  <2> QED
    BY <2>1, LogSame DEF IntentParts
<1>3. Calmed'
  BY <1>0, SwapFacts DEF IntentParts, Calmed, Calm
<1>4. \A n : /\ Steady(n)' <=> O!Steady(n)
             /\ O!Steady(n)' <=> Steady(n)
             /\ Waits(n)' <=> O!Waits(n)
             /\ O!Waits(n)' <=> Waits(n)
             /\ Live(n)' = Live(n)
  <2>1. \A n, k : (SteadyFrom(n, k)' <=> SteadyFrom(n, k)) /\ (O!SteadyFrom(n, k) <=> SteadyFrom(n, k))
    BY <1>0, SwapFacts DEF SteadyFrom, O!SteadyFrom
  <2> QED
    BY <1>0, <2>1, SwapFacts DEF Steady, O!Steady, SteadyFrom, O!SteadyFrom, Waits, O!Waits, At, O!At, Live
<1>5. CopyInHand' /\ O!CopyInHand'
  <2>1. Copy' = O!Copy /\ O!Copy' = Copy
    BY <1>0, SwapFacts DEF Copy, O!Copy
  <2>2. \A n, k : (SteadyFrom(n, k)' <=> O!SteadyFrom(n, k)) /\ (O!SteadyFrom(n, k)' <=> SteadyFrom(n, k))
    BY <1>0, SwapFacts DEF SteadyFrom, O!SteadyFrom
  <2>3. CopyInHand /\ O!CopyInHand
    BY DEF IntentParts
  <2>4. CopyInHand'
    BY <1>0, <1>4, <2>1, <2>2, <2>3, SwapFacts DEF CopyInHand, O!CopyInHand
  <2>5. O!CopyInHand'
    BY <1>0, <1>4, <2>1, <2>2, <2>3, SwapFacts DEF CopyInHand, O!CopyInHand
  <2> QED
    BY <2>4, <2>5
<1>6. (O!DeletionPending => DeletionPending') /\ (DeletionPending => O!DeletionPending')
  BY <1>0, SwapFacts DEF DeletionPending, O!DeletionPending, Live, O!Live, At, O!At
<1>7. PairPending'
  <2>1. (\A n : (Other!Waits(n) <=> O!Waits(n)) /\ (Other!Steady(n) <=> O!Steady(n)))'
    BY OneOther, PTL
  <2>2. (Leads' <=> OtherLeads) /\ (OtherLeads' <=> Leads) /\ conns' = conns
    BY <1>0, SwapFacts
  <2> QED
    BY <1>4, <2>1, <2>2, OneOther DEF IntentParts, PairPending
<1> QED
  BY <1>0, <1>1, <1>2, <1>3, <1>5, <1>6, <1>7, SwapFacts DEF IntentParts

\* A new leader queues all that it has cached.
LEMMA IntentAcquire ==
    ASSUME IntentParts, Acquire
    PROVE  IntentParts'
<1>0. TypeOK /\ PairParts
  BY DEF IntentParts, PairParts
<1>1. /\ UNCHANGED <<log, seen, budget, worker, conns, late, server, process, elects, other>>
      /\ lease' = "this" /\ lease = "none" /\ elects
      /\ queue' = {n \in Names : Cached(n) # NoObj}
  BY DEF Acquire, storeVars, remote
<1>2. PairParts' /\ worker = Idle
  BY <1>0, <1>1, AcquireTypes DEF PairParts, Leads
<1>3. LogIInv'
  <2>1. log' = log /\ TypeOK'
    BY <1>1, <1>2 DEF PairParts
  <2> QED
    BY <2>1, LogSame DEF IntentParts
<1>4. Calmed' /\ Leads' /\ ~OtherLeads'
  BY <1>1 DEF IntentParts, Calmed, Calm, Leads, OtherLeads
<1>5. CopyInHand' /\ O!CopyInHand'
  <2>1. O!CopyInHand
    BY DEF IntentParts
  <2>2. O!CopyInHand'
    BY <1>1, <2>1 DEF O!CopyInHand, O!Copy, O!Steady, O!SteadyFrom
  <2> QED
    BY <1>1, <1>2, <2>2 DEF CopyInHand, Idle
<1>6. \A n \in Names : seen[n] = Len(log[n]) /\ Live(n) # NoObj => n \in queue'
  BY <1>0, <1>1, ObjectTypes, StoreAssumption DEF Cached, Live
<1>7. DeletionPending'
  BY <1>1, <1>6 DEF DeletionPending, Live
<1>8. ASSUME NEW n \in Names, Steady(n) PROVE n \in queue'
  <2>1. seen[n] > 0 /\ seen[n] \in seen[n]..Len(log[n])
    BY <1>0, <1>8 DEF Steady, SteadyFrom, TypeOK, StoreTypeOK
  <2> QED
    BY <1>1, <1>8, <2>1 DEF Steady, SteadyFrom, Cached
<1>9. PairPending'
  <2>1. \A n \in Names : Steady(n)' => Steady(n)
    BY <1>1 DEF Steady, SteadyFrom
  <2> QED
    BY <1>4, <1>8, <2>1 DEF PairPending, Waits
<1> QED
  BY <1>2, <1>3, <1>4, <1>5, <1>7, <1>9 DEF IntentParts

LEMMA IntentEnds ==
    ASSUME IntentParts, StoreAssumption, Ends
    PROVE  IntentParts'
<1>0. TypeOK /\ PairParts
  BY DEF IntentParts, PairParts
<1>1. /\ UNCHANGED <<log, conns, late, other, elects, lagged>>
      /\ lease' = IF lease = "this" THEN "none" ELSE lease
      /\ Spend("crash") /\ worker' = Idle /\ \A n \in Names : seen'[n] = 0
  BY DEF Ends, Crash
<1>2. PairParts'
  BY <1>0, EndsTypes
<1>3. budget'["relist"] = budget["relist"] /\ budget'["edit"] = budget["edit"]
      /\ budget'["late"] = budget["late"]
  BY <1>0, <1>1 DEF Spend, TypeOK, StoreTypeOK, Budgets
<1>4. LogIInv' /\ Calmed'
  <2>1. log' = log /\ TypeOK' /\ LogIInv /\ Calmed
    BY <1>1, <1>2 DEF IntentParts, PairParts
  <2> QED
    BY <1>1, <1>3, <2>1, LogSame DEF Calmed, Calm
<1>5. CopyInHand' /\ O!CopyInHand'
  <2>1. O!CopyInHand
    BY DEF IntentParts
  <2>2. O!CopyInHand'
    BY <1>1, <2>1 DEF O!CopyInHand, O!Copy, O!Steady, O!SteadyFrom
  <2> QED
    BY <1>1, <2>2 DEF CopyInHand, Idle
<1>6. DeletionPending' /\ (O!DeletionPending => O!DeletionPending')
  <2>1. \A n \in Names : Len(log'[n]) # 0
    BY <1>0, <1>1, ObjectTypes
  <2> QED
    BY <1>1, <2>1 DEF DeletionPending, O!DeletionPending, O!Live, O!At
<1>7. (OtherLeads' <=> OtherLeads) /\ (Leads' => ~elects)
  BY <1>0, <1>1 DEF Leads, OtherLeads, PairParts, Shared
<1>8. PairPending'
  <2>1. (\A n : (Other!Waits(n) <=> O!Waits(n)) /\ (Other!Steady(n) <=> O!Steady(n)))'
    BY OneOther, PTL
  <2>2. ASSUME NEW n \in Names, Leads' \/ OtherLeads', Leads' => Steady(n)', OtherLeads' => O!Steady(n)'
        PROVE  O!Waits(n)' \/ Live(n)'.id \in conns'
    <3>1. ~Steady(n)'
      BY <1>1 DEF Steady, SteadyFrom
    <3>2. ~Leads' /\ OtherLeads /\ elects
      <4>1. ~Leads' /\ OtherLeads
        BY <1>7, <2>2, <3>1
      <4> QED
        BY <1>1, <4>1 DEF Leads
    <3>3. ~Leads /\ lease = "other"
      BY <3>2 DEF Leads, OtherLeads
    <3>4. O!Steady(n) /\ ~Waits(n)
      BY <1>0, <1>1, <2>2, <3>2, <3>3 DEF O!Steady, O!SteadyFrom, PairParts, Waits, At, Idle, OtherLeads
    <3>5. O!Waits(n) \/ Live(n).id \in conns
      BY <3>2, <3>3, <3>4, OneOther DEF IntentParts, PairPending
    <3> QED
      BY <1>1, <3>5 DEF O!Waits, O!At, Live
  <2> QED
    BY <2>1, <2>2 DEF PairPending
<1> QED
  BY <1>2, <1>4, <1>5, <1>6, <1>7, <1>8 DEF IntentParts

LEMMA IntentRests ==
    ASSUME IntentParts, UNCHANGED replicaVars
    PROVE  IntentParts'
<1>1. UNCHANGED <<log, seen, budget, queue, worker, conns, late, server, process,
                  elects, lease, other, lagged>>
  BY DEF replicaVars, vars
<1>2. PairParts'
  BY StoreAssumption, PairNext DEF IntentParts
<1>3. LogIInv'
  <2>1. log' = log /\ TypeOK'
    BY <1>1, <1>2 DEF PairParts
  <2> QED
    BY <2>1, LogSame DEF IntentParts
<1>4. Calmed' /\ (Leads' <=> Leads) /\ (OtherLeads' <=> OtherLeads)
  BY <1>1 DEF IntentParts, Calmed, Calm, Leads, OtherLeads
<1>5. CopyInHand' /\ O!CopyInHand'
  BY <1>1 DEF IntentParts, CopyInHand, Copy, Steady, SteadyFrom,
              O!CopyInHand, O!Copy, O!Steady, O!SteadyFrom
<1>6. (DeletionPending => DeletionPending') /\ (O!DeletionPending => O!DeletionPending')
  BY <1>1 DEF DeletionPending, Live, At, O!DeletionPending, O!Live, O!At
<1>7. PairPending'
  BY <1>1, <1>4 DEF IntentParts, PairPending, Steady, SteadyFrom, Waits, At, Live,
                    Other!Steady, Other!SteadyFrom, Other!Waits, Other!At
<1> QED
  BY <1>2, <1>3, <1>4, <1>5, <1>6, <1>7 DEF IntentParts

(***************************************************************************)
(* What the caches of the leaders show as wanted is connected or waits in  *)
(* one of them, and a delete in the cache of a leader waits in that one:   *)
(* with one leader or two, with rollouts in whatever step, and with        *)
(* takeovers from a cache that is behind.                                  *)
(***************************************************************************)
THEOREM PairInvariant ==
    ASSUME CalmLimit, WatchesLast, DisjointUse PROVE ReplicasSpec => []PairIInv
<1>1. ReplicasInit => IntentParts
  <2> SUFFICES ASSUME ReplicasInit PROVE IntentParts
    OBVIOUS
  <2>1. PairParts /\ IntentIInv
    BY StoreAssumption, PairInit, IntentInit DEF ReplicasInit
  <2>2. O!CopyInHand /\ O!DeletionPending
    <3>1. other.worker = Idle /\ \A n \in Names : other.seen[n] = 0 /\ Len(log[n]) # 0
      BY DEF ReplicasInit, Unstarted, Init, StoreInit
    <3> QED
      BY <3>1 DEF O!CopyInHand, O!DeletionPending, Idle
  <2>3. PairPending
    <3>1. \A n \in Names : seen[n] = 0 /\ other.seen[n] = 0
      BY DEF ReplicasInit, Unstarted, Init, StoreInit
    <3> QED
      BY <3>1 DEF PairPending, Steady, SteadyFrom, Other!Steady, Other!SteadyFrom
  <2> QED
    BY <2>1, <2>2, <2>3 DEF IntentIInv, DeletionIInv, IntentParts, LogIInv, Calmed
<1>2. IntentParts /\ [ReplicasNext]_replicaVars => IntentParts'
  BY StoreAssumption, IntentTurn, IntentSwap, IntentAcquire, IntentEnds, IntentRests
     DEF ReplicasNext
<1>3. IntentParts => PairIInv
  BY PairOfParts, OneOther DEF IntentParts, PairIInv, LogIInv, Calmed
<1> QED
  BY <1>1, <1>2, <1>3, PTL DEF ReplicasSpec

(***************************************************************************)
(* When every process whose controllers run has nothing left to do for an  *)
(* object, the object is connected or gone.                                *)
(***************************************************************************)
THEOREM ReplicasServeIntent ==
    ASSUME CalmLimit, WatchesLast, DisjointUse PROVE ReplicasSpec => []IntentKeptByAll
<1>1. PairIInv => IntentKeptByAll
  <2> SUFFICES ASSUME PairIInv, NEW n \in Names, Leads, Quiet(n), elects \/ Other!Quiet(n),
                      Live(n) # NoObj
               PROVE  Wanted(n) /\ Live(n).id \in conns
    BY DEF IntentKeptByAll
  <2>1. TypeOK /\ Shared /\ PairTypeOK
    BY PairOfParts DEF PairIInv, PairParts
  <2>2. /\ seen[n] > 0 /\ seen[n] = Len(log[n]) /\ \A k \in seen[n]..Len(log[n]) : k = Len(log[n])
        /\ n \notin queue /\ \A places : ~At(n, places)
    BY <2>1 DEF TypeOK, StoreTypeOK, Quiet, At
  <2>3. Wanted(n)
    BY <2>2 DEF PairIInv, DeletionPending, Wanted
  <2>4. Steady(n) /\ ~Waits(n)
    BY <2>2, <2>3 DEF Steady, SteadyFrom, Wanted, Live, Waits
  <2>5. CASE elects
    <3>1. ~OtherLeads
      BY <2>5 DEF Leads, OtherLeads
    <3>2. ~Other!Waits(n)
      BY <2>1, <3>1 DEF PairTypeOK, Other!Waits, Other!At, Idle
    <3> QED
      BY <2>3, <2>4, <3>1, <3>2 DEF PairIInv, PairPending
  <2>6. CASE ~elects
    <3>1. other.seen[n] = Len(log[n]) /\ ~Other!Waits(n)
      BY <2>6 DEF Other!Quiet, Other!Waits, Other!At
    <3>2. Other!Steady(n)
      BY <2>2, <2>3, <3>1 DEF Other!Steady, Other!SteadyFrom, Wanted, Live
    <3> QED
      BY <2>3, <2>4, <3>1, <3>2 DEF PairIInv, PairPending
  <2> QED
    BY <2>1, <2>5, <2>6 DEF Shared
<1> QED
  BY <1>1, PairInvariant, PTL
=============================================================================
