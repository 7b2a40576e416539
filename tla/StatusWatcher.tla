----------------------------- MODULE StatusWatcher -----------------------------
(***************************************************************************)
(* WatchStatusUpdates (pkg/connection_status/status_watcher.go): the       *)
(* goroutine that copies the status of the connections at the AWI server   *)
(* to the custom resources that stand for them, every 15 seconds.          *)
(*                                                                         *)
(* A pass asks the server for all connections, then reads the custom       *)
(* resources from the cache, then writes the ones whose status differs,    *)
(* one by one.  All three views age while the pass runs: the server moves  *)
(* on, and the user and the reconciler write the same objects.             *)
(***************************************************************************)
EXTENDS KubeStore

CONSTANTS
    NotServed,  \* stands for the status of a connection the server does not
                \* have, and is none of States
    RecordsId   \* connections record the id in the status, app connections do not

VARIABLES
    reports,  \* reports[i]: the statuses the server has had for i, newest last
    watcher   \* the pass: where it is, the server's answer, and what is left to do

vars == <<log, seen, budget, reports, watcher>>

Now(i) == reports[i][Len(reports[i])]

Waiting == [pc |-> "waiting", answer |-> <<>>, todo |-> <<>>]

\* todo maps a name to the version of it that the pass has read.
Left(todo, n) == [m \in DOMAIN todo \ {n} |-> todo[m]]

-----------------------------------------------------------------------------
(* A pass of the watcher.                                                  *)

\* ListConnections.  When it fails the pass is over.
Ask ==
    /\ watcher.pc = "waiting"
    /\ \/ /\ watcher' = [watcher EXCEPT !.pc = "asked", !.answer = [i \in Ids |-> Now(i)]]
          /\ UNCHANGED budget
       \/ Spend("fault") /\ UNCHANGED watcher
    /\ UNCHANGED <<log, seen, reports>>

\* The list of custom resources.  A cache that has not started yet answers
\* with an error, which ends the pass, like any other failure.
Read ==
    /\ watcher.pc = "asked"
    /\ \/ /\ \A n \in Names : seen[n] > 0
          /\ watcher' = [watcher EXCEPT !.pc = "read", !.todo =
                            [n \in {m \in Names : Cached(m) # NoObj} |-> seen[n]]]
          /\ UNCHANGED budget
       \/ /\ \E n \in Names : seen[n] = 0
          /\ watcher' = Waiting
          /\ UNCHANGED budget
       \/ Spend("fault") /\ watcher' = Waiting
    /\ UNCHANGED <<log, seen, reports>>

\* Mutant of SameStatus: only the id is looked at.
SameId(c, s) == c.st # NoStatus /\ c.st.cid = c.id

SameStatus(c, s) ==
    /\ c.st # NoStatus
    /\ c.st.state = s
    /\ RecordsId => c.st.cid = c.id

\* An object without a connection is left as it is.
Skips(c, s) == s = NotServed \/ SameStatus(c, s)

Stamp(c, s) == [c EXCEPT !.st = [state |-> s, cid |-> c.id]]

\* Mutant of Check: the status is written without a resourceVersion, onto
\* whatever version there is.
CheckForced(n) ==
    /\ watcher.pc = "read"
    /\ n \in DOMAIN watcher.todo
    /\ LET c == log[n][watcher.todo[n]]
           s == watcher.answer[c.id]
           v == [Live(n) EXCEPT !.st = [state |-> s, cid |-> c.id]]
       IN  IF Skips(c, s) \/ Live(n) = NoObj
           THEN UNCHANGED <<log, budget>>
           ELSE \E ok \in BOOLEAN : Update(n, Len(log[n]), v, ok)
    /\ watcher' = [watcher EXCEPT !.todo = Left(@, n)]
    /\ UNCHANGED <<seen, reports>>

\* Mutant of Check: the object is read anew before it is written.
CheckAnew(n) ==
    /\ watcher.pc = "read"
    /\ n \in DOMAIN watcher.todo
    /\ LET s == watcher.answer[log[n][watcher.todo[n]].id]
       IN  IF Live(n) = NoObj \/ Skips(Live(n), s)
           THEN UNCHANGED <<log, budget>>
           ELSE \E ok \in BOOLEAN : Update(n, Len(log[n]), Stamp(Live(n), s), ok)
    /\ watcher' = [watcher EXCEPT !.todo = Left(@, n)]
    /\ UNCHANGED <<seen, reports>>

\* One object of the list.  An Update that fails is left to the next pass.
Check(n) ==
    /\ watcher.pc = "read"
    /\ n \in DOMAIN watcher.todo
    /\ LET rv == watcher.todo[n]
           c == log[n][rv]
           s == watcher.answer[c.id]
       IN  IF Skips(c, s)
           THEN UNCHANGED <<log, budget>>
           ELSE \E ok \in BOOLEAN : Update(n, rv, Stamp(c, s), ok)
    /\ watcher' = [watcher EXCEPT !.todo = Left(@, n)]
    /\ UNCHANGED <<seen, reports>>

Sleep ==
    /\ watcher.pc = "read"
    /\ DOMAIN watcher.todo = {}
    /\ watcher' = Waiting
    /\ UNCHANGED <<log, seen, budget, reports>>

Pass == Ask \/ Read \/ Sleep \/ \E n \in Names : Check(n)

-----------------------------------------------------------------------------
(* What goes on around it.                                                 *)

\* The server makes, changes or drops a connection.
ServerMoves(i) ==
    /\ Spend("move")
    /\ \E s \in (States \cup {NotServed}) \ {Now(i)} :
           reports' = [reports EXCEPT ![i] = Append(@, s)]
    /\ UNCHANGED <<log, seen, watcher>>

\* The reconciler adds its finalizer, or lets go of a deleted object.
Reconciled(n) ==
    /\ Live(n) # NoObj
    /\ \/ ~Live(n).del /\ ~Live(n).fin /\ Write(n, [Live(n) EXCEPT !.fin = TRUE])
       \/ Live(n).del /\ Write(n, NoObj)
    /\ UNCHANGED <<seen, budget, reports, watcher>>

User(n) ==
    /\ UserCreate(n) \/ UserDelete(n) \/ UserEdit(n)
    /\ UNCHANGED <<reports, watcher>>

\* The cache starts, moves on by a watch event, or lists again.
CacheMoves ==
    /\ \/ /\ \A n \in Names : seen[n] = 0
          /\ seen' = [n \in Names |-> Len(log[n])]
       \/ \E n \in Names :
              /\ 0 < seen[n] /\ seen[n] < Len(log[n])
              /\ seen' = [seen EXCEPT ![n] = @ + 1]
    /\ UNCHANGED <<log, budget, reports, watcher>>

Crash ==
    /\ Spend("crash")
    /\ seen' = [n \in Names |-> 0]
    /\ watcher' = Waiting
    /\ UNCHANGED <<log, reports>>

Init ==
    /\ StoreInit
    /\ reports = [i \in Ids |-> <<NotServed>>]
    /\ watcher = Waiting

Next ==
    \/ Pass \/ CacheMoves \/ Crash
    \/ \E n \in Names : User(n) \/ Reconciled(n)
    \/ \E i \in Ids : ServerMoves(i)

Spec == Init /\ [][Next]_vars

\* The ticker ticks, a pass that has begun goes on, and the cache follows.
FairSpec == Spec /\ WF_vars(Pass) /\ WF_vars(CacheMoves)

-----------------------------------------------------------------------------
(* Properties.                                                             *)

\* The types: whatever a pass has still to do is a real object it has read.
TypeOK ==
    /\ StoreTypeOK
    /\ reports \in [Ids -> Seq(States \cup {NotServed})]
    /\ \A i \in Ids : Len(reports[i]) > 0
    /\ DOMAIN watcher = {"pc", "answer", "todo"}
    /\ watcher.pc \in {"waiting", "asked", "read"}
    /\ watcher.pc # "waiting" => watcher.answer \in [Ids -> States \cup {NotServed}]
    /\ DOMAIN watcher.todo \subseteq Names
    /\ \A n \in DOMAIN watcher.todo :
           watcher.todo[n] \in 1..Len(log[n]) /\ log[n][watcher.todo[n]] # NoObj

(***************************************************************************)
(* A status that an object shows is one the server has had for the         *)
(* connection of that object, whoever has written in between.              *)
(***************************************************************************)
Truthful ==
    \A n \in Names : Live(n) # NoObj /\ Live(n).st # NoStatus =>
        \E k \in 1..Len(reports[Live(n).st.cid]) :
            reports[Live(n).st.cid][k] = Live(n).st.state

(***************************************************************************)
(* Once the server and the objects rest, no object shows a status that its *)
(* connection does not have.                                               *)
(***************************************************************************)
StatusActual ==
    <>[](\A n \in Names : Live(n) # NoObj /\ Live(n).st # NoStatus =>
            Live(n).st.state = Now(Live(n).id))
=============================================================================
