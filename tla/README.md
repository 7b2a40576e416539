# Verification of the AWI operator (kube-awi)

TLA+ models of the operator in this repository, model-checked with TLC, and
proved with TLAPS as far as safety goes. Every definition is translated
from the Go source; `PROJECT.json` says from which lines, and lists the hazards,
the runs, the theorems and the places where the code and its documentation part.

## The system

The operator watches two kinds of custom resource written by users and keeps six
other kinds written by itself. One process runs five goroutines that matter:

| part | source | state it keeps | what it does |
|---|---|---|---|
| connection reconciler | `controllers/internetworkdomainconnection_controller.go` | none of its own; a work queue and the manager's cache | for a name from the queue: adds a finalizer, connects at the AWI server; for an object being deleted: disconnects, removes the finalizer |
| app connection reconciler | `controllers/internetworkdomainappconnection_controller.go` | the same | the same, but the server knows app connections by ids the operator does not have: it lists and searches them before it disconnects |
| status watcher | `pkg/connection_status/status_watcher.go` | the local variables of a pass | every 15 s: lists connections at the server, lists objects in the cache, writes the status of those that differ |
| syncers | `pkg/sync/*.go` | the local variables of a pass | every 60 s, one after the other: makes Instances, Sites, Subnets, VPCs and VPNs mirror what the server reports, then NetworkDomains mirror VPCs and VPNs |
| manager, cache, queue | controller-runtime, set up in `main.go` | informer cache, work queue | delivers events through a filter, queues names, retries errors with back-off |
| AWI client | `client/awi_client.go` | one gRPC connection | one method per request, each with a deadline of 30 s |
| AWI server | not in this repository | the connections | serves the requests |

They interact through shared state only. All of them write the API server and
read the cache of the manager, which follows it with a delay. The reconciler and
the status watcher write the same objects. The NetworkDomain syncer reads what
the other syncers have written. The reconcilers change what the status watcher
asks the server for.

What is hard here:

- **stale reads**: every decision is taken on a copy from the cache, and every
  copy ages while remote calls are made;
- **partial failure**: a reconciliation is two remote calls that cannot be one,
  in an order that has to be right for every way of stopping half-way;
- **unreliable calls**: a call may have been served although it failed, or be
  served after its caller has given up;
- **crashes**: the queue and the cache are gone, the objects are not;
- **outages**: a process that starts while the server is down does nothing but
  dial, and one that runs keeps retrying;
- **two processes**: a rollout or a failover has two at a time, which one lease
  separates, or nothing does;
- **filtered events**: the event filter drops most events, so a name that is
  lost once is not looked at again;
- **starting order**: the watcher and the syncers start before the cache does;
- **early returns**: in a syncer any error ends the run for its whole kind.

What makes each part correct is stated as the properties below. The hazards of
`PROJECT.json` list each danger at its line with the properties about it.

## Modules

| module | models |
|---|---|
| `KubeStore` | API server and informer cache for one kind of object |
| `ConnectionController` | the connection reconciler with its queue, filter, informer, client and server |
| `ConnectionPromise` | what a user may rely on, without cache, queue, retries or crashes |
| `AppConnectionController` | the app connection reconciler, extending `ConnectionController` |
| `StatusWatcher` | a pass of the status watcher, for either kind of connection |
| `Syncers` | the syncing goroutine with all six syncers |
| `Operator` | the process: reconciler and status watcher over the same objects, cache, client and server |
| `Replicas` | two processes, with and without `--leader-elect` |
| `ConnectionController_proofs` | type correctness, `Registered` |
| `ConnectionSafety_proofs` | the inductive invariant and what follows from it |
| `ConnectionIntent_proofs` | deletes are not forgotten, and what was asked for is so when the operator rests |
| `ConnectionPromise_proofs` | every step is one of `ConnectionPromise`, or none |
| `AppConnection_proofs` | the app reconciler implements the other one; its safety follows |
| `Operator_proofs` | the reconciler in the process is the reconciler alone; the watcher shows only what was so |
| `Replicas_proofs` | the invariants of two processes, and that safety and intent survive a change of leader |
| `Syncers_proofs` | the inductive invariant of the syncers and what follows from it |
| `MC*` | the small instances TLC checks |

How they compose: `KubeStore` is extended by `ConnectionController` and
`StatusWatcher`. `AppConnectionController`, `Operator` and `Replicas` extend
`ConnectionController`; `Operator` has a `StatusWatcher` as an instance over the
same store. `ConnectionController` is mapped to `ConnectionPromise`, and
`AppConnectionController` to `ConnectionController`, by an instance each.

### KubeStore

`log[n]` is the sequence of all versions of the object named `n`; a version is an
object or `NoObj`, and its position is its resourceVersion. `seen[n]` is the
position the cache has reached (0: this process has not listed yet). So *stale*
is something one can say: a copy is `log[n][rv]`, and an `Update` that carries an
old `rv` is refused. The status is a subresource, which `Update` does not write and
which is all that `Status().Update` writes; as both are refused unless the copy is
the newest version, the part they do not write is the same in the copy anyway, and
`Update` of the model may store the copy as a whole. A delete sets `del` while `fin` (the finalizer) is there,
and appends `NoObj` when it is not. An object is reduced to what the operator
looks at: `id` (the spec, as the connection it asks for), `del`, `fin`, and the
status `st` with the connection it was taken from.

`Limit` bounds what the environment may do (creates, edits, status writes, moves
of the server, faults, late requests, outages, relists, crashes); what is in `Free`
is not bounded, and the code's own steps never are. The theorems hold for every
`Limit` and every `Free`, with the exceptions they name.

### ConnectionController

| action | code |
|---|---|
| `Deliver`, `List`, `Relist` with `Admits` | informer events through the filter in `SetupWithManager` |
| `Dequeue` | the controller takes a name; one worker, the default |
| `Get` | `r.Get` from the cache, and the branch on `DeletionTimestamp` and finalizer |
| `AddFinalizer` | `AddFinalizer` and `r.Update` |
| `Connect` | `ConnectionRequest` |
| `Disconnect` | `removeConnection`, `DisconnectRequest` |
| `RemoveFinalizer` | `RemoveFinalizer` and `r.Update` |
| `Requeue` / `Return` | what Reconcile returns |
| `StatusWrite` | the status watcher, as far as the reconciler notices it |
| `Land` | a request the server serves after the client's 30 s |
| `Dial` | `NewClient`, which blocks until the server is there, before `main` starts anything |
| `Outage`, `Recovery` | the server cannot be reached, or can be again |
| `User` | the environment |
| `Crash` | the process ends, for whatever reason, and another one begins with the dial |

`Call` gives a remote call its four outcomes: served and answered; refused;
failed, with the server having served it or not; given up, with the request still
on its way. `ServerForgives` says whether the server accepts the disconnect of a
connection it does not have, which the repository does not tell. With one that
refuses it, an object that is deleted before it was connected, or whose disconnect
was served without an answer, stays in *Terminating* for ever, so `Released`,
`KeepsPromiseInTime` and `ServedByAny` are checked with one that forgives; `operator` has one that refuses, and the proofs cover both.

### AppConnectionController

`Ids` are pairs of match name and metadata name, which is what the client
compares. That the server keeps at most one app connection for a pair is an
assumption: `ConnectApps` is sent again after each failure and each restart, and the
disconnect takes the first match only, so a server that made a second one would keep
it. `Find` is `ListConnectedApps` with the search, and goes straight to the
finalizer when there is no match; `Teardown` is `DisconnectApps`. `Panic` is the
nil dereference of a pod endpoint without a selector (`Poison`), which ends the
process: with the controller-runtime version of `go.mod` a panic in Reconcile is
not recovered.

`ReconcilesAlike` says that whoever does not see the list and the search
(`Unsearched`: a worker between them and the disconnect is still at *disconnect*)
sees a `ConnectionController` whose server forgives, with crashes at any time: a
search that finds nothing is a disconnect of something unknown that is accepted,
and a panic is a crash.

### StatusWatcher

`Ask`, `Read`, `Check(n)`, `Sleep` are a pass; `reports[i]` remembers all statuses
the server has had for `i`, so that *what is shown was true once* can be said.
`RecordsId` is TRUE for connections, whose status has the id in it, FALSE for app
connections.

### Operator

`Reconciles` is a step of `ConnectionController` without its crash and without the
status write that comes out of nowhere, and `Watches` a step of the pass of
`StatusWatcher`; `log` and `seen` are the same for both. What the server answers to
the watcher follows from what the reconciler has it do (`Reports`): a connection
that is made has a status, one that is closed has none, and in between the server
may change it (`ServerMoves`). The watcher starts after the dial and is part of the
process (`Ends`). Reconciler and watcher have budgets of their own (`budget`,
`allowed`), so that faults of the one do not use up those of the other.

`ReconcilerAsAlone` says that every step of this composition is one of
`ConnectionController`, with `"status"` in `Free`. That is what makes the theorems
about the reconciler alone theorems about the process.

### Replicas

The variables of `ConnectionController` are those of the process whose turn it is,
`other` has those of the other one, and `Swap` changes turns. The API server and the
AWI server are shared. With `elects` only the process that has the `lease` runs its
controllers (`Leads`; `OtherLeads` says it of the other one, which is a
`ConnectionController` of its own, `Other`, over the same store and server); its watcher runs all the same, and the list of the watcher
has the manager fill the cache (`Follow`), so a process takes over (`Acquire`) with
a cache that is there already and may be behind. It is told of everything in it as
if it were new. A process that ends, or loses its lease and ends for that, gives
the lease free (`Ends`). `lagged` remembers whether a takeover was from a cache that
was behind.

### Syncers

Each syncer is a record: where it looks and how it names what it finds
(`InstanceSyncer` ... `NetworkDomainSyncer`). The algorithm is that of all of
them: `Collect` per source, `Read` the cache into a map, `Match` or `Create` each
thing collected, `Delete` what the map is left with. `Return` is any return: the
next syncer begins. A name is the tuple of its parts, `Lower` is
`strings.ToLower`, and a part that is not lower case makes a name invalid.
`present` is a history variable for `DeletesOnlyGone` only: the names the server
has reported all the time since the running syncer began. `Places` are where a
syncer may look: `SupportedClouds`, the server as a whole, and the two kinds in the
cache that NetworkDomains are made of.

## Runs

| run | shows | bounds | states |
|---|---|---|---|
| `conn_safety` | `TypeOK`, `IInv`, `IntentIInv`, `NoOrphan`, `IntentKept`, `ServiceKept`, `Converges`, `KeepsPromise`, `KeepsPromiseInTime` | 2 objects, 3 creates, 1 each of fault, outage, crash | 198,000 |
| `conn_storm` | `DeletionKept`, `DeletionIInv`, `Registered`, `Released` | 1 object with 2 possible specs, 2 creates, 1 each of edit, fault, late request, relist, crash | 220,000 |
| `app_safety` | `AppTypeOK`, `NoOrphan`, `IntentKept`, `ServiceKept`, `DropsNothing`, `ReconcilesAlike` | 2 objects, one of which may panic, 2 creates, 1 each of status write, fault, outage, crash | 390,000 |
| `operator` | `OperatorTypeOK`, `ShowsTruth`, `ReconcilerAsAlone`, `Settles` | 1 object with 2 possible specs, 2 creates or 1 create and 1 edit, 1 crash, any number of status writes; the watcher: 1 move of the server, 1 fault; server refuses unknown ids | 758,000 |
| `replicas` | `ReplicasTypeOK`, `IntentKeptByAll`, `NoOrphanIfLed`, `LedIInv`, `PairIInv`, `ServiceKeptIfLed`, `ServedByAny` | 1 object, 2 creates, 1 fault, 2 crashes, elected or not | 201,000 |
| `sync` | `TypeOK`, `SyncIInv`, `DeletesOnlyGone`, `UserDomainsKept`, `Converges` | six kinds; a site, a VPC, a VPN; 2 changes, 2 user actions, 1 fault, 1 crash | 504,000 |
| `conn_edit`, `conn_relist`, `status_stale`, `sync_content`, `sync_blocked`, `domains_unlabelled` | one counterexample each, see below | as small as shows it | |

Why these bounds: two creates let one name be created, deleted and created again,
or two objects meet (three, in `conn_safety`, both at once); one fault at any call
and one outage that may last for several are the two ways a call fails, and the
retry follows either; one crash at any point covers each state of the worker, as a
process starts with nothing, and `replicas` has two, so that each process may take
over from the other. In `operator` one move of the server makes an answer that is
outdated by the time it is used, next to those the reconciler makes outdated, and an object is made twice or made and
edited (`Brief`), so that a pass may hold a copy that asks for another connection. In
the syncers two changes are one resource that appears and goes, or two that appear;
the site has an id with a capital, which its name must not have; two user actions
delete what the syncer has made and put a domain in its place. CHECK_DEADLOCK is
FALSE where users and faults are used up and the operator rests, which it may.

What the properties say:

- `NoOrphan`: a connection at the server always has an object with the finalizer
  that stands for it. `RemovedMeansDestroyed` is the part of it a user sees.
- `IntentKept`: when the operator has nothing left to do for an object (nothing
  queued, nothing in hand, nothing undelivered), it is connected or gone.
  `DeletionKept` is its half about deletes.
- `ServiceKept`: no step closes the connection of an object that is wanted.
- `Registered`: nothing was ever opened that did not have the finalizer first.
- `DropsNothing`: an app connection object is let go only when the server has
  nothing for it.
- `Converges`, `Released`, `Settles`, `ServedByAny` and `Converges` of the syncers:
  what has to happen in the end. `Settles` has both parts of the process agree: the
  server has the connections of the objects, and each object shows the status of its
  own. After an edit the first is not so (`conn_edit`), and the second is claimed of
  the objects whose connection is there.
- `KeepsPromise`: `ConnectionController` implements `ConnectionPromise`, where an
  object is *asked*, *guarded* or *leaving* as its finalizer and deletion timestamp
  say. `KeepsPromiseInTime`: with its fairness it has the fairness of the promise.
- `ReconcilesAlike`, `ReconcilerAsAlone`: the app reconciler, and the reconciler in
  the process, are refinements of `ConnectionController`.
- `ShowsTruth`: the watcher shows only what was true of that very connection, from
  however old a copy and an answer it writes.
- `IntentKeptByAll`: with two processes, when every one whose controllers run has
  nothing left to do for an object, it is connected or gone.
- `NoOrphanIfLed`, `ServiceKeptIfLed`: with election, and leaders that began from a
  cache that was not behind, no change of leader leaves a connection behind or closes
  one that is wanted. Without election, or after a takeover from an old cache, both
  can fail for a while; `IntentKeptByAll` and `ServedByAny` say what is left then.
- `IInv`, `DeletionIInv`, `IntentIInv`, `LedIInv`, `PairIInv`, `SyncIInv`: why the
  others hold; see *Proofs*.
- `DeletesOnlyGone`, `UserDomainsKept`: a syncer deletes nothing that the server
  had all the while it ran (of the five kinds that the server reports), and nothing
  that a user has labelled and it has read. It deletes by name, so one that has taken the place of what it has read can be hit.

Each of them is refuted when the code it is about is changed as the mutant
operators beside the definitions say; they are marked *Mutant of*.

### Where the code does something else than it says

- `conn_edit`: *"To destroy the connection, simply remove the CR"* (README). After
  an edit of the spec, which the filter ignores, the disconnect uses the edited id.
- `conn_relist`: *"send connection request to grpc server whenever new CRD is
  created"* (controller test). If the informer lists again and finds another
  object under the name, that is an update event, and it is dropped.
- `status_stale`: status is *"the actual state of the object"* (README). An object
  whose connection is gone keeps the last state.
- `sync_content`: *"creates or updates Custom Resources"* (README). Nothing updates.
- `sync_blocked`: *"they are eventually consistent"* (README). One id that
  Kubernetes refuses as a name blocks its kind.
- `domains_unlabelled`: *"we delete the rest, but only those discovered"* (comment
  in `network_domain_sync.go`). Those without any labels are deleted as well.

## Fairness

`FairSpec` of `ConnectionController` assumes that the server comes back and a dial
to it returns (WF; gRPC redials with bounded back-off), that the first list is made
and watch events arrive (WF), that a reconciliation that has begun goes on (WF;
every call has a deadline), and that a name in the queue is taken (SF: the queue is
first in, first out with bounded back-off, and the worker is idle again and again
but not always). That the server comes back is an assumption about the deployment:
without it nothing can be promised. Nothing is assumed of users, faults, outages or
late requests, which are bounded by `Limit` instead: liveness says what happens once
they stop. The watcher and the syncers are driven by tickers and their calls have
deadlines (WF of the pass); the cache is started and follows (WF). `Operator` has
the fairness of both parts. In `Replicas` both processes get their turns (WF of
`Swap`), and what one process does by itself is fair in its turns (SF, as a turn
enables it only now and then).

## Proofs

For every set of names, ids and states, every `MayUse`, every `Limit` and every
`Free`:

| theorem | statement | assumes |
|---|---|---|
| `TypeCorrect` | `Spec => []TypeOK` | the assumptions on the constants |
| `OnlyRegistered` | `Spec => []Registered` | the same |
| `Invariance` | `Spec => []IInv` | `CalmLimit`: no edits and no late requests |
| `NeverOrphaned` | `Spec => []NoOrphan` | `CalmLimit` |
| `NeverInterrupted` | `Spec => ServiceKept` | `CalmLimit`, `DisjointUse`: no two objects ask for one connection |
| `DeletionInvariance`, `DeletesRemembered` | `Spec => []DeletionIInv`, `[]DeletionKept` | the assumptions on the constants |
| `IntentInvariance`, `IntentServed` | `Spec => []IntentIInv`, `[]IntentKept` | `CalmLimit`, `DisjointUse`, `WatchesLast`: no relist |
| `PromiseKept` | `Spec => KeepsPromise` | `CalmLimit`, `DisjointUse`, `AbsentIsNone`: `NoObj` is not a resource of the promise |
| `ActsAlone` | `OperatorSpec => ReconcilerAsAlone` | `"status" \in Free` |
| `OperatorTypeCorrect`, `OnlyTruthShown` | `OperatorSpec => []OperatorTypeOK`, `[]ShowsTruth` | `"status" \in Free` |
| `OperatorNeverOrphans` | `OperatorSpec => []NoOrphan` | `"status" \in Free`, `CalmLimit` |
| `OperatorRemembers` | `OperatorSpec => []DeletionKept` | `"status" \in Free` |
| `OperatorServesIntent` | `OperatorSpec => []IntentKept` | `"status" \in Free`, `CalmLimit`, `DisjointUse`, `WatchesLast` |
| `AppReconcilesAlike` | `AppSpec => ReconcilesAlike` | `CalmLimit` |
| `AppTypeCorrect`, `AppNeverOrphans` | `AppSpec => []AppTypeOK`, `[]NoOrphan` | `CalmLimit` |
| `AppDropsNothing` | `AppSpec => DropsNothing` | `CalmLimit` |
| `AppNeverInterrupts` | `AppSpec => ServiceKept` | `CalmLimit`, `DisjointUse` |
| `AppIntentServed` | `AppSpec => []IntentKept` | `CalmLimit`, `DisjointUse`, `WatchesLast` |
| `ReplicasTypeCorrect` | `ReplicasSpec => []ReplicasTypeOK` | the assumptions on the constants |
| `LedInvariance`, `ReplicasNeverOrphan` | `ReplicasSpec => []LedIInv`, `[]NoOrphanIfLed` | `CalmLimit` |
| `ReplicasNeverInterrupt` | `ReplicasSpec => ServiceKeptIfLed` | `CalmLimit`, `DisjointUse` |
| `PairInvariant`, `ReplicasServeIntent` | `ReplicasSpec => []PairIInv`, `[]IntentKeptByAll` | `CalmLimit`, `DisjointUse`, `WatchesLast` |
| `SyncTypeCorrect`, `SyncInvariance` | `Spec => []TypeOK`, `[]SyncIInv` of `Syncers` | the assumptions on the constants |
| `OnlyGoneDeleted`, `UserDomainsSafe` | `Spec => DeletesOnlyGone`, `UserDomainsKept` | the same |

Edits and late requests have to be excluded from what is proved with `CalmLimit`:
`conn_edit` is the counterexample for the first, and a connect that lands after its
disconnect is one for the second. Relists are excluded for the intent only, where
`conn_relist` is the counterexample, and shared connections where deleting one object
closes the connection of another. Crashes, outages, faults, lost answers, deletes and
re-creates, and a server of either mood are included everywhere.

`NoOrphan` is not inductive: a `Connect` step is right only if the object the
worker holds a copy of still has the finalizer, and the copy may be old. The
argument is about what may still be *read*. The cache never goes back while the
process lives and a new process starts at the newest version, so the versions that
can still be read are those from `seen[n]` on (`Readable`). `ConnectReadable`: if
one of them is to be connected, the object is still there with its finalizer and
that id, because only the worker removes a finalizer, and only after it has read a
version with the deletion timestamp, which is a later one. `DisconnectReadable`:
if one of them is being deleted, an object that has been created anew since does
not have the finalizer yet. `WorkerKnows` carries both over from the copy that is
read to the copy in the worker's hand, through each of its steps. `IInv` is the
conjunction with `TypeOK`, `Owned`, `Calm` and `NoOrphan`, and TLC checks it as
well. `ServiceKept` follows for each step from `WorkerKnows`: what is disconnected
belongs to an object that is being deleted or to a name whose new object is not
connected yet.

`ConnectionSafety_proofs` divides the steps: all those of the environment are
`Tame` (they append only versions that are harmless to every conjunct, or only
move the cache forward or restart it), which is shown once per action and used
once for the invariant; the steps of the worker are taken one by one.

`Registered` needs no assumption but that a worker which is about to call the server
has a copy with the finalizer in hand (`RequestsRegistered`): versions are never taken
back, so what a connection or a late request was made from stays in the log.

**Deletes.** `DeletionKept` speaks of the moments at which the operator rests. The
invariant behind it, `DeletionPending`, has to hold at all times: an object whose
newest version is in the cache and in deletion is queued, or the worker is at a step
that leads to its end or back into the queue. It needs `DeletesGuarded` (a version in
deletion has the finalizer, so that `Get` does branch to the disconnect) and of the
filter that it lets every deletion through, in the first list and in a relist too.
A crash empties the cache with the queue, and the list that fills the one fills the
other. No assumption beyond those on the constants is used.

**Intent.** The other half of `IntentKept` is harder, because the worker may connect
or disconnect from a copy that is no longer current, and the queue must then have
the name again. `Steady(n)` says that from what the cache shows to the newest
version there has been one object, wanted all along. `ConnectPending`: such an object
is connected, queued or being reconciled. What can break it is a worker that
finishes, or disconnects, with an old copy in hand; `CopyInHand` says that then the
name is in the queue, because the version in between at which the object went or came
was, or still has to be, an event that the filter admits. It needs that versions of
one object ask for one connection (`IdLasts`; no edits) and that what is in deletion
remains so until it is gone (`DeletionLasts`), and no relist, which would hide a
delete and a create from the filter. `ConnectionIntent_proofs` first shows what any
step may do to the log (`LogNext`, `CalmNext`) and that what others write disturbs
nothing the worker knows (`ForeignHand`, `ForeignFollowed`). Then it takes the steps
of the process one by one: each leaves every object `Followed`, which is
`ConnectPending` as a relation of two states. `DisjointUse` is needed where a
disconnect must not close the connection of another object.

**Promise.** Each step of `ConnectionController` changes at most one object or one
connection as seen through `Promised`: creates are `Declare`, the finalizer is
`Guard`, deletes are `Withdraw`, the two requests are `Open` and `Close`, the removal
of the finalizer is `Finish`; everything else is a stutter. That a request is for
an object in the right phase, and that the connection is closed when the finalizer
goes, is `WorkerKnows`; that the connection a disconnect closes is that of the leaving
object itself is `NoOrphan` with `DisjointUse`. A crash is a stutter, and so is a
request that changes nothing at the server.

**Operator.** `ActsAlone` is a step-by-step argument: of all that the watcher does
only an `Update` that succeeds is visible to the reconciler, it succeeds only on the
newest version, and what it writes is that version with another status, which is a
`StatusWrite`. That the version the pass has read is a real one, and the answer of
the server a real status, are the types of both parts together (`Held`). From
`ActsAlone` every theorem about `ConnectionController` carries over
(`OperatorNeverOrphans`, `OperatorRemembers`, `OperatorServesIntent`).
`OnlyTruthShown` also needs that every status in any version, and in the answer that
the pass holds, is in the history of its connection, which only grows.

**App connections.** `AppReconcilesAlike` maps each step to a step of
`ConnectionController` or a stutter (the list that finds its connection). The one
that needs an argument is the disconnect after the search: it is a disconnect that
succeeds only if the connection is still there, and it is, because no request that
is late can close it and there is one worker. The theorems about the reconciler are
then taken from `ConnectionSafety_proofs` and `ConnectionIntent_proofs` through the
same mapping, as an instance.
This is also why `CalmLimit` is assumed.

**Replicas.** The other process is an instance of `ConnectionController`, so every
lemma about one process is one about either, and `Swap` exchanges what is known of the
two. `LedIInv` says that `IInv` holds of the leader; of one that does not lead only
the types are known, its cache being no more than a cache. The steps of the leader
keep it by the lemmas for one process. What the other one does (following, dialing,
ending) leaves it alone, and a takeover from a cache that is not behind begins as a
new process does. `ReplicasNeverInterrupt` follows as `NeverInterrupted` does: only a
leader closes connections. `PairIInv`, for `IntentKeptByAll`, must do without `IInv`,
as two reconcilers at once, or a takeover from an old cache, break it. It relies on
what both caches show: where *every* leader sees an object as steady, the object waits
in one of them or is connected. A leader that closes the connection of such an object
does so with a copy that `CopyInHand` says is old for its own cache too, so it has
the name in its queue. A new leader is told of everything in its cache, so everything
waits.

**Syncers.** `DeletesOnlyGone` follows from `SyncIInv`: a name that the server has
had ever since the syncer began is either found already or will be found in a place
still to be looked at (every resource is in one that is asked for, which is an
assumption on `Universe`), so it is in `todo` when the map is read, and leaves the
map before the first delete. Runs that end early never get to a delete. The theorem
needs nothing of the cache, which may be of any age.

## Only model-checked

- liveness (`Converges`, `Released`, `Settles`, `ServedByAny`, `Converges` of the
  syncers), which is out of the prover's reach, and with it `KeepsPromiseInTime`, the
  fairness half of the refinement. Every other property of a passing run is a
  theorem.

The violations (`conn_edit` and the others) are counterexamples, and need no proof.

## Not modelled

- The syncers and the watchers of two replicas side by side, which no lease
  separates. `Replicas` has no status writes.
- A server that loses a connection by itself: no event comes for it, so the operator
  would not open it again, and the repository does not say whether that may happen.
- Two objects that ask for one connection, beyond the assumption that they do not:
  deleting either closes it for both. `ServiceKept` says nothing of them.
- A server that makes another app connection whenever `ConnectApps` is repeated.
- Finalizers of others, which would keep an object after ours is removed.
- Two ids of a site or a VPN that differ only in case. A create that is refused
  again and again is in `sync_blocked`.
- The pass over app connections in `Operator`: it differs in `RecordsId` only, and
  the proofs about `Operator` hold for both values; TLC checks the one over
  connections.
- Metrics and probes, which have no state; generated code; the example server and
  client, which answer with fixed text.
- More than one worker per controller: `MaxConcurrentReconciles` is not set, so
  there is one.
- The content of specs and statuses beyond what tells connections apart.

## Plan

1. Done: `KubeStore`, `ConnectionController` with its promise, runs and proofs;
   `AppConnectionController`, `StatusWatcher`, `Syncers` with their runs.
2. Done: outages and the dial; `Operator` and `Replicas`; the refinement between the
   two reconcilers; proofs for the composition, the app reconciler and the syncers.
3. Done: proofs of `IntentKept` and `DeletionKept` with their inductive invariants,
   for the reconciler, the app reconciler, the process and two processes; the safety
   half of the refinement to `ConnectionPromise`; the safety of `Replicas`.
4. Left: shared connections (what remains of `IntentKept` and `ServiceKept` when two
   objects ask for one connection), finalizers of others, and two ids with one name in
   `Syncers`; `Registered` and `DeletionKept` with two reconcilers at once.
