-------------------------------- MODULE Syncers --------------------------------
(***************************************************************************)
(* The syncing goroutine (pkg/sync).  Every 60 seconds it runs one syncer  *)
(* after the other.  Those of instances, sites, subnets, VPCs and VPNs     *)
(* make the custom resources of their kind mirror what the AWI server      *)
(* reports; the last one makes the NetworkDomains mirror the VPC and VPN   *)
(* resources that the others have made.                                    *)
(*                                                                         *)
(* All six have one algorithm: collect what there is, read the custom      *)
(* resources from the cache into a map, create what the map lacks, taking  *)
(* from the map what it has, and delete what the map is left with.  Any    *)
(* error ends the run of that syncer, and the next one begins.             *)
(***************************************************************************)
EXTENDS Naturals, Sequences

CONSTANTS
    Order,      \* the kinds, in the order of their syncers
    Clouds,     \* SupportedClouds
    Universe,   \* the resources that the AWI server may come to report
    Lower,      \* strings.ToLower on the ids of the resources
    UserDomains,\* the NetworkDomains that users may write
    Limit       \* Limit[b]: how often b may happen in one behaviour

Budgets == {"churn", "user", "fault", "crash"}

Kinds == {Order[i] : i \in 1..Len(Order)}

\* Where a syncer may look: in a cloud, at the server as a whole, or in the cache.
Places == {"aws", "gcp", "all", "VPC", "VPN"}

\* Every resource the server may report is in a cloud that is asked for, unless
\* its kind is asked for at the server as a whole.
ASSUME SyncAssumption ==
    /\ Order \in Seq({"Instance", "Site", "Subnet", "VPC", "VPN", "NetworkDomain"})
    /\ Clouds \in Seq({"aws", "gcp"})
    /\ \A x \in Universe :
           /\ x.kind \in Kinds \ {"NetworkDomain"} /\ x.id \in DOMAIN Lower
           /\ x.kind \in {"Site", "VPN"} \/ \E i \in 1..Len(Clouds) : Clouds[i] = x.cloud
    /\ \A d \in UserDomains : d.kind = "NetworkDomain" /\ d.label # "yes"
    /\ Limit \in [Budgets -> Nat]

VARIABLES
    inv,      \* what the AWI server reports: a set of resources
    crds,     \* the custom resources at the API server
    cache,    \* the custom resources in the cache of the manager
    started,  \* has the manager started the cache?
    sync,     \* the syncer that runs: which, where, and its local variables
    budget,   \* what the environment may still do
    present   \* history: the names that the server has reported ever since
              \* the running syncer began

vars == <<inv, crds, cache, started, sync, budget, present>>

-----------------------------------------------------------------------------
(* Names.  A name is the tuple of its parts; Kubernetes accepts a name only *)
(* if no part has an upper case letter.                                     *)

\* The provider is put in lower case, the id is not.
CloudName(x) == <<x.cloud, x.id>>
SiteName(x) == <<Lower[x.id]>>
VpnName(x) == <<x.id>>

\* The names of the NetworkDomains of a VPC and of a VPN resource.
VpcDomainName(x) == <<"vpc", x.cloud, x.title, x.id>>
VpnDomainName(x) == <<"vpn", Lower[x.id]>>

ValidName(nm) ==
    \A i \in 1..Len(nm) : nm[i] \in DOMAIN Lower => Lower[nm[i]] = nm[i]

Named(objects, k, nm) == {c \in objects : c.kind = k /\ c.name = nm}

-----------------------------------------------------------------------------
(* The syncers, and what they collect.  What tells one from another is      *)
(* where it looks, in order (in each cloud, at the server as a whole, or in *)
(* the cache for the resources of two other kinds), and how it names the    *)
(* custom resource of what it finds there.                                  *)

InstanceSyncer == [from |-> Clouds, name |-> [x \in Universe |-> CloudName(x)]]
SubnetSyncer == [from |-> Clouds, name |-> [x \in Universe |-> CloudName(x)]]
VPCSyncer == [from |-> Clouds, name |-> [x \in Universe |-> CloudName(x)]]
SiteSyncer == [from |-> <<"all">>, name |-> [x \in Universe |-> SiteName(x)]]
VPNSyncer == [from |-> <<"all">>, name |-> [x \in Universe |-> VpnName(x)]]
NetworkDomainSyncer ==
    [from |-> <<"VPC", "VPN">>,
     name |-> [x \in Universe |-> IF x.kind = "VPC" THEN VpcDomainName(x) ELSE VpnDomainName(x)]]

SyncerOf == [Instance |-> InstanceSyncer, Site |-> SiteSyncer, Subnet |-> SubnetSyncer,
             VPC |-> VPCSyncer, VPN |-> VPNSyncer, NetworkDomain |-> NetworkDomainSyncer]

\* The name of the custom resource of x.
Name(x) == SyncerOf[x.kind].name[x]

\* The custom resources that there should be for what is found there.
Reported(k, s) ==
    {[kind |-> k, name |-> Name(x), spec |-> x, label |-> "none"] :
        x \in {y \in inv : y.kind = k /\ s \in {"all", y.cloud}}}

Discovered(objects, s) ==
    {[kind |-> "NetworkDomain", name |-> NetworkDomainSyncer.name[c.spec],
      spec |-> c.spec, label |-> "yes"] : c \in {d \in objects : d.kind = s}}

Found(k, s) == IF k = "NetworkDomain" THEN Discovered(cache, s) ELSE Reported(k, s)

\* Mutant of Keeps: it keeps none.
KeepsNone(c) == FALSE

\* The NetworkDomain syncer keeps the ones with labels, but not "discovered".
Keeps(c) == c.kind = "NetworkDomain" /\ c.label \notin {"none", "yes"}

-----------------------------------------------------------------------------
(* The goroutine.                                                          *)

Waiting == [at |-> 0, pc |-> "waiting", from |-> <<>>, todo |-> {}, map |-> {}]

Spend(b) == budget[b] > 0 /\ budget' = [budget EXCEPT ![b] = @ - 1]

Kind == Order[sync.at]

\* Mutant of Begin: the syncers share a map, and what one leaves in it is
\* there when the next one begins.
BeginShared(i) ==
    IF i > Len(Order)
    THEN sync' = Waiting /\ UNCHANGED present
    ELSE /\ sync' = [at |-> i, pc |-> "collect", from |-> SyncerOf[Order[i]].from,
                     todo |-> {}, map |-> sync.map]
         /\ present' = {<<x.kind, Name(x)>> : x \in inv}

\* The run of the i-th syncer begins, or the pass is over.
Begin(i) ==
    IF i > Len(Order)
    THEN sync' = Waiting /\ UNCHANGED present
    ELSE /\ sync' = [at |-> i, pc |-> "collect", from |-> SyncerOf[Order[i]].from,
                     todo |-> {}, map |-> {}]
         /\ present' = {<<x.kind, Name(x)>> : x \in inv}

Tick ==
    /\ sync.pc = "waiting"
    /\ Begin(1)
    /\ UNCHANGED <<inv, crds, cache, started, budget>>

\* The syncer returns, with or without an error: the next one begins.
Return == Begin(sync.at + 1)

\* Mutant of Collect: a cloud that fails is skipped.
CollectPartly ==
    /\ sync.pc = "collect" /\ sync.from # <<>>
    /\ \/ /\ Kind = "NetworkDomain" => started
          /\ sync' = [sync EXCEPT !.todo = @ \cup Found(Kind, Head(sync.from)),
                                  !.from = Tail(@)]
          /\ UNCHANGED budget
       \/ Spend("fault") /\ sync' = [sync EXCEPT !.from = Tail(@)]
    /\ UNCHANGED <<inv, crds, cache, started, present>>

\* One List call.  On an error the syncer returns what it has not: nothing of
\* what other clouds have reported is used.
Collect ==
    /\ sync.pc = "collect" /\ sync.from # <<>>
    /\ \/ /\ Kind = "NetworkDomain" => started
          /\ sync' = [sync EXCEPT !.todo = @ \cup Found(Kind, Head(sync.from)),
                                  !.from = Tail(@)]
          /\ UNCHANGED <<budget, present>>
       \/ Kind = "NetworkDomain" /\ ~started /\ Return /\ UNCHANGED budget
       \/ Spend("fault") /\ Return
    /\ UNCHANGED <<inv, crds, cache, started>>

\* The custom resources of the kind go into the map.
Read ==
    /\ sync.pc = "collect" /\ sync.from = <<>>
    /\ \/ /\ started
          /\ sync' = [sync EXCEPT !.pc = "create", !.map = {c \in cache : c.kind = Kind}]
          /\ UNCHANGED <<budget, present>>
       \/ ~started /\ Return /\ UNCHANGED budget
       \/ Spend("fault") /\ Return
    /\ UNCHANGED <<inv, crds, cache, started>>

\* Mutant of Match: what the map has stays in it.
MatchKeeping ==
    /\ sync.pc = "create"
    /\ \E c \in sync.todo :
           /\ Named(sync.map, Kind, c.name) # {}
           /\ sync' = [sync EXCEPT !.todo = @ \ {c}]
    /\ UNCHANGED <<inv, crds, cache, started, budget, present>>

\* What the map has leaves it.
Match ==
    /\ sync.pc = "create"
    /\ \E c \in sync.todo :
           LET same == Named(sync.map, Kind, c.name)
           IN  /\ same # {}
               /\ sync' = [sync EXCEPT !.todo = @ \ {c}, !.map = @ \ same]
    /\ UNCHANGED <<inv, crds, cache, started, budget, present>>

\* What the map lacks is created.  The API server refuses a name that is
\* taken or not valid.
Create ==
    /\ sync.pc = "create"
    /\ \E c \in sync.todo :
           LET ok == ValidName(c.name) /\ Named(crds, Kind, c.name) = {}
           IN  /\ Named(sync.map, Kind, c.name) = {}
               /\ \/ /\ ok
                     /\ crds' = crds \cup {c}
                     /\ sync' = [sync EXCEPT !.todo = @ \ {c}]
                     /\ UNCHANGED <<budget, present>>
                  \/ ~ok /\ Return /\ UNCHANGED <<crds, budget>>
                  \/ /\ Spend("fault") /\ Return
                     /\ crds' \in {crds, IF ok THEN crds \cup {c} ELSE crds}
    /\ UNCHANGED <<inv, cache, started>>

Created ==
    /\ sync.pc = "create" /\ sync.todo = {}
    /\ sync' = [sync EXCEPT !.pc = "delete"]
    /\ UNCHANGED <<inv, crds, cache, started, budget, present>>

\* What is left in the map is deleted, by name, unless it is to be kept.
Delete ==
    /\ sync.pc = "delete"
    /\ \E c \in sync.map :
           LET there == Named(crds, Kind, c.name)
           IN  \/ /\ Keeps(c) \/ there # {}
                  /\ crds' = IF Keeps(c) THEN crds ELSE crds \ there
                  /\ sync' = [sync EXCEPT !.map = @ \ {c}]
                  /\ UNCHANGED <<budget, present>>
               \/ ~Keeps(c) /\ there = {} /\ Return /\ UNCHANGED <<crds, budget>>
               \/ /\ ~Keeps(c) /\ Spend("fault") /\ Return
                  /\ crds' \in {crds, crds \ there}
    /\ UNCHANGED <<inv, cache, started>>

Deleted ==
    /\ sync.pc = "delete" /\ sync.map = {}
    /\ Return
    /\ UNCHANGED <<inv, crds, cache, started, budget>>

Sync == Tick \/ Collect \/ Read \/ Match \/ Create \/ Created \/ Delete \/ Deleted

-----------------------------------------------------------------------------
(* What goes on around it.                                                 *)

\* One and the same resource, whatever its attributes.
SameResource(x, y) == x.kind = y.kind /\ x.cloud = y.cloud /\ x.id = y.id

\* A resource appears in a cloud, changes, or disappears.
CloudMoves ==
    /\ Spend("churn")
    /\ \E x \in Universe :
           /\ inv' \in {{y \in inv : ~SameResource(x, y)} \cup {x}, inv \ {x}} \ {inv}
    /\ present' = present \cap {<<x.kind, Name(x)>> : x \in inv'}
    /\ UNCHANGED <<crds, cache, started, sync>>

\* A user deletes a custom resource, or writes a NetworkDomain.
User ==
    /\ Spend("user")
    /\ \/ \E c \in crds : crds' = crds \ {c}
       \/ \E d \in UserDomains :
              Named(crds, d.kind, d.name) = {} /\ crds' = crds \cup {d}
    /\ UNCHANGED <<inv, cache, started, sync, present>>

\* main starts the goroutine before the manager, which starts the cache.
StartCache ==
    /\ ~started
    /\ started' = TRUE
    /\ cache' = crds
    /\ UNCHANGED <<inv, crds, sync, budget, present>>

\* A watch event about one custom resource.
CacheMoves ==
    /\ started
    /\ \E c \in crds \cup cache :
           LET now == Named(crds, c.kind, c.name)
               old == Named(cache, c.kind, c.name)
           IN  now # old /\ cache' = (cache \ old) \cup now
    /\ UNCHANGED <<inv, crds, started, sync, budget, present>>

Crash ==
    /\ Spend("crash")
    /\ started' = FALSE
    /\ cache' = {}
    /\ sync' = Waiting
    /\ UNCHANGED <<inv, crds, present>>

Init ==
    /\ inv = {} /\ crds = {} /\ cache = {}
    /\ started = FALSE
    /\ sync = Waiting
    /\ budget = Limit
    /\ present = {}

Next == Sync \/ CloudMoves \/ User \/ StartCache \/ CacheMoves \/ Crash

Spec == Init /\ [][Next]_vars

\* The ticker ticks, every call ends within its deadline, and the cache is
\* started and follows the API server.
FairSpec == Spec /\ WF_vars(Sync) /\ WF_vars(StartCache) /\ WF_vars(CacheMoves)

-----------------------------------------------------------------------------
(* Properties.                                                             *)

\* The types, and that a name is taken once, at the API server and in the
\* cache and in the map.
TypeOK ==
    /\ inv \subseteq Universe
    /\ \A objects \in {crds, cache, sync.map} : \A c, d \in objects :
           c.kind = d.kind /\ c.name = d.name => c = d
    /\ DOMAIN sync = {"at", "pc", "from", "todo", "map"}
    /\ sync.at \in 0..Len(Order)
    /\ sync.pc \in {"waiting", "collect", "create", "delete"}
    /\ sync.pc = "waiting" <=> sync.at = 0
    /\ sync.from \in Seq(Places)
    /\ \A c \in sync.todo \cup sync.map : c.kind = Kind
    /\ started \in BOOLEAN
    /\ budget \in [Budgets -> Nat]

(***************************************************************************)
(* No resource loses its custom resource to a failed or partial listing, a *)
(* stale cache or an aborted run: what a syncer deletes is something the   *)
(* server has not had all the while that the syncer ran.                   *)
(***************************************************************************)
DeletesOnlyGone ==
    [][sync' # sync => \A c \in crds \ crds' : <<c.kind, c.name>> \notin present]_vars

(***************************************************************************)
(* A NetworkDomain that a user has labelled is theirs to delete.  The      *)
(* syncer deletes by name, so it may hit one that has taken the place of   *)
(* what it has read, but never one that it has read.                       *)
(***************************************************************************)
UserDomainsKept ==
    [][sync' # sync => \A c \in sync.map \cap crds :
            c.label \notin {"none", "yes"} => c \in crds']_vars

\* Whatever has the name nm is found there.
FoundThere(nm, there) ==
    \A x \in Universe : x.kind = Kind /\ Name(x) = nm => there \in {"all", x.cloud}

(***************************************************************************)
(* The inductive invariant behind both: a name that the server has had     *)
(* ever since the syncer began is found where the syncer has still to look *)
(* or has been found already, and what has been found leaves the map       *)
(* before anything in it is deleted.  No label but "yes" is written.       *)
(***************************************************************************)
SyncIInv ==
    /\ TypeOK
    /\ present \subseteq {<<x.kind, Name(x)>> : x \in inv}
    /\ \A p \in present : sync.pc # "waiting" /\ p[1] = Kind =>
        /\ sync.pc = "collect" =>
               \/ \E c \in sync.todo : c.name = p[2]
               \/ \E i \in 1..Len(sync.from) : FoundThere(p[2], sync.from[i])
        /\ sync.pc = "create" /\ (\E c \in sync.map : c.name = p[2]) =>
               \E c \in sync.todo : c.name = p[2]
        /\ sync.pc = "delete" => \A c \in sync.map : c.name # p[2]
    /\ \A c \in sync.todo : c.label \in {"none", "yes"}
    /\ \A c \in crds \cup cache \cup sync.map :
           c.label \notin {"none", "yes"} => c.kind = "NetworkDomain"

\* "we delete the rest, but only those discovered"
OnlyDiscoveredDeleted ==
    [][sync' # sync => \A c \in crds \ crds' : c.kind = "NetworkDomain" => c.label = "yes"]_vars

NamesOf(objects, k) == {c.name : c \in {d \in objects : d.kind = k}}

\* The names there have to be, for what the server reports and what is there.
Due(k) ==
    IF k = "NetworkDomain"
    THEN NamesOf(Discovered(crds, "VPC") \cup Discovered(crds, "VPN"), k)
    ELSE {Name(x) : x \in {y \in inv : y.kind = k}}

\* All of them are there, perhaps as a user's own, and no others but a user's.
Mirrored(k) ==
    /\ Due(k) \subseteq NamesOf(crds, k)
    /\ NamesOf({c \in crds : c.label \in {"none", "yes"}}, k) \subseteq Due(k)

(***************************************************************************)
(* Once the clouds, the users and the faults rest, the custom resources of *)
(* every kind are those of the resources there are: failed and aborted     *)
(* runs, and runs on a stale or an empty cache, leave nothing behind that  *)
(* a later run does not put right.                                         *)
(***************************************************************************)
Converges == <>[](\A k \in Kinds : Mirrored(k))

(***************************************************************************)
(* "creates or updates Custom Resources associated with these resources":  *)
(* the custom resources also come to say what the resources are like.      *)
(***************************************************************************)
ContentConverges ==
    <>[](\A x \in inv : \A c \in Named(crds, x.kind, Name(x)) : c.spec = x)

(***************************************************************************)
(* "they are eventually consistent": a resource whose name Kubernetes      *)
(* accepts gets its custom resource, whatever other resources there are.   *)
(***************************************************************************)
EveryValidMirrored ==
    <>[](\A x \in inv : ValidName(Name(x)) => Named(crds, x.kind, Name(x)) # {})
=============================================================================
