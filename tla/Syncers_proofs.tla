----------------------------- MODULE Syncers_proofs -----------------------------
(***************************************************************************)
(* What the syncing goroutine never does, whatever the clouds, the users,  *)
(* the cache, failures and crashes do: it deletes nothing that the server  *)
(* has had all the while that the running syncer ran, and no NetworkDomain *)
(* of a user's that it has read.                                           *)
(*                                                                         *)
(* The first two theorems show that SyncIInv is an invariant, step by      *)
(* step; the other two that no Delete step of a state with that invariant  *)
(* hits what it must not.                                                  *)
(***************************************************************************)
EXTENDS Syncers, TLAPS

AllKinds == {"Instance", "Site", "Subnet", "VPC", "VPN", "NetworkDomain"}

\* The parts of TypeOK.
Unique(objects) == \A c, d \in objects : c.kind = d.kind /\ c.name = d.name => c = d

RunOK ==
    /\ DOMAIN sync = {"at", "pc", "from", "todo", "map"}
    /\ sync.at \in 0..Len(Order)
    /\ sync.pc \in {"waiting", "collect", "create", "delete"}
    /\ sync.pc = "waiting" <=> sync.at = 0
    /\ sync.from \in Seq(Places)
    /\ Unique(sync.map)
    /\ \A c \in sync.todo \cup sync.map : c.kind = Kind

LEMMA TypeParts ==
    TypeOK <=> /\ inv \subseteq Universe
               /\ Unique(crds) /\ Unique(cache) /\ RunOK
               /\ started \in BOOLEAN /\ budget \in [Budgets -> Nat]
BY DEF TypeOK, Unique, RunOK

-----------------------------------------------------------------------------
(* Lemmas about the operators the steps are built from.                    *)

\* Every kind of the order is one that has a syncer.
LEMMA OrderKinds == Order \in Seq(AllKinds) /\ \A i \in 1..Len(Order) : Order[i] \in AllKinds
<1>1. Order \in Seq(AllKinds)
    BY SyncAssumption DEF AllKinds
<1> QED
    BY <1>1

\* Sequences of one and of two elements.
LEMMA ShortSequences ==
    ASSUME NEW S, NEW s \in S, NEW t \in S
    PROVE  <<s>> \in Seq(S) /\ <<s, t>> \in Seq(S)
OBVIOUS

\* Where a syncer looks ...
LEMMA Sources ==
    /\ \A k \in {"Instance", "Subnet", "VPC"} : SyncerOf[k].from = Clouds
    /\ \A k \in {"Site", "VPN"} : SyncerOf[k].from = <<"all">>
    /\ SyncerOf["NetworkDomain"].from = <<"VPC", "VPN">>
BY DEF SyncerOf, InstanceSyncer, SubnetSyncer, VPCSyncer, SiteSyncer, VPNSyncer,
       NetworkDomainSyncer

\* ... is a sequence of places.
LEMMA SourceTypes == \A k \in AllKinds : SyncerOf[k].from \in Seq(Places)
<1>1. Clouds \in Seq(Places)
    BY SyncAssumption DEF Places
<1>2. <<"all">> \in Seq(Places) /\ <<"VPC", "VPN">> \in Seq(Places)
    BY ShortSequences DEF Places
<1> QED
    BY <1>1, <1>2, Sources DEF AllKinds

\* Names that tell resources of different clouds apart.
LEMMA NamesOfClouds ==
    \A x, y \in Universe :
        /\ x.kind \in {"Instance", "Subnet", "VPC"}
        /\ x.kind = y.kind /\ Name(x) = Name(y)
        => x.cloud = y.cloud
<1> SUFFICES ASSUME NEW x \in Universe, NEW y \in Universe,
                    x.kind \in {"Instance", "Subnet", "VPC"},
                    x.kind = y.kind, Name(x) = Name(y)
             PROVE  x.cloud = y.cloud
    OBVIOUS
<1>1. /\ SyncerOf["Instance"].name = [z \in Universe |-> CloudName(z)]
      /\ SyncerOf["Subnet"].name = [z \in Universe |-> CloudName(z)]
      /\ SyncerOf["VPC"].name = [z \in Universe |-> CloudName(z)]
    BY DEF SyncerOf, InstanceSyncer, SubnetSyncer, VPCSyncer
<1>2. Name(x) = CloudName(x) /\ Name(y) = CloudName(y)
    <2>1. CASE x.kind = "Instance"
        BY <1>1, <2>1 DEF Name
    <2>2. CASE x.kind = "Subnet"
        BY <1>1, <2>2 DEF Name
    <2>3. CASE x.kind = "VPC"
        BY <1>1, <2>3 DEF Name
    <2> QED
        BY <2>1, <2>2, <2>3
<1>3. CloudName(x)[1] = x.cloud /\ CloudName(y)[1] = y.cloud
    BY DEF CloudName
<1> QED
    BY <1>2, <1>3

\* Whatever the server may report is looked for, wherever that name may be.
LEMMA LookedFor ==
    ASSUME NEW y \in Universe
    PROVE  /\ y.kind \in AllKinds \ {"NetworkDomain"}
           /\ \E i \in 1..Len(SyncerOf[y.kind].from) :
                  \A x \in Universe : x.kind = y.kind /\ Name(x) = Name(y) =>
                      SyncerOf[y.kind].from[i] \in {"all", x.cloud}
<1>1. y.kind \in Kinds \ {"NetworkDomain"}
      /\ (y.kind \in {"Site", "VPN"} \/ \E i \in 1..Len(Clouds) : Clouds[i] = y.cloud)
    BY SyncAssumption
<1>2. y.kind \in AllKinds \ {"NetworkDomain"}
    BY <1>1, OrderKinds DEF Kinds
<1>3. CASE y.kind \in {"Site", "VPN"}
    <2>1. SyncerOf[y.kind].from = <<"all">>
        BY <1>3, Sources
    <2>2. 1 \in 1..Len(<<"all">>) /\ <<"all">>[1] = "all"
        OBVIOUS
    <2> QED
        BY <1>2, <2>1, <2>2
<1>4. CASE y.kind \notin {"Site", "VPN"}
    <2>1. y.kind \in {"Instance", "Subnet", "VPC"}
        BY <1>2, <1>4 DEF AllKinds
    <2>2. PICK i \in 1..Len(Clouds) : Clouds[i] = y.cloud
        BY <1>1, <1>4
    <2>3. \A x \in Universe : x.kind = y.kind /\ Name(x) = Name(y) => Clouds[i] = x.cloud
        BY <2>1, <2>2, NamesOfClouds
    <2>4. SyncerOf[y.kind].from = Clouds
        BY <2>1, Sources
    <2> QED
        BY <1>2, <2>3, <2>4
<1> QED
    BY <1>3, <1>4

\* What is looked for where it is, is found.
LEMMA FoundNames ==
    ASSUME NEW y \in inv, y.kind # "NetworkDomain", NEW s \in {"all", y.cloud}
    PROVE  \E c \in Found(y.kind, s) : c.name = Name(y)
<1> DEFINE c == [kind |-> y.kind, name |-> Name(y), spec |-> y, label |-> "none"]
<1>1. y \in {z \in inv : z.kind = y.kind /\ s \in {"all", z.cloud}}
    OBVIOUS
<1>2. c \in Reported(y.kind, s)
    BY <1>1 DEF Reported
<1>3. c \in Found(y.kind, s)
    BY <1>2 DEF Found
<1>4. c.name = Name(y)
    OBVIOUS
<1> QED
    BY <1>3, <1>4

\* A step that spends keeps the budget's type.
LEMMA Spending ==
    ASSUME budget \in [Budgets -> Nat], NEW b \in Budgets, Spend(b)
    PROVE  budget' \in [Budgets -> Nat]
BY DEF Spend

\* The state a syncer begins in, or the goroutine waits in, has its types.
LEMMA BeginTypes ==
    ASSUME NEW i \in 1..(Len(Order) + 1), Begin(i)
    PROVE  RunOK'
<1>1. CASE i > Len(Order)
    <2>1. sync' = [at |-> 0, pc |-> "waiting", from |-> <<>>, todo |-> {}, map |-> {}]
        BY <1>1 DEF Begin, Waiting
    <2> QED
        BY <2>1, OrderKinds DEF RunOK, Unique
<1>2. CASE i <= Len(Order)
    <2>1. i \in 1..Len(Order) /\ Order[i] \in AllKinds
        BY <1>2, OrderKinds
    <2>2. SyncerOf[Order[i]].from \in Seq(Places)
        BY <2>1, SourceTypes
    <2>3. sync' = [at |-> i, pc |-> "collect", from |-> SyncerOf[Order[i]].from,
                   todo |-> {}, map |-> {}]
        BY <1>2, OrderKinds DEF Begin
    <2> QED
        BY <2>1, <2>2, <2>3 DEF RunOK, Unique
<1> QED
    BY <1>1, <1>2, OrderKinds

\* So does the state in which a syncer that returns leaves the goroutine.
LEMMA ReturnTypes ==
    ASSUME RunOK, sync.pc # "waiting", Return
    PROVE  RunOK'
<1>1. sync.at + 1 \in 1..(Len(Order) + 1)
    BY OrderKinds DEF RunOK
<1> QED
    BY <1>1, BeginTypes DEF Return

\* What is found is of the kind of the syncer that looks for it.
LEMMA FoundKind ==
    \A k, s : \A c \in Found(k, s) : c.kind = k /\ c.label \in {"none", "yes"}
BY DEF Found, Reported, Discovered

-----------------------------------------------------------------------------
(* The types.                                                              *)

LEMMA InitTypes == Init => TypeOK
<1> SUFFICES ASSUME Init PROVE TypeOK
    OBVIOUS
<1>1. budget \in [Budgets -> Nat]
    BY SyncAssumption DEF Init
<1>2. RunOK
    <2>1. sync = [at |-> 0, pc |-> "waiting", from |-> <<>>, todo |-> {}, map |-> {}]
        BY DEF Init, Waiting
    <2> QED
        BY <2>1, OrderKinds DEF RunOK, Unique
<1> QED
    BY <1>1, <1>2, TypeParts DEF Init, Unique

\* A step within the run of a syncer keeps the types of the run.
LEMMA RunTypes ==
    ASSUME RunOK, sync.pc # "waiting", sync'.at = sync.at,
           DOMAIN sync' = DOMAIN sync,
           sync'.pc \in {"collect", "create", "delete"},
           sync'.from \in Seq(Places),
           Unique(sync'.map), \A c \in sync'.todo \cup sync'.map : c.kind = Kind
    PROVE  RunOK'
BY DEF RunOK, Unique, Kind

LEMMA NextTypes ==
    ASSUME TypeOK, [Next]_vars
    PROVE  TypeOK'
<1>1. RunOK /\ Unique(crds) /\ Unique(cache)
      /\ inv \subseteq Universe /\ started \in BOOLEAN /\ budget \in [Budgets -> Nat]
    BY TypeParts
<1>2. budget' \in [Budgets -> Nat]
    BY <1>1, Spending
       DEF Next, Sync, Tick, Collect, Read, Match, Create, Created, Delete, Deleted, CloudMoves,
           User, StartCache, CacheMoves, Crash, vars, Budgets
<1>3. inv' \subseteq Universe
    BY <1>1
       DEF Next, Sync, Tick, Collect, Read, Match, Create, Created, Delete, Deleted, CloudMoves,
           User, StartCache, CacheMoves, Crash, vars
<1>4. started' \in BOOLEAN
    BY <1>1
       DEF Next, Sync, Tick, Collect, Read, Match, Create, Created, Delete, Deleted, CloudMoves,
           User, StartCache, CacheMoves, Crash, vars
<1>5. Unique(crds)'
    <2>1. CASE Create
        <3>1. PICK c \in sync.todo :
                  crds' \in {crds, IF Named(crds, Kind, c.name) = {} THEN crds \cup {c} ELSE crds}
            BY <2>1 DEF Create
        <3>2. c.kind = Kind
            BY <1>1 DEF RunOK
        <3> QED
            BY <1>1, <3>1, <3>2 DEF Unique, Named
    <2>2. CASE User
        BY <1>1, <2>2 DEF User, Unique, Named
    <2>3. CASE ~Create /\ ~User
        <3>1. crds' \subseteq crds
            BY <2>3 DEF Next, Sync, Tick, Collect, Read, Match, Created, Delete, Deleted,
                        CloudMoves, StartCache, CacheMoves, Crash, vars
        <3> QED
            BY <1>1, <3>1 DEF Unique
    <2> QED
        BY <2>1, <2>2, <2>3
<1>6. Unique(cache)'
    <2>1. CASE CacheMoves
        BY <1>1, <2>1 DEF CacheMoves, Unique, Named
    <2>2. CASE ~CacheMoves
        <3>1. cache' \in {cache, crds, {}}
            BY <2>2 DEF Next, Sync, Tick, Collect, Read, Match, Create, Created, Delete, Deleted,
                        CloudMoves, User, StartCache, Crash, vars
        <3> QED
            BY <1>1, <3>1 DEF Unique
    <2> QED
        BY <2>1, <2>2
<1>7. RunOK'
    <2>1. CASE UNCHANGED sync
        BY <1>1, <2>1 DEF RunOK, Unique, Kind
    <2>2. CASE Tick
        BY <2>2, BeginTypes, OrderKinds DEF Tick
    <2>3. CASE Crash
        <3>1. sync' = [at |-> 0, pc |-> "waiting", from |-> <<>>, todo |-> {}, map |-> {}]
            BY <2>3 DEF Crash, Waiting
        <3> QED
            BY <3>1, OrderKinds DEF RunOK, Unique
    <2>4. CASE sync.pc # "waiting" /\ Return
        BY <1>1, <2>4, ReturnTypes
    <2>5. CASE Collect /\ ~Return
        <3>1. sync.from # <<>> /\ sync.pc = "collect"
              /\ sync' = [sync EXCEPT !.todo = @ \cup Found(Kind, Head(sync.from)),
                                      !.from = Tail(@)]
            BY <2>5 DEF Collect
        <3>2. \A c \in Found(Kind, Head(sync.from)) : c.kind = Kind
            BY FoundKind
        <3>3. Tail(sync.from) \in Seq(Places)
            BY <1>1, <3>1 DEF RunOK
        <3> QED
            BY <1>1, <3>1, <3>2, <3>3, RunTypes DEF RunOK
    <2>6. CASE Read /\ ~Return
        <3>1. sync.pc = "collect"
              /\ sync' = [sync EXCEPT !.pc = "create", !.map = {c \in cache : c.kind = Kind}]
            BY <2>6 DEF Read
        <3>2. Unique({c \in cache : c.kind = Kind})
            BY <1>1 DEF Unique
        <3> QED
            BY <1>1, <3>1, <3>2, RunTypes DEF RunOK
    <2>7. CASE Match
        <3>1. PICK c \in sync.todo :
                  sync' = [sync EXCEPT !.todo = @ \ {c},
                                       !.map = @ \ Named(sync.map, Kind, c.name)]
            BY <2>7 DEF Match
        <3>2. sync.pc = "create"
            BY <2>7 DEF Match
        <3>3. Unique(sync.map \ Named(sync.map, Kind, c.name))
            BY <1>1 DEF RunOK, Unique
        <3> QED
            BY <1>1, <3>1, <3>2, <3>3, RunTypes DEF RunOK
    <2>8. CASE Create /\ ~Return
        <3>1. PICK c \in sync.todo : sync' = [sync EXCEPT !.todo = @ \ {c}]
            BY <2>8 DEF Create
        <3>2. sync.pc = "create"
            BY <2>8 DEF Create
        <3> QED
            BY <1>1, <3>1, <3>2, RunTypes DEF RunOK
    <2>9. CASE Created
        <3>1. sync' = [sync EXCEPT !.pc = "delete"] /\ sync.pc = "create"
            BY <2>9 DEF Created
        <3> QED
            BY <1>1, <3>1, RunTypes DEF RunOK
    <2>10. CASE Delete /\ ~Return
        <3>1. PICK c \in sync.map : sync' = [sync EXCEPT !.map = @ \ {c}]
            BY <2>10 DEF Delete
        <3>2. sync.pc = "delete"
            BY <2>10 DEF Delete
        <3>3. Unique(sync.map \ {c})
            BY <1>1 DEF RunOK, Unique
        <3> QED
            BY <1>1, <3>1, <3>2, <3>3, RunTypes DEF RunOK
    <2> QED
        <3>1. Collect \/ Read \/ Create \/ Delete \/ Deleted => sync.pc # "waiting"
            BY DEF Collect, Read, Create, Delete, Deleted
        <3>2. Deleted => Return
            BY DEF Deleted
        <3>3. CloudMoves \/ User \/ StartCache \/ CacheMoves \/ UNCHANGED vars => UNCHANGED sync
            BY DEF CloudMoves, User, StartCache, CacheMoves, vars
        <3> QED
            BY <2>1, <2>2, <2>3, <2>4, <2>5, <2>6, <2>7, <2>8, <2>9, <2>10, <3>1, <3>2, <3>3
               DEF Next, Sync
<1> QED
    BY <1>2, <1>3, <1>4, <1>5, <1>6, <1>7 DEF TypeOK, Unique, RunOK

(***************************************************************************)
(* Whatever happens, the running syncer works on custom resources of its   *)
(* own kind, and no name is taken twice at the API server, in the cache or *)
(* in the syncer's map.                                                    *)
(***************************************************************************)
THEOREM SyncTypeCorrect == Spec => []TypeOK
<1>1. TypeOK /\ [Next]_vars => TypeOK'
    BY NextTypes
<1> QED
    BY InitTypes, <1>1, PTL DEF Spec

-----------------------------------------------------------------------------
(* The inductive invariant.                                                *)

\* The part of SyncIInv about one name p[2] of the kind p[1].
Accounted(p) ==
    sync.pc # "waiting" /\ p[1] = Kind =>
        /\ sync.pc = "collect" =>
               \/ \E c \in sync.todo : c.name = p[2]
               \/ \E i \in 1..Len(sync.from) : FoundThere(p[2], sync.from[i])
        /\ sync.pc = "create" /\ (\E c \in sync.map : c.name = p[2]) =>
               \E c \in sync.todo : c.name = p[2]
        /\ sync.pc = "delete" => \A c \in sync.map : c.name # p[2]

\* The part of it about labels.
Marked(objects) ==
    \A c \in objects : c.label \notin {"none", "yes"} => c.kind = "NetworkDomain"

LabelsOK ==
    /\ \A c \in sync.todo : c.label \in {"none", "yes"}
    /\ Marked(crds) /\ Marked(cache) /\ Marked(sync.map)

NamesOfInv == {<<x.kind, Name(x)>> : x \in inv}

LEMMA IInvParts ==
    SyncIInv <=> /\ TypeOK /\ LabelsOK
                 /\ present \subseteq NamesOfInv
                 /\ \A p \in present : Accounted(p)
BY DEF SyncIInv, LabelsOK, Marked, NamesOfInv, Accounted

\* A syncer that begins has still to look for everything.
LEMMA BeginAccounts ==
    ASSUME inv \subseteq Universe, UNCHANGED inv, present \subseteq NamesOfInv,
           \A p \in present : Accounted(p),
           NEW i \in 1..(Len(Order) + 1), Begin(i)
    PROVE  present' \subseteq NamesOfInv' /\ \A p \in present' : Accounted(p)'
<1>1. CASE i > Len(Order)
    <2>1. sync'.pc = "waiting" /\ present' = present
        BY <1>1 DEF Begin, Waiting
    <2> QED
        BY <2>1 DEF Accounted, NamesOfInv
<1>2. CASE ~(i > Len(Order))
    <2>1. sync' = [at |-> i, pc |-> "collect", from |-> SyncerOf[Order[i]].from,
                   todo |-> {}, map |-> {}]
          /\ present' = NamesOfInv
        BY <1>2 DEF Begin, NamesOfInv
    <2>2. ASSUME NEW p \in present', p[1] = Kind'
          PROVE  \E j \in 1..Len(sync'.from) : FoundThere(p[2], sync.from[j])'
        <3>1. PICK y \in inv : p = <<y.kind, Name(y)>>
            BY <2>1, <2>2 DEF NamesOfInv
        <3>2. p[1] = y.kind /\ p[2] = Name(y) /\ y \in Universe
            BY <3>1
        <3>3. Kind' = y.kind /\ sync'.from = SyncerOf[y.kind].from
            BY <2>1, <2>2, <3>2 DEF Kind
        <3>4. PICK j \in 1..Len(SyncerOf[y.kind].from) :
                  \A x \in Universe : x.kind = y.kind /\ Name(x) = Name(y) =>
                      SyncerOf[y.kind].from[j] \in {"all", x.cloud}
            BY <3>2, LookedFor
        <3>5. FoundThere(p[2], sync.from[j])'
            BY <3>2, <3>3, <3>4 DEF FoundThere
        <3> QED
            BY <3>3, <3>4, <3>5
    <2> QED
        BY <2>1, <2>2 DEF Accounted, NamesOfInv
<1> QED
    BY <1>1, <1>2

\* Users' labels stay on NetworkDomains, and what is found has none of them.
LEMMA NextLabels ==
    ASSUME TypeOK, LabelsOK, [Next]_vars
    PROVE  LabelsOK'
<1>1. DOMAIN sync = {"at", "pc", "from", "todo", "map"}
    BY TypeParts DEF RunOK
<1>2. ASSUME NEW i, Begin(i)
      PROVE  sync'.todo = {} /\ sync'.map = {}
    BY <1>2 DEF Begin, Waiting
<1>3. /\ \A c \in sync'.todo : c.label \in {"none", "yes"}
      /\ Marked(sync'.map)
    <2>1. CASE (\E i \in {1, sync.at + 1} : Begin(i)) \/ Crash
        BY <1>2, <2>1 DEF Crash, Waiting, Marked
    <2>2. CASE Collect /\ ~Return
        <3>1. sync' = [sync EXCEPT !.todo = @ \cup Found(Kind, Head(sync.from)),
                                   !.from = Tail(@)]
            BY <2>2 DEF Collect
        <3>2. \A c \in Found(Kind, Head(sync.from)) : c.label \in {"none", "yes"}
            BY FoundKind
        <3> QED
            BY <1>1, <3>1, <3>2 DEF LabelsOK
    <2>3. CASE Read /\ ~Return
        BY <1>1, <2>3 DEF Read, LabelsOK, Marked
    <2>4. CASE Match
        BY <1>1, <2>4 DEF Match, LabelsOK, Marked
    <2>5. CASE (Create \/ Created \/ Delete) /\ ~Return
        BY <1>1, <2>5 DEF Create, Created, Delete, LabelsOK, Marked
    <2>6. CASE UNCHANGED sync
        BY <2>6 DEF LabelsOK, Marked
    <2> QED
        <3>1. Tick => Begin(1)
            BY DEF Tick
        <3>2. Return => Begin(sync.at + 1)
            BY DEF Return
        <3>3. Deleted => Return
            BY DEF Deleted
        <3>4. CloudMoves \/ User \/ StartCache \/ CacheMoves \/ UNCHANGED vars => UNCHANGED sync
            BY DEF CloudMoves, User, StartCache, CacheMoves, vars
        <3> QED
            BY <2>1, <2>2, <2>3, <2>4, <2>5, <2>6, <3>1, <3>2, <3>3, <3>4 DEF Next, Sync
<1>4. Marked(crds')
    <2>1. CASE Create
        <3>1. PICK c \in sync.todo : crds' \subseteq crds \cup {c}
            BY <2>1 DEF Create
        <3> QED
            BY <3>1 DEF LabelsOK, Marked
    <2>2. CASE User
        <3>1. \A d \in UserDomains : d.kind = "NetworkDomain"
            BY SyncAssumption
        <3> QED
            BY <2>2, <3>1 DEF User, LabelsOK, Marked
    <2>3. CASE ~Create /\ ~User
        <3>1. crds' \subseteq crds
            BY <2>3 DEF Next, Sync, Tick, Collect, Read, Match, Created, Delete, Deleted,
                        CloudMoves, StartCache, CacheMoves, Crash, vars
        <3> QED
            BY <3>1 DEF LabelsOK, Marked
    <2> QED
        BY <2>1, <2>2, <2>3
<1>5. Marked(cache')
    <2>1. cache' \subseteq cache \cup crds
        BY DEF Next, Sync, Tick, Collect, Read, Match, Create, Created, Delete, Deleted,
               CloudMoves, User, StartCache, CacheMoves, Crash, vars, Named
    <2> QED
        BY <2>1 DEF LabelsOK, Marked
<1> QED
    BY <1>3, <1>4, <1>5 DEF LabelsOK, Marked

\* What the server has had is found, and leaves the map before the deletes.
LEMMA NextAccounts ==
    ASSUME SyncIInv, [Next]_vars
    PROVE  present' \subseteq NamesOfInv' /\ \A p \in present' : Accounted(p)'
<1>1. /\ RunOK /\ inv \subseteq Universe
      /\ present \subseteq NamesOfInv
      /\ \A p \in present : Accounted(p)
    BY IInvParts, TypeParts
<1>2. CASE Tick
    BY <1>1, <1>2, BeginAccounts, OrderKinds DEF Tick
<1>3. CASE sync.pc # "waiting" /\ Return /\ UNCHANGED inv
    <2>1. sync.at + 1 \in 1..(Len(Order) + 1)
        BY <1>1, OrderKinds DEF RunOK
    <2> QED
        BY <1>1, <1>3, <2>1, BeginAccounts DEF Return
<1>4. CASE CloudMoves \/ User \/ StartCache \/ CacheMoves \/ UNCHANGED vars
    <2>1. UNCHANGED sync /\ present' \subseteq present /\ present' \subseteq NamesOfInv'
        BY <1>1, <1>4 DEF CloudMoves, User, StartCache, CacheMoves, vars, NamesOfInv
    <2> QED
        BY <1>1, <1>4, <2>1 DEF Accounted, FoundThere, Kind
<1>5. CASE Crash
    BY <1>1, <1>5 DEF Crash, Waiting, Accounted, NamesOfInv
<1>6. ASSUME sync.pc # "waiting", sync'.at = sync.at, UNCHANGED <<inv, present>>,
             \A p \in present : p[1] = Kind =>
                /\ sync'.pc = "collect" =>
                       \/ \E c \in sync'.todo : c.name = p[2]
                       \/ \E i \in 1..Len(sync'.from) : FoundThere(p[2], sync'.from[i])
                /\ sync'.pc = "create" /\ (\E c \in sync'.map : c.name = p[2]) =>
                       \E c \in sync'.todo : c.name = p[2]
                /\ sync'.pc = "delete" => \A c \in sync'.map : c.name # p[2]
      PROVE  present' \subseteq NamesOfInv' /\ \A p \in present' : Accounted(p)'
    <2>1. Kind' = Kind
        BY <1>6 DEF Kind
    <2> QED
        BY <1>1, <1>6, <2>1 DEF Accounted, NamesOfInv, FoundThere
<1>7. CASE Collect /\ ~Return
    <2>1. /\ sync.pc = "collect" /\ sync.from # <<>> /\ UNCHANGED <<inv, present>>
          /\ sync' = [sync EXCEPT !.todo = @ \cup Found(Kind, Head(sync.from)),
                                  !.from = Tail(@)]
        BY <1>7 DEF Collect
    <2>2. /\ sync'.pc = "collect" /\ sync'.at = sync.at /\ sync'.from = Tail(sync.from)
          /\ sync'.todo = sync.todo \cup Found(Kind, Head(sync.from))
        BY <1>1, <2>1 DEF RunOK
    <2>3. ASSUME NEW p \in present, p[1] = Kind
          PROVE  \/ \E c \in sync'.todo : c.name = p[2]
                 \/ \E i \in 1..Len(sync'.from) : FoundThere(p[2], sync'.from[i])
        <3>1. PICK y \in inv : p = <<y.kind, Name(y)>>
            BY <1>1 DEF NamesOfInv
        <3>2. y.kind = Kind /\ Name(y) = p[2] /\ y \in Universe /\ y.kind # "NetworkDomain"
            BY <1>1, <2>3, <3>1, LookedFor
        <3>3. CASE \E c \in sync.todo : c.name = p[2]
            BY <2>2, <3>3
        <3>4. CASE \E i \in 1..Len(sync.from) : FoundThere(p[2], sync.from[i])
            <4>1. PICK i \in 1..Len(sync.from) : FoundThere(p[2], sync.from[i])
                BY <3>4
            <4>2. CASE i = 1
                <5>1. Head(sync.from) \in {"all", y.cloud}
                    BY <1>1, <2>1, <3>2, <4>1, <4>2 DEF FoundThere, RunOK
                <5> QED
                    BY <2>2, <3>2, <5>1, FoundNames
            <4>3. CASE i # 1
                <5>1. i - 1 \in 1..Len(Tail(sync.from)) /\ Tail(sync.from)[i - 1] = sync.from[i]
                    BY <1>1, <2>1, <4>3 DEF RunOK
                <5> QED
                    BY <2>2, <4>1, <5>1
            <4> QED
                BY <4>2, <4>3
        <3> QED
            BY <1>1, <2>1, <2>3, <3>3, <3>4 DEF Accounted
    <2> QED
        BY <1>6, <2>1, <2>2, <2>3
<1>8. CASE Read /\ ~Return
    <2>1. /\ sync.pc = "collect" /\ sync.from = <<>> /\ UNCHANGED <<inv, present>>
          /\ sync' = [sync EXCEPT !.pc = "create", !.map = {c \in cache : c.kind = Kind}]
        BY <1>8 DEF Read
    <2>2. sync'.pc = "create" /\ sync'.at = sync.at /\ sync'.todo = sync.todo
        BY <1>1, <2>1 DEF RunOK
    <2>3. \A p \in present : p[1] = Kind => \E c \in sync.todo : c.name = p[2]
        BY <1>1, <2>1 DEF Accounted
    <2> QED
        BY <1>6, <2>1, <2>2, <2>3
<1>9. CASE Match
    <2>1. PICK c \in sync.todo :
              /\ sync.pc = "create" /\ UNCHANGED <<inv, present>>
              /\ sync' = [sync EXCEPT !.todo = @ \ {c},
                                      !.map = @ \ Named(sync.map, Kind, c.name)]
        BY <1>9 DEF Match
    <2>2. /\ sync'.pc = "create" /\ sync'.at = sync.at /\ sync'.todo = sync.todo \ {c}
          /\ sync'.map = sync.map \ Named(sync.map, Kind, c.name)
        BY <1>1, <2>1 DEF RunOK
    <2>3. \A d \in sync'.map : d.name # c.name
        BY <1>1, <2>2 DEF Named, RunOK
    <2>4. \A p \in present : p[1] = Kind /\ (\E d \in sync'.map : d.name = p[2]) =>
              \E d \in sync'.todo : d.name = p[2]
        BY <1>1, <2>1, <2>2, <2>3 DEF Accounted
    <2> QED
        BY <1>6, <2>1, <2>2, <2>4
<1>10. CASE Create /\ ~Return
    <2>1. PICK c \in sync.todo :
              /\ sync.pc = "create" /\ UNCHANGED <<inv, present>>
              /\ Named(sync.map, Kind, c.name) = {}
              /\ sync' = [sync EXCEPT !.todo = @ \ {c}]
        BY <1>10 DEF Create
    <2>2. /\ sync'.pc = "create" /\ sync'.at = sync.at /\ sync'.todo = sync.todo \ {c}
          /\ sync'.map = sync.map
        BY <1>1, <2>1 DEF RunOK
    <2>3. \A d \in sync'.map : d.name # c.name
        BY <1>1, <2>1, <2>2 DEF Named, RunOK
    <2>4. \A p \in present : p[1] = Kind /\ (\E d \in sync'.map : d.name = p[2]) =>
              \E d \in sync'.todo : d.name = p[2]
        BY <1>1, <2>1, <2>2, <2>3 DEF Accounted
    <2> QED
        BY <1>6, <2>1, <2>2, <2>4
<1>11. CASE Created
    <2>1. /\ sync.pc = "create" /\ sync.todo = {} /\ UNCHANGED <<inv, present>>
          /\ sync' = [sync EXCEPT !.pc = "delete"]
        BY <1>11 DEF Created
    <2>2. sync'.pc = "delete" /\ sync'.at = sync.at /\ sync'.map = sync.map
        BY <1>1, <2>1 DEF RunOK
    <2>3. \A p \in present : p[1] = Kind => \A c \in sync.map : c.name # p[2]
        BY <1>1, <2>1 DEF Accounted
    <2> QED
        BY <1>6, <2>1, <2>2, <2>3
<1>12. CASE Delete /\ ~Return
    <2>1. PICK c \in sync.map :
              /\ sync.pc = "delete" /\ UNCHANGED <<inv, present>>
              /\ sync' = [sync EXCEPT !.map = @ \ {c}]
        BY <1>12 DEF Delete
    <2>2. sync'.pc = "delete" /\ sync'.at = sync.at /\ sync'.map = sync.map \ {c}
        BY <1>1, <2>1 DEF RunOK
    <2>3. \A p \in present : p[1] = Kind => \A d \in sync.map : d.name # p[2]
        BY <1>1, <2>1 DEF Accounted
    <2> QED
        BY <1>6, <2>1, <2>2, <2>3
<1> QED
    <2>1. Collect \/ Read \/ Create \/ Delete \/ Deleted => sync.pc # "waiting" /\ UNCHANGED inv
        BY DEF Collect, Read, Create, Delete, Deleted
    <2>2. Deleted => Return
        BY DEF Deleted
    <2> QED
        BY <1>2, <1>3, <1>4, <1>5, <1>7, <1>8, <1>9, <1>10, <1>11, <1>12, <2>1, <2>2
           DEF Next, Sync

(***************************************************************************)
(* A name that the server has had ever since a syncer began is found by    *)
(* it, in whatever order the clouds and the custom resources change while  *)
(* it runs.                                                                *)
(***************************************************************************)
THEOREM SyncInvariance == Spec => []SyncIInv
<1>1. Init => SyncIInv
    <2>1. Init => sync.pc = "waiting" /\ sync.todo = {} /\ sync.map = {}
        BY DEF Init, Waiting
    <2> QED
        BY <2>1, InitTypes, IInvParts DEF Init, Accounted, LabelsOK, Marked, NamesOfInv
<1>2. SyncIInv /\ [Next]_vars => SyncIInv'
    <2> SUFFICES ASSUME SyncIInv, [Next]_vars
                 PROVE  SyncIInv'
        OBVIOUS
    <2>1. TypeOK /\ LabelsOK
        BY IInvParts
    <2>2. TypeOK' /\ LabelsOK'
        BY <2>1, NextTypes, NextLabels
    <2>3. present' \subseteq NamesOfInv' /\ \A p \in present' : Accounted(p)'
        BY NextAccounts
    <2> QED
        BY <2>2, <2>3 DEF SyncIInv, LabelsOK, Marked, NamesOfInv, Accounted
<1> QED
    BY <1>1, <1>2, PTL DEF Spec

-----------------------------------------------------------------------------
(* What follows from it.                                                   *)

\* In a step of the syncer only a Delete takes custom resources away, and only those
\* that have the kind and the name of something in its map.
LEMMA OnlyDeletes ==
    ASSUME TypeOK, [Next]_vars, sync' # sync, NEW c \in crds, c \notin crds'
    PROVE  /\ sync.pc = "delete"
           /\ \E d \in sync.map : ~Keeps(d) /\ c.kind = Kind /\ d.kind = Kind /\ c.name = d.name
<1>1. ~(CloudMoves \/ User \/ StartCache \/ CacheMoves \/ UNCHANGED vars)
    BY DEF CloudMoves, User, StartCache, CacheMoves, vars
<1>2. Delete
    BY <1>1 DEF Next, Sync, Tick, Collect, Read, Match, Create, Created, Deleted, Crash
<1>3. PICK d \in sync.map :
          /\ sync.pc = "delete" /\ ~Keeps(d)
          /\ crds' \in {crds, crds \ Named(crds, Kind, d.name)}
    BY <1>2 DEF Delete
<1>4. c \in Named(crds, Kind, d.name)
    BY <1>3
<1>5. d.kind = Kind
    BY TypeParts DEF RunOK
<1> QED
    BY <1>3, <1>4, <1>5 DEF Named

(***************************************************************************)
(* A failed or partial listing, a stale or empty cache, an aborted run or  *)
(* a crash never cost a resource its custom resource: what a syncer        *)
(* deletes, the server has been without at some time since it began.       *)
(***************************************************************************)
THEOREM OnlyGoneDeleted == Spec => DeletesOnlyGone
<1>1. SyncIInv /\ [Next]_vars =>
          [sync' # sync => \A c \in crds \ crds' : <<c.kind, c.name>> \notin present]_vars
    <2> SUFFICES ASSUME SyncIInv, [Next]_vars, sync' # sync,
                        NEW c \in crds \ crds', <<c.kind, c.name>> \in present
                 PROVE  FALSE
        OBVIOUS
    <2>1. TypeOK /\ Accounted(<<c.kind, c.name>>)
        BY IInvParts
    <2>2. /\ sync.pc = "delete" /\ c.kind = Kind
          /\ \E d \in sync.map : c.name = d.name
        BY <2>1, OnlyDeletes
    <2> QED
        BY <2>1, <2>2 DEF Accounted
<1> QED
    BY <1>1, SyncInvariance, PTL DEF Spec, DeletesOnlyGone

(***************************************************************************)
(* However stale the cache is, no syncer deletes a NetworkDomain that it   *)
(* has read with a label of the user's.                                    *)
(***************************************************************************)
THEOREM UserDomainsSafe == Spec => UserDomainsKept
<1>1. SyncIInv /\ [Next]_vars =>
          [sync' # sync => \A c \in sync.map \cap crds :
              c.label \notin {"none", "yes"} => c \in crds']_vars
    <2> SUFFICES ASSUME SyncIInv, [Next]_vars, sync' # sync,
                        NEW c \in sync.map \cap crds, c.label \notin {"none", "yes"},
                        c \notin crds'
                 PROVE  FALSE
        OBVIOUS
    <2>1. TypeOK /\ RunOK /\ LabelsOK
        BY IInvParts, TypeParts
    <2>2. PICK d \in sync.map :
              ~Keeps(d) /\ c.kind = Kind /\ d.kind = Kind /\ c.name = d.name
        BY <2>1, OnlyDeletes
    <2>3. c = d
        BY <2>1, <2>2 DEF RunOK, Unique
    <2>4. c.kind = "NetworkDomain"
        BY <2>1 DEF LabelsOK, Marked
    <2> QED
        BY <2>2, <2>3, <2>4 DEF Keeps
<1> QED
    BY <1>1, SyncInvariance, PTL DEF Spec, UserDomainsKept
=============================================================================
