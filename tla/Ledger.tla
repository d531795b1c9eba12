------------------------------- MODULE Ledger -------------------------------
(***************************************************************************)
(* The reservation ledger of the resource scheduler                        *)
(* (backend/internal/scheduler/reservation.go).  A start operation         *)
(* acquires a pending lease on device and host memory, commits it once its *)
(* worker is ready and releases it when the worker is gone; a pending      *)
(* lease that outlives its time to live is swept away by the next call.    *)
(* Every operation runs under Ledger.mu, so each is one action.            *)
(***************************************************************************)
EXTENDS Memory, Integers, Sequences, FiniteSets, Functions

CONSTANTS
    Instances,     \* instance identities; they own worker leases
    Benchmarks,    \* benchmark runs; they own leases of their own
    Devices,       \* GPU identities, numbered in the order of their IDs
    TotalBytes,    \* memory of each device, 0 when the probe cannot tell
    HostTotal,     \* RAM of the host, 0 when unknown
    HostReserve,   \* RAM a runtime plan leaves free
    MaxBytes,      \* bound on any amount of memory in a request or snapshot
    TTL,           \* clock ticks a pending lease lives
    MaxLeases,     \* bound on the number of leases ever granted
    Requests       \* the acquisitions callers make (see RequestType)

Owners   == Instances \cup Benchmarks
LeaseIds == 1..MaxLeases
Bytes    == 0..MaxBytes
Vectors  == [Devices -> Bytes]
None     == 0

\* A demand is one candidate the planner may launch with.  "ladder" lists the
\* candidates in the order PlanRuntime tries them (full offload, then spilled
\* to host RAM); Acquire uses the first only.  "measured" is the attribution
\* a credit carries, empty when it names only its victim.  "used" and
\* "hostUsed" are the hardware snapshot.
DemandType  == [vram : Bytes, host : Bytes]
RequestType == [mode : {"auto", "manual"}, devices : Seq(Devices),
                ladder : Seq(DemandType), credits : SUBSET Instances,
                measured : Vectors \cup {<<>>}, used : Vectors, hostUsed : Bytes]

ASSUME LedgerAssumption ==
    /\ Instances \cap Benchmarks = {}
    /\ TTL \in Nat /\ MaxLeases \in Nat /\ MaxBytes \in Nat
    /\ TotalBytes \in [Devices -> Nat] /\ {HostTotal, Reserve, HostReserve} \subseteq Nat
    /\ Requests \subseteq RequestType
    /\ \A r \in Requests :
          /\ Len(r.ladder) > 0
          /\ r.mode = "manual" => r.devices # <<>> /\ IsInjective(r.devices)

VARIABLES
    leases,    \* lease ID -> lease, NoLease when the map has no such key
    byOwner,   \* owner -> ID of its lease, None when absent
    claimed,   \* victim instance -> ID of the lease credited with it
    nextId     \* the ID the next lease gets: IDs are never reused

vars == <<leases, byOwner, claimed, nextId>>

NoLease == [state |-> "none"]
Lease   == [state : {"pending", "committed"}, owner : Owners, gpus : Vectors,
            host : Bytes, left : -1..TTL]

TypeOK ==
    /\ leases  \in [LeaseIds -> Lease \cup {NoLease}]
    /\ byOwner \in [Owners -> LeaseIds \cup {None}]
    /\ claimed \in [Instances -> LeaseIds \cup {None}]
    /\ nextId  \in 1..(MaxLeases + 1)

Init ==
    /\ leases  = [id \in LeaseIds |-> NoLease]
    /\ byOwner = [o \in Owners |-> None]
    /\ claimed = [i \in Instances |-> None]
    /\ nextId  = 1

-----------------------------------------------------------------------------
(* The ledger's three maps as one value, and the helpers that edit it.     *)

Tables == [leases |-> leases, byOwner |-> byOwner, claimed |-> claimed]

Held(t) == {id \in LeaseIds : t.leases[id] # NoLease}

\* Faulty releaseLocked: the owner index keeps naming a lease that is gone.
DropLeaseOnly(t, S) ==
    [leases  |-> [id \in LeaseIds |-> IF id \in S THEN NoLease ELSE t.leases[id]],
     byOwner |-> t.byOwner,
     claimed |-> [i \in Instances |-> IF t.claimed[i] \in S THEN None ELSE t.claimed[i]]]

\* Faulty releaseLocked: the claims of a released lease stay behind.
DropKeepingClaims(t, S) ==
    [leases  |-> [id \in LeaseIds |-> IF id \in S THEN NoLease ELSE t.leases[id]],
     byOwner |-> [o \in Owners |-> IF t.byOwner[o] \in S THEN None ELSE t.byOwner[o]],
     claimed |-> t.claimed]

\* releaseLocked, for every ID in S: the owner index forgets the lease only
\* while it still names it, and every claim the lease holds goes with it.
Drop(t, S) ==
    [leases  |-> [id \in LeaseIds |-> IF id \in S THEN NoLease ELSE t.leases[id]],
     byOwner |-> [o \in Owners |-> IF \E id \in S \cap Held(t) :
                                         /\ t.leases[id].owner = o
                                         /\ t.byOwner[o] = id
                                   THEN None ELSE t.byOwner[o]],
     claimed |-> [i \in Instances |-> IF t.claimed[i] \in S THEN None
                                      ELSE t.claimed[i]]]

\* sweepExpiredLocked: only a pending lease strictly past its expiry.
Expired(t) == {id \in Held(t) : /\ t.leases[id].state = "pending"
                                /\ t.leases[id].left < 0}

Swept == Drop(Tables, Expired(Tables))

\* Faulty releaseOwnerLocked: the leases of the claimed victims go as well.
DropOwnerAndClaimed(t, o) ==
    LET victims == {v \in Instances : t.claimed[v] # None /\ t.claimed[v] = t.byOwner[o]}
    IN  Drop(t, {t.byOwner[v] : v \in victims \cup {o}} \ {None})

\* releaseOwnerLocked.
DropOwner(t, o) == Drop(t, {t.byOwner[o]} \ {None})

\* Faulty usableCreditsLocked: a victim may be credited to several starts.
UsableTwice(t, o, credits) ==
    IF o \notin Instances THEN {}
    ELSE {v \in credits : v # o /\ t.byOwner[v] # None}

\* usableCreditsLocked: a victim counts once, never against itself, and only
\* while it still owns a lease.
Usable(t, o, credits) ==
    IF o \notin Instances THEN {}
    ELSE {v \in credits : v # o /\ t.claimed[v] = None /\ t.byOwner[v] # None}

-----------------------------------------------------------------------------
(* Capacity: what a request sees of the hardware once the leases of others *)
(* are taken out (occupancyLocked, adjustSnapshot).                        *)

\* Faulty occupancyLocked: leases still pending take no room.
OthersCommitted(t, o, U) ==
    {id \in Held(t) : /\ t.leases[id].state = "committed"
                      /\ t.leases[id].owner \notin {o} \cup U}

\* The leases that occupy memory from o's point of view: not its own and not
\* those of the victims it is credited with.
Others(t, o, U) == {id \in Held(t) : t.leases[id].owner \notin {o} \cup U}
InState(t, S, st) == {id \in S : t.leases[id].state = st}

\* What the victims will give back: what was measured, or what they lease.
CreditOn(t, U, r, d) ==
    IF r.measured # <<>> THEN Cardinality(U) * r.measured[d]
    ELSE SumOver(U, LAMBDA v : t.leases[t.byOwner[v]].gpus[d])

FreeOn(t, o, U, r, d) ==
    LET bytes(id) == t.leases[id].gpus[d]
        occupants == Others(t, o, U)
    IN  Adjusted(TotalBytes[d], r.used[d],
                 SumOver(InState(t, occupants, "pending"), bytes),
                 SumOver(InState(t, occupants, "committed"), bytes), CreditOn(t, U, r, d))

\* Host memory of which neither the total nor the free part is known stays so.
FreeHost(t, o, U, r) ==
    LET bytes(id) == t.leases[id].host
        occupants == Others(t, o, U)
    IN  IF HostTotal = 0 /\ r.hostUsed = 0 THEN 0
        ELSE Adjusted(HostTotal, r.hostUsed,
                      SumOver(InState(t, occupants, "pending"), bytes),
                      SumOver(InState(t, occupants, "committed"), bytes),
                      SumOver(U, LAMBDA v : bytes(t.byOwner[v])))

-----------------------------------------------------------------------------
(* Placement (placement.go): free is the per-device free memory.           *)

AutoShares(free, bytes) ==
    [d \in Devices |->
        Smaller(UsableVRAM(free, d),
                AtLeastZero(bytes - SumOver(Before(free, d),
                                            LAMBDA e : UsableVRAM(free, e))))]

\* Manual mode splits the demand over the configured devices in equal parts,
\* the last one taking the remainder.
ManualShares(seq, bytes) ==
    LET part == bytes \div Len(seq)
    IN  [d \in Devices |->
            IF d \notin Range(seq) THEN 0
            ELSE IF d = seq[Len(seq)] THEN bytes - (Len(seq) - 1) * part
            ELSE part]

Shares(r, free, bytes) ==
    IF r.mode = "manual" THEN ManualShares(r.devices, bytes) ELSE AutoShares(free, bytes)

Fits(r, free, bytes) ==
    \/ bytes = 0
    \/ r.mode = "auto" /\ AutoFits(free, bytes)
    \/ r.mode = "manual" /\ \A d \in Range(r.devices) :
                               UsableVRAM(free, d) >= ManualShares(r.devices, bytes)[d]

-----------------------------------------------------------------------------
(* Acquisition.                                                            *)

\* Faulty grant: the leases of the credited victims are taken at once.
GrantEvicting(t, o, gpus, host, U) ==
    [leases  |-> [id \in LeaseIds |->
                    IF id = nextId THEN [state |-> "pending", owner |-> o, gpus |-> gpus,
                                         host |-> host, left |-> TTL]
                    ELSE IF t.leases[id] # NoLease /\ t.leases[id].owner \in U THEN NoLease
                    ELSE t.leases[id]],
     byOwner |-> [p \in Owners |-> IF p = o THEN nextId ELSE IF p \in U THEN None
                                   ELSE t.byOwner[p]],
     claimed |-> [i \in Instances |-> IF i \in U THEN nextId ELSE t.claimed[i]]]

\* What a granted request leaves in the maps: a fresh pending lease, and a
\* claim on each victim it was credited with.
Grant(t, o, gpus, host, U) ==
    [leases  |-> [t.leases EXCEPT ![nextId] =
                     [state |-> "pending", owner |-> o, gpus |-> gpus,
                      host |-> host, left |-> TTL]],
     byOwner |-> [t.byOwner EXCEPT ![o] = nextId],
     claimed |-> [i \in Instances |-> IF i \in U THEN nextId ELSE t.claimed[i]]]

Become(t) ==
    /\ leases'  = t.leases
    /\ byOwner' = t.byOwner
    /\ claimed' = t.claimed

\* The common course of Acquire and AcquireRuntime: sweep, give up the owner's
\* previous lease, plan against what is left, and grant the chosen demand.
\* Choose(free, hostFree) is the set of demands the planner may settle on,
\* empty when the request does not fit.
AcquireWith(o, r, Choose(_, _)) ==
    LET t        == DropOwner(Swept, o)
        U        == Usable(t, o, r.credits)
        free     == [d \in Devices |-> FreeOn(t, o, U, r, d)]
        hostFree == FreeHost(t, o, U, r)
        chosen   == Choose(free, hostFree)
    IN  \/ /\ chosen = {}
           /\ Become(t)
           /\ UNCHANGED nextId
        \/ \E demand \in chosen :
             LET gpus == Shares(r, free, demand.vram)
             IN  /\ gpus \in Vectors
                 /\ Become(Grant(t, o, gpus, demand.host, U))
                 /\ nextId' = nextId + 1

\* Acquire: the request names one demand; host RAM counts when it is known.
Acquire(o, r) ==
    /\ nextId \in LeaseIds
    /\ AcquireWith(o, r, LAMBDA free, hostFree :
          {d \in {r.ladder[1]} :
             /\ Fits(r, free, d.vram)
             /\ d.host = 0 \/ (HostTotal = 0 /\ hostFree = 0) \/ hostFree >= d.host})

\* AcquireRuntime: the first demand of the ladder that fits the devices and,
\* with its reserve, the host.
AcquireRuntime(i, r) ==
    /\ nextId \in LeaseIds
    /\ AcquireWith(i, r, LAMBDA free, hostFree :
          LET fits(n) == /\ Fits(r, free, r.ladder[n].vram)
                         /\ r.ladder[n].host = 0 \/ hostFree - HostReserve >= r.ladder[n].host
          IN  {r.ladder[n] : n \in {m \in DOMAIN r.ladder :
                                      fits(m) /\ \A k \in 1..(m - 1) : ~fits(k)}})

-----------------------------------------------------------------------------
(* The rest of a lease's life.                                             *)

\* Faulty commit: the lease loses its placement.
CommittedUnplaced(l) == [l EXCEPT !.state = "committed", !.left = TTL, !.gpus = <<>>]

Committed(l) == [l EXCEPT !.state = "committed", !.left = TTL]

Commit(id) ==
    /\ leases[id].state = "pending"
    /\ leases' = [leases EXCEPT ![id] = Committed(@)]
    /\ UNCHANGED <<byOwner, claimed, nextId>>

\* CommitOwner and CommitInstance: without a lease they silently succeed, with
\* one that is already committed they fail; neither changes the ledger.
CommitOwner(o) == byOwner[o] # None /\ Commit(byOwner[o])

Release(id) ==
    /\ leases[id] # NoLease
    /\ Become(Drop(Tables, {id}))
    /\ UNCHANGED nextId

ReleaseOwner(o) ==
    /\ byOwner[o] # None
    /\ Become(DropOwner(Tables, o))
    /\ UNCHANGED nextId

\* SweepExpired, and every reader: Get, GetByOwner, Pending, All and
\* PlanningSnapshot sweep before they look.
Sweep == Become(Swept) /\ UNCHANGED nextId

\* Time: a pending lease counts down; -1 is "past its expiry".
Tick ==
    /\ leases' = [id \in LeaseIds |->
                    IF leases[id].state = "pending" /\ leases[id].left >= 0
                    THEN [leases[id] EXCEPT !.left = @ - 1] ELSE leases[id]]
    /\ UNCHANGED <<byOwner, claimed, nextId>>

Next ==
    \/ \E o \in Owners, r \in Requests : Acquire(o, r)
    \/ \E i \in Instances, r \in Requests : AcquireRuntime(i, r)
    \/ \E id \in LeaseIds : Commit(id) \/ Release(id)
    \/ \E o \in Owners : CommitOwner(o) \/ ReleaseOwner(o)
    \/ Sweep
    \/ Tick

Spec == Init /\ [][Next]_vars

-----------------------------------------------------------------------------
(* Properties.                                                             *)

\* The owner index and the leases agree both ways: no owner ever holds two
\* leases and no lease is orphaned from its owner, through replacement, expiry
\* and release alike.
OwnerIndex ==
    /\ \A o \in Owners : byOwner[o] # None =>
          /\ leases[byOwner[o]] # NoLease
          /\ leases[byOwner[o]].owner = o
    /\ \A id \in LeaseIds : leases[id] # NoLease => byOwner[leases[id].owner] = id

\* A claim on a victim is always backed by a lease that still exists, and its
\* holder is an instance other than the victim: benchmarks never preempt, and
\* a lease that expires or is released frees its victims for other starts.
ClaimsBacked ==
    \A v \in Instances : claimed[v] # None =>
        /\ leases[claimed[v]] # NoLease
        /\ leases[claimed[v]].owner \in Instances \ {v}

\* A victim lease is displaced while a younger lease is credited with it.
Displaced(id) ==
    LET o == leases[id].owner
    IN  o \in Instances /\ claimed[o] > id

Standing == {id \in LeaseIds : leases[id] # NoLease /\ ~Displaced(id)}

\* Concurrent starts never promise the same memory twice: on every device and
\* on the host, the leases that are not being displaced fit in what exists,
\* whatever the snapshots said and whichever credits were used.
NoOvercommit ==
    /\ \A d \in Devices : TotalBytes[d] > 0 =>
          SumOver(Standing, LAMBDA id : leases[id].gpus[d]) <= TotalBytes[d]
    /\ HostTotal > 0 => SumOver(Standing, LAMBDA id : leases[id].host) <= HostTotal

Gone(id)     == leases[id] # NoLease /\ leases'[id] = NoLease
Lapsed(id)   == leases[id].state = "pending" /\ leases[id].left < 0

\* An acquisition gives up its own owner's lease and no other that is in
\* force: a committed lease never times out, and neither a competing start nor
\* the credit on a victim takes a lease away from its owner.
ReplacesOnlyOwn ==
    [][\A a, b \in LeaseIds :
         /\ Gone(a) /\ ~Lapsed(a)
         /\ leases[b] = NoLease /\ leases'[b] # NoLease
         => leases[a].owner = leases'[b].owner]_vars

\* Whatever a call removes beyond expired leases is a single lease.
OneReleasePerCall ==
    [][\A a, b \in LeaseIds :
         Gone(a) /\ ~Lapsed(a) /\ Gone(b) /\ ~Lapsed(b) => a = b]_vars

\* Two starts in flight are never credited with the same victim: a claim
\* changes hands only after the lease that held it is gone.
ClaimExclusive ==
    [][\A v \in Instances :
         claimed[v] # None /\ claimed'[v] # claimed[v] =>
            leases'[claimed[v]] = NoLease]_vars

\* The ledger keeps the promises of Reservations: what its owner index and its
\* claims say, by owner, is a behaviour of that specification (reservation.go
\* and service.go of lifecycle, which relies on nothing else).
Promises == INSTANCE Reservations WITH
    held     <- [o \in Owners |-> IF byOwner[o] = None THEN "none" ELSE leases[byOwner[o]].state],
    credited <- [v \in Instances |-> IF claimed[v] = None THEN None ELSE leases[claimed[v]].owner],
    Nobody   <- None
KeepsPromises == Promises!ResSpec
=============================================================================
