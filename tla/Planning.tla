------------------------------ MODULE Planning ------------------------------
(***************************************************************************)
(* How a launch finds memory: the estimate of a model's demand             *)
(* (scheduler/demand.go), the search for a way to run it (runtime_plan.go, *)
(* placement.go), the choice of instances to evict (eviction.go), and the  *)
(* loop that claims, evicts and plans again (lifecycle/runtime_launch.go)  *)
(* while requests come and go and other programs use the devices.          *)
(***************************************************************************)
EXTENDS Memory, Integers, Sequences, FiniteSets, Functions

CONSTANTS
    GPUs,          \* devices of the host, numbered in the order of their IDs
    Workers,       \* the other instances, numbered in the order of their IDs
    Scenes,        \* what a launch finds (see SceneType)
    DeviceTotal,   \* memory of each device
    RAM,           \* memory of the host
    RAMReserve,    \* RAM a runtime plan leaves free
    Overhead,      \* the least runtime overhead of a model
    MaxAttempts,   \* maxEvictionPlanAttempts
    MaxChanges     \* bound on what others do meanwhile

PlanningAssumption ==
    /\ GPUs \subseteq Nat /\ Workers \subseteq Nat
    /\ {DeviceTotal, RAM, RAMReserve, Overhead, Reserve, MaxAttempts, MaxChanges} \subseteq Nat

Amounts == [GPUs -> Nat]
Absent  == -1      \* an option that is not set

\* A model; the options set for it and what the active llama-server supports;
\* where it may go; and the workers that are loaded.  "exposed" are the
\* devices that llama-server can address, of those the probe finds.
ModelType  == [weights : Nat, companion : Nat, kv : Nat, blocks : Nat, experts : Nat]
OptionType == [layers : Nat \cup {Absent}, moe : Nat \cup {Absent}, cpumoe : BOOLEAN,
               kv : {"unset", "gpu", "ram"}]
WantType   == [mode : {"auto", "manual"}, devices : Seq(GPUs), split : Seq(Nat)]
WorkerType == [rank : Nat, used : Nat, evictable : BOOLEAN, devices : Seq(GPUs), split : Seq(Nat),
               estimate : Nat, host : Nat, lease : Amounts, real : Amounts, seen : BOOLEAN]
SceneType  == [model : ModelType, base : OptionType, want : WantType, spill : BOOLEAN,
               caps : SUBSET {"n-cpu-moe", "cpu-moe", "no-kv-offload", "gpu-layers"},
               exposed : SUBSET GPUs, workers : [Workers -> WorkerType]]

VARIABLES
    scene,     \* the scene of this behaviour
    loaded,    \* workers that run
    occupied,  \* workers with requests
    foreign,   \* device memory used by other programs
    phase,     \* step of prepareRuntimeLaunch
    view,      \* the hardware snapshot it plans with
    attempt,
    skip,      \* victims that turned out ineligible
    ranking,   \* candidates still to consider, best victim first
    chosen,    \* the victims of the plan being made
    plan,      \* the last runtime plan
    evicted,   \* workers this launch stopped (history)
    changes

planVars == <<scene, loaded, occupied, foreign, phase, view, attempt, skip, ranking, chosen,
              plan, evicted, changes>>
setting == <<scene, loaded, occupied, foreign, evicted, changes>>

-----------------------------------------------------------------------------
(* EstimateDemand.                                                         *)

Rounded(a, b) == (2 * a + b) \div (2 * b)
AtMost(n, limit) == Smaller(AtLeastZero(n), limit)

\* The share of the weights that belongs to routed experts, as a fraction.
ExpertWeightShare(experts) ==
    IF experts =< 1 THEN <<3, 4>> ELSE IF experts >= 7 THEN <<17, 20>> ELSE <<experts - 1, experts>>

\* Weights left in RAM: whole layers, and the experts of the blocks that stay
\* on the device but for them.
HostWeights(m, gpuLayers, moeBlocks) ==
    LET cpuBlocks == m.blocks - AtMost(gpuLayers, m.blocks)
        extra == AtLeastZero(AtMost(moeBlocks, m.blocks) - cpuBlocks)
        share == ExpertWeightShare(m.experts)
    IN  IF m.weights = 0 \/ m.blocks = 0 THEN 0
        ELSE AtMost(Rounded(m.weights * cpuBlocks, m.blocks)
                      + (IF extra > 0 /\ m.experts > 0
                         THEN Rounded(m.weights * share[1] * extra, share[2] * m.blocks) ELSE 0),
                    m.weights)

\* An unset, negative or large layer count offloads everything.
CpuOnly(o) == o.layers = 0
OffloadedLayers(m, o) == IF o.layers = Absent \/ o.layers >= m.blocks THEN m.blocks ELSE o.layers
CpuMoeBlocks(m, o) == IF o.cpumoe THEN m.blocks ELSE IF o.moe =< m.blocks THEN o.moe ELSE Absent

KVInRAM(o) == CpuOnly(o) \/ o.kv = "ram"

\* Weights on the devices: the offloaded layers, or all but what is kept in RAM.
WeightsOnGPU(m, o) ==
    IF CpuOnly(o) THEN 0
    ELSE IF m.blocks = 0 THEN m.weights
    ELSE IF m.experts > 0 /\ CpuMoeBlocks(m, o) # Absent
    THEN m.weights - HostWeights(m, OffloadedLayers(m, o), CpuMoeBlocks(m, o))
    ELSE AtMost(Rounded(m.weights * OffloadedLayers(m, o), m.blocks), m.weights)

\* What every run needs besides: a twentieth, but no less than Overhead.
Fixed(m) ==
    LET part == (m.weights + m.companion + 19) \div 20
    IN  m.companion + (IF part < Overhead THEN Overhead ELSE part)

DemandOf(m, o, onGPU) ==
    [split |-> onGPU,
     fixed |-> IF CpuOnly(o) THEN 0 ELSE Fixed(m) + (IF KVInRAM(o) THEN 0 ELSE m.kv),
     host  |-> (m.weights - onGPU) + (IF KVInRAM(o) THEN m.kv ELSE 0) + (IF CpuOnly(o) THEN Fixed(m) ELSE 0)]

EstimateDemand(m, o) == DemandOf(m, o, WeightsOnGPU(m, o))

VRAMBytes(d) == d.split + d.fixed

-----------------------------------------------------------------------------
(* Placement of a demand on free memory.                                   *)

SumSeq(s, n) == SumOver(1..n, LAMBDA k : s[k])

\* Bytes split over a sequence of devices by weight, the last one taking what
\* is left; equal parts when the weights are of no use.
SplitAcross(bytes, seq, weights) ==
    LET n == Len(seq)
        w == IF Len(weights) = n /\ SumSeq(weights, n) > 0 THEN weights ELSE [k \in 1..n |-> 1]
        part(k) == (bytes * w[k]) \div SumSeq(w, n)
        share(k) == IF k = n THEN bytes - SumOver(1..(n - 1), part) ELSE part(k)
    IN  [d \in GPUs |-> IF bytes > 0 /\ d \in Range(seq)
                        THEN share(CHOOSE k \in 1..n : seq[k] = d) ELSE 0]

\* Manual placement: the first device takes what cannot be split.
ManualDemand(want, d) ==
    LET parts == SplitAcross(d.split, want.devices, want.split)
    IN  [parts EXCEPT ![want.devices[1]] = @ + d.fixed]

\* Where a demand goes: "room" is the usable memory it is compared with.
\* One device is enough, or all are taken together.
Single(free, bytes) == {d \in DOMAIN free : UsableVRAM(free, d) >= bytes}
Largest(free) == CHOOSE d \in DOMAIN free : Before(free, d) = {}
Taken(free, bytes) ==
    IF Single(free, bytes) # {} THEN {Largest(free)}
    ELSE {d \in DOMAIN free : /\ UsableVRAM(free, d) > 0
                              /\ SumOver(Before(free, d), LAMBDA e : UsableVRAM(free, e)) < bytes}

OnNone(fits) == [fits |-> fits, devices |-> {}, need |-> <<>>, room |-> 0]

OnNamed(free, devices, need) ==
    [fits |-> \A g \in devices : UsableVRAM(free, g) >= need[g], devices |-> devices, need |-> need,
     room |-> SumOver(devices, LAMBDA g : UsableVRAM(free, g))]

OnTaken(free, bytes, devices) ==
    [fits |-> AutoFits(free, bytes), devices |-> devices, need |-> <<>>,
     room |-> SumOver(devices, LAMBDA g : UsableVRAM(free, g))]

PlanPlacement(want, free, d) ==
    IF VRAMBytes(d) = 0 \/ DOMAIN free = {} THEN OnNone(VRAMBytes(d) = 0)
    ELSE IF want.mode = "manual" THEN OnNamed(free, Range(want.devices), ManualDemand(want, d))
    ELSE OnTaken(free, VRAMBytes(d), Taken(free, VRAMBytes(d)))

RuntimeHostRAMFits(ram, host) == host = 0 \/ ram - RAMReserve >= host

-----------------------------------------------------------------------------
(* PlanRuntime: the ways to run a model, tried in order.  s is the scene,  *)
(* v the memory as a launch may use it.                                    *)

Mode(o, d, place) ==
    IF VRAMBytes(d) = 0 THEN "cpu"
    ELSE IF o.cpumoe \/ o.moe # Absent THEN "moe"
    ELSE IF o.kv = "ram" THEN "hybrid"
    ELSE IF o.layers > 0 THEN "partial"
    ELSE IF Cardinality(place.devices) > 1 THEN "multi_gpu" ELSE "full"

Outcome(v, o, spill, d, place) ==
    [fits |-> place.fits /\ RuntimeHostRAMFits(v.ram, d.host), mode |-> Mode(o, d, place),
     demand |-> d, place |-> place, options |-> o, spill |-> spill]
Placed(s, v, o, spill, d) == Outcome(v, o, spill, d, PlanPlacement(s.want, v.free, d))
Evaluate(s, v, o, spill) == Placed(s, v, o, spill, EstimateDemand(s.model, o))

Locked(o) == [layers |-> o.layers # Absent, moe |-> o.moe # Absent \/ o.cpumoe, kv |-> o.kv # "unset"]

\* The binary searches for the least, and the greatest, count that fits; S are
\* the counts that do.  0 if none is met.
Least(S, max) ==
    LET f[lo \in 1..(max + 1), hi \in 0..max] ==
          IF lo > hi THEN 0
          ELSE LET mid == lo + (hi - lo) \div 2
               IN  IF mid \notin S THEN f[mid + 1, hi]
                   ELSE IF f[lo, mid - 1] = 0 THEN mid ELSE f[lo, mid - 1]
    IN  f[1, max]

Greatest(S, max) ==
    LET f[lo \in 1..(max + 1), hi \in 0..max] ==
          IF lo > hi THEN 0
          ELSE LET mid == lo + (hi - lo) \div 2
               IN  IF mid \notin S THEN f[lo, mid - 1]
                   ELSE IF f[mid + 1, hi] = 0 THEN mid ELSE f[mid + 1, hi]
    IN  f[1, max]

\* The numbers of offloaded layers, and of expert blocks in RAM, that fit.
FittingLayers(s, v, o) ==
    {n \in 1..s.model.blocks : Evaluate(s, v, [o EXCEPT !.layers = n], TRUE).fits}
FittingExperts(s, v) ==
    {n \in 1..s.model.blocks : Evaluate(s, v, [s.base EXCEPT !.moe = n], FALSE).fits}

NoPlan == [fits |-> FALSE]

MayMoveLayers(s) == ~Locked(s.base).layers /\ "gpu-layers" \in s.caps
MayMoveKV(s) == ~Locked(s.base).kv /\ "no-kv-offload" \in s.caps
MayMoveExperts(s) == "n-cpu-moe" \in s.caps /\ ~Locked(s.base).moe

\* The ways to run a model in the order they are tried: as it is set; with
\* experts in RAM, block by block or all of them with the KV cache; and where
\* the host may be used, with layers, layers and the cache, the cache alone, or
\* everything in RAM.
Ways == <<"as set", "experts", "experts and kv", "layers", "layers and kv", "kv", "host">>

Allowed(s, moe, way) ==
    CASE way = "as set"         -> TRUE
      [] way = "experts"        -> moe /\ s.model.blocks > 0
      [] way = "experts and kv" -> moe /\ s.model.blocks > 0 /\ (s.base.kv = "ram" \/ MayMoveKV(s))
      [] way = "layers"         -> s.spill /\ MayMoveLayers(s)
      [] way = "layers and kv"  -> s.spill /\ MayMoveLayers(s) /\ MayMoveKV(s)
      [] way = "kv"             -> s.spill /\ ~MayMoveLayers(s) /\ MayMoveKV(s)
      [] way = "host"           -> s.spill /\ MayMoveLayers(s)

MoveKV(o) == [o EXCEPT !.kv = "ram"]
MoveExperts(s, n) ==
    IF n = s.model.blocks /\ "cpu-moe" \in s.caps THEN [s.base EXCEPT !.cpumoe = TRUE]
    ELSE [s.base EXCEPT !.moe = n]

\* planAutomaticMoE and planDensePartial: as few experts, and as many layers,
\* as the search finds.
AutomaticMoE(s, v) ==
    {MoveExperts(s, n) : n \in {Least(FittingExperts(s, v), s.model.blocks)} \ {0}}
DensePartial(s, v, o) ==
    {[o EXCEPT !.layers = n] : n \in {Greatest(FittingLayers(s, v, o), s.model.blocks)} \ {0}}

OptionsFor(s, v, way) ==
    CASE way = "as set"         -> {s.base}
      [] way = "experts"        -> AutomaticMoE(s, v)
      [] way = "experts and kv" -> {MoveKV(MoveExperts(s, s.model.blocks))}
      [] way \in {"layers", "layers and kv"} ->
             DensePartial(s, v, IF way = "layers" THEN s.base ELSE MoveKV(s.base))
      [] way = "kv"             -> {MoveKV(s.base)}
      [] way = "host"           -> {[s.base EXCEPT !.layers = 0]}

Tried(s, v, way) ==
    {[Evaluate(s, v, o, way \in {"layers", "layers and kv", "kv", "host"}) EXCEPT
        !.mode = IF way \in {"experts", "experts and kv"} THEN "moe" ELSE @] : o \in OptionsFor(s, v, way)}

FirstOf(plans, otherwise) == IF plans # {} THEN CHOOSE p \in plans : TRUE ELSE otherwise

\* Without a device the model runs on the host, unless layers are set.
PlanOnHost(s, v, o, d) ==
    [fits |-> RuntimeHostRAMFits(v.ram, d.host), mode |-> "cpu", demand |-> d, place |-> OnNone(TRUE),
     spill |-> FALSE, options |-> IF "gpu-layers" \in s.caps THEN o ELSE s.base]
NoLayers(s) == [s.base EXCEPT !.layers = 0]

\* The first way that is allowed and fits, else the model as it is set.
PlanRuntimeIn(s, v, moe) ==
    LET from[k \in 1..(Len(Ways) + 1)] ==
          IF k > Len(Ways) THEN Evaluate(s, v, s.base, FALSE)
          ELSE IF ~Allowed(s, moe, Ways[k]) THEN from[k + 1]
          ELSE FirstOf({p \in Tried(s, v, Ways[k]) : p.fits}, from[k + 1])
    IN  IF DOMAIN v.free = {} /\ ~Locked(s.base).layers
        THEN PlanOnHost(s, v, NoLayers(s), EstimateDemand(s.model, NoLayers(s)))
        ELSE from[IF DOMAIN v.free = {} THEN Len(Ways) + 1 ELSE 1]

\* Expert offload is not tried when an idle host would not need it, unless the
\* policy allows to use the host anyway.
OnDevices(p) == p.fits /\ p.mode \in {"full", "multi_gpu"}
IdleHost(v) == [v EXCEPT !.free = [d \in DOMAIN v.free |-> DeviceTotal], !.ram = RAM]

PlanRuntime(s, v) ==
    PlanRuntimeIn(s, v, /\ s.model.experts > 0 /\ MayMoveExperts(s)
                        /\ s.spill \/ ~OnDevices(PlanRuntimeIn(s, IdleHost(v), s.model.experts > 0)))

-----------------------------------------------------------------------------
(* What the launch sees, and what stopping a worker would give back.       *)

\* AttributeResources: observed memory, at least the lease; devices nothing
\* was observed on get their lease or a part of the estimate; without any
\* device the estimate counts only where there is just one.
LeaseDevices(w) == {d \in GPUs : w.lease[d] > 0}
Ordered(S) == CHOOSE s \in [1..Cardinality(S) -> S] :
                 \A a, b \in 1..Cardinality(S) : a < b => s[a] < s[b]
Seen(w) == IF w.seen THEN {d \in GPUs : w.real[d] > 0} ELSE {}

Attributed(w) ==
    LET devices  == IF w.devices # <<>> THEN w.devices ELSE Ordered(LeaseDevices(w))
        known    == [d \in GPUs |-> IF d \in Seen(w) /\ w.real[d] > w.lease[d] THEN w.real[d] ELSE w.lease[d]]
        missing  == SelectSeq(devices, LAMBDA d : d \notin Seen(w) \cup LeaseDevices(w))
        rest     == SplitAcross(w.estimate - SumOver(GPUs, LAMBDA d : known[d]), missing, w.split)
    IN  IF Seen(w) # {} THEN [d \in GPUs |-> known[d] + rest[d]]
        ELSE IF devices # <<>>
        THEN IF w.estimate > 0 THEN SplitAcross(w.estimate, devices, w.split) ELSE w.lease
        ELSE IF Cardinality(scene.exposed) = 1
        THEN [d \in GPUs |-> IF d \in scene.exposed THEN w.estimate ELSE 0]
        ELSE [d \in GPUs |-> 0]

W(i) == scene.workers[i]
UsedBy(S, d) == SumOver(S, LAMBDA i : W(i).real[d])

\* The hardware as it is, through the filter of what llama-server addresses.
Snapshot == [used |-> [d \in scene.exposed |-> UsedBy(loaded, d) + foreign[d]],
             ram  |-> SumOver(loaded, LAMBDA i : W(i).host)]

\* What stopping a worker gives back.
Credit(i) == [gpus |-> Attributed(W(i)), host |-> W(i).host]

\* PlanningSnapshotWithCredits: leases of the workers in S do not count, and
\* what is attributed to them is given back; a worker that is gone has no
\* lease, and so no credit.
Capacity(v, S) ==
    LET credited == S \cap loaded
        others   == loaded \ S
    IN  [free |-> [d \in DOMAIN v.used |->
                     Adjusted(DeviceTotal, v.used[d], 0, SumOver(others, LAMBDA i : W(i).lease[d]),
                              SumOver(credited, LAMBDA i : Credit(i).gpus[d]))],
         ram  |-> Adjusted(RAM, v.ram, 0, SumOver(others, LAMBDA i : W(i).host),
                           SumOver(credited, LAMBDA i : Credit(i).host))]

\* RankEvictionCandidates: by priority, then the one not used for longest,
\* then the largest, then by ID.
ResourceBytes(i) == SumOver(GPUs, LAMBDA d : Attributed(W(i))[d])

Earlier(a, b) == \E n \in 1..4 : a[n] < b[n] /\ \A m \in 1..(n - 1) : a[m] = b[m]
Better(i, j) ==
    Earlier(<<W(i).rank, W(i).used, -ResourceBytes(i), i>>, <<W(j).rank, W(j).used, -ResourceBytes(j), j>>)

Eligible == {i \in loaded : W(i).evictable /\ i \notin occupied}
Ranked(S) == CHOOSE s \in [1..Cardinality(S) -> S] :
                \A a, b \in 1..Cardinality(S) : a < b => Better(s[a], s[b])
GivesBack(i) == W(i).host > 0 \/ ResourceBytes(i) > 0

\* runtimePlanProgress: what one more victim must bring to be chosen.
Deficit(p, v) ==
    IF p.place.need # <<>>
    THEN SumOver(GPUs, LAMBDA d : AtLeastZero(p.place.need[d]
                                    - (IF d \in DOMAIN v.free THEN UsableVRAM(v.free, d) ELSE 0)))
    ELSE AtLeastZero(VRAMBytes(p.demand) - p.place.room)

Progress(before, after, vb, va) ==
    \/ after.fits
    \/ ~RuntimeHostRAMFits(vb.ram, before.demand.host)
       /\ (RuntimeHostRAMFits(va.ram, after.demand.host) \/ va.ram > vb.ram)
    \/ Deficit(after, va) < Deficit(before, vb)

-----------------------------------------------------------------------------
(* prepareRuntimeLaunch.                                                   *)

NoView == [used |-> <<>>, ram |-> 0]

PlanInit ==
    /\ scene \in Scenes
    /\ loaded = Workers /\ occupied = {} /\ foreign \in [GPUs -> {0, 1}]
    /\ phase = "look" /\ view = NoView /\ attempt = 0 /\ skip = {}
    /\ ranking = <<>> /\ chosen = {} /\ plan = NoPlan
    /\ evicted = {} /\ changes = 0

Go(step) == phase' = step
Chosen == UNCHANGED <<ranking, chosen>>

\* Manual placement names devices llama-server exposes, else nothing starts.
Look ==
    /\ phase = "look"
    /\ IF scene.want.mode = "manual" /\ ~(Range(scene.want.devices) \subseteq scene.exposed)
       THEN Go("refused") /\ UNCHANGED view
       ELSE Go("acquire") /\ view' = Snapshot
    /\ Chosen /\ UNCHANGED <<setting, attempt, skip, plan>>

\* AcquireRuntime without credits: what was stopped shows in the snapshot.
AcquireFree ==
    /\ phase = "acquire"
    /\ plan' = PlanRuntime(scene, Capacity(view, {}))
    /\ Go(IF plan'.fits THEN "launched" ELSE IF attempt = MaxAttempts THEN "exhausted" ELSE "rank")
    /\ Chosen /\ UNCHANGED <<setting, view, attempt, skip>>

RankVictims ==
    /\ phase = "rank"
    /\ ranking' = Ranked(Eligible \ skip) /\ chosen' = {}
    /\ plan' = PlanRuntime(scene, Capacity(view, {}))
    /\ Go("cover")
    /\ UNCHANGED <<setting, view, attempt, skip>>

ChooseIf(useful, i, then) ==
    IF useful THEN chosen' = chosen \cup {i} /\ plan' = then ELSE UNCHANGED <<chosen, plan>>
Weigh(i, before, after, then) == ChooseIf(GivesBack(i) /\ Progress(plan, then, before, after), i, then)
TryWith(i, after) == Weigh(i, Capacity(view, chosen), after, PlanRuntime(scene, after))

Consider ==
    /\ phase = "cover" /\ ranking # <<>> /\ ~plan.fits
    /\ ranking' = Tail(ranking)
    /\ TryWith(ranking[1], Capacity(view, chosen \cup {ranking[1]}))
    /\ UNCHANGED <<setting, phase, view, attempt, skip>>

Covered ==
    /\ phase = "cover" /\ (ranking = <<>> \/ plan.fits)
    /\ Go(IF plan.fits THEN "claim" ELSE "blocked")
    /\ Chosen /\ UNCHANGED <<setting, view, attempt, skip, plan>>

\* Faulty claim: the launch does not wait for its victims.
ClaimAndGo ==
    /\ phase = "claim"
    /\ plan' = PlanRuntime(scene, Capacity(view, chosen))
    /\ Go(IF ~plan'.fits THEN "blocked" ELSE "launched")
    /\ Chosen /\ UNCHANGED <<setting, view, attempt, skip>>

\* The lease is taken with the victims credited, if the plan still fits; the
\* launch goes ahead when no victim is left to stop.
Claim ==
    /\ phase = "claim"
    /\ plan' = PlanRuntime(scene, Capacity(view, chosen))
    /\ Go(IF ~plan'.fits THEN "blocked" ELSE IF chosen = {} THEN "launched" ELSE "evict")
    /\ Chosen /\ UNCHANGED <<setting, view, attempt, skip>>

\* The best victim is stopped and the plan made anew, unless it is no longer
\* eligible, or is seen only on other devices than it was chosen for.
PlacementCurrent(i) ==
    LET planned == {d \in GPUs : Credit(i).gpus[d] > 0}
    IN  planned = {} \/ Seen(W(i)) = {} \/ Seen(W(i)) \cap planned # {}

Stopped(i) ==
    /\ loaded' = loaded \ {i} /\ evicted' = evicted \cup {i}
    /\ view' = [used |-> [d \in scene.exposed |-> UsedBy(loaded', d) + foreign[d]],
                ram  |-> SumOver(loaded', LAMBDA w : W(w).host)]
    /\ UNCHANGED skip
Skipped(i) == skip' = skip \cup {i} /\ UNCHANGED <<loaded, evicted, view>>
StopOrSkip(i) == IF i \in Eligible /\ PlacementCurrent(i) THEN Stopped(i) ELSE Skipped(i)

Victim == Ranked(chosen)[1]

\* Faulty eviction: eligibility is not checked again.
EvictAnyway ==
    /\ phase = "evict" /\ Stopped(Victim)
    /\ attempt' = attempt + 1 /\ Go("acquire")
    /\ Chosen /\ UNCHANGED <<scene, occupied, foreign, changes, plan>>

Evict ==
    /\ phase = "evict" /\ StopOrSkip(Victim)
    /\ attempt' = attempt + 1 /\ Go("acquire")
    /\ Chosen /\ UNCHANGED <<scene, occupied, foreign, changes, plan>>

PlanStep == Look \/ AcquireFree \/ RankVictims \/ Consider \/ Covered \/ Claim \/ Evict

\* Meanwhile: a request reaches a worker or leaves it, another program takes
\* or frees device memory, a worker is stopped by someone else.
Change ==
    /\ changes < MaxChanges /\ changes' = changes + 1
    /\ phase \notin {"launched", "blocked", "refused", "exhausted"}

Requested(i) ==
    /\ Change /\ i \in loaded
    /\ occupied' = IF i \in occupied THEN occupied \ {i} ELSE occupied \cup {i}
    /\ UNCHANGED <<scene, loaded, foreign, phase, view, attempt, skip, ranking, chosen, plan, evicted>>

OtherProgram(d) ==
    /\ Change
    /\ foreign' = [foreign EXCEPT ![d] = 1 - @]
    /\ UNCHANGED <<scene, loaded, occupied, phase, view, attempt, skip, ranking, chosen, plan, evicted>>

StoppedElsewhere(i) ==
    /\ Change /\ i \in loaded \ occupied
    /\ loaded' = loaded \ {i}
    /\ UNCHANGED <<scene, occupied, foreign, phase, view, attempt, skip, ranking, chosen, plan, evicted>>

PlanNext ==
    \/ PlanStep
    \/ \E i \in Workers : Requested(i) \/ StoppedElsewhere(i)
    \/ \E d \in GPUs : OtherProgram(d)

PlanSpec == PlanInit /\ [][PlanNext]_planVars

-----------------------------------------------------------------------------
(* Properties.                                                             *)

Outcomes == {"launched", "blocked", "refused", "exhausted"}
PlanTypeOK ==
    /\ scene \in SceneType /\ loaded \subseteq Workers /\ occupied \subseteq Workers
    /\ foreign \in [GPUs -> {0, 1}] /\ evicted \subseteq Workers /\ changes \in 0..MaxChanges
    /\ phase \in Outcomes \cup {"look", "acquire", "rank", "cover", "claim", "evict"}
    /\ attempt \in 0..MaxAttempts /\ skip \subseteq Workers
    /\ Range(ranking) \cup chosen \subseteq Workers
    /\ view = NoView \/ (DOMAIN view.used = scene.exposed /\ view.ram \in Nat)
    /\ plan.fits => plan.mode \in {"cpu", "moe", "hybrid", "partial", "multi_gpu", "full"}

\* A launch goes ahead only with memory that is really there, on each device
\* it was given and on the host, unless the world changed under its snapshot.
Free(d) == DeviceTotal - UsedBy(loaded, d) - foreign[d]
LaunchFits ==
    phase = "launched" /\ view = Snapshot =>
        /\ RuntimeHostRAMFits(RAM - SumOver(loaded, LAMBDA i : W(i).host), plan.demand.host)
        /\ IF plan.place.need # <<>>
           THEN \A d \in plan.place.devices : Free(d) - Reserve >= plan.place.need[d]
           ELSE SumOver(plan.place.devices, LAMBDA d : AtLeastZero(Free(d) - Reserve))
                  >= VRAMBytes(plan.demand)

\* Nobody is evicted for a launch that then fails, as long as the leases say
\* what the workers use, nothing changes meanwhile and the attempts suffice.
Exact(w) == \A d \in GPUs : Attributed(w)[d] = w.real[d] /\ w.lease[d] = w.real[d]
NotInVain ==
    phase \in {"blocked", "exhausted"} /\ evicted # {} =>
        changes > 0 \/ attempt = MaxAttempts \/ \E i \in Workers : ~Exact(W(i))

\* A worker with requests, or protected from eviction, is not stopped.
OccupiedSpared ==
    \A i \in evicted' \ evicted : i \notin occupied /\ W(i).evictable /\ i \notin skip

\* Every victim that is chosen frees RAM, or memory of a device the model may
\* go to.
Useful(i) ==
    \/ W(i).host > 0
    \/ \E d \in scene.exposed :
          Attributed(W(i))[d] > 0 /\ (scene.want.mode = "manual" => d \in Range(scene.want.devices))
VictimsUseful == \A i \in chosen : Useful(i)

\* What the user set stays as set, and memory of the host is used for what
\* would run on the devices only where the user allows it or experts may move.
Kept(o, base) ==
    /\ Locked(base).layers => o.layers = base.layers
    /\ Locked(base).moe => o.moe = base.moe /\ o.cpumoe = base.cpumoe
    /\ Locked(base).kv => o.kv = base.kv
PolicyKept ==
    plan.fits => /\ Kept(plan.options, scene.base)
                 /\ plan.spill => scene.spill
                 /\ scene.exposed # {} /\ plan.options.layers # scene.base.layers => plan.spill

\* With the policy off, a model that an idle host would hold entirely on its
\* devices is not spread over RAM because the host is busy.
NoInventedSpill ==
    plan.fits /\ ~scene.spill /\ scene.base.moe = Absent /\ ~scene.base.cpumoe
      /\ OnDevices(Evaluate(scene, [free |-> [d \in scene.exposed |-> DeviceTotal], ram |-> RAM],
                            scene.base, FALSE))
        => plan.mode # "moe"

\* The binary searches find the best count whenever the counts that fit are
\* the least, or the greatest, ones.
SearchExact ==
    phase = "rank" =>
        LET max     == scene.model.blocks
            layers  == FittingLayers(scene, Capacity(view, {}), scene.base)
            experts == FittingExperts(scene, Capacity(view, {}))
        IN  \A k \in 0..max : /\ layers = 1..k => Greatest(layers, max) = k
                              /\ k > 0 /\ experts = k..max => Least(experts, max) = k

\* What is attributed to a worker is on devices it has, or the only one; and
\* no part of an estimate that is split is lost.
AttributionSound ==
    \A i \in Workers :
        LET w == W(i)
            got == Attributed(w)
        IN  /\ \A d \in GPUs : got[d] > 0 => \/ d \in Range(w.devices) \cup LeaseDevices(w) \cup Seen(w)
                                            \/ scene.exposed = {d}
            /\ w.devices # <<>> => SumOver(GPUs, LAMBDA d : got[d]) >= w.estimate

=============================================================================
