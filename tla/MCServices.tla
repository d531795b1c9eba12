----------------------------- MODULE MCServices -----------------------------
(* The services around the supervisor's worker control: recovery of stale  *)
(* workers, downloads, benchmarks, the gateway's requests, their write-back *)
(* and the usage it records, the feed of runtime events and samples, the   *)
(* system log, and the planning of launches.  They share no state, so one  *)
(* module checks them side by side: a behaviour runs the component in      *)
(* focus, whose variables are s1, s2 and so on, and the supervisor has     *)
(* variables of its own.                                                   *)
EXTENDS Supervisor, TLC

CONSTANTS
    A,                       \* a pair of interchangeable identities
    p1, p2, p3, Nothing, Done

VARIABLES
    focus,
    s1, s2, s3, s4, s5, s6, s7, s8, s9, s10, s11, s12, s13, s14, s15, s16

\* With a size the provider announces, and with none but a ceiling of 3.
TwoOffers == {[sized |-> TRUE, limit |-> 4], [sized |-> FALSE, limit |-> 3]}

(* The scenes a launch finds: two devices and two other workers.           *)

AModel(w, c, kv, b, e) == [weights |-> w, companion |-> c, kv |-> kv, blocks |-> b, experts |-> e]
PlainOptions == [layers |-> -1, moe |-> -1, cpumoe |-> FALSE, kv |-> "unset"]
AutoWant == [mode |-> "auto", devices |-> <<>>, split |-> <<>>]
ManualWant(s, w) == [mode |-> "manual", devices |-> s, split |-> w]
Vec(a, b) == <<a, b>>
AWorker(rank, used, devs, est, host, lease, real, seen) ==
    [rank |-> rank, used |-> used, evictable |-> TRUE, devices |-> devs, split |-> <<>>,
     estimate |-> est, host |-> host, lease |-> lease, real |-> real, seen |-> seen]

AllCaps == {"n-cpu-moe", "cpu-moe", "no-kv-offload", "gpu-layers"}

\* Small and large, dense and expert models.
SmallModel  == AModel(4, 0, 1, 2, 0)
ExpertModel == AModel(8, 0, 2, 4, 2)
IdleFitting == AModel(7, 0, 1, 4, 2)
MCModels  == {SmallModel, AModel(8, 1, 2, 4, 0), ExpertModel}
MCManuals == {ManualWant(<<2>>, <<>>), ManualWant(<<2, 1>>, <<1, 2>>)}
MCWorkers == {
    AWorker(1, 1, <<>>, 3, 0, Vec(3, 0), Vec(3, 0), TRUE),
    AWorker(1, 0, <<2, 1>>, 3, 2, Vec(1, 2), Vec(1, 2), FALSE),
    AWorker(0, 1, <<1, 2>>, 4, 0, Vec(2, 2), Vec(1, 2), TRUE),
    [AWorker(0, 0, <<>>, 1, 1, Vec(0, 1), Vec(0, 1), TRUE) EXCEPT !.evictable = FALSE],
    AWorker(2, 0, <<>>, 1, 1, Vec(1, 0), Vec(1, 0), TRUE)}

AScene(m, b, w, sp, x, ws) ==
    [model |-> m, base |-> b, want |-> w, spill |-> sp, caps |-> AllCaps, exposed |-> x, workers |-> ws]

\* Automatic placement of every model, manual placement of the small one with
\* devices that llama-server may not expose, and options the user has set.
MCVariants ==
    {<<m, PlainOptions, AutoWant, sp, {1, 2}>> : m \in MCModels, sp \in BOOLEAN}
    \cup {<<SmallModel, PlainOptions, w, FALSE, x>> : w \in MCManuals, x \in {{1, 2}, {2}}}
    \cup {<<IdleFitting, PlainOptions, AutoWant, FALSE, {1, 2}>>}
    \cup {<<ExpertModel, [PlainOptions EXCEPT !.kv = "gpu"], AutoWant, TRUE, {2}>>}
    \cup {<<SmallModel, [PlainOptions EXCEPT !.layers = 1], AutoWant, TRUE, x>> : x \in {{2}, {}}}
MCScenes == {AScene(v[1], v[2], v[3], v[4], v[5], ws) : v \in MCVariants, ws \in [{1, 2} -> MCWorkers]}


Rec == INSTANCE Recovery WITH
    Instances <- A, Pids <- {1, 2}, MaxProcesses <- 3, MaxCrashes <- 2, Recycles <- FALSE, os <- s1,
    started <- s2, rows <- s3, workers <- s4, clearing <- s5, boot <- s6, scanned <- s7, todo <- s8,
    target <- s9, blocked <- s10, blind <- s11, crashes <- s12

Dl == INSTANCE Downloads WITH
    Jobs <- {p1}, Files <- 2, Length <- 2, Offers <- TwoOffers, Versions <- 2, Makers <- {p2},
    Breakers <- {p3}, MidChange <- FALSE, MaxStops <- 1, job <- s1, row <- s2, part <- s3, final <- s4,
    remote <- s5, offer <- s6, run <- s7, request <- s8, missed <- s9, up <- s10, stops <- s11

Bench == INSTANCE Benchmarks WITH
    Runs <- A, BenchFaults <- 1, BenchStarts <- 1, bench <- s1, results <- s2, hold <- s3, making <- s4,
    listedRun <- s5, told <- s6, stage <- s7, proc <- s8, outcome <- s9, canceller <- s10, deleter <- s11,
    boss <- s12, faulty <- s13, starts <- s14

Gw == INSTANCE Gateway WITH
    Reqs <- A, Ids <- {p1}, Owners <- {p2}, Limit <- 2, Batch <- 1, Faults <- 2, req <- s1, queued <- s2,
    working <- s3, registered <- s4, upstream <- s5, cancelled <- s6, entry <- s7, listed <- s8, index <- s9,
    flight <- s10, flusher <- s11, rows <- s12, counted <- s13, accepted <- s14, dropped <- s15, faults <- s16

Feed == INSTANCE Feed WITH
    Insts <- A, Overlayers <- {p1}, BusRoom <- 2, PipeRoom <- 1, TokenLimit <- 2, WorkerLimit <- 2,
    runtime <- s1, tokens <- s2, overlay <- s3, bus <- s4, hand <- s5, pipe <- s6, view <- s7, pushed <- s8,
    outdated <- s9, scrape <- s10, base <- s11, rate <- s12

SL == INSTANCE SystemLog WITH
    Sources <- A, Viewers <- {p1}, RingSize <- 3, Room <- 1, PerSource <- 1, MaxAdds <- 4, data <- s1,
    offset <- s2, full <- s3, history <- s4, cleared <- s5, viewer <- s6

TU == INSTANCE TokenUsage WITH
    LineLimit <- 2, BodyLimit <- 6, ChunkLimit <- 3, body <- s1, pending <- s2, discardLine <- s3,
    values <- s4, result <- s5

P == INSTANCE Planning WITH
    GPUs <- {1, 2}, Workers <- {1, 2}, Scenes <- MCScenes, DeviceTotal <- 6, RAM <- 8, RAMReserve <- 1,
    Overhead <- 1, Reserve <- 1, MaxAttempts <- 2, MaxChanges <- 1, scene <- s1, loaded <- s2, occupied <- s3,
    foreign <- s4, phase <- s5, view <- s6, attempt <- s7, skip <- s8, ranking <- s9, chosen <- s10,
    plan <- s11, evicted <- s12, changes <- s13

ASSUME Rec!RecoveryAssumption
ASSUME DownloadsAssumed == Dl!DownloadsAssumption
ASSUME Bench!BenchAssumption
ASSUME GatewayAssumed == Gw!GatewayAssumption
ASSUME Feed!FeedAssumption
ASSUME SL!LogAssumption
ASSUME TU!UsageAssumption
ASSUME P!PlanningAssumption

-----------------------------------------------------------------------------

\* The variables a component with fewer than sixteen leaves unused.
Blank15 == s15 = 0 /\ s16 = 0
Blank14 == s14 = 0 /\ Blank15
Blank13 == s13 = 0 /\ Blank14
Blank12 == s12 = 0 /\ Blank13
Blank7 == s7 = 0 /\ s8 = 0 /\ s9 = 0 /\ s10 = 0 /\ s11 = 0 /\ Blank12
Blank6 == s6 = 0 /\ Blank7
Blank1 == s1 = 0 /\ s2 = 0 /\ s3 = 0 /\ s4 = 0 /\ s5 = 0 /\ Blank6
rest12 == <<s12, s13, s14, s15, s16>>
rest13 == <<s13, s14, s15, s16>>
rest14 == <<s14, s15, s16>>
rest15 == <<s15, s16>>
rest7  == <<s7, s8, s9, s10, s11, rest12>>
rest6  == <<s6, rest7>>
shared  == <<s1, s2, s3, s4, s5, rest6>>
allVars == <<focus, supVars, shared>>

Init ==
    /\ SupInit
    /\ \/ focus = "supervisor" /\ Blank1
       \/ focus = "recovery" /\ Rec!RecInit /\ Blank13
       \/ focus = "downloads" /\ Dl!DlInit /\ Blank12
       \/ focus = "benchmarks" /\ Bench!BenchInit /\ Blank15
       \/ focus = "gateway" /\ Gw!GwInit
       \/ focus = "feed" /\ Feed!FeedInit /\ Blank13
       \/ focus = "log" /\ SL!LogInit /\ Blank7
       \/ focus = "usage" /\ TU!UsageInit /\ Blank6
       \/ focus = "planning" /\ P!PlanInit /\ Blank14

Component ==
    \/ focus = "recovery" /\ Rec!RecNext /\ UNCHANGED rest13
    \/ focus = "downloads" /\ Dl!DlNext /\ UNCHANGED rest12
    \/ focus = "benchmarks" /\ Bench!BenchNext /\ UNCHANGED rest15
    \/ focus = "gateway" /\ Gw!GwNext
    \/ focus = "feed" /\ Feed!FeedNext /\ UNCHANGED rest13
    \/ focus = "log" /\ SL!LogNext /\ UNCHANGED rest7
    \/ focus = "usage" /\ TU!UsageNext /\ UNCHANGED rest6
    \/ focus = "planning" /\ P!PlanNext /\ UNCHANGED rest14

MCNext ==
    /\ UNCHANGED focus
    /\ \/ focus = "supervisor" /\ Next /\ UNCHANGED shared
       \/ focus # "supervisor" /\ UNCHANGED supVars /\ Component

Symmetry == Permutations(Callers) \cup Permutations(A)

TypesOK ==
    CASE focus = "supervisor" -> SupTypeOK
      [] focus = "recovery" -> Rec!RecTypeOK
      [] focus = "downloads" -> Dl!DlTypeOK
      [] focus = "benchmarks" -> Bench!BenchTypeOK
      [] focus = "gateway" -> Gw!GwTypeOK
      [] focus = "feed" -> Feed!FeedTypeOK
      [] focus = "log" -> SL!LogTypeOK
      [] focus = "usage" -> TU!UsageTypeOK
      [] focus = "planning" -> P!PlanTypeOK

\* Recovery signals only workers of this installation, starts nothing while an
\* orphan may hold memory, and no instance gets a second process
\* (supervisor/reconcile.go).
RecoverySafe == focus = "recovery" => Rec!InnocentSpared /\ Rec!OrphansBlocked /\ Rec!NoTwin

\* A file under its final name is whole and of one version, a job is completed
\* with its files, a job shown as under way is, and the ceiling holds
\* (downloads/manager.go).
DownloadsSafe ==
    focus = "downloads" => /\ Dl!FinalIntact /\ Dl!CompletedHasFiles
                           /\ Dl!ActiveRuns /\ Dl!WithinLimit

\* llama-bench runs under a lease, a lease belongs to a run under way, results
\* agree with the outcome, and no run is forgotten (benchmark/service.go).
BenchmarksSafe ==
    focus = "benchmarks" => /\ Bench!ProcessCovered /\ Bench!LeaseOwned
                            /\ Bench!ResultsMatch /\ Bench!RowsTended

\* What a request is accepted for is written or still buffered, counted once
\* and flushed at exit; registry, index and gauges agree with the requests
\* under way; the usage recorded of a stream does not depend on how it was
\* read (observability/writeback.go, gateway/active.go, gateway/metrics.go).
GatewaySafe ==
    /\ focus = "gateway" => /\ Gw!NothingLost /\ Gw!CountedOnce /\ Gw!ExitFlushed /\ Gw!UniqueIds
                            /\ Gw!RegistryMatches /\ Gw!IndexMatches /\ Gw!GaugesExact
    /\ focus = "usage" => TU!ChunksAgree

\* What a subscriber makes of the events is what happened, unless the bus was
\* full or an overlay was late, and a rate is that of one process; the system
\* log keeps the newest entries and streams each once
\* (supervisor/runtime_events.go, observability/sampler.go, systemlog/systemlog.go).
FeedRight ==
    /\ focus = "feed" => Feed!SeenRight /\ Feed!OnlyOthersPush /\ Feed!RateOfOne
    /\ focus = "log" => SL!RingNewest /\ SL!StreamExact

\* What a launch is planned on is there, nobody is stopped for nothing or
\* without use, the user's options stay, and the searches find the best plan
\* (scheduler/eviction.go, placement.go, lifecycle/runtime_launch.go).
PlansHold ==
    focus = "planning" => /\ P!LaunchFits /\ P!NotInVain /\ P!VictimsUseful
                          /\ P!PolicyKept /\ P!NoInventedSpill /\ P!SearchExact
                          /\ P!AttributionSound

\* A worker with requests, or protected from eviction, is not stopped for a launch.
OccupiedSpared == [][focus = "planning" => P!OccupiedSpared]_allVars

\* What a step may never undo: the record of a live orphan, a cancellation, the
\* outcome of a benchmark, the deletion of a request's row.
NothingUndone ==
    [][CASE focus = "recovery"   -> Rec!TraceKept
         [] focus = "downloads"  -> Dl!CancelHolds
         [] focus = "benchmarks" -> Bench!OutcomeFinal
         [] focus = "gateway"    -> Gw!DeletedSticks
         [] OTHER -> TRUE]_allVars
=============================================================================
