----------------------------- MODULE Benchmarks -----------------------------
(***************************************************************************)
(* The benchmark runner (benchmark/service.go, runner.go, store_sql.go): a *)
(* row per run, the goroutine that executes it, the llama-bench process in *)
(* a process group of its own, the lease it holds, and the callers that    *)
(* create, cancel and delete runs while the manager stops, crashes and     *)
(* starts again.                                                           *)
(*                                                                         *)
(* What a run measures and how its command line is made is left out.       *)
(* Amounts of memory are the ledger's.                                     *)
(***************************************************************************)
EXTENDS Integers, FiniteSets

CONSTANTS
    Runs,         \* run IDs
    BenchFaults,  \* bound on failed writes
    BenchStarts   \* bound on the starts of the manager after the first

BenchAssumption == BenchFaults \in Nat /\ BenchStarts \in Nat

VARIABLES
    bench,      \* benchmark_runs: the status of each row
    results,    \* runs with rows in benchmark_results
    hold,       \* the lease of each run
    making,     \* where CreateWithOverrides stands
    listedRun,  \* active: the runs whose cancel function is known
    told,       \* runs whose context is cancelled
    stage,        \* where runJob stands
    proc,       \* the llama-bench processes
    outcome,    \* what runJob is about to write
    canceller,  \* the status a Cancel call read
    deleter,    \* runs a Delete call found terminal
    boss,       \* the manager
    faulty, starts

benchVars == <<bench, results, hold, making, listedRun, told, stage, proc, outcome, canceller,
               deleter, boss, faulty, starts>>
callers == <<canceller, deleter>>
counts  == <<faulty, starts>>

Ended  == {"COMPLETED", "FAILED", "CANCELLED"}
Live   == {"QUEUED", "RUNNING"}
Status == Ended \cup Live

BenchTypeOK ==
    /\ bench \in [Runs -> Status \cup {"none", "deleted"}]
    /\ results \subseteq Runs /\ listedRun \subseteq Runs /\ told \subseteq Runs
    /\ hold \in [Runs -> {"none", "reserved", "committed"}]
    /\ making \in [Runs -> {"new", "held", "commit", "insert", "register", "done"}]
    /\ stage \in [Runs -> {"none", "begin", "exec", "wait", "decide", "write", "fail", "unlist", "release", "over"}]
    /\ proc \in [Runs -> {"none", "alive", "orphan", "gone"}]
    /\ outcome \in [Runs -> Ended \cup {"none"}]
    /\ canceller \in [Runs -> Live \cup {"none"}] /\ deleter \subseteq Runs
    /\ boss \in {"starting", "up", "stopping", "down"}
    /\ faulty \in 0..BenchFaults /\ starts \in 0..BenchStarts

BenchInit ==
    /\ bench = [r \in Runs |-> "none"] /\ results = {} /\ hold = [r \in Runs |-> "none"]
    /\ making = [r \in Runs |-> "new"] /\ listedRun = {} /\ told = {}
    /\ stage = [r \in Runs |-> "none"] /\ proc = [r \in Runs |-> "none"]
    /\ outcome = [r \in Runs |-> "none"]
    /\ canceller = [r \in Runs |-> "none"] /\ deleter = {}
    /\ boss = "up" /\ faulty = 0 /\ starts = 0

Awake == boss \in {"up", "stopping"}
WriteFails == faulty < BenchFaults /\ faulty' = faulty + 1
JobTo(r, pc) == stage' = [stage EXCEPT ![r] = pc]

-----------------------------------------------------------------------------
(* TransitionRun: the row moves only from the status the caller expects,   *)
(* along CanTransition.                                                    *)

CanTransition(from, to) ==
    \/ from = "QUEUED" /\ to \in {"RUNNING", "FAILED", "CANCELLED"}
    \/ from = "RUNNING" /\ to \in Ended

Moves(r, from, to) == CanTransition(from, to) /\ bench[r] = from
Transition(r, from, to) == bench' = IF Moves(r, from, to) THEN [bench EXCEPT ![r] = to] ELSE bench

-----------------------------------------------------------------------------
(* CreateWithOverrides.                                                    *)

\* The target, the executable's capabilities, the configuration and the
\* hardware are read and found good, and the demand fits.
Reserve(r) ==
    /\ boss = "up" /\ making[r] = "new"
    /\ making' = [making EXCEPT ![r] = "held"] /\ hold' = [hold EXCEPT ![r] = "reserved"]
    /\ UNCHANGED <<bench, results, listedRun, told, stage, proc, outcome, callers, boss, counts>>

\* Whatever fails from here on, the configuration, the commit or the insert,
\* gives the lease back.
Abandon(r) ==
    /\ Awake /\ making[r] \in {"held", "commit", "insert"}
    /\ making' = [making EXCEPT ![r] = "new"] /\ hold' = [hold EXCEPT ![r] = "none"]
    /\ UNCHANGED <<bench, results, listedRun, told, stage, proc, outcome, callers, boss, counts>>

\* MapInstanceConfig and BuildArgv succeed.
Map(r) ==
    /\ Awake /\ making[r] = "held" /\ making' = [making EXCEPT ![r] = "commit"]
    /\ UNCHANGED <<bench, results, hold, listedRun, told, stage, proc, outcome, callers, boss, counts>>

CommitLease(r) ==
    /\ Awake /\ making[r] = "commit" /\ hold[r] = "reserved"
    /\ making' = [making EXCEPT ![r] = "insert"] /\ hold' = [hold EXCEPT ![r] = "committed"]
    /\ UNCHANGED <<bench, results, listedRun, told, stage, proc, outcome, callers, boss, counts>>

Insert(r) ==
    /\ Awake /\ making[r] = "insert"
    /\ making' = [making EXCEPT ![r] = "register"] /\ bench' = [bench EXCEPT ![r] = "QUEUED"]
    /\ UNCHANGED <<results, hold, listedRun, told, stage, proc, outcome, callers, boss, counts>>

\* The context descends from the manager's: it is born cancelled when the
\* manager is stopping.
Register(r) ==
    /\ Awake /\ making[r] = "register"
    /\ making' = [making EXCEPT ![r] = "done"] /\ listedRun' = listedRun \cup {r} /\ JobTo(r, "begin")
    /\ UNCHANGED <<bench, results, hold, told, proc, outcome, callers, boss, counts>>

-----------------------------------------------------------------------------
(* runJob.                                                                 *)

BeginRun(r) ==
    /\ Awake /\ stage[r] = "begin"
    /\ \/ /\ r \in told /\ Transition(r, "QUEUED", "CANCELLED") /\ JobTo(r, "unlist") /\ UNCHANGED faulty
       \/ /\ r \notin told /\ Transition(r, "QUEUED", "RUNNING") /\ UNCHANGED faulty
          /\ JobTo(r, IF Moves(r, "QUEUED", "RUNNING") THEN "exec" ELSE "unlist")
       \/ WriteFails /\ JobTo(r, "unlist") /\ UNCHANGED bench
    /\ UNCHANGED <<results, hold, making, listedRun, told, proc, outcome, callers, boss, starts>>

\* Runner.Run does not start a process for a context that is cancelled.
Execute(r) ==
    /\ Awake /\ stage[r] = "exec"
    /\ \/ r \in told /\ JobTo(r, "decide") /\ UNCHANGED proc
       \/ r \notin told /\ JobTo(r, "wait") /\ proc' = [proc EXCEPT ![r] = "alive"]
       \/ JobTo(r, "decide") /\ UNCHANGED proc                 \* cmd.Start fails
    /\ UNCHANGED <<bench, results, hold, making, listedRun, told, outcome, callers, boss, counts>>

\* Faulty cancel: the run returns before the process is gone.
ReturnsEarly(r) ==
    /\ Awake /\ stage[r] = "wait"
    /\ \/ r \in told /\ JobTo(r, "decide") /\ UNCHANGED proc
       \/ JobTo(r, "decide") /\ proc' = [proc EXCEPT ![r] = "gone"]
    /\ UNCHANGED <<bench, results, hold, making, listedRun, told, outcome, callers, boss, counts>>

\* The process ends by itself, or at SIGINT or SIGKILL to its group when the
\* context is cancelled; Run returns when it is gone.
Returns(r) ==
    /\ Awake /\ stage[r] = "wait"
    /\ JobTo(r, "decide") /\ proc' = [proc EXCEPT ![r] = "gone"]
    /\ UNCHANGED <<bench, results, hold, making, listedRun, told, outcome, callers, boss, counts>>

\* A cancelled context wins over whatever the process wrote; then an error,
\* output that was truncated or cannot be parsed.
Decide(r) ==
    /\ Awake /\ stage[r] = "decide" /\ JobTo(r, "write")
    /\ \E o \in Ended :
          /\ (r \in told) = (o = "CANCELLED") /\ (o = "COMPLETED" => proc[r] = "gone")
          /\ outcome' = [outcome EXCEPT ![r] = o]
    /\ UNCHANGED <<bench, results, hold, making, listedRun, told, proc, callers, boss, counts>>

\* CompleteRun writes the status and the results in one transaction.
Write(r) ==
    /\ Awake /\ stage[r] = "write"
    /\ \/ /\ Transition(r, "RUNNING", outcome[r]) /\ UNCHANGED faulty
          /\ results' = IF outcome[r] = "COMPLETED" /\ Moves(r, "RUNNING", "COMPLETED")
                        THEN results \cup {r} ELSE results
          /\ JobTo(r, IF outcome[r] = "COMPLETED" /\ ~Moves(r, "RUNNING", "COMPLETED") THEN "fail" ELSE "unlist")
       \/ /\ WriteFails /\ UNCHANGED <<bench, results>>
          /\ JobTo(r, IF outcome[r] = "COMPLETED" THEN "fail" ELSE "unlist")
    /\ UNCHANGED <<hold, making, listedRun, told, proc, outcome, callers, boss, starts>>

\* Results that could not be stored fail the run.
FailRun(r) ==
    /\ Awake /\ stage[r] = "fail" /\ JobTo(r, "unlist")
    /\ \/ Transition(r, "RUNNING", "FAILED") /\ UNCHANGED faulty
       \/ WriteFails /\ UNCHANGED bench
    /\ UNCHANGED <<results, hold, making, listedRun, told, proc, outcome, callers, boss, starts>>

\* The deferred calls, last first.
Unlist(r) ==
    /\ Awake /\ stage[r] = "unlist" /\ JobTo(r, "release") /\ listedRun' = listedRun \ {r}
    /\ UNCHANGED <<bench, results, hold, making, told, proc, outcome, callers, boss, counts>>

ReleaseLease(r) ==
    /\ Awake /\ stage[r] = "release" /\ JobTo(r, "over") /\ hold' = [hold EXCEPT ![r] = "none"]
    /\ UNCHANGED <<bench, results, making, listedRun, told, proc, outcome, callers, boss, counts>>

-----------------------------------------------------------------------------
(* Cancel and Delete, each a read and then a step on what was read.        *)

CancelLooks(r) ==
    /\ Awake /\ canceller[r] = "none" /\ bench[r] \in Live
    /\ canceller' = [canceller EXCEPT ![r] = bench[r]]
    /\ UNCHANGED <<bench, results, hold, making, listedRun, told, stage, proc, outcome, deleter, boss, counts>>

\* The job writes the outcome if there is one to tell, else the caller does.
CancelActs(r) ==
    /\ Awake /\ canceller[r] # "none" /\ canceller' = [canceller EXCEPT ![r] = "none"]
    /\ IF r \in listedRun THEN told' = told \cup {r} /\ UNCHANGED bench
       ELSE Transition(r, canceller[r], "CANCELLED") /\ UNCHANGED told
    /\ UNCHANGED <<results, hold, making, listedRun, stage, proc, outcome, deleter, boss, counts>>

DeleteLooks(r) ==
    /\ Awake /\ r \notin deleter /\ bench[r] \in Ended /\ deleter' = deleter \cup {r}
    /\ UNCHANGED <<bench, results, hold, making, listedRun, told, stage, proc, outcome, canceller, boss, counts>>

\* The results go with the row.
DeleteRun(r) ==
    /\ Awake /\ r \in deleter /\ deleter' = deleter \ {r}
    /\ bench' = [bench EXCEPT ![r] = "deleted"] /\ results' = results \ {r}
    /\ UNCHANGED <<hold, making, listedRun, told, stage, proc, outcome, canceller, boss, counts>>

-----------------------------------------------------------------------------
(* The manager stops, crashes and starts.  Its goroutines and its ledger   *)
(* are gone then; a process in its own group is not.                       *)

StopManager ==
    /\ boss = "up" /\ boss' = "stopping" /\ told' = Runs
    /\ UNCHANGED <<bench, results, hold, making, listedRun, stage, proc, outcome, callers, counts>>

ManagerGone ==
    /\ boss' = "down"
    /\ hold' = [r \in Runs |-> "none"] /\ listedRun' = {} /\ told' = {} /\ outcome' = [r \in Runs |-> "none"]
    /\ making' = [r \in Runs |-> IF making[r] = "new" THEN "new" ELSE "done"]
    /\ stage' = [r \in Runs |-> IF stage[r] = "none" /\ making[r] = "new" THEN "none" ELSE "over"]
    /\ proc' = [r \in Runs |-> IF proc[r] = "alive" THEN "orphan" ELSE proc[r]]
    /\ canceller' = [r \in Runs |-> "none"] /\ deleter' = {}
    /\ UNCHANGED <<bench, results, counts>>

\* Shutdown waits for the jobs, but no longer than five seconds.
Exit  == boss = "stopping" /\ ManagerGone
ManagerCrash == boss \in {"starting", "up"} /\ ManagerGone

ManagerRestart ==
    /\ boss = "down" /\ starts < BenchStarts /\ starts' = starts + 1 /\ boss' = "starting"
    /\ UNCHANGED <<bench, results, hold, making, listedRun, told, stage, proc, outcome, callers, faulty>>

\* ReconcileInterrupted, before any request is served.
ReconcileRow(r) ==
    /\ boss = "starting" /\ bench[r] \in Live
    /\ IF bench[r] = "RUNNING" THEN Transition(r, "RUNNING", "FAILED") ELSE Transition(r, "QUEUED", "CANCELLED")
    /\ UNCHANGED <<results, hold, making, listedRun, told, stage, proc, outcome, callers, boss, counts>>

Serve ==
    /\ boss = "starting" /\ \A r \in Runs : bench[r] \notin Live
    /\ boss' = "up"
    /\ UNCHANGED <<bench, results, hold, making, listedRun, told, stage, proc, outcome, callers, counts>>

OrphanEnds(r) ==
    /\ proc[r] = "orphan" /\ proc' = [proc EXCEPT ![r] = "gone"]
    /\ UNCHANGED <<bench, results, hold, making, listedRun, told, stage, outcome, callers, boss, counts>>

-----------------------------------------------------------------------------
Make(r) == Reserve(r) \/ Abandon(r) \/ Map(r) \/ CommitLease(r) \/ Insert(r) \/ Register(r)
RunJob(r) ==
    \/ BeginRun(r) \/ Execute(r) \/ Returns(r) \/ Decide(r) \/ Write(r) \/ FailRun(r) \/ Unlist(r) \/ ReleaseLease(r)
Ask(r) == CancelLooks(r) \/ CancelActs(r) \/ DeleteLooks(r) \/ DeleteRun(r)
BenchNext ==
    \/ \E r \in Runs : Make(r) \/ RunJob(r) \/ Ask(r) \/ ReconcileRow(r) \/ OrphanEnds(r)
    \/ StopManager \/ Exit \/ ManagerCrash \/ ManagerRestart \/ Serve

\* A goroutine that can go on does; a process ends or is killed.
BenchSpec == BenchInit /\ [][BenchNext]_benchVars /\ \A r \in Runs : WF_benchVars(RunJob(r))

-----------------------------------------------------------------------------
(* Properties.                                                             *)

\* A process of this manager runs on a committed lease, for a row that says
\* RUNNING: neither a cancel nor a delete takes either away under it.
ProcessCovered ==
    \A r \in Runs : proc[r] = "alive" => hold[r] = "committed" /\ bench[r] = "RUNNING"

\* A lease is held only on the way to a job or by one that is not over.
LeaseOwned ==
    \A r \in Runs : hold[r] # "none" =>
        making[r] \in {"held", "commit", "insert", "register"} \/ stage[r] \notin {"none", "over"}

\* Results are stored with COMPLETED and with nothing else.
ResultsMatch == \A r \in Runs : r \in results <=> bench[r] = "COMPLETED"

\* While requests are served a row that is live has somebody who will end it,
\* unless a write failed.
RowsTended ==
    boss = "up" /\ faulty = 0 =>
        \A r \in Runs : bench[r] \in Live => making[r] = "register" \/ stage[r] \notin {"none", "release", "over"}

\* An outcome is final.
OutcomeFinal ==
    \A r \in Runs : bench[r] \in Ended => bench'[r] \in {bench[r], "deleted"}

\* Every job ends and gives its lease back, as long as the manager does not.
JobEnds == \A r \in Runs : stage[r] = "begin" ~> (stage[r] = "over" /\ hold[r] = "none") \/ ~Awake
=============================================================================
