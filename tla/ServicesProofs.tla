--------------------------- MODULE ServicesProofs ---------------------------
(***************************************************************************)
(* What the proofs about recovery, benchmarks and downloads say of the     *)
(* services as they are put together in MCServices: the same step relation,*)
(* told of the shared variables.  The theorems are instances of the general*)
(* ones, once their assumption is shown and the definitions of the two     *)
(* instances of a module, that of MCServices and that of the proofs, are   *)
(* compared.  The rows of the gateway have their proof here, and with them *)
(* what no step of any service undoes.                                     *)
(***************************************************************************)
EXTENDS MCServices, Sums

\* The general theorems, told of the shared variables.
Gen == INSTANCE RestartProofs WITH
    Instances <- A, Pids <- {1, 2}, MaxProcesses <- 3, MaxCrashes <- 2, Recycles <- FALSE, os <- s1,
    started <- s2, rows <- s3, workers <- s4, clearing <- s5, boot <- s6, scanned <- s7, todo <- s8,
    target <- s9, blocked <- s10, blind <- s11, crashes <- s12,
    Runs <- A, BenchFaults <- 1, BenchStarts <- 1, bench <- s1, results <- s2, hold <- s3, making <- s4,
    listedRun <- s5, told <- s6, stage <- s7, proc <- s8, outcome <- s9, canceller <- s10, deleter <- s11,
    boss <- s12, faulty <- s13, starts <- s14,
    Jobs <- {p1}, Files <- 2, Length <- 2, Offers <- TwoOffers, Versions <- 2, Makers <- {p2},
    Breakers <- {p3}, MidChange <- FALSE, MaxStops <- 1, job <- s1, row <- s2, part <- s3, final <- s4,
    remote <- s5, offer <- s6, run <- s7, request <- s8, missed <- s9, up <- s10, stops <- s11

\* The services, whichever is in focus.
ServicesSpec == Init /\ [][MCNext]_allVars

\* The inductive invariants of the three, while they are in focus.
RecoveryKept == focus = "recovery" => Gen!RecInv
BenchKept == focus = "benchmarks" => Gen!BenchInv
DlKept    == focus = "downloads" => Gen!DlInv /\ Gen!LimitInv

-----------------------------------------------------------------------------
(* Recovery of stale workers.                                              *)

LEMMA RecoveryAssumed == Gen!RecoveryAssumption
  BY DEF Gen!RecoveryAssumption

\* The two instances of Recovery have the same initial states ...
LEMMA SameBoot == Rec!RecInit => Gen!RecInit
  BY SMTT(60) DEF Rec!RecInit, Gen!RecInit, Rec!Gone, Gen!Gone, Rec!NoRow, Gen!NoRow, Rec!NoWorker, Gen!NoWorker,
     Rec!NoTarget, Gen!NoTarget, Rec!NoProcess, Gen!NoProcess

\* ... the same steps ...
LEMMA SameRecovery == Rec!RecNext => Gen!RecNext
  BY ZenonT(60) DEF Rec!RecNext, Gen!RecNext, Rec!NoProcess, Gen!NoProcess, Rec!Numbers, Gen!Numbers, Rec!Gone,
     Gen!Gone, Rec!NoRow, Gen!NoRow, Rec!recVars, Gen!recVars, Rec!memory, Gen!memory, Rec!search,
     Gen!search, Rec!NoWorker, Gen!NoWorker, Rec!NoTarget, Gen!NoTarget, Rec!Alive, Gen!Alive,
     Rec!Running, Gen!Running, Rec!Owned, Gen!Owned, Rec!Signal, Gen!Signal, Rec!NewProcess,
     Gen!NewProcess, Rec!StrangerStarts, Gen!StrangerStarts, Rec!Ends, Gen!Ends, Rec!Launch, Gen!Launch,
     Rec!Persisted, Gen!Persisted, Rec!Reaped, Gen!Reaped, Rec!RowRead, Gen!RowRead, Rec!RowCleared,
     Gen!RowCleared, Rec!Crash, Gen!Crash, Rec!Restart, Gen!Restart, Rec!Scan, Gen!Scan, Rec!LoadRows,
     Gen!LoadRows, Rec!Unreadable, Gen!Unreadable, Rec!Mismatch, Gen!Mismatch, Rec!Proven, Gen!Proven,
     Rec!CheckRow, Gen!CheckRow, Rec!CheckProc, Gen!CheckProc, Rec!Reconciled, Gen!Reconciled, Rec!GiveUp,
     Gen!GiveUp, Rec!Proceed, Gen!Proceed, Rec!Terminate, Gen!Terminate, Rec!AwaitGone, Gen!AwaitGone,
     Rec!KillTarget, Gen!KillTarget, Rec!Escalate, Gen!Escalate, Rec!Despair, Gen!Despair, Rec!Release,
     Gen!Release, Rec!Forget, Gen!Forget, Rec!Reconcile, Gen!Reconcile

\* ... and the same properties, which follow from the inductive invariant.
LEMMA RecoverySays ==
    Gen!RecInv => Rec!InnocentSpared /\ Rec!OrphansBlocked /\ Rec!NoTwin
<1>1. Gen!RecInv => Gen!InnocentSpared /\ Gen!OrphansBlocked /\ Gen!NoTwin
  BY Gen!OneWorker DEF Gen!RecInv
<1>2. Gen!InnocentSpared => Rec!InnocentSpared
  BY DEF Gen!InnocentSpared, Rec!InnocentSpared, Gen!Gone, Rec!Gone
<1>3. Gen!NoTwin /\ Gen!OrphansBlocked => Rec!NoTwin /\ Rec!OrphansBlocked
  BY DEF Gen!NoTwin, Gen!OrphansBlocked, Gen!Orphan, Rec!NoTwin, Rec!OrphansBlocked, Rec!Orphan,
     Gen!Gone, Rec!Gone, Gen!NoWorker, Rec!NoWorker, Gen!NoProcess, Rec!NoProcess
<1> QED BY <1>1, <1>2, <1>3

\* A step of the services is one of recovery when that is in focus, or none.
LEMMA RecoveryStep == RecoveryKept /\ [MCNext]_allVars => RecoveryKept'
<1> SUFFICES ASSUME RecoveryKept, [MCNext]_allVars, focus' = "recovery"
             PROVE  Gen!RecInv'
  BY DEF RecoveryKept
<1>1. focus = "recovery" /\ (Rec!RecNext \/ UNCHANGED allVars)
  BY DEF MCNext, Component, allVars
<1>2. Gen!RecInv
  BY <1>1 DEF RecoveryKept
<1>3. UNCHANGED allVars => UNCHANGED Gen!recVars
  BY DEF allVars, shared, rest6, rest7, rest12, Gen!recVars
<1>4. [Gen!RecNext]_(Gen!recVars)
  BY <1>1, <1>3, SameRecovery
<1> QED BY <1>2, <1>4, RecoveryAssumed, Gen!RecoveryGoes

\* A restarted manager signals none but the workers of its installation, starts
\* nothing on an instance whose orphan may live, and gives no instance a second
\* process (supervisor/reconcile.go), as the run checks it.
THEOREM RecoveryHolds == ServicesSpec => []RecoverySafe
<1>1. Init => RecoveryKept
  BY SameBoot, RecoveryAssumed, Gen!RecoveryStarts DEF Init, RecoveryKept
<1>2. RecoveryKept => RecoverySafe
  BY RecoverySays DEF RecoveryKept, RecoverySafe
<1> QED BY <1>1, <1>2, RecoveryStep, PTL DEF ServicesSpec

-----------------------------------------------------------------------------
(* Benchmarks.                                                             *)

LEMMA BenchAssumed == Gen!BenchAssumption
  BY DEF Gen!BenchAssumption

\* The two instances of Benchmarks have the same initial states ...
LEMMA SameBench == Bench!BenchInit => Gen!BenchInit
  BY SMTT(60) DEF Bench!BenchInit, Gen!BenchInit

\* ... the same steps ...
LEMMA SameBenchmarks == Bench!BenchNext => Gen!BenchNext
  BY DEF Bench!BenchNext, Gen!BenchNext, Bench!Make, Gen!Make, Bench!RunJob, Gen!RunJob, Bench!Ask,
     Gen!Ask, Bench!callers, Gen!callers, Bench!counts, Gen!counts, Bench!Ended, Gen!Ended,
     Bench!Live, Gen!Live, Bench!Awake, Gen!Awake, Bench!WriteFails, Gen!WriteFails, Bench!JobTo,
     Gen!JobTo, Bench!CanTransition, Gen!CanTransition, Bench!Moves, Gen!Moves, Bench!Transition,
     Gen!Transition, Bench!Reserve, Gen!Reserve, Bench!Abandon, Gen!Abandon, Bench!Map, Gen!Map,
     Bench!CommitLease, Gen!CommitLease, Bench!Insert, Gen!Insert, Bench!Register, Gen!Register,
     Bench!BeginRun, Gen!BeginRun, Bench!Execute, Gen!Execute, Bench!Returns, Gen!Returns, Bench!Decide,
     Gen!Decide, Bench!Write, Gen!Write, Bench!FailRun, Gen!FailRun, Bench!Unlist, Gen!Unlist,
     Bench!ReleaseLease, Gen!ReleaseLease, Bench!CancelLooks, Gen!CancelLooks, Bench!CancelActs, Gen!CancelActs,
     Bench!DeleteLooks, Gen!DeleteLooks, Bench!DeleteRun, Gen!DeleteRun, Bench!StopManager, Gen!StopManager,
     Bench!ManagerGone, Gen!ManagerGone, Bench!Exit, Gen!Exit, Bench!ManagerCrash, Gen!ManagerCrash, Bench!ManagerRestart,
     Gen!ManagerRestart, Bench!ReconcileRow, Gen!ReconcileRow, Bench!Serve, Gen!Serve, Bench!OrphanEnds,
     Gen!OrphanEnds

\* ... and the same properties, which follow from the inductive invariant.
LEMMA BenchSays ==
    Gen!BenchInv =>
        Bench!ProcessCovered /\ Bench!LeaseOwned /\ Bench!ResultsMatch /\ Bench!RowsTended
<1>1. Gen!BenchInv =>
        Gen!ProcessCovered /\ Gen!LeaseOwned /\ Gen!ResultsMatch /\ Gen!RowsTended
  BY Gen!RunsInOrder
<1>2. Gen!ProcessCovered /\ Gen!LeaseOwned => Bench!ProcessCovered /\ Bench!LeaseOwned
  BY DEF Gen!ProcessCovered, Gen!LeaseOwned, Bench!ProcessCovered, Bench!LeaseOwned
<1>3. Gen!ResultsMatch /\ Gen!RowsTended => Bench!ResultsMatch /\ Bench!RowsTended
  BY DEF Gen!ResultsMatch, Gen!RowsTended, Bench!ResultsMatch, Bench!RowsTended, Gen!Live, Bench!Live
<1> QED BY <1>1, <1>2, <1>3

\* The inductive step of the general proof.
LEMMA BenchGoes == Gen!BenchInv /\ [Gen!BenchNext]_(Gen!benchVars) => Gen!BenchInv'
  BY BenchAssumed, Gen!BenchTyped, Gen!RunsKept DEF Gen!BenchInv

\* A step of the services is one of the benchmarks when those are in focus, or none.
LEMMA BenchStep == BenchKept /\ [MCNext]_allVars => BenchKept'
<1> SUFFICES ASSUME BenchKept, [MCNext]_allVars, focus' = "benchmarks"
             PROVE  Gen!BenchInv'
  BY DEF BenchKept
<1>1. focus = "benchmarks" /\ (Bench!BenchNext \/ UNCHANGED allVars)
  BY DEF MCNext, Component, allVars
<1>2. Gen!BenchInv
  BY <1>1 DEF BenchKept
<1>3. UNCHANGED allVars => UNCHANGED Gen!benchVars
  BY DEF allVars, shared, rest6, rest7, rest12, Gen!benchVars
<1>4. [Gen!BenchNext]_(Gen!benchVars)
  BY <1>1, <1>3, SameBenchmarks
<1> QED BY <1>2, <1>4, BenchGoes

\* llama-bench runs under a committed lease and for a row that says so, a lease
\* belongs to a run under way, results agree with the outcome and no run is
\* forgotten (benchmark/service.go), as the run checks it.
THEOREM BenchmarksHold == ServicesSpec => []BenchmarksSafe
<1>1. Init => BenchKept
  BY SameBench, BenchAssumed, Gen!BenchBegins DEF Init, BenchKept
<1>2. BenchKept => BenchmarksSafe
  BY BenchSays DEF BenchKept, BenchmarksSafe
<1> QED BY <1>1, <1>2, BenchStep, PTL DEF ServicesSpec
-----------------------------------------------------------------------------
(* Downloads.                                                              *)

LEMMA DownloadsGiven == Gen!DownloadsAssumption
  BY DownloadsAssumed DEF Dl!DownloadsAssumption, Gen!DownloadsAssumption

\* What the rows say of the other files is the same sum.
LEMMA SameSiblings == \A j, f : Dl!Siblings(j, f) = Gen!Siblings(j, f)
  BY DEF Dl!Siblings, Gen!Siblings, Dl!SumFunctionOnSet, Gen!SumFunctionOnSet, Dl!FoldFunctionOnSet,
     Gen!FoldFunctionOnSet, Dl!MapThenFoldSet, Gen!MapThenFoldSet, Dl!Parts, Gen!Parts

\* The two instances of Downloads have the same initial states ...
LEMMA SameDownload == Dl!DlInit => Gen!DlInit
  BY DEF Dl!DlInit, Gen!DlInit, Dl!NoPart, Gen!NoPart, Dl!NoRun, Gen!NoRun, Dl!NoCall, Gen!NoCall, Dl!NewRow,
     Gen!NewRow, Dl!Parts, Gen!Parts, Dl!Requests, Gen!Requests

\* ... the same steps ...
LEMMA SameDownloads == Dl!DlNext => Gen!DlNext
<1>1. \A j : Dl!Look(j) => Gen!Look(j)
  BY SMTT(60), SameSiblings DEF Dl!Look, Gen!Look,
     Dl!Works, Gen!Works, Dl!On, Gen!On, Dl!Step, Gen!Step, Dl!SetRow, Gen!SetRow, Dl!NextFile,
     Gen!NextFile, Dl!Whole, Gen!Whole, Dl!Exists, Gen!Exists, Dl!Full, Gen!Full, Dl!NoPart, Gen!NoPart,
     Dl!Parts, Gen!Parts, Dl!disk, Gen!disk, Dl!others, Gen!others
<1>2. \A j : Dl!ReadUnit(j) => Gen!ReadUnit(j)
  BY SMTT(60), SameSiblings DEF Dl!ReadUnit, Gen!ReadUnit,
     Dl!Works, Gen!Works, Dl!On, Gen!On, Dl!Step, Gen!Step, Dl!SetRow, Gen!SetRow, Dl!NextFile,
     Gen!NextFile, Dl!Whole, Gen!Whole, Dl!Exists, Gen!Exists, Dl!Full, Gen!Full, Dl!NoPart, Gen!NoPart,
     Dl!Parts, Gen!Parts, Dl!disk, Gen!disk, Dl!others, Gen!others
<1>3. \A j :
         /\ Dl!Begin(j) => Gen!Begin(j)
         /\ Dl!Resolve(j) => Gen!Resolve(j)
         /\ Dl!Record(j) => Gen!Record(j)
         /\ Dl!Fetch(j) => Gen!Fetch(j)
         /\ Dl!ReadEnd(j) => Gen!ReadEnd(j)
         /\ Dl!Promote(j) => Gen!Promote(j)
         /\ Dl!Promoted(j) => Gen!Promoted(j)
  BY SMTT(60) DEF Dl!Works, Gen!Works, Dl!On, Gen!On, Dl!Step, Gen!Step, Dl!SetRow, Gen!SetRow, Dl!SetJob, Gen!SetJob,
     Dl!NextFile, Gen!NextFile, Dl!Whole, Gen!Whole, Dl!Exists, Gen!Exists, Dl!Full, Gen!Full, Dl!NoPart,
     Gen!NoPart, Dl!NoRun, Gen!NoRun, Dl!Parts, Gen!Parts, Dl!disk, Gen!disk, Dl!others, Gen!others,
     Dl!Begin, Gen!Begin, Dl!Resolve, Gen!Resolve, Dl!Record, Gen!Record, Dl!Fetch, Gen!Fetch, Dl!ReadEnd,
     Gen!ReadEnd, Dl!Promote, Gen!Promote, Dl!Promoted, Gen!Promoted
<1>4. \A j :
         /\ Dl!Verify(j) => Gen!Verify(j)
         /\ Dl!Verified(j) => Gen!Verified(j)
         /\ Dl!Complete(j) => Gen!Complete(j)
         /\ Dl!Fail(j) => Gen!Fail(j)
         /\ Dl!Cancelled(j) => Gen!Cancelled(j)
         /\ Dl!Unregister(j) => Gen!Unregister(j)
  BY DEF Dl!Works, Gen!Works, Dl!On, Gen!On, Dl!Step, Gen!Step, Dl!SetRow, Gen!SetRow, Dl!SetJob, Gen!SetJob,
     Dl!NextFile, Gen!NextFile, Dl!Whole, Gen!Whole, Dl!Exists, Gen!Exists, Dl!Full, Gen!Full, Dl!NoPart,
     Gen!NoPart, Dl!NoRun, Gen!NoRun, Dl!Parts, Gen!Parts, Dl!disk, Gen!disk, Dl!others, Gen!others,
     Dl!Verify, Gen!Verify, Dl!Verified, Gen!Verified, Dl!Complete, Gen!Complete, Dl!Fail, Gen!Fail,
     Dl!Cancelled, Gen!Cancelled, Dl!Unregister, Gen!Unregister
<1>5. \A j : Dl!RunStep(j) => Gen!RunStep(j)
  BY <1>1, <1>2, <1>3, <1>4 DEF Dl!RunStep, Gen!RunStep
<1>6. \A r : Dl!Continue(r) => Gen!Continue(r)
  BY DEF Dl!Asking, Gen!Asking, Dl!AskAt, Gen!AskAt, Dl!Answers, Gen!Answers, Dl!world, Gen!world, Dl!disk,
     Gen!disk, Dl!NoCall, Gen!NoCall, Dl!NoRun, Gen!NoRun, Dl!NoPart, Gen!NoPart, Dl!Parts, Gen!Parts,
     Dl!Stop, Gen!Stop, Dl!Launched, Gen!Launched, Dl!Waiting, Gen!Waiting, Dl!Continue, Gen!Continue,
     Dl!LaunchJob, Gen!LaunchJob, Dl!CancelRun, Gen!CancelRun, Dl!WaitSlot, Gen!WaitSlot, Dl!Requeue,
     Gen!Requeue, Dl!RemoveParts, Gen!RemoveParts, Dl!RemoveRow, Gen!RemoveRow
<1>7. /\ \A r, j : Dl!Create(r, j) \/ Dl!Retry(r, j) => Gen!Create(r, j) \/ Gen!Retry(r, j)
      /\ \A r, j : Dl!Cancel(r, j) \/ Dl!Remove(r, j) => Gen!Cancel(r, j) \/ Gen!Remove(r, j)
  BY DEF Dl!Asking, Gen!Asking, Dl!AskAt, Gen!AskAt, Dl!Answers, Gen!Answers, Dl!world, Gen!world, Dl!disk,
     Gen!disk, Dl!NoRun, Gen!NoRun, Dl!Stop, Gen!Stop, Dl!Create, Gen!Create, Dl!Retry, Gen!Retry,
     Dl!Cancel, Gen!Cancel, Dl!Remove, Gen!Remove
<1>8. Dl!Shutdown \/ Dl!ResumePending \/ Dl!Publish => Gen!Shutdown \/ Gen!ResumePending \/ Gen!Publish
  BY DEF Dl!Shutdown, Gen!Shutdown, Dl!ResumePending, Gen!ResumePending, Dl!Publish, Gen!Publish, Dl!disk,
     Gen!disk, Dl!NoRun, Gen!NoRun, Dl!NoCall, Gen!NoCall, Dl!Waiting, Gen!Waiting, Dl!Requests,
     Gen!Requests
<1> QED BY <1>5, <1>6, <1>7, <1>8 DEF Dl!DlNext, Gen!DlNext, Dl!Requests, Gen!Requests

\* ... and the same properties, which follow from the inductive invariants.
LEMMA DownloadsSay ==
    Gen!DlInv /\ Gen!LimitInv => /\ Dl!FinalIntact /\ Dl!CompletedHasFiles
                                /\ Dl!ActiveRuns /\ Dl!WithinLimit
<1>1. Gen!OneJob
  BY DEF Gen!OneJob
<1>2. Gen!DlInv /\ Gen!LimitInv => /\ Gen!FinalIntact /\ Gen!CompletedHasFiles
                                   /\ Gen!ActiveRuns /\ Gen!WithinLimit
  BY <1>1, Gen!DlSays
<1>3. Gen!FinalIntact /\ Gen!CompletedHasFiles => Dl!FinalIntact /\ Dl!CompletedHasFiles
  BY DEF Gen!FinalIntact, Dl!FinalIntact, Gen!CompletedHasFiles, Dl!CompletedHasFiles, Gen!Exists, Dl!Exists,
     Gen!NoPart, Dl!NoPart, Gen!Whole, Dl!Whole, Gen!Full, Dl!Full, Gen!Parts, Dl!Parts
<1>4. Gen!ActiveRuns => Dl!ActiveRuns
  BY SMTT(60) DEF Gen!ActiveRuns, Dl!ActiveRuns, Gen!Waiting, Dl!Waiting, Gen!NoRun, Dl!NoRun, Gen!Requests, Dl!Requests
<1>5. Gen!WithinLimit => Dl!WithinLimit
  BY DEF Gen!WithinLimit, Dl!WithinLimit, Gen!Kept, Dl!Kept, Gen!Exists, Dl!Exists, Gen!NoPart, Dl!NoPart,
     Gen!Parts, Dl!Parts, Dl!SumFunction, Gen!SumFunction, Dl!SumFunctionOnSet, Gen!SumFunctionOnSet,
     Dl!FoldFunctionOnSet, Gen!FoldFunctionOnSet, Dl!MapThenFoldSet, Gen!MapThenFoldSet
<1> QED BY <1>2, <1>3, <1>4, <1>5

\* A step of the services is one of the downloads when those are in focus, or none.
LEMMA DownloadsStep == DlKept /\ [MCNext]_allVars => DlKept'
<1> SUFFICES ASSUME DlKept, [MCNext]_allVars, focus' = "downloads"
             PROVE  Gen!DlInv' /\ Gen!LimitInv'
  BY DEF DlKept
<1>1. focus = "downloads" /\ (Dl!DlNext \/ UNCHANGED allVars)
  BY DEF MCNext, Component, allVars
<1>2. Gen!DlInv /\ Gen!LimitInv
  BY <1>1 DEF DlKept
<1>3. UNCHANGED allVars => UNCHANGED Gen!dlVars
  BY DEF allVars, shared, rest6, rest7, rest12, Gen!dlVars
<1>4. [Gen!DlNext]_(Gen!dlVars)
  BY <1>1, <1>3, SameDownloads
<1>5. Gen!DlInv'
  BY <1>2, <1>4, DownloadsGiven, Gen!DlStays
<1>6. Gen!LimitInv'
  BY <1>2, <1>4, DownloadsGiven, Gen!LimitStays
<1> QED BY <1>5, <1>6

\* A file under its final name is whole and of one version, a completed job has
\* its files, an active one is tended, and the ceiling holds
\* (downloads/manager.go), as the run checks it.
THEOREM DownloadsHold == ServicesSpec => []DownloadsSafe
<1>1. Init => DlKept
  BY SameDownload, DownloadsGiven, Gen!DlBegins DEF Init, DlKept
<1>2. DlKept => DownloadsSafe
  BY DownloadsSay DEF DlKept, DownloadsSafe
<1> QED BY <1>1, <1>2, DownloadsStep, PTL DEF ServicesSpec

-----------------------------------------------------------------------------
(* The gateway's rows.  Written folds over a batch in an order nobody knows.*)
(* Its recursion defines a table for every finite batch: the argument is    *)
(* that of Sums, whose lemmas speak of addition.                            *)

\* The table once request x, as flusher f has it, is written too.
After(f, x, table) == [table EXCEPT ![x] = Gw!NewRow(table, x, s10[f][x])]
Rewritten(g, f, S) == g = [s \in SUBSET S |-> IF s = {} THEN s12 ELSE After(f, Pick(s), g[s \ {Pick(s)}])]
Tables(f, S)  == CHOOSE g : Rewritten(g, f, S)
TableOf(f, S) == Tables(f, S)[S]

LEMMA TablesUnique ==
    ASSUME NEW S, IsFiniteSet(S), NEW f, NEW g, NEW h, Rewritten(g, f, S), Rewritten(h, f, S)
    PROVE  g = h
<1> DEFINE Bad == {T \in SUBSET S : g[T] # h[T]}
<1>1. \A s \in SUBSET S : /\ g[s] = IF s = {} THEN s12 ELSE After(f, Pick(s), g[s \ {Pick(s)}])
                          /\ h[s] = IF s = {} THEN s12 ELSE After(f, Pick(s), h[s \ {Pick(s)}])
  BY DEF Rewritten
<1>2. Bad = {}
  <2> SUFFICES ASSUME Bad # {} PROVE FALSE
    OBVIOUS
  <2>1. PICK T \in Bad : \A U \in Bad : U \subseteq T => U = T
    <3>1. Bad \in SUBSET (SUBSET S)
      OBVIOUS
    <3> HIDE DEF Bad
    <3> QED BY <3>1, SmallestSet
  <2>2. T \in SUBSET S /\ g[T] # h[T]
    OBVIOUS
  <2>3. T # {}
    BY <1>1, <2>2
  <2>4. Pick(T) \in T /\ T \ {Pick(T)} \in SUBSET S /\ T \ {Pick(T)} # T
    BY <2>2, <2>3, PickIn
  <2>5. T \ {Pick(T)} \notin Bad
    BY <2>1, <2>4
  <2>6. g[T \ {Pick(T)}] = h[T \ {Pick(T)}]
    BY <2>4, <2>5
  <2> QED BY <1>1, <2>2, <2>3, <2>6
<1>3. \A T \in SUBSET S : g[T] = h[T]
  BY <1>2
<1>4. /\ g = [T \in SUBSET S |-> g[T]]
      /\ h = [T \in SUBSET S |-> h[T]]
  BY DEF Rewritten
<1> QED BY <1>3, <1>4

LEMMA TablesBelow ==
    ASSUME NEW S, NEW f, NEW g, Rewritten(g, f, S), NEW T \in SUBSET S
    PROVE  Rewritten([s \in SUBSET T |-> g[s]], f, T)
<1> DEFINE h == [s \in SUBSET T |-> g[s]]
<1>1. \A s \in SUBSET T : h[s] = IF s = {} THEN s12 ELSE After(f, Pick(s), h[s \ {Pick(s)}])
  <2> TAKE s \in SUBSET T
  <2>1. s \in SUBSET S /\ s \ {Pick(s)} \in SUBSET T
    OBVIOUS
  <2>2. g[s] = IF s = {} THEN s12 ELSE After(f, Pick(s), g[s \ {Pick(s)}])
    BY <2>1 DEF Rewritten
  <2>3. h[s] = g[s] /\ h[s \ {Pick(s)}] = g[s \ {Pick(s)}]
    BY <2>1
  <2> QED BY <2>2, <2>3
<1>2. h = [s \in SUBSET T |-> IF s = {} THEN s12 ELSE After(f, Pick(s), h[s \ {Pick(s)}])]
  <2> HIDE DEF h
  <2>1. h = [s \in SUBSET T |-> h[s]]
    BY DEF h
  <2> QED BY <1>1, <2>1
<1> QED BY <1>2 DEF Rewritten

LEMMA TableBelow ==
    ASSUME NEW S, IsFiniteSet(S), NEW f, \E g : Rewritten(g, f, S)
    PROVE  TableOf(f, S) = IF S = {} THEN s12 ELSE After(f, Pick(S), TableOf(f, S \ {Pick(S)}))
<1>1. Rewritten(Tables(f, S), f, S)
  BY DEF Tables
<1>2. TableOf(f, S) = IF S = {} THEN s12 ELSE After(f, Pick(S), Tables(f, S)[S \ {Pick(S)}])
  BY <1>1 DEF TableOf, Rewritten
<1>3. ASSUME S # {} PROVE Tables(f, S)[S \ {Pick(S)}] = TableOf(f, S \ {Pick(S)})
  <2> DEFINE U == S \ {Pick(S)}
             h == [s \in SUBSET U |-> Tables(f, S)[s]]
  <2>1. Rewritten(h, f, U)
    BY ZenonT(60), <1>1, TablesBelow
  <2>2. Rewritten(Tables(f, U), f, U)
    BY <2>1 DEF Tables
  <2>3. IsFiniteSet(U)
    BY FS_Subset
  <2>4. h = Tables(f, U)
    BY <2>1, <2>2, <2>3, TablesUnique
  <2>5. h[U] = Tables(f, S)[U]
    OBVIOUS
  <2> QED BY <2>4, <2>5 DEF TableOf
<1> QED BY <1>2, <1>3

LEMMA TablesExist ==
    ASSUME NEW S, IsFiniteSet(S), NEW f
    PROVE  \E g : Rewritten(g, f, S)
<1> DEFINE Bad == {T \in SUBSET S : ~ \E g : Rewritten(g, f, T)}
<1> SUFFICES ASSUME Bad # {} PROVE FALSE
  OBVIOUS
<1>1. PICK T \in Bad : \A U \in Bad : U \subseteq T => U = T
  <2>1. Bad \in SUBSET (SUBSET S)
    OBVIOUS
  <2> HIDE DEF Bad
  <2> QED BY <2>1, SmallestSet
<1>2. T \in SUBSET S /\ ~ \E g : Rewritten(g, f, T)
  OBVIOUS
<1> DEFINE G == [s \in SUBSET T |-> IF s = {} THEN s12 ELSE After(f, Pick(s), TableOf(f, s \ {Pick(s)}))]
<1>3. ASSUME NEW u \in SUBSET T, u # T
      PROVE  G[u] = TableOf(f, u)
  <2>1. u \in SUBSET S /\ u \notin Bad
    BY <1>1, <1>2, <1>3
  <2>2. \E g : Rewritten(g, f, u)
    BY <2>1
  <2>3. IsFiniteSet(u)
    BY <2>1, FS_Subset
  <2>4. TableOf(f, u) = IF u = {} THEN s12 ELSE After(f, Pick(u), TableOf(f, u \ {Pick(u)}))
    BY SMTT(60), <2>2, <2>3, TableBelow
  <2> QED BY <2>4
<1>4. \A s \in SUBSET T : G[s] = IF s = {} THEN s12 ELSE After(f, Pick(s), G[s \ {Pick(s)}])
  <2> TAKE s \in SUBSET T
  <2>1. CASE s = {}
    BY <2>1
  <2>2. CASE s # {}
    <3>1. Pick(s) \in s
      BY <2>2, PickIn
    <3>2. s \ {Pick(s)} \in SUBSET T /\ s \ {Pick(s)} # T
      BY <3>1
    <3>3. G[s \ {Pick(s)}] = TableOf(f, s \ {Pick(s)})
      BY <1>3, <3>2
    <3>4. G[s] = After(f, Pick(s), TableOf(f, s \ {Pick(s)}))
      BY <2>2
    <3> QED BY <2>2, <3>3, <3>4
  <2> QED BY <2>1, <2>2
<1>5. G = [s \in SUBSET T |-> G[s]]
  OBVIOUS
<1> HIDE DEF G
<1>6. G = [s \in SUBSET T |-> IF s = {} THEN s12 ELSE After(f, Pick(s), G[s \ {Pick(s)}])]
  BY <1>4, <1>5
<1>7. Rewritten(G, f, T)
  BY <1>6 DEF Rewritten
<1> QED BY <1>2, <1>7

\* A table of rows in which no two have one ID.
Shaped(table) ==
    /\ table = [r \in A |-> table[r]]
    /\ \A r \in A : table[r] # Gw!NoRow =>
          table[r] = [id |-> table[r].id, ready |-> table[r].ready, deleted |-> table[r].deleted]
OneEach(table) ==
    \A r, s \in A : table[r] # Gw!NoRow /\ table[s] # Gw!NoRow /\ table[r].id = table[s].id /\ table[r].id # Gw!NoId => r = s

\* What the present one becomes once the requests of S are written: theirs are
\* the rows that are new, and what was deleted still is.
Keeps(table, S) ==
    /\ Shaped(table) /\ OneEach(table)
    /\ \A r \in A : /\ table[r] = Gw!NoRow <=> s12[r] = Gw!NoRow /\ r \notin S
                    /\ s12[r] # Gw!NoRow /\ s12[r].deleted => table[r].deleted

LEMMA AfterKeeps ==
    ASSUME NEW f, NEW S, NEW x \in A, NEW table, Keeps(table, S) PROVE Keeps(After(f, x, table), S \cup {x})
<1> DEFINE e == s10[f][x]
           row == Gw!NewRow(table, x, e)
           new == After(f, x, table)
<1>1. new = [r \in A |-> IF r = x THEN row ELSE table[r]]
  BY DEF After, Keeps, Shaped
<1>2. \A r \in A : new[r] = IF r = x THEN row ELSE table[r]
  BY <1>1
<1>3. row # Gw!NoRow /\ row = [id |-> row.id, ready |-> row.ready, deleted |-> row.deleted]
  BY DEF Gw!NewRow, Gw!NoRow
<1>4. row.deleted = (e.deleted \/ (table[x] # Gw!NoRow /\ table[x].deleted))
  BY DEF Gw!NewRow
<1>5. \/ row.id = Gw!NoId
      \/ table[x] # Gw!NoRow /\ row.id = table[x].id
      \/ \A s \in A \ {x} : table[s] = Gw!NoRow \/ table[s].id # row.id
  BY DEF Gw!NewRow
<1> HIDE DEF new, e, row
<1>6. Shaped(new)
  <2>1. new = [r \in A |-> new[r]]
    BY <1>1
  <2>2. ASSUME NEW r \in A, new[r] # Gw!NoRow
        PROVE  new[r] = [id |-> new[r].id, ready |-> new[r].ready, deleted |-> new[r].deleted]
    BY <1>2, <1>3, <2>2 DEF Keeps, Shaped
  <2> QED BY <2>1, <2>2 DEF Shaped
<1>7. OneEach(new)
  <2> SUFFICES ASSUME NEW r \in A, NEW s \in A, new[r] # Gw!NoRow, new[s] # Gw!NoRow, new[r].id = new[s].id,
                      new[r].id # Gw!NoId, r # s
               PROVE  FALSE
    BY DEF OneEach
  <2>1. OneEach(table)
    BY DEF Keeps
  <2>2. CASE r # x /\ s # x
    BY <1>2, <2>1, <2>2 DEF OneEach
  <2>3. CASE r = x
    BY <1>2, <1>5, <2>1, <2>3 DEF OneEach
  <2>4. CASE s = x
    BY <1>2, <1>5, <2>1, <2>4 DEF OneEach
  <2> QED BY <2>2, <2>3, <2>4
<1>8. ASSUME NEW r \in A
      PROVE  /\ new[r] = Gw!NoRow <=> s12[r] = Gw!NoRow /\ r \notin S \cup {x}
             /\ s12[r] # Gw!NoRow /\ s12[r].deleted => new[r].deleted
  <2>1. /\ table[r] = Gw!NoRow <=> s12[r] = Gw!NoRow /\ r \notin S
        /\ s12[r] # Gw!NoRow /\ s12[r].deleted => table[r].deleted
    BY DEF Keeps
  <2>2. CASE r = x
    BY <1>2, <1>3, <1>4, <2>1, <2>2
  <2>3. CASE r # x
    BY <1>2, <2>1, <2>3
  <2> QED BY <2>2, <2>3
<1> QED BY <1>6, <1>7, <1>8 DEF Keeps, new

\* However many a transaction writes.
LEMMA TableKeeps ==
    ASSUME IsFiniteSet(A), Shaped(s12), OneEach(s12), NEW f, NEW S \in SUBSET A PROVE Keeps(TableOf(f, S), S)
<1> DEFINE Bad == {T \in SUBSET S : ~Keeps(TableOf(f, T), T)}
<1> SUFFICES ASSUME Bad # {} PROVE FALSE
  OBVIOUS
<1>1. IsFiniteSet(S)
  BY FS_Subset
<1>2. PICK T \in Bad : \A U \in Bad : U \subseteq T => U = T
  <2>1. Bad \in SUBSET (SUBSET S)
    OBVIOUS
  <2> HIDE DEF Bad
  <2> QED BY <1>1, <2>1, SmallestSet
<1>3. T \in SUBSET S /\ ~Keeps(TableOf(f, T), T)
  OBVIOUS
<1>4. IsFiniteSet(T)
  BY <1>1, <1>3, FS_Subset
<1>5. TableOf(f, T) = IF T = {} THEN s12 ELSE After(f, Pick(T), TableOf(f, T \ {Pick(T)}))
  BY <1>4, TablesExist, TableBelow
<1>6. Keeps(s12, {})
  BY DEF Keeps
<1>7. T # {}
  BY <1>3, <1>5, <1>6
<1>8. Pick(T) \in T /\ T \ {Pick(T)} \in SUBSET S /\ T \ {Pick(T)} # T
  BY <1>3, <1>7, PickIn
<1>9. T \ {Pick(T)} \notin Bad
  BY <1>2, <1>8
<1>10. Keeps(TableOf(f, T \ {Pick(T)}), T \ {Pick(T)})
  BY <1>8, <1>9
<1>11. Keeps(After(f, Pick(T), TableOf(f, T \ {Pick(T)})), (T \ {Pick(T)}) \cup {Pick(T)})
  BY <1>3, <1>8, <1>10, AfterKeeps
<1>12. (T \ {Pick(T)}) \cup {Pick(T)} = T
  BY <1>8
<1> QED BY <1>3, <1>5, <1>7, <1>11, <1>12

LEMMA WrittenIs == \A f, S : Gw!Written(f, S) => s12' = TableOf(f, S)
BY DEF Gw!Written, Gw!FoldSet, Gw!MapThenFoldSet, TableOf, Tables, Rewritten, After, Pick

\* The tables are in order: rows without a double ID, each counted once.
InOrder == Shaped(s12) /\ OneEach(s12) /\ Gw!CountedOnce
RowsKept == focus = "gateway" => InOrder

\* No step of the gateway brings them out of order or undoes a deletion.
LEMMA RowsStay ==
    ASSUME InOrder, Gw!GwNext \/ UNCHANGED <<s12, s13>> PROVE InOrder' /\ Gw!DeletedSticks
<1>1. ASSUME NEW f, NEW S \in SUBSET A, Gw!Written(f, S) PROVE InOrder' /\ Gw!DeletedSticks
  <2>1. IsFiniteSet(A)
    BY GatewayAssumed DEF Gw!GatewayAssumption, Gw!IsFiniteSet, IsFiniteSet
  <2>2. Keeps(s12', S)
    BY <1>1, <2>1, WrittenIs, TableKeeps DEF InOrder
  <2>3. \A r \in A : s13'[r] = IF s12'[r] = Gw!NoRow THEN 0 ELSE 1
    <3>1. \A r \in A : s13'[r] = IF r \in S /\ s12[r] = Gw!NoRow THEN s13[r] + 1 ELSE s13[r]
      BY <1>1 DEF Gw!Written
    <3>2. \A r \in A : s13[r] = IF s12[r] = Gw!NoRow THEN 0 ELSE 1
      BY DEF InOrder, Gw!CountedOnce
    <3>3. \A r \in A : s12'[r] = Gw!NoRow <=> s12[r] = Gw!NoRow /\ r \notin S
      BY <2>2 DEF Keeps
    <3> QED BY <3>1, <3>2, <3>3
  <2>4. Gw!CountedOnce'
    BY <2>3 DEF Gw!CountedOnce, Gw!NoRow
  <2>5. Shaped(s12)' /\ OneEach(s12)'
    BY <2>2 DEF Keeps, Shaped, OneEach, Gw!NoRow, Gw!NoId
  <2> QED BY <2>2, <2>4, <2>5 DEF Keeps, InOrder, Gw!DeletedSticks
<1>2. ASSUME UNCHANGED <<s12, s13>> PROVE InOrder' /\ Gw!DeletedSticks
  BY <1>2 DEF InOrder, Shaped, OneEach, Gw!CountedOnce, Gw!DeletedSticks
<1>3. ASSUME NEW r \in A, Gw!Mark(r) PROVE InOrder' /\ Gw!DeletedSticks
  <2> DEFINE id == s1[r].id
             by == Gw!Stored(id).by
  <2>1. \/ UNCHANGED <<s12, s13>>
        \/ /\ ~Gw!Stored(id).deleted /\ Gw!Buffered(id).by = Gw!NoReq /\ by # Gw!NoReq
           /\ s12' = [s12 EXCEPT ![by].deleted = TRUE] /\ s13' = s13
    BY <1>3 DEF Gw!Mark, Gw!MarkBuffered
  <2>2. CASE /\ ~Gw!Stored(id).deleted /\ Gw!Buffered(id).by = Gw!NoReq /\ by # Gw!NoReq
             /\ s12' = [s12 EXCEPT ![by].deleted = TRUE] /\ s13' = s13
    <3>1. Gw!Stored(id) = Gw!InTables(id)
      BY <2>2 DEF Gw!Stored
    <3>2. by \in A /\ s12[by] # Gw!NoRow /\ Gw!Stored(id).deleted = s12[by].deleted
      <4> DEFINE those == {k \in A : s12[k] # Gw!NoRow /\ s12[k].id = id}
                 k0 == CHOOSE k \in those : TRUE
      <4>1. Gw!InTables(id) = IF those = {} THEN Gw!Unclaimed ELSE [by |-> k0, deleted |-> s12[k0].deleted]
        BY Zenon DEF Gw!InTables
      <4>2. Gw!Unclaimed.by = Gw!NoReq
        BY DEF Gw!Unclaimed
      <4>3. by = Gw!InTables(id).by
        BY SMTT(60), <3>1
      <4>4. those # {}
        BY <2>2, <4>1, <4>2, <4>3
      <4>5. k0 \in A /\ s12[k0] # Gw!NoRow
        BY <4>4
      <4> HIDE DEF those, k0, by
      <4> QED BY <3>1, <4>1, <4>3, <4>4, <4>5
    <3> HIDE DEF id, by
    <3>3. Shaped(s12)
      BY DEF InOrder
    <3>4. s12[by] = [id |-> s12[by].id, ready |-> s12[by].ready, deleted |-> s12[by].deleted]
      BY <3>2, <3>3 DEF Shaped
    <3>5. s12'[by] = [id |-> s12[by].id, ready |-> s12[by].ready, deleted |-> TRUE]
      <4>1. s12'[by] = [s12[by] EXCEPT !.deleted = TRUE]
        BY <2>2, <3>2, <3>3 DEF Shaped
      <4> QED BY <3>4, <4>1
    <3>6. \A k \in A : k # by => s12'[k] = s12[k]
      BY <2>2, <3>3 DEF Shaped
    <3>7. s12' = [k \in A |-> s12'[k]]
      BY <2>2, <3>3 DEF Shaped
    <3>8. s12'[by] # Gw!NoRow
      BY <3>5 DEF Gw!NoRow
    <3>9. Shaped(s12)'
      BY <3>3, <3>5, <3>6, <3>7 DEF Shaped, Gw!NoRow
    <3>10. OneEach(s12)'
      <4>1. \A k \in A : s12'[k].id = s12[k].id /\ (s12'[k] = Gw!NoRow <=> s12[k] = Gw!NoRow)
        BY <3>2, <3>5, <3>6, <3>8
      <4>2. OneEach(s12) /\ Gw!NoRow' = Gw!NoRow /\ Gw!NoId' = Gw!NoId
        BY DEF InOrder, Gw!NoRow, Gw!NoId
      <4> QED BY <4>1, <4>2 DEF OneEach
    <3>11. Gw!CountedOnce'
      BY <2>2, <3>2, <3>6, <3>8 DEF InOrder, Gw!CountedOnce, Gw!NoRow
    <3>12. Gw!DeletedSticks
      BY <3>5, <3>6 DEF Gw!DeletedSticks
    <3> QED BY <3>9, <3>10, <3>11, <3>12 DEF InOrder
  <2> QED BY SMTT(60), <1>2, <2>1, <2>2
<1>4. ASSUME NEW f \in Gw!Flushers, Gw!Flush(f) PROVE UNCHANGED <<s12, s13>> \/ \E S \in SUBSET A : Gw!Written(f, S)
  BY <1>4 DEF Gw!Flush, Gw!Collect, Gw!PersistBatch, Gw!PersistOne, Gw!Settled, Gw!Taken
<1>5. ASSUME NEW r \in A, Gw!Serve(r) PROVE UNCHANGED <<s12, s13>> \/ Gw!Mark(r)
  BY <1>5 DEF Gw!Serve, Gw!Begin, Gw!Answer, Gw!Enqueue, Gw!Refused, Gw!Proxy, Gw!Answered, Gw!Leave,
     Gw!Finalize, Gw!Attach, Gw!Removed, Gw!Control, Gw!Named, Gw!Cancel, Gw!LookUp, Gw!store
<1>6. ASSUME Gw!ExitBegins \/ Gw!TickerEnds \/ Gw!ExitEnds PROVE UNCHANGED <<s12, s13>>
  BY <1>6 DEF Gw!ExitBegins, Gw!TickerEnds, Gw!ExitEnds
<1> QED BY <1>1, <1>2, <1>3, <1>4, <1>5, <1>6 DEF Gw!GwNext

LEMMA RowsStep == RowsKept /\ [MCNext]_allVars => RowsKept'
<1> SUFFICES ASSUME RowsKept, [MCNext]_allVars, focus' = "gateway" PROVE InOrder'
  BY DEF RowsKept
<1>1. focus = "gateway" /\ (Gw!GwNext \/ UNCHANGED <<s12, s13>>)
  BY DEF MCNext, Component, allVars, shared, rest6, rest7, rest12
<1> QED BY <1>1, RowsStay DEF RowsKept

LEMMA RowsBegin == Gw!GwInit => InOrder
BY DEF Gw!GwInit, InOrder, Shaped, OneEach, Gw!CountedOnce

\* Whatever batches two flushers write at once, in whatever order and however
\* often a write fails: no two rows have one ID, and a request is counted
\* exactly once (observability/writeback.go:persistWritebackEntry).
THEOREM RowsInOrder == ServicesSpec => [](focus = "gateway" => Gw!UniqueIds /\ Gw!CountedOnce)
<1>1. Init => RowsKept
  BY RowsBegin DEF Init, RowsKept
<1>2. RowsKept => (focus = "gateway" => Gw!UniqueIds /\ Gw!CountedOnce)
  BY DEF RowsKept, InOrder, OneEach, Gw!UniqueIds
<1> QED BY <1>1, <1>2, RowsStep, PTL DEF ServicesSpec

-----------------------------------------------------------------------------
(* What no step undoes.                                                    *)

\* A step undoes neither the record of a live orphan, nor a cancellation, nor
\* the outcome of a benchmark, nor a deletion.
LEMMA StepUndoesNothing ==
    ASSUME RecoveryKept, DlKept, BenchKept, RowsKept, [MCNext]_allVars
    PROVE  CASE focus = "recovery"   -> Rec!TraceKept
             [] focus = "downloads"  -> Dl!CancelHolds
             [] focus = "benchmarks" -> Bench!OutcomeFinal
             [] focus = "gateway"    -> Gw!DeletedSticks
             [] OTHER -> TRUE
<1>1. ASSUME focus = "recovery" PROVE Rec!TraceKept
  <2>1. Rec!RecNext \/ UNCHANGED allVars
    BY <1>1 DEF MCNext, Component
  <2>2. UNCHANGED allVars => UNCHANGED Gen!recVars
    BY DEF allVars, shared, rest6, rest7, rest12, Gen!recVars
  <2>3. [Gen!RecNext]_(Gen!recVars)
    BY <2>1, <2>2, SameRecovery
  <2>4. Gen!TraceKept
    BY <1>1, <2>3, RecoveryAssumed, Gen!TraceStays DEF RecoveryKept
  <2> QED BY <2>4 DEF Gen!TraceKept, Rec!TraceKept, Gen!Alive, Rec!Alive, Gen!NoRow, Rec!NoRow,
                     Gen!NoProcess, Rec!NoProcess, Gen!Gone, Rec!Gone
<1>2. ASSUME focus = "downloads" PROVE Dl!CancelHolds
  <2>1. Dl!DlNext \/ UNCHANGED allVars
    BY <1>2 DEF MCNext, Component
  <2>2. UNCHANGED allVars => UNCHANGED Gen!dlVars
    BY DEF allVars, shared, rest6, rest7, rest12, Gen!dlVars
  <2>3. [Gen!DlNext]_(Gen!dlVars)
    BY <2>1, <2>2, SameDownloads
  <2>4. Gen!CancelHolds
    BY <1>2, <2>3, DownloadsGiven, Gen!CancelStands DEF DlKept
  <2> QED BY <2>4 DEF Gen!CancelHolds, Dl!CancelHolds, Gen!Whole, Dl!Whole, Gen!Exists, Dl!Exists, Gen!Full, Dl!Full,
                     Gen!NoPart, Dl!NoPart, Gen!Parts, Dl!Parts
<1>3. ASSUME focus = "benchmarks" PROVE Bench!OutcomeFinal
  <2>1. Bench!BenchNext \/ UNCHANGED allVars
    BY <1>3 DEF MCNext, Component
  <2>2. UNCHANGED allVars => UNCHANGED Gen!benchVars
    BY DEF allVars, shared, rest6, rest7, rest12, Gen!benchVars
  <2>3. [Gen!BenchNext]_(Gen!benchVars)
    BY <2>1, <2>2, SameBenchmarks
  <2>4. Gen!OutcomeFinal
    BY <1>3, <2>3, Gen!OutcomeStays DEF BenchKept
  <2> QED BY <2>4 DEF Gen!OutcomeFinal, Bench!OutcomeFinal, Gen!Ended, Bench!Ended
<1>4. ASSUME focus = "gateway" PROVE Gw!DeletedSticks
  <2>1. Gw!GwNext \/ UNCHANGED <<s12, s13>>
    BY <1>4 DEF MCNext, Component, allVars, shared, rest6, rest7, rest12
  <2> QED BY <1>4, <2>1, RowsStay DEF RowsKept
<1> QED BY <1>1, <1>2, <1>3, <1>4

\* The record of a live orphan, a cancelled download, the outcome of a benchmark
\* and the deletion of a request's row: no step undoes them, as the run checks it.
THEOREM NothingIsUndone == ServicesSpec => NothingUndone
<1>1. Init => RecoveryKept /\ DlKept /\ BenchKept /\ RowsKept
  BY RowsBegin, SameBoot, RecoveryAssumed, Gen!RecoveryStarts, SameDownload, DownloadsGiven, Gen!DlBegins,
             SameBench, BenchAssumed, Gen!BenchBegins DEF Init, RecoveryKept, DlKept, BenchKept, RowsKept
<1> QED BY <1>1, RecoveryStep, DownloadsStep, BenchStep, RowsStep, StepUndoesNothing, PTL DEF ServicesSpec, NothingUndone
=============================================================================
