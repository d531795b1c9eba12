----------------------------- MODULE Downloads ------------------------------
(***************************************************************************)
(* The download manager (downloads/manager.go, temp.go, events.go): one    *)
(* goroutine per running job fetches the files of a split artifact one by  *)
(* one into partial files, resumes what is left of an earlier attempt, and *)
(* renames a partial file to its final name when all of it is there.  The  *)
(* API cancels, retries and removes jobs meanwhile, and the manager may    *)
(* stop between any two steps.                                             *)
(*                                                                         *)
(* A file's content is the sequence of its units, each named by the        *)
(* version of the remote file it was read from.                            *)
(***************************************************************************)
EXTENDS Integers, Sequences, FiniteSets, Functions

CONSTANTS
    Jobs,        \* jobs for one artifact (a job per Create that found none completed)
    Files,       \* the number of files of the artifact, fetched in order
    Length,      \* units of each file
    Offers,      \* whether the provider reports sizes, and max_download_bytes
    Versions,    \* bound on the versions the remote files go through
    Makers,      \* API requests that create and retry jobs
    Breakers,    \* API requests that cancel and remove them
    MidChange,   \* may a remote file change between its HEAD and its GET?
    MaxStops     \* bound on manager stops

DownloadsAssumption ==
    /\ Files \in Nat \ {0} /\ Length \in Nat \ {0} /\ Offers \subseteq [sized : BOOLEAN, limit : Nat \ {0}]
    /\ Versions \in Nat \ {0} /\ MaxStops \in Nat /\ Makers \cap Breakers = {}
    /\ MidChange \in BOOLEAN

Parts  == 1..Files
Offset == 0..Length
NoPart == <<0>>      \* there is no such file
Waiting  == {"QUEUED", "RESOLVING", "DOWNLOADING", "VERIFYING"}
Terminal == {"COMPLETED", "FAILED", "CANCELLED"}

VARIABLES
    job,      \* state in download_jobs, "absent" before and "removed" after
    row,      \* the rows of download_files
    part,     \* the partial file a row's temp_path names
    final,    \* the file under its final name, shared by all jobs
    remote,   \* version the provider serves
    offer,    \* the offer of this behaviour
    run,      \* the goroutine of a job, if one is registered in m.cancels
    request,  \* where each API request stands
    missed,   \* jobs whose last launch found an old goroutine registered, or whose
              \* new goroutine an old cancel reached (history)
    up,       \* is the manager running?
    stops

dlVars == <<job, row, part, final, remote, offer, run, request, missed, up, stops>>
disk   == <<part, final>>
others == <<remote, offer, request, missed, up, stops>>

Requests == Makers \cup Breakers
NoRun  == [pc |-> "none"]
NoCall == [pc |-> "idle"]
NewRow == [state |-> "QUEUED", bytes |-> 0, etag |-> 0, temp |-> FALSE]
Content == UNION {[1..n -> 1..Versions] : n \in Offset}

DlTypeOK ==
    /\ job \in [Jobs -> Waiting \cup Terminal \cup {"absent", "removed"}]
    /\ row \in [Jobs -> [Parts -> [state : {"QUEUED", "DOWNLOADING", "COMPLETED", "FAILED"},
                                   bytes : Offset, etag : 0..Versions, temp : BOOLEAN]]]
    /\ part \in [Jobs -> [Parts -> Content \cup {NoPart}]]
    /\ final \in [Parts -> Content \cup {NoPart}]
    /\ remote \in 1..Versions /\ offer \in Offers
    /\ run \in [Jobs -> {NoRun} \cup
                  [pc : {"start", "file", "temp", "begin", "get", "read", "rename", "record",
                         "verify", "complete", "fail", "exit"},
                   f : 1..(Files + 1), etag : 0..Versions, src : 0..Versions, at : Offset,
                   cancelled : BOOLEAN]]
    /\ request \in [Requests -> {NoCall} \cup
                  [pc : {"launch", "cancel", "wait", "retry", "clean", "delete"}, j : Jobs]]
    /\ missed \subseteq Jobs /\ up \in BOOLEAN /\ stops \in 0..MaxStops

DlInit ==
    /\ job = [j \in Jobs |-> "absent"]
    /\ row = [j \in Jobs |-> [f \in Parts |-> NewRow]]
    /\ part = [j \in Jobs |-> [f \in Parts |-> NoPart]]
    /\ final = [f \in Parts |-> NoPart]
    /\ remote = 1 /\ offer \in Offers
    /\ run = [j \in Jobs |-> NoRun]
    /\ request = [r \in Requests |-> NoCall]
    /\ missed = {} /\ up = TRUE /\ stops = 0

-----------------------------------------------------------------------------
(* Rows, files and the goroutine.                                          *)

Exists(content) == content # NoPart
Full(content) == offer.sized => Len(content) = Length
Whole(f) == Exists(final[f]) /\ Full(final[f])      \* completedFileValid

Siblings(j, f) == SumFunctionOnSet([g \in Parts |-> row[j][g].bytes], Parts \ {f})   \* jobDownloadedExcept

\* setJobState: never over a cancellation; a removed job has no row to set.
SetJob(j, state) ==
    job' = [job EXCEPT ![j] = IF @ \in {"CANCELLED", "removed"} THEN @ ELSE state]
SetRow(j, f, r) == row' = [row EXCEPT ![j][f] = r]

On(j, pc)  == up /\ run[j].pc = pc
Step(j, pc) == run' = [run EXCEPT ![j].pc = pc]
\* A step that uses the run's context: once it is cancelled the step fails
\* with context.Canceled and the goroutine ends without touching the job.
Works(j, pc) == On(j, pc) /\ ~run[j].cancelled
NextFile(j) == run' = [run EXCEPT ![j].pc = "file", ![j].f = @ + 1]

\* launch: registered unless the job is registered already.
Launched(j) ==
    run' = IF run[j] # NoRun THEN run
           ELSE [run EXCEPT ![j] = [pc |-> "start", f |-> 1, etag |-> 0, src |-> 0, at |-> 0,
                                    cancelled |-> FALSE]]

-----------------------------------------------------------------------------
(* run and downloadFile.                                                   *)

Begin(j) ==
    /\ Works(j, "start")
    /\ SetJob(j, "RESOLVING")
    /\ Step(j, IF job[j] = "removed" THEN "fail" ELSE "file")
    /\ UNCHANGED <<row, disk, others>>

\* A file that is there already is skipped or adopted; otherwise its identity
\* is asked for, and the ceiling is checked against its known size.
Look(j) ==
    LET f == run[j].f
    IN  /\ Works(j, "file") /\ f \in Parts
        /\ \/ /\ Whole(f)
              /\ SetRow(j, f, [row[j][f] EXCEPT !.state = "COMPLETED", !.bytes = Len(final[f]), !.temp = FALSE])
              /\ NextFile(j)
           \/ /\ ~Whole(f) /\ (offer.sized => Siblings(j, f) + Length =< offer.limit)
              /\ run' = [run EXCEPT ![j].pc = "temp", ![j].etag = remote]
              /\ UNCHANGED row
           \/ ~Whole(f) /\ Step(j, "fail") /\ UNCHANGED row
        /\ UNCHANGED <<job, disk, others>>

\* Faulty resume: the partial file is continued whatever it was read from.
ResolveAlways(j) ==
    LET f == run[j].f
        kept == row[j][f].temp /\ Exists(part[j][f])
    IN  /\ Works(j, "temp")
        /\ run' = [run EXCEPT ![j].pc = "begin", ![j].at = IF kept THEN Len(part[j][f]) ELSE 0]
        /\ part' = [part EXCEPT ![j][f] = IF kept THEN @ ELSE <<>>]
        /\ SetRow(j, f, [row[j][f] EXCEPT !.temp = TRUE])
        /\ UNCHANGED <<job, final, others>>

\* resolveTempFile: the partial file of an earlier attempt is continued if it
\* was read from the same version, else a new one is made.
Resolve(j) ==
    LET f == run[j].f
        kept == /\ row[j][f].temp /\ Exists(part[j][f])
                /\ Len(part[j][f]) > 0 => row[j][f].etag = run[j].etag
    IN  /\ Works(j, "temp")
        /\ run' = [run EXCEPT ![j].pc = "begin", ![j].at = IF kept THEN Len(part[j][f]) ELSE 0]
        /\ part' = [part EXCEPT ![j][f] = IF kept THEN @ ELSE <<>>]
        /\ SetRow(j, f, [row[j][f] EXCEPT !.temp = TRUE])
        /\ UNCHANGED <<job, final, others>>

Record(j) ==
    LET f == run[j].f
    IN  /\ Works(j, "begin")
        /\ SetRow(j, f, [row[j][f] EXCEPT !.state = "DOWNLOADING", !.bytes = run[j].at,
                                          !.etag = run[j].etag])
        /\ SetJob(j, "DOWNLOADING")
        /\ Step(j, "get")
        /\ UNCHANGED <<disk, others>>

\* The answer: the rest of the file, all of it anew when ranges are not
\* supported, or an error.
Fetch(j) ==
    LET f == run[j].f
    IN  /\ Works(j, "get")
        /\ \/ run' = [run EXCEPT ![j].pc = "read", ![j].src = remote] /\ UNCHANGED part
           \/ /\ run[j].at > 0
              /\ run' = [run EXCEPT ![j].pc = "read", ![j].src = remote, ![j].at = 0]
              /\ part' = [part EXCEPT ![j][f] = <<>>]
           \/ Step(j, "fail") /\ UNCHANGED part
        /\ UNCHANGED <<job, row, final, others>>

\* One read: within the ceiling it is written (to an unlinked file, if the job
\* is being removed), and the progress recorded now and then.
ReadUnit(j) ==
    LET f == run[j].f
    IN  /\ Works(j, "read") /\ run[j].at < Length
        /\ \/ /\ Siblings(j, f) + run[j].at + 1 =< offer.limit
              /\ run' = [run EXCEPT ![j].at = @ + 1]
              /\ part' = [part EXCEPT ![j][f] = IF Exists(@) THEN Append(@, run[j].src) ELSE @]
              /\ row' \in {row, [row EXCEPT ![j][f].bytes = run[j].at + 1]}
           \/ Siblings(j, f) + run[j].at + 1 > offer.limit /\ Step(j, "fail") /\ UNCHANGED <<part, row>>
        /\ UNCHANGED <<job, final, others>>

\* The body ends, whole or short, or the connection breaks.
ReadEnd(j) ==
    /\ Works(j, "read")
    /\ Step(j, "rename") \/ (run[j].at < Length /\ Step(j, "fail"))
    /\ UNCHANGED <<job, row, disk, others>>

\* The size is checked and the file renamed, cancelled or not; the name the
\* partial file had may be gone by now.
Promote(j) ==
    LET f == run[j].f
    IN  /\ On(j, "rename")
        /\ IF (offer.sized => run[j].at = Length) /\ Exists(part[j][f])
           THEN /\ final' = [final EXCEPT ![f] = part[j][f]]
                /\ part' = [part EXCEPT ![j][f] = NoPart]
                /\ Step(j, "record")
           ELSE Step(j, "fail") /\ UNCHANGED disk
        /\ UNCHANGED <<job, row, others>>

Promoted(j) ==
    LET f == run[j].f
    IN  /\ Works(j, "record")
        /\ SetRow(j, f, [row[j][f] EXCEPT !.state = "COMPLETED", !.bytes = run[j].at, !.temp = FALSE])
        /\ NextFile(j)
        /\ UNCHANGED <<job, disk, others>>

Verify(j) ==
    /\ Works(j, "file") /\ run[j].f \notin Parts
    /\ SetJob(j, "VERIFYING")
    /\ Step(j, "verify")
    /\ UNCHANGED <<row, disk, others>>

Verified(j) ==
    /\ Works(j, "verify")
    /\ Step(j, IF \A f \in Parts : Whole(f) THEN "complete" ELSE "fail")
    /\ UNCHANGED <<job, row, disk, others>>

\* The last update has no guard on the state it replaces.
Complete(j) ==
    /\ Works(j, "complete")
    /\ job' = [job EXCEPT ![j] = IF @ = "removed" THEN @ ELSE "COMPLETED"]
    /\ Step(j, "exit")
    /\ UNCHANGED <<row, disk, others>>

\* Faulty failure: recorded whatever state the job is in.
FailAnyway(j) ==
    /\ On(j, "fail")
    /\ job' = [job EXCEPT ![j] = IF @ = "removed" THEN @ ELSE "FAILED"]
    /\ row' = [row EXCEPT ![j] = [f \in Parts |-> IF f = run[j].f THEN [@[f] EXCEPT !.state = "FAILED"]
                                                  ELSE @[f]]]
    /\ Step(j, "exit")
    /\ UNCHANGED <<disk, others>>

\* An error other than a cancellation: the file and the job are marked with a
\* context of their own.
Fail(j) ==
    /\ On(j, "fail")
    /\ SetJob(j, "FAILED")
    /\ row' = [row EXCEPT ![j] = [f \in Parts |-> IF f = run[j].f THEN [@[f] EXCEPT !.state = "FAILED"]
                                                  ELSE @[f]]]
    /\ Step(j, "exit")
    /\ UNCHANGED <<disk, others>>

Cancelled(j) ==
    /\ up /\ run[j].pc \notin {"none", "rename", "fail", "exit"} /\ run[j].cancelled
    /\ Step(j, "exit")
    /\ UNCHANGED <<job, row, disk, others>>

Unregister(j) ==
    /\ On(j, "exit")
    /\ run' = [run EXCEPT ![j] = NoRun]
    /\ UNCHANGED <<job, row, disk, others>>

RunStep(j) ==
    \/ Begin(j) \/ Look(j) \/ Resolve(j) \/ Record(j) \/ Fetch(j) \/ ReadUnit(j) \/ ReadEnd(j)
    \/ Promote(j) \/ Promoted(j) \/ Verify(j) \/ Verified(j) \/ Complete(j) \/ Fail(j)
    \/ Cancelled(j) \/ Unregister(j)

-----------------------------------------------------------------------------
(* API requests.  Each is cut where it goes to the database or the registry*)
(* again.                                                                  *)

AskAt(r, pc, j) == request' = [request EXCEPT ![r] = [pc |-> pc, j |-> j]]
Answers(r) == request' = [request EXCEPT ![r] = NoCall]
Asking(r, pc) == up /\ request[r].pc = pc
world == <<remote, offer, missed, up, stops>>

\* Create inserts a job unless a completed one exists, then launches it.
Create(r, j) ==
    /\ Asking(r, "idle") /\ job[j] = "absent"
    /\ \A k \in Jobs : job[k] # "COMPLETED"
    /\ offer.sized => Files * Length =< offer.limit
    /\ job' = [job EXCEPT ![j] = "QUEUED"]
    /\ AskAt(r, "launch", j)
    /\ UNCHANGED <<row, disk, run, world>>

LaunchJob(r) ==
    /\ Asking(r, "launch")
    /\ Launched(request[r].j) /\ Answers(r)
    /\ missed' = IF run[request[r].j] = NoRun THEN missed \ {request[r].j}
                 ELSE missed \cup {request[r].j}
    /\ UNCHANGED <<job, row, disk, remote, offer, up, stops>>

Cancel(r, j) ==
    /\ Asking(r, "idle") /\ job[j] \notin {"absent", "removed"}
    /\ IF job[j] \in {"COMPLETED", "CANCELLED"} THEN UNCHANGED <<job, request>>
       ELSE job' = [job EXCEPT ![j] = "CANCELLED"] /\ AskAt(r, "cancel", j)
    /\ UNCHANGED <<row, disk, run, world>>

Stop(j) == run' = IF run[j] = NoRun THEN run ELSE [run EXCEPT ![j].cancelled = TRUE]

CancelRun(r) ==
    /\ Asking(r, "cancel")
    /\ Stop(request[r].j) /\ Answers(r)
    /\ missed' = IF job[request[r].j] \in Waiting THEN missed \cup {request[r].j} ELSE missed
    /\ UNCHANGED <<job, row, disk, remote, offer, up, stops>>

Retry(r, j) ==
    /\ Asking(r, "idle") /\ job[j] \in {"FAILED", "CANCELLED"}
    /\ AskAt(r, "wait", j)
    /\ UNCHANGED <<job, row, disk, run, world>>

WaitSlot(r) ==
    /\ Asking(r, "wait") /\ run[request[r].j] = NoRun
    /\ AskAt(r, "retry", request[r].j)
    /\ UNCHANGED <<job, row, disk, run, world>>

Requeue(r) ==
    LET j == request[r].j
    IN  /\ Asking(r, "retry")
        /\ IF job[j] \in {"FAILED", "CANCELLED"}
           THEN /\ job' = [job EXCEPT ![j] = "QUEUED"]
                /\ row' = [row EXCEPT ![j] = [f \in Parts |->
                             IF @[f].state = "FAILED" THEN [@[f] EXCEPT !.state = "QUEUED"] ELSE @[f]]]
                /\ AskAt(r, "launch", j)
           ELSE Answers(r) /\ UNCHANGED <<job, row>>
        /\ UNCHANGED <<disk, run, world>>

Remove(r, j) ==
    /\ Asking(r, "idle") /\ job[j] = "CANCELLED"
    /\ Stop(j)
    /\ AskAt(r, "clean", j)
    /\ UNCHANGED <<job, row, disk, world>>

RemoveParts(r) ==
    /\ Asking(r, "clean")
    /\ part' = [part EXCEPT ![request[r].j] = [f \in Parts |-> NoPart]]
    /\ AskAt(r, "delete", request[r].j)
    /\ UNCHANGED <<job, row, final, run, world>>

RemoveRow(r) ==
    LET j == request[r].j
    IN  /\ Asking(r, "delete")
        /\ job' = [job EXCEPT ![j] = IF @ = "CANCELLED" THEN "removed" ELSE @]
        /\ Answers(r)
        /\ UNCHANGED <<row, disk, run, world>>

Continue(r) == LaunchJob(r) \/ CancelRun(r) \/ WaitSlot(r) \/ Requeue(r) \/ RemoveParts(r) \/ RemoveRow(r)

-----------------------------------------------------------------------------
(* The manager stops, its requests and goroutines with it, and starts again:*)
(* ResumePending.  The provider publishes a new version of the files.      *)

Shutdown ==
    /\ up /\ stops < MaxStops
    /\ up' = FALSE /\ stops' = stops + 1
    /\ run' = [j \in Jobs |-> NoRun] /\ request' = [r \in Requests |-> NoCall]
    /\ missed' = {}
    /\ UNCHANGED <<job, row, disk, remote, offer>>

ResumePending ==
    /\ ~up /\ up' = TRUE
    /\ job' = [j \in Jobs |-> IF job[j] \in Waiting THEN "QUEUED" ELSE job[j]]
    /\ run' = [j \in Jobs |-> IF job[j] \in Waiting
                              THEN [pc |-> "start", f |-> 1, etag |-> 0, src |-> 0, at |-> 0,
                                    cancelled |-> FALSE]
                              ELSE NoRun]
    /\ UNCHANGED <<row, disk, remote, offer, request, missed, stops>>

Publish ==
    /\ remote < Versions
    /\ MidChange \/ \A j \in Jobs : run[j].pc \notin {"temp", "begin", "get"}
    /\ remote' = remote + 1
    /\ UNCHANGED <<job, row, disk, offer, run, request, missed, up, stops>>

DlNext ==
    \/ \E j \in Jobs : \/ RunStep(j)
                       \/ \E r \in Makers : Create(r, j) \/ Retry(r, j)
                       \/ \E r \in Breakers : Cancel(r, j) \/ Remove(r, j)
    \/ \E r \in Requests : Continue(r)
    \/ Shutdown \/ ResumePending
    \/ Publish

DlFairness == /\ \A j \in Jobs : WF_dlVars(RunStep(j))
              /\ \A r \in Requests : WF_dlVars(Continue(r))
DlSpec == DlInit /\ [][DlNext]_dlVars /\ DlFairness

-----------------------------------------------------------------------------
(* Properties.                                                             *)

\* What has its final name is complete if its size was known, and comes from one version of the
\* remote file, however often the transfer was broken off and resumed.
FinalIntact ==
    \A f \in Parts : Exists(final[f]) =>
        /\ offer.sized => Len(final[f]) = Length
        /\ \A a, b \in DOMAIN final[f] : final[f][a] = final[f][b]

\* A job that shows as completed has every file under its final name.
CompletedHasFiles == \A j \in Jobs : job[j] = "COMPLETED" => \A f \in Parts : Whole(f)

\* A job that shows as active has a goroutine, or a request that is about to
\* launch it.  Only a retry that overlaps another retry or the second half of
\* a cancel can leave it without, until the manager starts again: its launch
\* finds the old goroutine registered, or the old cancel ends the new one.
ActiveRuns ==
    \A j \in Jobs : up /\ job[j] \in Waiting =>
        \/ run[j] # NoRun /\ run[j].pc # "exit"
        \/ j \in missed
        \/ \E r \in Requests : request[r] = [pc |-> "launch", j |-> j]

\* No job keeps more than the ceiling on disk in partial files and the final
\* files it wrote.
Kept(content) == IF Exists(content) THEN Len(content) ELSE 0
WithinLimit ==
    \A j \in Jobs : SumFunction([f \in Parts |-> Kept(part[j][f]) + Kept(final[f])]) =< offer.limit

\* A cancelled job starts again only by a retry; what a run still does to it
\* is complete it, when all its files are there.
CancelHolds ==
    \A j \in Jobs : job[j] = "CANCELLED" /\ job'[j] # "CANCELLED" =>
         \/ job'[j] \in {"QUEUED", "removed"}
         \/ job'[j] = "COMPLETED" /\ \A f \in Parts : Whole(f)

\* A request that waits for the job's old goroutine is answered.
RetryAnswered == \A r \in Requests : request[r].pc = "wait" ~> request[r].pc # "wait"
=============================================================================
