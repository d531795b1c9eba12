------------------------------ MODULE Recovery ------------------------------
(***************************************************************************)
(* What a manager does with the llama-server processes a previous one left *)
(* behind (supervisor/reconcile.go, runtime_store.go, proc.go and          *)
(* lifecycle/startup_reconcile.go).                                        *)
(*                                                                         *)
(* Every process the system runs has a number that grows with its start    *)
(* time: it stands for the start ticks of /proc and, for a worker, for the *)
(* generation in its environment.  PIDs are few and are used again.        *)
(***************************************************************************)
EXTENDS Integers, FiniteSets

CONSTANTS
    Instances,
    Pids,          \* process IDs
    MaxProcesses,  \* bound on the processes ever started
    MaxCrashes,    \* bound on manager crashes
    Recycles       \* may a PID found by the scan be used again before it is signalled?

RecoveryAssumption ==
    /\ MaxProcesses \in Nat /\ MaxCrashes \in Nat
    /\ Recycles \in BOOLEAN

NoProcess == 0
Numbers   == 1..MaxProcesses

\* A worker carries this installation's identity in its environment; a
\* stranger does not, or its environment cannot be read ("hidden").
Process == [kind : {"worker", "stranger", "hidden"}, inst : Instances, num : Numbers,
            signalled : BOOLEAN]
Gone    == [kind |-> "gone"]
Row     == [num : Numbers, pid : Pids]
NoRow   == [num |-> NoProcess]
Stale   == [pid : Pids, num : Numbers, inst : Instances]

VARIABLES
    os,        \* PID -> the process that has it
    started,   \* number of processes ever started
    rows,      \* instance -> its worker_runtime row
    workers,   \* instance -> the worker of this manager and what its start or reaper does
    clearing,  \* reapers between reading and deleting the row of their worker
    boot,      \* step of ReconcileStaleWorkers
    scanned,   \* the owned processes the scan found that remain to be handled
    todo,      \* the rows that remain to be handled
    target,    \* the process being terminated
    blocked,   \* orphanCleanupBlocked
    blind,     \* did this manager fail to list processes?
    crashes

recVars == <<os, started, rows, workers, clearing, boot, scanned, todo, target, blocked,
             blind, crashes>>
memory  == <<workers, clearing>>
search  == <<scanned, todo, target, blocked, blind>>

Boots == {"down", "scan", "rows", "row", "term", "wait", "kill", "last", "port", "forget", "up"}
NoWorker == [num |-> NoProcess, at |-> "none"]
NoTarget == [num |-> NoProcess]

RecTypeOK ==
    /\ os \in [Pids -> Process \cup {Gone}]
    /\ started \in 0..MaxProcesses
    /\ rows \in [Instances -> Row \cup {NoRow}]
    /\ workers \in [Instances -> [num : Numbers, pid : Pids, at : {"persist", "abort", "run"}]
                                 \cup {NoWorker}]
    /\ clearing \subseteq [inst : Instances, num : Numbers, at : {"get", "delete"}]
    /\ boot \in Boots
    /\ scanned \subseteq Stale /\ todo \subseteq Stale /\ target \in Stale \cup {NoTarget}
    /\ blocked \subseteq Instances /\ blind \in BOOLEAN /\ crashes \in 0..MaxCrashes

RecInit ==
    /\ os = [p \in Pids |-> Gone] /\ started = 0
    /\ rows = [i \in Instances |-> NoRow]
    /\ workers = [i \in Instances |-> NoWorker] /\ clearing = {}
    /\ boot = "scan"
    /\ scanned = {} /\ todo = {} /\ target = NoTarget /\ blocked = {} /\ blind = FALSE
    /\ crashes = 0

-----------------------------------------------------------------------------
(* Processes, as /proc shows them.                                         *)

Alive(pid, num) == os[pid] # Gone /\ os[pid].num = num
Running == {p \in Pids : os[p] # Gone}
Owned == {[pid |-> p, num |-> os[p].num, inst |-> os[p].inst] :
            p \in {q \in Running : os[q].kind = "worker"}}
Signal(pid) == os' = [os EXCEPT ![pid] = IF @ = Gone THEN Gone ELSE [@ EXCEPT !.signalled = TRUE]]

\* A new process gets a free PID; a PID the reconciliation looked up is used
\* again meanwhile only if Recycles.
NewProcess(p, kind, i) ==
    /\ os[p] = Gone /\ started < MaxProcesses
    /\ os' = [os EXCEPT ![p] = [kind |-> kind, inst |-> i, num |-> started + 1, signalled |-> FALSE]]
    /\ started' = started + 1

StrangerStarts(p, kind, i) ==
    /\ Recycles \/ p \notin {s.pid : s \in scanned} \cup (IF target = NoTarget THEN {} ELSE {target.pid})
    /\ NewProcess(p, kind, i)
    /\ UNCHANGED <<rows, memory, boot, search, crashes>>

\* A process ends, signalled or not; a signalled one may also linger.
Ends(p) ==
    /\ os[p] # Gone
    /\ os' = [os EXCEPT ![p] = Gone]
    /\ UNCHANGED <<started, rows, memory, boot, search, crashes>>

-----------------------------------------------------------------------------
(* The manager in service: starts and reapers (Supervisor has them in full,*)
(* here they are what leaves processes and rows behind).                   *)

\* A launch waits for the startup barrier and refuses a blocked instance.
Launch(i, p) ==
    /\ boot = "up" /\ i \notin blocked /\ workers[i] = NoWorker
    /\ NewProcess(p, "worker", i)
    /\ workers' = [workers EXCEPT ![i] = [num |-> started + 1, pid |-> p, at |-> "persist"]]
    /\ UNCHANGED <<rows, clearing, boot, search, crashes>>

\* persistWorker, or its failure: the worker is killed (a launch after that
\* waits here for the exit; Supervisor has the case where it does not).
Persisted(i) ==
    /\ workers[i].at = "persist"
    /\ \/ /\ rows' = [rows EXCEPT ![i] = [num |-> workers[i].num, pid |-> workers[i].pid]]
          /\ workers' = [workers EXCEPT ![i].at = "run"]
          /\ UNCHANGED os
       \/ /\ workers' = [workers EXCEPT ![i].at = "abort"] /\ UNCHANGED rows
          /\ IF Alive(workers[i].pid, workers[i].num) THEN Signal(workers[i].pid) ELSE UNCHANGED os
    /\ UNCHANGED <<started, clearing, boot, search, crashes>>

\* The reaper reads the row and deletes it if it names its worker; a new
\* worker may be launched in between.
Reaped(i) ==
    /\ workers[i] # NoWorker /\ ~Alive(workers[i].pid, workers[i].num)
    /\ clearing' = clearing \cup {[inst |-> i, num |-> workers[i].num, at |-> "get"]}
    /\ workers' = [workers EXCEPT ![i] = NoWorker]
    /\ UNCHANGED <<os, started, rows, boot, search, crashes>>

RowRead(c) ==
    /\ c.at = "get"
    /\ clearing' = IF rows[c.inst].num = c.num
                   THEN (clearing \ {c}) \cup {[c EXCEPT !.at = "delete"]}
                   ELSE clearing \ {c}
    /\ UNCHANGED <<os, started, rows, workers, boot, search, crashes>>

RowCleared(c) ==
    /\ c.at = "delete"
    /\ clearing' = clearing \ {c}
    /\ rows' = [rows EXCEPT ![c.inst] = NoRow]
    /\ UNCHANGED <<os, started, workers, boot, search, crashes>>

\* The manager is killed, or stops before its workers do.
Crash ==
    /\ boot # "down" /\ crashes < MaxCrashes
    /\ boot' = "down" /\ crashes' = crashes + 1
    /\ workers' = [i \in Instances |-> NoWorker] /\ clearing' = {}
    /\ scanned' = {} /\ todo' = {} /\ target' = NoTarget /\ blocked' = {} /\ blind' = FALSE
    /\ UNCHANGED <<os, started, rows>>

Restart ==
    /\ boot = "down" /\ boot' = "scan"
    /\ UNCHANGED <<os, started, rows, memory, search, crashes>>

-----------------------------------------------------------------------------
(* ReconcileStaleWorkers.                                                  *)

\* The processes are listed; if they cannot be, the instances of the rows are
\* blocked, or none when the rows cannot be read either.
Scan ==
    /\ boot = "scan"
    /\ \/ scanned' = Owned /\ boot' = "rows" /\ UNCHANGED <<blocked, blind>>
       \/ /\ blind' = TRUE /\ boot' = "up" /\ UNCHANGED scanned
          /\ blocked' \in {{i \in Instances : rows[i] # NoRow}, {}}
    /\ UNCHANGED <<os, started, rows, memory, todo, target, crashes>>

LoadRows ==
    /\ boot = "rows"
    /\ todo' \in {{[pid |-> rows[i].pid, num |-> rows[i].num, inst |-> i] :
                     i \in {j \in Instances : rows[j] # NoRow}}, {}}
    /\ boot' = "row"
    /\ UNCHANGED <<os, started, rows, memory, scanned, target, blocked, blind, crashes>>

\* What becomes of a row's process: it may be unreadable, gone or another one
\* (its start ticks differ), someone else's, or proven to be ours.
Unreadable(r) == os[r.pid] # Gone /\ os[r.pid].kind = "hidden"
Mismatch(r)   == ~Alive(r.pid, r.num)
Proven(r)     == Alive(r.pid, r.num) /\ os[r.pid].kind = "worker" /\ os[r.pid].inst = r.inst

\* Faulty check: any living process that has the row's PID is taken for ours.
CheckRowByPid(r) ==
    /\ boot = "row" /\ todo' = todo \ {r}
    /\ \/ /\ os[r.pid] = Gone
          /\ rows' \in {rows, [rows EXCEPT ![r.inst] = NoRow]}
          /\ UNCHANGED <<boot, target, blocked>>
       \/ /\ os[r.pid] # Gone
          /\ target' = r /\ boot' = "term" /\ UNCHANGED <<rows, blocked>>
    /\ UNCHANGED <<os, started, memory, scanned, blind, crashes>>

CheckRow(r) ==
    /\ boot = "row" /\ todo' = todo \ {r}
    /\ \/ /\ Unreadable(r)
          /\ blocked' = blocked \cup {r.inst} /\ UNCHANGED <<rows, boot, target>>
       \/ /\ ~Unreadable(r) /\ (Mismatch(r) \/ ~Proven(r))
          /\ rows' \in {rows, [rows EXCEPT ![r.inst] = NoRow]}     \* or the delete fails
          /\ UNCHANGED <<boot, target, blocked>>
       \/ /\ Proven(r)
          /\ target' = r /\ boot' = "term" /\ UNCHANGED <<rows, blocked>>
    /\ UNCHANGED <<os, started, memory, scanned, blind, crashes>>

\* After the rows, the processes of the scan, which is not repeated.
CheckProc(s) ==
    /\ boot = "row" /\ todo = {}
    /\ target' = s /\ boot' = "term"
    /\ UNCHANGED <<os, started, rows, memory, scanned, todo, blocked, blind, crashes>>

Reconciled ==
    /\ boot = "row" /\ todo = {} /\ scanned = {} /\ boot' = "up"
    /\ UNCHANGED <<os, started, rows, memory, search, crashes>>

-----------------------------------------------------------------------------
(* terminateOwned.  A target that was handled is not looked at again; what *)
(* could not be cleaned up blocks its instance.                            *)

GiveUp ==
    /\ blocked' = blocked \cup {target.inst}
    /\ scanned' = scanned \ {target}
    /\ target' = NoTarget /\ boot' = "row"
    /\ UNCHANGED <<rows, todo, blind>>
Proceed(step) == boot' = step /\ UNCHANGED <<rows, search>>

Terminate ==
    /\ boot = "term"
    /\ \/ Signal(target.pid) /\ Proceed("wait")
       \/ os[target.pid] # Gone /\ UNCHANGED os /\ GiveUp          \* not permitted
    /\ UNCHANGED <<started, memory, crashes>>

AwaitGone(step, otherwise) ==
    /\ boot = step
    /\ IF Alive(target.pid, target.num) THEN otherwise ELSE Proceed("port")
    /\ UNCHANGED <<started, memory, crashes>>

KillTarget ==
    /\ boot = "kill"
    /\ \/ Signal(target.pid) /\ Proceed("last")
       \/ os[target.pid] # Gone /\ UNCHANGED os /\ GiveUp
    /\ UNCHANGED <<started, memory, crashes>>

Escalate == AwaitGone("wait", Proceed("kill")) /\ UNCHANGED os
Despair  == AwaitGone("last", GiveUp) /\ UNCHANGED os

Release ==
    /\ boot = "port"
    /\ Proceed("forget") \/ GiveUp
    /\ UNCHANGED <<os, started, memory, crashes>>

\* The row goes if it is the one handled, or names the process of the scan.
Forget ==
    /\ boot = "forget"
    /\ rows' \in {rows, IF rows[target.inst].num = target.num
                        THEN [rows EXCEPT ![target.inst] = NoRow] ELSE rows}
    /\ scanned' = scanned \ {target} /\ target' = NoTarget /\ boot' = "row"
    /\ UNCHANGED <<os, started, memory, todo, blocked, blind, crashes>>

Reconcile ==
    \/ Scan \/ LoadRows \/ Reconciled
    \/ \E r \in todo : CheckRow(r)
    \/ \E s \in scanned : CheckProc(s)
    \/ Terminate \/ Escalate \/ KillTarget \/ Despair \/ Release \/ Forget

RecNext ==
    \/ \E p \in Pids : \/ Ends(p)
                       \/ \E i \in Instances : Launch(i, p)
                       \/ \E i \in Instances, k \in {"stranger", "hidden"} : StrangerStarts(p, k, i)
    \/ \E i \in Instances : Persisted(i) \/ Reaped(i)
    \/ \E c \in clearing : RowRead(c) \/ RowCleared(c)
    \/ Crash \/ Restart \/ Reconcile

\* The reconciliation is one goroutine whose waits are bounded.
RecSpec == RecInit /\ [][RecNext]_recVars /\ WF_recVars(Reconcile)

-----------------------------------------------------------------------------
(* Properties.                                                             *)

\* Signals go to processes of this installation only: whatever took over the
\* PID of a dead worker is spared (startIdentityMismatch, recordOwnsProcess).
InnocentSpared == \A p \in Pids : os[p] # Gone /\ os[p].kind # "worker" => ~os[p].signalled

\* Once launches are allowed, a worker that a previous manager left running
\* blocks its instance, unless processes could not be listed.
Orphan(p) == os[p] # Gone /\ os[p].kind = "worker" /\ os[p].num # workers[os[p].inst].num
OrphansBlocked ==
    boot = "up" /\ ~blind => \A p \in Pids : Orphan(p) => os[p].inst \in blocked

\* So an instance never has two workers, through any number of crashes.
NoTwin ==
    ~blind => \A p \in Pids : Orphan(p) => workers[os[p].inst] = NoWorker

\* The reconciliation forgets a row only when the process it names is gone
\* (or is not the one it names), else the next manager could not trace it.
TraceKept ==
    boot # "up" => \A i \in Instances :
         rows[i] # NoRow /\ rows'[i] = NoRow => ~Alive(rows[i].pid, rows[i].num)

\* The startup barrier opens however termination goes.
BarrierOpens == boot = "scan" ~> boot \in {"up", "down"}
=============================================================================
