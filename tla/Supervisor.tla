----------------------------- MODULE Supervisor -----------------------------
(***************************************************************************)
(* The worker supervisor (backend/internal/supervisor): starting, draining,*)
(* stopping, killing and reaping the llama-server process of an instance.  *)
(*                                                                         *)
(* The supervisor keeps its workers in a map keyed by instance ID and every*)
(* operation touches the entry of its own ID only, so the module describes *)
(* one instance.  An operation that unlocks Supervisor.mu or blocks is cut *)
(* there into steps; "call" holds where each caller stands.  Several steps *)
(* look the worker up by instance ID again, and may find another one than  *)
(* the worker the call began with.                                         *)
(***************************************************************************)
EXTENDS Integers

CONSTANTS
    Callers,      \* goroutines that call Start and Stop
    MaxWorkers,   \* bound on the processes ever started
    Persistent    \* is there a runtime store (worker_runtime rows)?

ASSUME SupervisorAssumption ==
    /\ MaxWorkers \in Nat
    /\ Persistent \in BOOLEAN

Workers == 1..MaxWorkers    \* a worker; also its generation and its PID
None    == 0

States == {"unloaded", "starting", "loading", "ready", "draining", "stopping", "failed"}

VARIABLES
    current,   \* workers[id], None before the first start
    worker,    \* the worker structs, shared by the map and running calls
    proc,      \* what the operating system knows of each worker's process
    sigkill,   \* the workers whose process was sent SIGKILL
    reaper,    \* the goroutine wait(w) of each started worker
    record,    \* generation in the persisted worker_runtime row, or None
    call,      \* caller -> step of its supervisor call, and its worker
    ctxDone    \* callers whose context is cancelled

supVars == <<current, worker, proc, sigkill, reaper, record, call, ctxDone>>

Absent == [state |-> "unloaded", pid |-> FALSE, killed |-> FALSE,
           done |-> FALSE, cancelled |-> FALSE]
Idle   == [pc |-> "idle", w |-> None]

\* Steps of Start, of the Stop a failed start makes, and of Stop itself; "ok",
\* "err" and "killed" (ErrKilled) are results the caller has not collected.
Steps == {"idle", "ok", "err", "killed", "persist", "abort", "abortWait", "await",
          "failKill", "setKilled", "failStop", "failWait", "failReap", "setFailed",
          "mark", "markKill", "stopWait", "stopReap"}

SupTypeOK ==
    /\ current \in Workers \cup {None}
    /\ worker  \in [Workers -> [state : States, pid : BOOLEAN, killed : BOOLEAN,
                                done : BOOLEAN, cancelled : BOOLEAN]]
    /\ proc    \in [Workers -> {"none", "booting", "serving", "exited"}]
    /\ sigkill \in SUBSET Workers
    /\ reaper  \in [Workers -> {"none", "wait", "get", "delete", "notify", "gone"}]
    /\ record  \in Workers \cup {None}
    /\ call    \in [Callers -> [pc : Steps, w : Workers \cup {None}]]
    /\ ctxDone \in SUBSET Callers

SupInit ==
    /\ current = None
    /\ worker  = [w \in Workers |-> Absent]
    /\ proc    = [w \in Workers |-> "none"]
    /\ sigkill = {}
    /\ reaper  = [w \in Workers |-> "none"]
    /\ record  = None
    /\ call    = [t \in Callers |-> Idle]
    /\ ctxDone = {}

-----------------------------------------------------------------------------
(* Reading the worker map.                                                 *)

Status == IF current = None THEN "unloaded" ELSE worker[current].state
EndpointOK == Status = "ready"
ShuttingDown(state) == state \in {"draining", "stopping"}
Active(state)  == state \notin {"unloaded", "failed"}
Running(w)     == proc[w] \in {"booting", "serving"}
HasProcess     == current # None /\ proc[current] # "none"

At(t, pc)   == call[t].pc = pc
Goto(t, pc) == call' = [call EXCEPT ![t].pc = pc]

\* WaitInactive: a waiter that finds an active worker waits for the exit of
\* that worker, whatever happens to its displayed state or to the map.
WaitFor(t) == call' = [call EXCEPT ![t].w = current]
WaitedFor(t) == worker[call[t].w].done

-----------------------------------------------------------------------------
(* Draining and killing: each a single critical section.                   *)

BeginDrain ==
    worker' = IF Status = "ready" THEN [worker EXCEPT ![current].state = "draining"]
              ELSE worker

AbortDrain ==
    worker' = IF Status = "draining" /\ HasProcess /\ ~worker[current].done
              THEN [worker EXCEPT ![current].state = "ready"]
              ELSE worker

\* Faulty Kill: a kill is recorded although there is no worker.
KillAnyway ==
    /\ worker' = IF current = None THEN worker
                 ELSE [worker EXCEPT ![current].killed = TRUE, ![current].cancelled = TRUE]
    /\ sigkill' = sigkill \cup {current}

\* Kill looks the worker up by instance ID, cancels its readiness wait and
\* sends SIGKILL; the displayed state is left to the reaper.
Kill ==
    IF current = None THEN UNCHANGED <<worker, sigkill>>
    ELSE /\ worker' = [worker EXCEPT ![current].killed = TRUE,
                                     ![current].cancelled = TRUE]
         /\ sigkill' = IF HasProcess THEN sigkill \cup {current} ELSE sigkill

-----------------------------------------------------------------------------
(* StartWithAliasEnv.                                                      *)

Unused == {w \in Workers : reaper[w] = "none" /\ w # current /\
                           \A v \in Workers : reaper[v] # "none" \/ v = current => v < w}

\* A worker is already active: its runtime is returned, or an error while it
\* is shutting down.
StartActive(t) ==
    /\ At(t, "idle") /\ Active(Status)
    /\ call' = [call EXCEPT ![t] = [pc |-> IF ShuttingDown(Status) THEN "err" ELSE "ok",
                                    w  |-> current]]
    /\ UNCHANGED <<current, worker, proc, sigkill, reaper, record, ctxDone>>

\* The device validator, the port allocator or a pipe refuses.
StartRefused(t) ==
    /\ At(t, "idle") /\ ~Active(Status)
    /\ Goto(t, "err")
    /\ UNCHANGED <<current, worker, proc, sigkill, reaper, record, ctxDone>>

\* The binary cannot be executed: a failed worker without a process takes the
\* place of the old one in the map.
StartUnlaunched(t) ==
    /\ At(t, "idle") /\ ~Active(Status)
    /\ \E w \in Unused :
          /\ \A v \in Unused : w <= v
          /\ current' = w
          /\ worker'  = [worker EXCEPT ![w] = [Absent EXCEPT !.state = "failed"]]
    /\ Goto(t, "err")
    /\ UNCHANGED <<proc, sigkill, reaper, record, ctxDone>>

\* The process is started, and its reaper with it.
Spawn(t) ==
    /\ At(t, "idle") /\ ~Active(Status)
    /\ \E w \in Unused :
          /\ \A v \in Unused : w <= v
          /\ current' = w
          /\ worker'  = [worker EXCEPT ![w] = [Absent EXCEPT !.state = "loading", !.pid = TRUE]]
          /\ proc'    = [proc EXCEPT ![w] = "booting"]
          /\ reaper'  = [reaper EXCEPT ![w] = "wait"]
          /\ call'    = [call EXCEPT ![t] = [pc |-> "persist", w |-> w]]
    /\ UNCHANGED <<sigkill, record, ctxDone>>

\* persistWorker succeeds, or fails to identify the process or to write.
Persist(t) ==
    /\ At(t, "persist")
    /\ \/ record' = (IF Persistent THEN call[t].w ELSE record) /\ Goto(t, "await")
       \/ Persistent /\ UNCHANGED record /\ Goto(t, "abort")
    /\ UNCHANGED <<current, worker, proc, sigkill, reaper, ctxDone>>

\* abortStartedWorker: kill by ID, wait for this worker or two seconds, fail.
AbortKill(t) ==
    /\ At(t, "abort")
    /\ Kill
    /\ Goto(t, "abortWait")
    /\ UNCHANGED <<current, proc, reaper, record, ctxDone>>

AbortWait(t) ==
    /\ At(t, "abortWait")
    /\ Goto(t, "setFailed")
    /\ UNCHANGED <<current, worker, proc, sigkill, reaper, record, ctxDone>>

\* waitReady: the health check answers, the context ends (cancelled, or the
\* startup timeout), or the worker exits.
Cancelled(t) == t \in ctxDone \/ worker[call[t].w].cancelled

AwaitReady(t) ==
    LET w == call[t].w
    IN  /\ At(t, "await")
        /\ \/ proc[w] = "serving" /\ ~Cancelled(t) /\ Goto(t, "mark")
           \/ Cancelled(t) /\ Goto(t, "failKill")
           \/ ~Cancelled(t) /\ Goto(t, "failStop")
           \/ worker[w].done /\ Goto(t, IF worker[w].killed THEN "failKill" ELSE "failStop")
        /\ UNCHANGED <<current, worker, proc, sigkill, reaper, record, ctxDone>>

FailKill(t) ==
    /\ At(t, "failKill")
    /\ Kill
    /\ Goto(t, "setKilled")
    /\ UNCHANGED <<current, proc, reaper, record, ctxDone>>

\* setState(id, Failed): whatever worker is current by now.
SetFailed(t, from, result) ==
    /\ At(t, from)
    /\ worker' = IF current = None THEN worker
                 ELSE [worker EXCEPT ![current].state = "failed"]
    /\ Goto(t, result)
    /\ UNCHANGED <<current, proc, sigkill, reaper, record, ctxDone>>

\* Faulty readiness: any worker that was not killed becomes ready.
MarkReadyUnlessKilled(t) ==
    LET w == call[t].w
    IN  /\ At(t, "mark")
        /\ \/ /\ ~worker[w].killed
              /\ worker' = [worker EXCEPT ![w].state = "ready"]
              /\ Goto(t, "ok")
           \/ worker[w].killed /\ Goto(t, "markKill") /\ UNCHANGED worker
        /\ UNCHANGED <<current, proc, sigkill, reaper, record, ctxDone>>

\* Ready only if this worker is still the one in the map, alive and loading.
MarkReady(t) ==
    LET w == call[t].w
    IN  /\ At(t, "mark")
        /\ \/ /\ current = w /\ ~worker[w].killed
              /\ worker[w].state = "loading" /\ worker[w].pid
              /\ worker' = [worker EXCEPT ![w].state = "ready"]
              /\ Goto(t, "ok")
           \/ /\ \/ current # w \/ worker[w].killed
                 \/ worker[w].state # "loading" \/ ~worker[w].pid
              /\ Goto(t, IF worker[current].killed THEN "markKill" ELSE "err")
              /\ UNCHANGED worker
        /\ UNCHANGED <<current, proc, sigkill, reaper, record, ctxDone>>

MarkKill(t) ==
    /\ At(t, "markKill")
    /\ Kill
    /\ Goto(t, "killed")
    /\ UNCHANGED <<current, proc, reaper, record, ctxDone>>

-----------------------------------------------------------------------------
(* Stop, and the Stop a start makes when its worker does not become ready. *)

StopBegin(t, from, wait, finished) ==
    /\ At(t, from)
    /\ IF HasProcess /\ ~worker[current].done
       THEN /\ worker' = [worker EXCEPT ![current].state = "stopping"]
            /\ call' = [call EXCEPT ![t] = [pc |-> wait, w |-> current]]
       ELSE UNCHANGED worker /\ Goto(t, finished)
    /\ UNCHANGED <<current, proc, sigkill, reaper, record, ctxDone>>

StopDone(t, wait, finished) ==
    /\ At(t, wait) /\ worker[call[t].w].done
    /\ Goto(t, finished)
    /\ UNCHANGED <<current, worker, proc, sigkill, reaper, record, ctxDone>>

\* The caller's context ends: kill, and return without waiting.
StopCancelled(t) ==
    /\ At(t, "stopWait") /\ t \in ctxDone
    /\ sigkill' = sigkill \cup {call[t].w}
    /\ Goto(t, "err")
    /\ UNCHANGED <<current, worker, proc, reaper, record, ctxDone>>

\* Fifteen seconds after SIGTERM: kill, and wait for the exit without limit.
StopEscalate(t, wait, reap) ==
    /\ At(t, wait)
    /\ sigkill' = sigkill \cup {call[t].w}
    /\ Goto(t, reap)
    /\ UNCHANGED <<current, worker, proc, reaper, record, ctxDone>>

\* Every step of a Start, and of a Stop already under way.
Start(t) ==
    \/ StartActive(t) \/ StartRefused(t) \/ StartUnlaunched(t) \/ Spawn(t)
    \/ Persist(t) \/ AbortKill(t) \/ AbortWait(t) \/ AwaitReady(t) \/ FailKill(t)
    \/ StopBegin(t, "failStop", "failWait", "setFailed")
    \/ StopDone(t, "failWait", "setFailed") \/ StopDone(t, "failReap", "setFailed")
    \/ StopEscalate(t, "failWait", "failReap")
    \/ SetFailed(t, "setFailed", "err") \/ SetFailed(t, "setKilled", "killed")
    \/ MarkReady(t) \/ MarkKill(t)

StopStep(t) ==
    \/ StopDone(t, "stopWait", "ok") \/ StopDone(t, "stopReap", "ok")
    \/ StopCancelled(t)
    \/ StopEscalate(t, "stopWait", "stopReap")

-----------------------------------------------------------------------------
(* The process and its reaper.                                             *)

\* The server finishes loading and answers health checks.
Serve(w) ==
    /\ proc[w] = "booting"
    /\ proc' = [proc EXCEPT ![w] = "serving"]
    /\ UNCHANGED <<current, worker, sigkill, reaper, record, call, ctxDone>>

\* The process ends: killed, told to terminate, or on its own.
Exit(w) ==
    /\ Running(w)
    /\ proc' = [proc EXCEPT ![w] = "exited"]
    /\ UNCHANGED <<current, worker, sigkill, reaper, record, call, ctxDone>>

\* Faulty reaper: the exit of a process that was killed is not signalled.
ReapQuietly(w) ==
    /\ reaper[w] = "wait" /\ proc[w] = "exited"
    /\ \/ /\ current # w \/ w \in sigkill
          /\ reaper' = [reaper EXCEPT ![w] = "gone"]
          /\ UNCHANGED worker
       \/ /\ current = w /\ w \notin sigkill
          /\ worker' = [worker EXCEPT
                          ![w].state = IF @ = "stopping" THEN "unloaded" ELSE "failed",
                          ![w].pid = FALSE, ![w].done = TRUE]
          /\ reaper' = [reaper EXCEPT ![w] = IF Persistent THEN "get" ELSE "notify"]
    /\ UNCHANGED <<current, proc, sigkill, record, call, ctxDone>>

\* wait(w): a worker that was replaced in the map is dropped silently, its
\* done channel never closed.
Reap(w) ==
    /\ reaper[w] = "wait" /\ proc[w] = "exited"
    /\ \/ /\ current # w
          /\ reaper' = [reaper EXCEPT ![w] = "gone"]
          /\ UNCHANGED worker
       \/ /\ current = w
          /\ worker' = [worker EXCEPT
                          ![w].state = IF @ = "stopping" THEN "unloaded" ELSE "failed",
                          ![w].pid = FALSE, ![w].done = TRUE]
          /\ reaper' = [reaper EXCEPT ![w] = IF Persistent THEN "get" ELSE "notify"]
    /\ UNCHANGED <<current, proc, sigkill, record, call, ctxDone>>

\* clearRuntimeRecord: read the row, and delete it if it names this
\* generation; the delete itself is by instance ID.
ClearGet(w) ==
    /\ reaper[w] = "get"
    /\ reaper' = [reaper EXCEPT ![w] = IF record = w THEN "delete" ELSE "notify"]
    /\ UNCHANGED <<current, worker, proc, sigkill, record, call, ctxDone>>

ClearDelete(w) ==
    /\ reaper[w] = "delete"
    /\ record' = None
    /\ reaper' = [reaper EXCEPT ![w] = "notify"]
    /\ UNCHANGED <<current, worker, proc, sigkill, call, ctxDone>>

\* The exit handler runs last, outside the lock (see Lifecycle).
Notified(w) ==
    /\ reaper[w] = "notify"
    /\ reaper' = [reaper EXCEPT ![w] = "gone"]

ProcessStep(w) == Serve(w) \/ Exit(w) \/ Reap(w) \/ ClearGet(w) \/ ClearDelete(w)

-----------------------------------------------------------------------------
(* The supervisor alone, under callers that start, stop and kill as they   *)
(* please.  The lifecycle service composes these operations in Lifecycle.  *)

Stop(t)  == StopBegin(t, "idle", "stopWait", "ok")

Return(t) ==
    /\ call[t].pc \in {"ok", "err", "killed"}
    /\ call' = [call EXCEPT ![t] = Idle]
    /\ ctxDone' = ctxDone \ {t}
    /\ UNCHANGED <<current, worker, proc, sigkill, reaper, record>>

Cancel(t) ==
    /\ ~At(t, "idle") /\ t \notin ctxDone
    /\ ctxDone' = ctxDone \cup {t}
    /\ UNCHANGED <<current, worker, proc, sigkill, reaper, record, call>>

DrainOrKill ==
    /\ \/ BeginDrain /\ UNCHANGED sigkill
       \/ AbortDrain /\ UNCHANGED sigkill
       \/ Kill
    /\ UNCHANGED <<current, proc, reaper, record, call, ctxDone>>

Notify(w) == Notified(w) /\ UNCHANGED <<current, worker, proc, sigkill, record, call, ctxDone>>

Next ==
    \/ \E t \in Callers : \/ Start(t)
                          \/ Stop(t) \/ StopStep(t)
                          \/ Return(t) \/ Cancel(t)
    \/ \E w \in Workers : ProcessStep(w) \/ Notify(w)
    \/ DrainOrKill

Spec == SupInit /\ [][Next]_supVars

-----------------------------------------------------------------------------
(* Properties of the supervisor under any callers.                         *)

\* An exit is never hidden: a worker is displayed as loading, ready, draining
\* or stopping only while its exit has not been reaped, so no caller that
\* reads the map, then locks again, can bring a reaped worker back to life.
ExitsShow ==
    \A w \in Workers : worker[w].done => ~Active(worker[w].state) /\ ~worker[w].pid

\* A worker that gave way to another in the map stays out of service: it
\* never serves, although its process may still be running.
ReplacedNeverReady ==
    [][\A w \in Workers :
         w # current /\ reaper[w] # "none" => ~(worker'[w].state = "ready" /\ worker[w].state # "ready")]_supVars

\* The persisted row is never taken away from a worker in the map whose exit
\* has not been reaped, or a crash of the manager could not trace it.
RecordKept ==
    [][\A w \in Workers :
         record = w /\ record' = None => worker[w].done]_supVars
=============================================================================
