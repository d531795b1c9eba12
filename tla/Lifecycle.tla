------------------------------ MODULE Lifecycle ------------------------------
(***************************************************************************)
(* The lifecycle service (backend/internal/lifecycle) over the supervisor, *)
(* for one instance: inference requests that load it on demand, the user's *)
(* start, stop, restart and kill, the idle and always-on reconcilers, the  *)
(* eviction of this instance in favour of another, and its lease.          *)
(*                                                                         *)
(* A thread is a goroutine inside one call; "at" is its place in the       *)
(* service and "call" its place in the supervisor.  A step is what happens *)
(* between two points where another goroutine can interfere in a way that  *)
(* matters: consecutive reads, or reads and writes that commute with the   *)
(* steps of others, are one step.                                          *)
(***************************************************************************)
EXTENDS Supervisor, FiniteSets

CONSTANTS
    Clients,      \* inference requests
    Operators,    \* user operations on the instance
    Ops,          \* which operations the users ask for
    Tasks,        \* which of the manager's own tasks run
    Cancellable,  \* whose context may end during a stop, restart or kill
    AlwaysOn,     \* the always_on setting
    MaxPending,   \* max_pending_requests, 0 for no limit
    Managed,      \* are hardware snapshots available (leases taken)?
    LeaseExpires  \* may the reservation TTL pass during a start?

Load   == "load"    \* the goroutine runLoad; at most one is under way
Nobody == "nobody"  \* no thread

\* Goroutines of reconcileResourceBlocked: every pass starts another.
Unblockers == {"unblocker", "unblocker2"}

ASSUME LifecycleAssumption ==
    /\ IsFiniteSet(Clients)
    /\ Ops \subseteq {"start", "stop", "restart", "kill"}
    /\ Tasks \subseteq {"idler", "evictor", "keeper"} \cup Unblockers
    /\ Cancellable \subseteq Operators \cup (Tasks \cap {"evictor"})
    /\ Callers = Clients \cup Operators \cup Tasks \cup {Load} /\ Nobody \notin Callers
    /\ Clients \cap Operators = {}
    /\ (Clients \cup Operators) \cap (Tasks \cup {Load}) = {}
    /\ AlwaysOn \in BOOLEAN /\ Managed \in BOOLEAN /\ LeaseExpires \in BOOLEAN
    /\ MaxPending \in Nat

VARIABLES
    at,        \* thread -> its place in the service
    drain,     \* drainWaits[id] # nil
    gate,      \* the thread in operationGates[id]
    startup,   \* the thread whose startup generation is live and cancellable
    loading,   \* loads[id] # nil
    manual,    \* manuallyStopped[id]
    blocked,   \* resourceBlocked[id]
    backoff,   \* now < startFailures[id].RetryAfter
    demand,    \* activities[id]: pending and active requests
    lease,     \* the instance's lease in the ledger: its ID and state
    tracked    \* committedWorkers[id]: a worker's PID and its lease's ID

flags    == <<manual, blocked, backoff>>
books    == <<lease, tracked>>
control  == <<drain, gate, startup, loading>>
procVars == <<current, proc, reaper, record>>
lifeVars == <<at, control, flags, demand, books>>
vars     == <<supVars, lifeVars>>

NoLease == [id |-> 0, state |-> "none"]
Untracked == [w |-> None, lease |-> 0]

LifeInit ==
    /\ SupInit
    /\ at = [t \in Callers |-> "idle"]
    /\ drain = FALSE /\ gate = Nobody /\ startup = Nobody /\ loading = FALSE
    /\ manual = FALSE /\ blocked = FALSE /\ backoff = FALSE
    /\ demand = [pending |-> 0, active |-> 0]
    /\ lease = NoLease /\ tracked = Untracked

In(t, pc)    == at[t] = pc
Move(t, pc)  == at' = [at EXCEPT ![t] = pc]
Live(t)      == startup = t
Demand       == demand.pending + demand.active

-----------------------------------------------------------------------------
(* Shared pieces of the operations: conditions on some primed variables.   *)

\* claimDrainLocked, under the idle lock.
ClaimDrain ==
    IF drain THEN UNCHANGED <<drain, worker>>
    ELSE BeginDrain /\ drain' = (Status = "ready" \/ ShuttingDown(Status))

\* abortDrainClaim: the worker serves again, and whoever waits is let in.
AbortClaim == AbortDrain /\ drain' = FALSE

\* cancelStartup and beginStartup: the startup under way is cancelled.
Interrupted == IF startup = Nobody THEN {} ELSE {startup}
CancelStartup   == startup' = Nobody /\ ctxDone' = ctxDone \cup Interrupted
BeginStartup(t) == startup' = t /\ ctxDone' = (ctxDone \cup Interrupted) \ {t}

\* finishStartup, unless the start lost its generation.
FinishStartup(t) == startup' = IF Live(t) THEN Nobody ELSE startup

\* What a genuine failure, a user's start and a ready worker do to the delay.
RecordFailure    == backoff' = TRUE
OverrideBackoff  == backoff' = FALSE
ResetFailures    == backoff' = FALSE

ReleaseReservation == lease' = NoLease

\* AcquireRuntime grants: a pending lease under an ID of its own.
NewLease == lease' = [id |-> CHOOSE n \in 1..3 : n \notin {lease.id, tracked.lease},
                      state |-> "pending"]

\* Faulty handleWorkerExit: any exit releases whatever lease the instance has.
WorkerExitedAnyLease(w) == tracked' = Untracked /\ lease' = NoLease

\* Faulty handleWorkerExit: the lease of the exited worker is kept.
WorkerExitedUntracked(w) ==
    tracked' = (IF tracked.w = w THEN Untracked ELSE tracked) /\ UNCHANGED lease

\* handleWorkerExit, for the worker w.
WorkerExited(w) ==
    IF tracked.w = w
    THEN /\ tracked' = Untracked
         /\ lease' = IF lease.id = tracked.lease THEN NoLease ELSE lease
    ELSE UNCHANGED books

\* The first caller of startSingleFlight creates the load and its goroutine.
Join(t, pc) ==
    /\ loading' = TRUE
    /\ at' = [at EXCEPT ![t] = pc, ![Load] = IF loading THEN @ ELSE "arrive"]

\* completeLoad: everyone waiting for the load gets its result.
CompleteLoad(ok) ==
    /\ loading' = FALSE
    /\ at' = [t \in Callers |->
                CASE t = Load                      -> "idle"
                  [] t # Load /\ at[t] = "joined"   -> IF ok THEN "granted" ELSE "fail"
                  [] t # Load /\ at[t] = "killLoad" -> "killDown"
                  [] OTHER                         -> at[t]]

Reset(t) == call' = [call EXCEPT ![t] = Idle]

-----------------------------------------------------------------------------
(* An inference request: Acquire and the release function it returns.      *)

ReservePending(c) ==
    /\ In(c, "idle")
    /\ IF MaxPending > 0 /\ demand.pending >= MaxPending
       THEN Move(c, "done") /\ UNCHANGED demand
       ELSE Move(c, "admit") /\ demand' = [demand EXCEPT !.pending = @ + 1]
    /\ UNCHANGED <<supVars, control, flags, books>>

\* admitRequest waits out a drain, and then a worker that is shutting down,
\* and looks again; afterwards the request is protected by its count.
Admit(c) ==
    /\ In(c, "admit") /\ ~drain
    /\ IF ShuttingDown(Status) THEN Move(c, "admitWait") /\ WaitFor(c)
                               ELSE Move(c, "arrive") /\ UNCHANGED call
    /\ UNCHANGED <<procVars, worker, sigkill, ctxDone, control, flags, demand, books>>

Readmit(c) ==
    /\ In(c, "admitWait") /\ WaitedFor(c)
    /\ Move(c, "admit") /\ Reset(c)
    /\ UNCHANGED <<procVars, worker, sigkill, ctxDone, control, flags, demand, books>>

\* waitDrain, which requests, loads and starts all pass.
WaitDrain(t) ==
    /\ \/ /\ In(t, "arrive") /\ ~drain
          /\ IF ShuttingDown(Status) THEN Move(t, "settle") /\ WaitFor(t)
                                     ELSE Move(t, "resolve") /\ UNCHANGED call
       \/ /\ In(t, "settle") /\ WaitedFor(t)
          /\ Move(t, "resolve") /\ Reset(t)
    /\ UNCHANGED <<procVars, worker, sigkill, ctxDone, control, flags, demand, books>>

\* ensureReadyInstance: a ready endpoint, a refusal, or a load to wait for.
Resolve(c) ==
    /\ In(c, "resolve")
    /\ \/ /\ EndpointOK /\ Move(c, "granted")
          /\ UNCHANGED <<loading, manual, blocked>>
       \/ /\ ~EndpointOK /\ backoff /\ Move(c, "fail")
          /\ UNCHANGED <<loading, manual, blocked>>
       \/ /\ ~EndpointOK /\ ~backoff /\ Join(c, "joined")
          /\ manual' = FALSE /\ blocked' = FALSE
    /\ UNCHANGED <<supVars, drain, gate, startup, backoff, demand, books>>

\* The request's context ends at one of its waits.
GiveUp(c) ==
    /\ at[c] \in {"admit", "admitWait", "arrive", "settle", "joined"}
    /\ Move(c, "fail") /\ Reset(c)
    /\ UNCHANGED <<procVars, worker, sigkill, ctxDone, control, flags, demand, books>>

\* The counts saturate at zero.
Less(n) == IF n > 0 THEN n - 1 ELSE n

ReleasePending(c) ==
    /\ In(c, "fail") /\ Move(c, "done")
    /\ demand' = [demand EXCEPT !.pending = Less(@)]
    /\ UNCHANGED <<supVars, control, flags, books>>

\* Faulty activation: the request stays counted as pending.
ActivateOnly(c) ==
    /\ In(c, "granted") /\ Move(c, "active")
    /\ demand' = [demand EXCEPT !.active = @ + 1]
    /\ UNCHANGED <<supVars, control, flags, books>>

Activate(c) ==
    /\ In(c, "granted") /\ Move(c, "active")
    /\ demand' = [pending |-> Less(demand.pending), active |-> demand.active + 1]
    /\ UNCHANGED <<supVars, control, flags, books>>

\* Faulty release: it may run twice, and its count does not saturate.
FinishTwice(c) ==
    /\ at[c] \in {"active", "done"} /\ Move(c, "done")
    /\ demand' = [demand EXCEPT !.active = @ - 1]
    /\ UNCHANGED <<supVars, control, flags, books>>

FinishActive(c) ==
    /\ In(c, "active") /\ Move(c, "done")
    /\ demand' = [demand EXCEPT !.active = Less(@)]
    /\ UNCHANGED <<supVars, control, flags, books>>

Request(c) == ReservePending(c)
Serving(c) ==
    \/ Admit(c) \/ Readmit(c) \/ WaitDrain(c) \/ Resolve(c)
    \/ ReleasePending(c) \/ Activate(c) \/ FinishActive(c)

-----------------------------------------------------------------------------
(* startOneWithEviction, run by a load, a restart or the unblocker.        *)

\* The plan is made and a lease granted, perhaps (once, here) after evicting
\* another and granting again; or nothing fits; or the configuration is at
\* fault.
Plan(t) ==
    /\ at[t] \in {"plan", "replan"}
    /\ \/ t \in ctxDone /\ Move(t, "failKilled") /\ UNCHANGED lease
       \/ Managed /\ NewLease /\ Move(t, "launch")
       \/ Managed /\ t \notin Unblockers /\ In(t, "plan") /\ NewLease /\ Move(t, "replan")
       \/ Managed /\ lease' = NoLease /\ Move(t, "failPressure")
       \/ ~Managed /\ UNCHANGED lease /\ Move(t, "launch")
       \/ UNCHANGED lease /\ Move(t, "failError")
    /\ UNCHANGED <<supVars, control, flags, demand, tracked>>

Launch(t) ==
    /\ In(t, "launch")
    /\ Move(t, IF t \in ctxDone THEN "failKilled" ELSE "start")
    /\ UNCHANGED <<supVars, control, flags, demand, books>>

\* The supervisor's steps, and its answer; call[t].w keeps the worker.
StartWorker(t) == In(t, "start") /\ Start(t) /\ UNCHANGED lifeVars

StartReturned(t) ==
    /\ In(t, "start") /\ call[t].pc \in {"ok", "err", "killed"}
    /\ Move(t, CASE At(t, "ok") -> "check" [] At(t, "err") -> "failError"
                 [] At(t, "killed") -> "failKilled")
    /\ Goto(t, "idle")
    /\ UNCHANGED <<procVars, worker, sigkill, ctxDone, control, flags, demand, books>>

\* A start that was cancelled meanwhile kills what it started.
CheckLive(t) ==
    /\ In(t, "check")
    /\ IF t \in ctxDone \/ ~Live(t) THEN Kill /\ Move(t, "failKilled")
       ELSE UNCHANGED <<worker, sigkill>> /\ Move(t, "endpoint")
    /\ UNCHANGED <<procVars, call, ctxDone, control, flags, demand, books>>

CheckEndpoint(t) ==
    /\ In(t, "endpoint")
    /\ Move(t, IF EndpointOK THEN "commit" ELSE "failError")
    /\ UNCHANGED <<supVars, control, flags, demand, books>>

\* CommitInstance commits whatever lease the instance holds, if any.
Commit(t) ==
    /\ In(t, "commit")
    /\ IF lease.state = "committed" THEN Move(t, "failError") /\ UNCHANGED lease
       ELSE /\ Move(t, "track")
            /\ lease' = IF lease = NoLease THEN NoLease
                        ELSE [lease EXCEPT !.state = "committed"]
    /\ UNCHANGED <<supVars, control, flags, demand, tracked>>

Track(t) ==
    /\ In(t, "track")
    /\ IF lease = NoLease THEN Move(t, "succeed") /\ UNCHANGED tracked
       ELSE Move(t, "verify") /\ tracked' = [w |-> call[t].w, lease |-> lease.id]
    /\ UNCHANGED <<supVars, control, flags, demand, lease>>

\* An exit before the worker was tracked is made up for here.
Verify(t) ==
    /\ In(t, "verify") /\ Move(t, "succeed")
    /\ IF EndpointOK /\ current = call[t].w THEN UNCHANGED books
       ELSE WorkerExited(call[t].w)
    /\ UNCHANGED <<supVars, control, flags, demand>>

\* The deferred end: a failure releases the instance's lease and counts
\* against it, unless the start was interrupted or nothing fitted.
Succeed(t) ==
    /\ In(t, "succeed") /\ Move(t, "started")
    /\ ResetFailures
    /\ UNCHANGED <<supVars, control, manual, blocked, demand, books>>

Fail(t) ==
    /\ at[t] \in {"failKilled", "failPressure", "failError"}
    /\ Move(t, IF In(t, "failPressure") THEN "pressed" ELSE "failed")
    /\ ReleaseReservation
    /\ IF In(t, "failError") THEN RecordFailure ELSE UNCHANGED backoff
    /\ UNCHANGED <<supVars, control, manual, blocked, demand, tracked>>

StartOne(t) ==
    \/ Plan(t) \/ Launch(t) \/ StartWorker(t) \/ StartReturned(t) \/ CheckLive(t)
    \/ CheckEndpoint(t) \/ Commit(t) \/ Track(t) \/ Verify(t) \/ Succeed(t) \/ Fail(t)

Ended(t) == at[t] \in {"started", "failed", "pressed"}

-----------------------------------------------------------------------------
(* runLoad.                                                                *)

\* Faulty load: a stop that came after the load was asked for is not seen.
LoadBeginUnchecked ==
    /\ In(Load, "resolve") /\ gate = Nobody
    /\ \/ /\ backoff \/ EndpointOK
          /\ CompleteLoad(~backoff) /\ UNCHANGED <<startup, ctxDone>>
       \/ /\ ~backoff /\ ~EndpointOK
          /\ BeginStartup(Load) /\ Move(Load, "plan") /\ UNCHANGED loading
    /\ UNCHANGED <<procVars, worker, sigkill, call, drain, gate, flags, demand, books>>

\* The gate is taken, the last checks made, and the gate given up again.
LoadBegin ==
    /\ In(Load, "resolve") /\ gate = Nobody
    /\ \/ /\ backoff \/ manual
          /\ CompleteLoad(FALSE) /\ UNCHANGED <<startup, ctxDone>>
       \/ /\ ~backoff /\ ~manual /\ EndpointOK
          /\ CompleteLoad(TRUE) /\ UNCHANGED <<startup, ctxDone>>
       \/ /\ ~backoff /\ ~manual /\ ~EndpointOK
          /\ BeginStartup(Load) /\ Move(Load, "plan") /\ UNCHANGED loading
    /\ UNCHANGED <<procVars, worker, sigkill, call, drain, gate, flags, demand, books>>

LoadEnd ==
    /\ Ended(Load) /\ Live(Load)
    /\ FinishStartup(Load)
    /\ CompleteLoad(In(Load, "started"))
    /\ Reset(Load) /\ ctxDone' = ctxDone \ {Load}
    /\ UNCHANGED <<procVars, worker, sigkill, drain, gate, flags, demand, books>>

\* A load that lost its generation kills a ready worker by instance ID.
LoadStale ==
    /\ Ended(Load) /\ ~Live(Load)
    /\ Reset(Load) /\ ctxDone' = ctxDone \ {Load}
    /\ IF EndpointOK THEN Move(Load, "stray") /\ UNCHANGED loading ELSE CompleteLoad(FALSE)
    /\ UNCHANGED <<procVars, worker, sigkill, drain, gate, startup, flags, demand, books>>

LoadStray ==
    /\ In(Load, "stray")
    /\ Kill /\ CompleteLoad(FALSE)
    /\ UNCHANGED <<procVars, call, ctxDone, drain, gate, startup, flags, demand, books>>

RunLoad == WaitDrain(Load) \/ LoadBegin \/ StartOne(Load) \/ LoadEnd \/ LoadStale \/ LoadStray

-----------------------------------------------------------------------------
(* The user's operations.                                                  *)

AskStart(o) ==
    /\ "start" \in Ops /\ In(o, "idle") /\ Move(o, "arrive")
    /\ manual' = FALSE /\ blocked' = FALSE /\ OverrideBackoff
    /\ UNCHANGED <<supVars, control, demand, books>>

\* The starter then waits for the load, which changes nothing.
StartResolve(t) ==
    /\ In(t, "resolve")
    /\ IF EndpointOK THEN Move(t, "done") /\ UNCHANGED loading ELSE Join(t, "done")
    /\ UNCHANGED <<supVars, drain, gate, startup, flags, demand, books>>

AskStop(o) ==
    /\ "stop" \in Ops /\ In(o, "idle") /\ Move(o, "stopGate")
    /\ ClaimDrain
    /\ manual' = (manual \/ AlwaysOn) /\ blocked' = (blocked /\ ~AlwaysOn)
    /\ UNCHANGED <<procVars, sigkill, call, ctxDone, gate, startup, loading, backoff,
                   demand, books>>

AskOther(o) ==
    /\ In(o, "idle")
    /\ \/ "restart" \in Ops /\ Move(o, "restartGate")
       \/ "kill" \in Ops /\ Move(o, "killGate")
    /\ ClaimDrain
    /\ UNCHANGED <<procVars, sigkill, call, ctxDone, gate, startup, loading, flags,
                   demand, books>>

Gates == {"stopGate", "restartGate", "killGate"}

\* The caller's context ends: a user disconnects, or the start an eviction
\* works for is cancelled.
CancelContext(t) ==
    /\ at[t] \in Gates \cup {"stop", "restart", "killLoad", "killSettle"}
    /\ t \notin ctxDone /\ ctxDone' = ctxDone \cup {t}
    /\ UNCHANGED <<procVars, worker, sigkill, call, lifeVars>>

\* What an operation that failed takes back of its flags.
Undo(t, pc) ==
    /\ manual'  = (manual /\ ~(AlwaysOn /\ t # "evictor" /\ pc \in {"stopGate", "stop"}))
    /\ blocked' = (blocked /\ ~(AlwaysOn /\ t = "evictor"))

\* Faulty refusal: the drain that was claimed is not taken back.
GateDeniedSilently(t) ==
    /\ at[t] \in Gates /\ t \in ctxDone
    /\ Undo(t, at[t]) /\ Move(t, "done")
    /\ UNCHANGED <<procVars, worker, sigkill, call, ctxDone, drain, gate, startup, loading,
                   backoff, demand, books>>

GateDenied(t) ==
    /\ at[t] \in Gates /\ t \in ctxDone
    /\ AbortClaim /\ Undo(t, at[t]) /\ Move(t, "done")
    /\ UNCHANGED <<procVars, sigkill, call, ctxDone, gate, startup, loading, backoff,
                   demand, books>>

StopGate(t) ==
    /\ In(t, "stopGate") /\ gate = Nobody /\ gate' = t
    /\ CancelStartup /\ Move(t, "stop")
    /\ UNCHANGED <<procVars, worker, sigkill, call, drain, loading, flags, demand, books>>

RestartGate(o) ==
    /\ In(o, "restartGate") /\ gate = Nobody /\ gate' = o
    /\ CancelStartup /\ Move(o, "restart")
    /\ manual' = FALSE /\ blocked' = FALSE /\ OverrideBackoff
    /\ UNCHANGED <<procVars, worker, sigkill, call, drain, loading, demand, books>>

KillGate(o) ==
    /\ In(o, "killGate") /\ gate = Nobody /\ gate' = o
    /\ CancelStartup /\ Move(o, "kill")
    /\ manual' = TRUE /\ blocked' = FALSE
    /\ UNCHANGED <<procVars, worker, sigkill, call, drain, loading, backoff, demand, books>>

StopWorker(t) ==
    /\ at[t] \in {"stop", "restart"}
    /\ StopBegin(t, "idle", "stopWait", "ok") \/ StopStep(t)
    /\ UNCHANGED lifeVars

\* Faulty end of a stop: neither the drain nor the gate is given up.
StoppedHolding(t) ==
    /\ In(t, "stop") /\ At(t, "ok")
    /\ lease' = NoLease
    /\ Move(t, "done") /\ Reset(t)
    /\ UNCHANGED <<procVars, worker, sigkill, ctxDone, drain, gate, startup, loading, flags,
                   demand, tracked>>

\* The worker has exited: the lease goes, and those who waited come in.
Stopped(t) ==
    /\ In(t, "stop") /\ At(t, "ok")
    /\ ReleaseReservation /\ drain' = FALSE /\ gate' = Nobody
    /\ Move(t, "done") /\ Reset(t)
    /\ UNCHANGED <<procVars, worker, sigkill, ctxDone, startup, loading, flags, demand, tracked>>

StopFailed(t) ==
    /\ at[t] \in {"stop", "restart"} /\ At(t, "err")
    /\ AbortClaim /\ Undo(t, at[t]) /\ gate' = Nobody
    /\ Move(t, "done") /\ Reset(t)
    /\ UNCHANGED <<procVars, sigkill, ctxDone, startup, loading, backoff, demand, books>>

Restarting(o) ==
    /\ In(o, "restart") /\ At(o, "ok")
    /\ ReleaseReservation /\ drain' = FALSE /\ gate' = Nobody
    /\ BeginStartup(o) /\ Move(o, "plan") /\ Reset(o)
    /\ UNCHANGED <<procVars, worker, sigkill, loading, flags, demand, tracked>>

RestartEnd(o) ==
    /\ Ended(o) /\ Reset(o)
    /\ FinishStartup(o)
    /\ Move(o, IF ~Live(o) /\ EndpointOK THEN "stray" ELSE "done")
    /\ UNCHANGED <<procVars, worker, sigkill, ctxDone, drain, gate, loading, flags, demand, books>>

RestartStray(o) ==
    /\ In(o, "stray") /\ Kill /\ Move(o, "done")
    /\ UNCHANGED <<procVars, call, ctxDone, control, flags, demand, books>>

KillWorker(o) ==
    /\ In(o, "kill")
    /\ Kill /\ gate' = Nobody /\ Move(o, "killed")
    /\ UNCHANGED <<procVars, call, ctxDone, drain, startup, loading, flags, demand, books>>

\* waitLoad and WaitInactive end early, unnoticed, with the caller's context.
KillWait(o) ==
    /\ \/ In(o, "killed") /\ Move(o, IF loading THEN "killLoad" ELSE "killDown") /\ UNCHANGED call
       \/ In(o, "killLoad") /\ o \in ctxDone /\ Move(o, "killDown") /\ UNCHANGED call
       \/ /\ In(o, "killDown")
          /\ IF current # None /\ Active(Status) THEN Move(o, "killSettle") /\ WaitFor(o)
                                                 ELSE Move(o, "killEnd") /\ UNCHANGED call
       \/ /\ In(o, "killSettle") /\ (WaitedFor(o) \/ o \in ctxDone)
          /\ Move(o, "killEnd") /\ Reset(o)
    /\ UNCHANGED <<procVars, worker, sigkill, ctxDone, control, flags, demand, books>>

KillEnd(o) ==
    /\ In(o, "killEnd") /\ Move(o, "done")
    /\ ReleaseReservation /\ drain' = FALSE
    /\ UNCHANGED <<supVars, gate, startup, loading, flags, demand, tracked>>

Stopping(t) == StopGate(t) \/ StopWorker(t) \/ Stopped(t) \/ StopFailed(t) \/ GateDenied(t)

Ask(o) == AskStart(o) \/ AskStop(o) \/ AskOther(o)
Operate(o) ==
    \/ WaitDrain(o) \/ StartResolve(o)
    \/ Stopping(o)
    \/ RestartGate(o) \/ Restarting(o) \/ StartOne(o) \/ RestartEnd(o) \/ RestartStray(o)
    \/ KillGate(o) \/ KillWorker(o) \/ KillWait(o) \/ KillEnd(o)

-----------------------------------------------------------------------------
(* The manager's own tasks.                                                *)

\* ReconcileIdle: the claim, under the idle lock, and then StopInstance.
IdleClaim ==
    /\ In("idler", "idle") /\ ~AlwaysOn
    /\ Demand = 0 /\ EndpointOK
    /\ ClaimDrain /\ Move("idler", "idleStop")
    /\ UNCHANGED <<procVars, sigkill, call, ctxDone, gate, startup, loading, flags,
                   demand, books>>

IdleStop ==
    /\ In("idler", "idleStop") /\ ClaimDrain /\ Move("idler", "stopGate")
    /\ UNCHANGED <<procVars, sigkill, call, ctxDone, gate, startup, loading, flags,
                   demand, books>>

\* Faulty eviction: requests under way are not looked at.
EvictClaimBusy ==
    /\ In("evictor", "idle") /\ EndpointOK
    /\ BeginDrain /\ drain' = TRUE /\ Move("evictor", "evictMark")
    /\ UNCHANGED <<procVars, sigkill, call, ctxDone, gate, startup, loading, flags,
                   demand, books>>

\* claimEviction and evictInstance, for the start of another instance.
EvictClaim ==
    /\ In("evictor", "idle")
    /\ Demand = 0 /\ EndpointOK
    /\ BeginDrain /\ drain' = TRUE /\ Move("evictor", "evictMark")
    /\ UNCHANGED <<procVars, sigkill, call, ctxDone, gate, startup, loading, flags,
                   demand, books>>

EvictMark ==
    /\ In("evictor", "evictMark") /\ Move("evictor", "stopGate")
    /\ blocked' = (blocked \/ AlwaysOn)
    /\ UNCHANGED <<supVars, control, manual, backoff, demand, books>>

\* ReconcileAlwaysOn: one pass over this instance, and the goroutine it
\* leaves behind, startInstance or reconcileResourceBlocked.
KeeperPass ==
    /\ In("keeper", "idle") /\ AlwaysOn /\ ~manual /\ ~backoff
    /\ \/ EndpointOK /\ blocked' = FALSE /\ UNCHANGED at
       \/ /\ ~EndpointOK /\ blocked /\ UNCHANGED blocked
          /\ \E u \in Unblockers \cap Tasks : In(u, "idle") /\ Move(u, "unblock")
       \/ ~EndpointOK /\ ~blocked /\ Move("keeper", "keep") /\ UNCHANGED blocked
    /\ UNCHANGED <<supVars, control, manual, backoff, demand, books>>

Keep ==
    /\ In("keeper", "keep")
    /\ Move("keeper", IF manual \/ backoff THEN "idle" ELSE "arrive")
    /\ UNCHANGED <<supVars, control, flags, demand, books>>

KeepResolve ==
    /\ In("keeper", "resolve")
    /\ IF EndpointOK THEN Move("keeper", "idle") /\ UNCHANGED loading ELSE Join("keeper", "idle")
    /\ UNCHANGED <<supVars, drain, gate, startup, flags, demand, books>>

UnblockBegin(u) ==
    /\ In(u, "unblock") /\ gate = Nobody
    /\ \/ /\ ~blocked \/ manual
          /\ Move(u, "idle") /\ UNCHANGED <<startup, ctxDone, blocked>>
       \/ /\ blocked /\ ~manual /\ EndpointOK
          /\ blocked' = FALSE
          /\ Move(u, "idle") /\ UNCHANGED <<startup, ctxDone>>
       \/ /\ blocked /\ ~manual /\ ~EndpointOK
          /\ BeginStartup(u) /\ Move(u, "plan") /\ UNCHANGED blocked
    /\ UNCHANGED <<procVars, worker, sigkill, call, drain, gate, loading, manual, backoff,
                   demand, books>>

UnblockEnd(u) ==
    /\ Ended(u) /\ Move(u, "idle") /\ Reset(u)
    /\ ctxDone' = ctxDone \ {u}
    /\ FinishStartup(u)
    /\ blocked' = (blocked /\ (~Live(u) \/ In(u, "pressed")))
    /\ UNCHANGED <<procVars, worker, sigkill, drain, gate, loading, manual, backoff,
                   demand, books>>

Attend(t) ==
    \/ t = "idler"       /\ (IdleStop \/ Stopping(t))
    \/ t = "evictor"     /\ (EvictMark \/ Stopping(t))
    \/ t = "keeper"      /\ (KeeperPass \/ Keep \/ WaitDrain(t) \/ KeepResolve)
    \/ t \in Unblockers /\ (UnblockBegin(t) \/ StartOne(t) \/ UnblockEnd(t))

-----------------------------------------------------------------------------

NotifyExit(w) ==
    /\ Notified(w) /\ WorkerExited(w)
    /\ UNCHANGED <<current, worker, proc, sigkill, record, call, ctxDone, at, control,
                   flags, demand>>

Process(w) == ProcessStep(w) /\ UNCHANGED lifeVars

\* The start failure's delay passes; the lease of a start that takes too long
\* is swept.
BackoffEnds ==
    /\ backoff /\ backoff' = FALSE
    /\ UNCHANGED <<supVars, at, control, manual, blocked, demand, books>>

LeaseSwept ==
    /\ LeaseExpires /\ lease.state = "pending" /\ lease' = NoLease
    /\ UNCHANGED <<supVars, at, control, flags, demand, tracked>>

LifeNext ==
    \/ \E c \in Clients   : Request(c) \/ Serving(c) \/ GiveUp(c)
    \/ \E o \in Operators : Ask(o) \/ Operate(o)
    \/ \E t \in Cancellable : CancelContext(t)
    \/ \E t \in Tasks     : Attend(t)
    \/ "idler" \in Tasks /\ IdleClaim
    \/ "evictor" \in Tasks /\ EvictClaim
    \/ RunLoad
    \/ \E w \in Workers   : Process(w) \/ NotifyExit(w)
    \/ BackoffEnds \/ LeaseSwept

LifeSpec == LifeInit /\ [][LifeNext]_vars

\* Goroutines run, killed processes die and exits are reaped; nothing is
\* assumed of users, of contexts, of a server becoming ready or crashing.
KilledExits(w) == w \in sigkill /\ Exit(w) /\ UNCHANGED lifeVars
Reaping(w)     == (Reap(w) \/ ClearGet(w) \/ ClearDelete(w)) /\ UNCHANGED lifeVars

Fairness ==
    /\ \A c \in Clients   : WF_vars(Serving(c))
    /\ \A o \in Operators : WF_vars(Operate(o))
    /\ \A t \in Tasks     : WF_vars(Attend(t))
    /\ WF_vars(RunLoad)
    /\ \A w \in Workers   : WF_vars(KilledExits(w)) /\ WF_vars(Reaping(w)) /\ WF_vars(NotifyExit(w))

FairSpec == LifeSpec /\ Fairness

-----------------------------------------------------------------------------
(* Properties.                                                             *)

Starting == {"plan", "replan", "launch", "start", "check", "endpoint", "commit", "track",
             "verify", "succeed", "failKilled", "failPressure", "failError",
             "started", "failed", "pressed", "stray"}
Places == {"idle", "admit", "admitWait", "arrive", "settle", "resolve", "joined", "granted",
           "active", "fail", "done"} \cup Starting \cup Gates \cup
          {"stop", "restart", "kill", "killed", "killLoad", "killDown", "killSettle",
           "killEnd", "idleStop", "evictMark", "keep", "unblock"}

\* The variables keep their types.
LifeTypeOK ==
    /\ SupTypeOK
    /\ at \in [Callers -> Places]
    /\ drain \in BOOLEAN /\ loading \in BOOLEAN
    /\ gate \in Callers \cup {Nobody} /\ startup \in Callers \cup {Nobody}
    /\ manual \in BOOLEAN /\ blocked \in BOOLEAN /\ backoff \in BOOLEAN
    /\ demand \in [pending : 0..Cardinality(Clients), active : 0..Cardinality(Clients)]
    /\ lease \in [id : 0..3, state : {"none", "pending", "committed"}]
    /\ tracked \in [w : Workers \cup {None}, lease : 0..3]

Waiting == {c \in Clients : at[c] \in {"admit", "admitWait", "arrive", "settle", "resolve",
                                      "joined", "granted", "fail"}}

\* Requests are counted exactly: pending from admission until they are
\* served or turned away, active while they are served, never twice.
Accounted ==
    /\ demand.pending = Cardinality(Waiting)
    /\ demand.active  = Cardinality({c \in Clients : In(c, "active")})
    /\ MaxPending > 0 => demand.pending <= MaxPending

\* An instance has one process: whatever still runs without having been
\* killed is the worker in the map, and the map does not show it as dead.
OneProcess ==
    \A w \in Workers : Running(w) /\ w \notin sigkill =>
                         w = current /\ Active(worker[w].state)

Stoppers == {t \in Callers : at[t] \in Gates \cup {"stop", "restart", "kill", "killed", "killLoad",
                                  "killDown", "killSettle", "killEnd", "idleStop", "evictMark"}}

\* Requests are kept out, and a worker drains, only while an operation is
\* under way that will stop the worker or let them in again.
DrainOwned == drain \/ Status = "draining" => Stoppers # {}

\* Outside any operation, a ready worker holds a committed lease.
ReadyIsLeased ==
    Status = "ready" /\ (\A t \in Callers : at[t] \notin Starting) /\ Stoppers = {}
        => lease.state = "committed"

\* When no start is under way and every exit was handled, an instance that is
\* not running holds no lease: what it reserved is free for others.
NoLeaseLeft ==
    /\ ~Active(Status)
    /\ \A t \in Callers : at[t] \notin Starting
    /\ \A w \in Workers : reaper[w] \in {"none", "gone"} \/ w # current
    => lease = NoLease

\* Neither idle unloading nor an eviction stops a worker that serves a request.
SparesBusy ==
    \A t \in Tasks : In(t, "stop") /\ At(t, "idle") /\ ~At(t, "idle")' => demand.active = 0

Quiet == \A t \in Callers : at[t] \in {"idle", "done", "active"}

\* A worker that became ready and is being stopped is no start failure.
InterruptsForgiven ==
    [][\A t \in Callers : In(t, "endpoint") /\ In(t, "failError")'
                             => ~ShuttingDown(Status)]_vars

\* One start of the instance is under way at a time: what the manager starts
\* by itself does not cancel an earlier start of its own.
OneStartup ==
    [][\A t \in Unblockers : Live(t) => startup' \in {t, Nobody} \cup Operators]_vars

\* While a user's stop suppresses an always-on instance, nothing brings it
\* back: at rest it is not running, or its killed process is about to go.
StopSticks == manual /\ Quiet => ~Active(Status) \/ current \in sigkill

\* While the live start works towards readiness, the capacity it was granted
\* stays reserved for it.
StartIsLeased ==
    Managed => \A t \in Callers :
        Live(t) /\ at[t] \in {"launch", "start", "check", "endpoint", "commit"}
            => lease.state = "pending"

\* Nobody waits for the exit of a worker whose exit will not be signalled.
ExitsSignalled ==
    \A t \in Callers :
        \/ call[t].pc \in {"stopWait", "stopReap", "failWait", "failReap"}
        \/ at[t] \in {"admitWait", "settle", "killSettle"}
        => reaper[call[t].w] # "gone" \/ WaitedFor(t)

\* At rest, whatever process runs is the one the map shows.
RestHasOneProcess == Quiet => OneProcess

\* Every request is answered in the end: served, refused or failed.
RequestsEnd == \A c \in Clients : In(c, "admit") ~> In(c, "done")

\* Every operation gives the instance's gate back.
GateFreed == gate # Nobody ~> gate = Nobody
=============================================================================
