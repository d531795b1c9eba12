--------------------------- MODULE MCReconcilers ---------------------------
(* An always-on instance under three casts: left to the manager's own     *)
(* tasks, with leases and without, and with a user who may suppress it.    *)
(* A behaviour has one cast.                                               *)
CONSTANTS User, Guest, MaxWorkers, Persistent

VARIABLES
    cast, current, worker, proc, sigkill, reaper, record, call, ctxDone, at, drain, gate, startup,
    loading, manual, blocked, backoff, demand, lease, tracked

\* The reconcilers and an eviction.
Tended == INSTANCE Lifecycle WITH
    Clients <- {}, Operators <- {}, Ops <- {}, Tasks <- {"keeper", "unblocker", "evictor"}, Cancellable <- {},
    Callers <- {"keeper", "unblocker", "evictor", "load"},
    AlwaysOn <- TRUE, MaxPending <- 0, Managed <- FALSE, LeaseExpires <- FALSE

\* The keeper and an eviction, under a scheduler that grants leases.
Leased == INSTANCE Lifecycle WITH
    Clients <- {}, Operators <- {}, Ops <- {}, Tasks <- {"keeper", "evictor"}, Cancellable <- {},
    Callers <- {"keeper", "evictor", "load"},
    AlwaysOn <- TRUE, MaxPending <- 0, Managed <- TRUE, LeaseExpires <- FALSE

\* A request, and a user who stops.
Suppressed == INSTANCE Lifecycle WITH
    Clients <- {Guest}, Operators <- {User}, Ops <- {"stop"}, Tasks <- {"keeper"},
    Cancellable <- {}, Callers <- {Guest, User, "keeper", "load"},
    AlwaysOn <- TRUE, MaxPending <- 0, Managed <- FALSE, LeaseExpires <- FALSE

Init ==
    \/ cast = "tended" /\ Tended!LifeInit
    \/ cast = "leased" /\ Leased!LifeInit
    \/ cast = "suppressed" /\ Suppressed!LifeInit

MCNext ==
    /\ UNCHANGED cast
    /\ \/ cast = "tended" /\ Tended!LifeNext
       \/ cast = "leased" /\ Leased!LifeNext
       \/ cast = "suppressed" /\ Suppressed!LifeNext

\* The manager's own starts and evictions leave one process at most, which it
\* knows, no lease without a worker, and nobody waiting for an exit that will
\* not be signalled.
NothingLeft ==
    CASE cast = "tended" -> Tended!OneProcess /\ Tended!ExitsSignalled
      [] cast = "leased" -> Leased!OneProcess /\ Leased!NoLeaseLeft /\ Leased!ExitsSignalled
      [] OTHER -> TRUE

\* A user's stop holds against the keeper (lifecycle/service.go:886-903, 981).
StopSticks == cast = "suppressed" => Suppressed!StopSticks
=============================================================================
