----------------------------- MODULE MCRequests -----------------------------
(* The lifecycle service under four casts: who acts, and on what kind of   *)
(* instance.  A behaviour has one cast throughout.                         *)
EXTENDS Lifecycle, TLC

CONSTANTS User1, User2, Guest

VARIABLE cast

Users == {User1, User2}

\* On demand: requests that load the instance, a limited queue, idle unloading
\* and an eviction.  These are the constants' own values.
EveryCaller == Clients \cup Operators \cup Tasks \cup {Load}

\* Two users who may disconnect, with a runtime store; leases may time out.
Usage == INSTANCE Lifecycle WITH
    Clients <- {}, Operators <- Users, Ops <- {"start", "stop", "kill"}, Tasks <- {}, Cancellable <- Users,
    Callers <- {"load"} \cup Users, Persistent <- TRUE,
    AlwaysOn <- FALSE, MaxPending <- 0, Managed <- TRUE, LeaseExpires <- TRUE

\* One of them, and a request.
Visit == INSTANCE Lifecycle WITH
    Clients <- {Guest}, Operators <- {User1}, Ops <- {"start", "stop", "kill"}, Tasks <- {},
    Cancellable <- {User1}, Callers <- {Guest, User1, "load"}, Persistent <- TRUE,
    AlwaysOn <- FALSE, MaxPending <- 0, Managed <- TRUE, LeaseExpires <- TRUE

\* Two users who restart and stop.
Restarts == INSTANCE Lifecycle WITH
    Clients <- {}, Operators <- Users, Ops <- {"restart", "stop"}, Tasks <- {}, Cancellable <- Users,
    Callers <- {"load"} \cup Users,
    AlwaysOn <- FALSE, MaxPending <- 0, Managed <- TRUE, LeaseExpires <- TRUE

Symmetry == Permutations(Clients) \cup Permutations(Users)

Init ==
    \/ cast = "on_demand" /\ LifeInit
    \/ cast = "users" /\ Usage!LifeInit
    \/ cast = "visit" /\ Visit!LifeInit
    \/ cast = "restarts" /\ Restarts!LifeInit

MCNext ==
    /\ UNCHANGED cast
    /\ \/ cast = "on_demand" /\ LifeNext
       \/ cast = "users" /\ Usage!LifeNext
       \/ cast = "visit" /\ Visit!LifeNext
       \/ cast = "restarts" /\ Restarts!LifeNext

MCSpec == Init /\ [][MCNext]_<<cast, vars>>

TypesOK ==
    CASE cast = "on_demand" -> LifeTypeOK
      [] cast = "users"     -> Usage!LifeTypeOK
      [] cast = "visit"     -> Visit!LifeTypeOK
      [] cast = "restarts"  -> Restarts!LifeTypeOK

\* Requests are counted exactly (lifecycle/pending.go).
Counted == cast = "on_demand" => Accounted

\* A ready worker holds a committed lease, and a live start a pending one
\* (lifecycle/service.go:917-1046).
Leased == cast = "on_demand" => ReadyIsLeased /\ StartIsLeased

\* Idle unloading and evictions never stop a worker that serves a request.
BusySpared == [][cast = "on_demand" => SparesBusy]_<<cast, vars>>

\* However users start, stop, kill and restart, whatever runs unkilled is the
\* worker the manager knows, and what does not run reserves nothing.
NothingLeft ==
    CASE cast = "users"    -> Usage!OneProcess /\ Usage!NoLeaseLeft
      [] cast = "visit"    -> Visit!OneProcess /\ Visit!NoLeaseLeft
      [] cast = "restarts" -> Restarts!NoLeaseLeft
      [] OTHER -> TRUE

\* Requests are kept out only by an operation under way, and nobody waits for
\* an exit that will not be signalled.
Handover == cast = "restarts" => Restarts!DrainOwned /\ Restarts!ExitsSignalled
=============================================================================
