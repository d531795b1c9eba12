---------------------------- MODULE MCLifecycle ----------------------------
(* Small instances of the lifecycle service; each .cfg chooses who acts.   *)
EXTENDS Lifecycle, TLC

EveryCaller == Clients \cup Operators \cup Tasks \cup {Load}

\* Requests are alike, and so are users; not used for liveness.
Symmetry == Permutations(Clients) \cup Permutations(Operators)

\* Neither idle unloading nor an eviction stops a worker that serves a request
\* (lifecycle/service.go:553-640).
BusySpared == [][SparesBusy]_vars
=============================================================================
