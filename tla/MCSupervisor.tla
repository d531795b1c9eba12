---------------------------- MODULE MCSupervisor ----------------------------
(* Small instances of the supervisor on its own.                           *)
EXTENDS Supervisor, TLC

Symmetry == Permutations(Callers)
=============================================================================
