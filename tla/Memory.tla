------------------------------- MODULE Memory -------------------------------
(***************************************************************************)
(* How the scheduler reads device memory (scheduler/reservation.go,        *)
(* placement.go): what is free of a device, what of that is usable, and in *)
(* which order automatic placement takes devices.  "free" maps the devices *)
(* of a snapshot to their free memory.                                     *)
(***************************************************************************)
EXTENDS Integers, Functions

CONSTANT Reserve    \* VRAM a placement leaves free on every device

AtLeastZero(n) == IF n > 0 THEN n ELSE 0
Smaller(a, b)  == IF a < b THEN a ELSE b
SumOver(S, f(_)) == FoldFunctionOnSet(+, 0, [x \in S |-> f(x)], S)

\* Free memory given its total, the snapshot's reading (used memory, or free
\* memory when the total is unknown) and what the ledger says is pending,
\* committed and credited.  Memory in use that the ledger cannot explain is
\* unmanaged and stays in use.
Adjusted(total, reading, pending, committed, credit) ==
    IF total > 0
    THEN AtLeastZero(total - pending - committed
                       - AtLeastZero(reading - committed - credit))
    ELSE AtLeastZero(reading - pending - committed + credit)

UsableVRAM(free, d) == AtLeastZero(free[d] - Reserve)
AllUsable(free) == SumOver(DOMAIN free, LAMBDA d : UsableVRAM(free, d))

\* Automatic mode fills devices from the largest usable downwards, ties by ID:
\* one device whenever one suffices, and only then several.
Before(free, d) ==
    {e \in DOMAIN free : \/ UsableVRAM(free, e) > UsableVRAM(free, d)
                         \/ UsableVRAM(free, e) = UsableVRAM(free, d) /\ e < d}

AutoFits(free, bytes) == AllUsable(free) >= bytes
=============================================================================
