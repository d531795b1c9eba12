----------------------------- MODULE Reservations -----------------------------
(***************************************************************************)
(* What the reservation ledger promises those who start workers, without   *)
(* its IDs, clocks and indexes: an owner holds one reservation at most; it *)
(* keeps a confirmed one until it gives it up or asks anew; and a victim   *)
(* is credited to one start at a time, for as long as that start holds its *)
(* reservation.                                                            *)
(***************************************************************************)
CONSTANTS
    Instances, Benchmarks,   \* owners; only instances are victims and are credited with victims
    Nobody

VARIABLES
    held,      \* owner -> "none", "pending" or "committed"
    credited   \* victim -> the owner that is credited with it, or Nobody

resVars == <<held, credited>>
Owners  == Instances \cup Benchmarks
Pending == {o \in Owners : held[o] = "pending"}

ResInit ==
    /\ held = [o \in Owners |-> "none"]
    /\ credited = [v \in Instances |-> Nobody]

\* What is left when the owners in S lose their reservations.
HeldWithout(S)     == [o \in Owners |-> IF o \in S THEN "none" ELSE held[o]]
CreditedWithout(S) == [v \in Instances |-> IF credited[v] \in S THEN Nobody ELSE credited[v]]

\* Pending reservations lapse.
Lapse(S) == held' = HeldWithout(S) /\ credited' = CreditedWithout(S)

\* An owner asks anew while the reservations in S lapse, and is refused.
Refuse(o, S) == held' = HeldWithout(S \cup {o}) /\ credited' = CreditedWithout(S \cup {o})

\* It is granted a reservation, and credited with the victims V: others that
\* hold a reservation and with which nobody is credited.
Obtain(o, S, V) ==
    LET others == CreditedWithout(S \cup {o})
    IN  /\ V # {} => o \in Instances
        /\ \A v \in V : v # o /\ HeldWithout(S \cup {o})[v] # "none" /\ others[v] = Nobody
        /\ held' = [HeldWithout(S \cup {o}) EXCEPT ![o] = "pending"]
        /\ credited' = [v \in Instances |-> IF v \in V THEN o ELSE others[v]]

Confirm(o) ==
    /\ o \in Pending
    /\ held' = [held EXCEPT ![o] = "committed"]
    /\ UNCHANGED credited

GiveUp(o) == held' = HeldWithout({o}) /\ credited' = CreditedWithout({o})

ResNext ==
    \/ \E S \in SUBSET Pending : Lapse(S)
    \/ \E o \in Owners, S \in SUBSET Pending : Refuse(o, S)
    \/ \E o \in Owners, S \in SUBSET Pending, V \in SUBSET Instances : Obtain(o, S, V)
    \/ \E o \in Owners : Confirm(o) \/ GiveUp(o)

ResSpec == ResInit /\ [][ResNext]_resVars
=============================================================================
