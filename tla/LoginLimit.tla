------------------------------ MODULE LoginLimit ------------------------------
(***************************************************************************)
(* The login protector (security/security.go): failures are counted for    *)
(* each user name and address and, more leniently, for each address.  Both *)
(* tables are bounded, and time is counted in coarse steps.                *)
(***************************************************************************)
EXTENDS Integers, FiniteSets

CONSTANTS
    Origins,       \* pairs of a user name and an address
    Hosts, HostOf, \* addresses, and the address of each origin
    MaxItems, MaxHosts,          \* maxItems, maxAddresses
    Threshold,     \* LoginFailureThreshold
    LockTime,      \* LoginLockoutSeconds
    DelayAfter,    \* loginAddressDelayAfter
    HostTTL, Day,  \* loginAddressTTL, 24 hours
    Horizon        \* bound on time

LimitAssumption ==
    /\ {MaxItems, MaxHosts, Threshold, LockTime, DelayAfter, HostTTL, Day} \subseteq Nat \ {0}
    /\ Horizon \in Nat /\ IsFiniteSet(Origins) /\ IsFiniteSet(Hosts) /\ HostOf \in [Origins -> Hosts]

VARIABLES
    clock,     \* now
    attempts,  \* attempts: origin -> entry
    hosts,     \* addresses: address -> entry
    trying     \* origins whose password is being checked

limitVars == <<clock, attempts, hosts, trying>>

Blank  == [fails |-> 0, at |-> 0, until |-> 0]
\* Counts above what tells entries apart are not kept.
Most   == 1 + IF Threshold > DelayAfter THEN Threshold ELSE DelayAfter
Entry  == [fails : 1..Most, at : 0..Horizon, until : 0..(Horizon + LockTime)]
More(n) == IF n = Most THEN n ELSE n + 1

LimitTypeOK ==
    /\ clock \in 0..Horizon /\ trying \subseteq Origins
    /\ attempts \in [Origins -> Entry \cup {Blank}] /\ hosts \in [Hosts -> Entry \cup {Blank}]

LimitInit ==
    /\ clock = 0 /\ trying = {}
    /\ attempts = [o \in Origins |-> Blank] /\ hosts = [h \in Hosts |-> Blank]

Entries(table) == {k \in DOMAIN table : table[k] # Blank}
\* loginAttemptPenalty: an entry that is locked, and one that is slowed down.
Lasting(e) == e.until > clock
Slow(e)    == e.fails >= DelayAfter

-----------------------------------------------------------------------------
\* pruneLocked and pruneAddresses: entries that are old go, unless locked.
\* Neither table ever holds more than fits, so their other loops do nothing.
Pruned      == [o \in Origins |-> IF clock - attempts[o].at > Day /\ ~Lasting(attempts[o]) THEN Blank ELSE attempts[o]]
PrunedHosts == [h \in Hosts |-> IF clock - hosts[h].at > HostTTL THEN Blank ELSE hosts[h]]

\* The tables that making room for one key may leave: the oldest entry that may
\* go is taken out of a full table; none may be, and then there is no room.
RoomIn(table, k, limit, stay) ==
    IF table[k] # Blank \/ Cardinality(Entries(table)) < limit THEN {table}
    ELSE LET loose == Entries(table) \ stay IN
         {[table EXCEPT ![e] = Blank] : e \in {e \in loose : \A f \in loose : table[e].at <= table[f].at}}

\* BeforeAttempt: a locked origin is turned away.
Before(o) ==
    /\ o \notin trying /\ attempts' = Pruned /\ hosts' = PrunedHosts
    /\ trying' = IF Lasting(Pruned[o]) THEN trying ELSE trying \cup {o}
    /\ UNCHANGED clock

\* recordAddressFailure and its counterpart for the origin.
Counted(table, k, until) == [table EXCEPT ![k] = [fails |-> More(@.fails), at |-> clock, until |-> until]]

\* Failure: the address is counted first, if there is room for it, then the
\* origin, if there is.
Failure(o) ==
    /\ o \in trying /\ trying' = trying \ {o}
    /\ LET a == Pruned  h == PrunedHosts  host == HostOf[o]
           rooms == RoomIn(a, o, MaxItems, {e \in Origins : Lasting(a[e])})
           hostRooms == RoomIn(h, host, MaxHosts, {e \in Hosts : Slow(h[e])})
       IN /\ IF rooms = {} THEN attempts' = a
             ELSE \E t \in rooms :
                    attempts' = Counted(t, o, IF More(t[o].fails) >= Threshold THEN clock + LockTime ELSE t[o].until)
          /\ IF hostRooms = {} THEN hosts' = h ELSE \E t \in hostRooms : hosts' = Counted(t, host, 0)
    /\ UNCHANGED clock

\* Success forgets the origin, whatever it had been locked for meanwhile.
Success(o) ==
    /\ o \in trying /\ trying' = trying \ {o} /\ attempts' = [attempts EXCEPT ![o] = Blank]
    /\ UNCHANGED <<clock, hosts>>

Wait == clock < Horizon /\ clock' = clock + 1 /\ UNCHANGED <<attempts, hosts, trying>>

LimitNext == Wait \/ \E o \in Origins : Before(o) \/ Failure(o) \/ Success(o)
LimitSpec == LimitInit /\ [][LimitNext]_limitVars

-----------------------------------------------------------------------------
(* Properties.                                                             *)

\* Both tables stay within their bounds, so that pruning never has to choose.
TablesBounded ==
    Cardinality(Entries(attempts)) <= MaxItems /\ Cardinality(Entries(hosts)) <= MaxHosts

\* A lockout lasts: no flood of other names pushes the entry out, and only the
\* same origin's own success, begun before, ends it early.
LockHolds ==
    \A o \in Origins : attempts[o].until > clock /\ clock' = clock =>
          attempts'[o].until >= attempts[o].until \/ (o \in trying /\ o \notin trying')

\* An address that is being slowed down is forgotten only when its time is up.
SlowHolds ==
    \A h \in Hosts : hosts[h].fails >= DelayAfter /\ clock - hosts[h].at <= HostTTL => hosts'[h].fails >= DelayAfter

\* The bounds need nothing but the kinds of the entries.
LimitInv == LimitTypeOK /\ TablesBounded
=============================================================================
