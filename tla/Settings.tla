------------------------------- MODULE Settings -------------------------------
(***************************************************************************)
(* Manager settings (settings/service.go, settings/prometheus.go) and the  *)
(* handler that changes several of them in one request (api/admin.go:366). *)
(* A key resolves from the environment, the table or its default; a request*)
(* is vetted as a whole and then stored key by key, and the session lifetime  *)
(* is also told to the auth service, which keeps a copy of its own.        *)
(***************************************************************************)
EXTENDS Integers, Sequences, FiniteSets

CONSTANTS
    Order,      \* the keys, in the order in which a request stores them
    Sensitive,  \* keys that only a user principal may change
    Named,      \* keys with an environment variable
    Override,   \* those of them the table overrides (databaseOverridesEnv)
    Life,       \* session_lifetime_seconds
    Token,      \* prometheus_auth_token: kept among the secrets, stored first
    Good, Bad,  \* values that parse within range, and one that does not
    Default,    \* the default, one of Good
    Putters,    \* requests
    Absent,     \* not set
    PutLimit    \* bound on requests and restarts

Settable == {Order[n] : n \in 1..Len(Order)}

SettingsAssumption ==
    /\ Life \in Settable \cap Sensitive /\ Token \in Sensitive \ Settable /\ Override \subseteq Named /\ Named \subseteq Settable
    /\ Default \in Good /\ Bad \notin Good /\ Absent \notin Good \cup {Bad} /\ PutLimit \in Nat

VARIABLES
    env,        \* the environment the process was started with
    table,      \* manager_settings, and the token among the secrets
    lifetime,   \* auth.Service.sessionLifetime
    put,        \* where each request stands
    crossed,    \* the lifetime was last stored while another request had yet to tell of its own (history)
    puts

setVars == <<env, table, lifetime, put, crossed, puts>>

AtRest == [pc |-> "idle", want |-> [k \in Settable \cup {Token} |-> Absent], user |-> FALSE, at |-> 0]
Wanted(q) == {k \in Settable \cup {Token} : put[q].want[k] # Absent}

\* The first source that has the key decides, and Bad is an error.
Resolved(k) ==
    LET sources == IF k \in Override THEN <<table[k], env[k], Default>> ELSE <<env[k], table[k], Default>>
        first == CHOOSE n \in 1..3 : sources[n] # Absent /\ \A m \in 1..(n - 1) : sources[m] = Absent
    IN  sources[first]

\* parse: the kind of the key and its range decide.
Parses(v) == v # Bad

\* What the auth service starts with (main.go:69-72).
BootLifetime == IF Parses(Resolved(Life)) THEN Resolved(Life) ELSE Default

\* Faulty check: what does not parse is kept as it is.
WritableUnparsed(k, v) == k \in Named \ Override => env[k] = Absent

\* A key that the environment controls cannot be written; nor can a bad value.
Writable(k, v) == k = Token \/ (Parses(v) /\ (k \in Named \ Override => env[k] = Absent))

\* Only a key with a variable can be set by the environment.
Environments == {e \in [Settable -> Good \cup {Bad, Absent}] : \A k \in Settable : e[k] # Absent => k \in Named}

SetInit ==
    /\ env \in Environments /\ table = [k \in Settable \cup {Token} |-> Absent] /\ lifetime = BootLifetime
    /\ put = [q \in Putters |-> AtRest] /\ crossed = FALSE /\ puts = 0

-----------------------------------------------------------------------------
(* One request.                                                            *)

\* Faulty vetting: one operational key among the updates is enough.
NeedsUserAll(q) == Wanted(q) \subseteq Sensitive

\* generalSettingsRequireUserPrincipal
NeedsUser(q) == Wanted(q) \cap Sensitive # {}

Vetted(q) == \A k \in Wanted(q) : Writable(k, put[q].want[k])

Ask(q) ==
    /\ put[q].pc = "idle" /\ puts < PutLimit /\ puts' = puts + 1
    /\ \E few \in SUBSET (Settable \cup {Token}), user \in BOOLEAN : \E v \in [few -> Good \cup {Bad}] :
          /\ Cardinality(few) \in 1..2
          /\ put' = [put EXCEPT ![q] = [pc |-> "vet", user |-> user, at |-> 1,
                        want |-> [k \in Settable \cup {Token} |-> IF k \in few THEN v[k] ELSE Absent]]]
    /\ UNCHANGED <<env, table, lifetime, crossed>>

Refuse(q) == put' = [put EXCEPT ![q] = AtRest] /\ UNCHANGED <<env, table, lifetime, crossed, puts>>

Vet(q) ==
    /\ put[q].pc = "vet"
    /\ IF (NeedsUser(q) => put[q].user) /\ Vetted(q)
       THEN put' = [put EXCEPT ![q].pc = IF Token \in Wanted(q) THEN "token" ELSE "store"]
            /\ UNCHANGED <<env, table, lifetime, crossed, puts>>
       ELSE Refuse(q)

\* SetPrometheusToken
StoreToken(q) ==
    \/ put[q].pc = "token" /\ Refuse(q)
    \/ /\ put[q].pc = "token" /\ put' = [put EXCEPT ![q].pc = "store"]
       /\ table' = [table EXCEPT ![Token] = put[q].want[Token]]
       /\ UNCHANGED <<env, lifetime, crossed, puts>>

Skip(q) == put' = [put EXCEPT ![q].at = @ + 1] /\ UNCHANGED <<env, table, lifetime, crossed, puts>>

\* Faulty storing: the lifetime is told whatever came of it.
StoreToldFirst(q) ==
    /\ put[q].pc = "store" /\ put[q].at \in 1..Len(Order)
    /\ LET k == Order[put[q].at]  v == put[q].want[k] IN
       IF v = Absent THEN Skip(q)
       ELSE /\ lifetime' = (IF k = Life THEN v ELSE lifetime)
            /\ \/ put' = [put EXCEPT ![q] = AtRest] /\ UNCHANGED table
               \/ put' = [put EXCEPT ![q].at = @ + 1] /\ table' = [table EXCEPT ![k] = v]
            /\ UNCHANGED <<env, crossed, puts>>

\* Set, one key at a time, each of which may fail and end the request.
Store(q) ==
    /\ put[q].pc = "store" /\ put[q].at \in 1..Len(Order)
    /\ LET k == Order[put[q].at]  v == put[q].want[k] IN
       \/ v = Absent /\ Skip(q)
       \/ v # Absent /\ Refuse(q)
       \/ /\ v # Absent /\ Writable(k, v) /\ table' = [table EXCEPT ![k] = v]
          /\ put' = [put EXCEPT ![q].at = @ + 1, ![q].pc = IF k = Life THEN "tell" ELSE "store"]
          /\ crossed' = IF k = Life THEN (\E o \in Putters \ {q} : put[o].pc = "tell") ELSE crossed
          /\ UNCHANGED <<env, lifetime, puts>>

\* SetSessionLifetime
Tell(q) ==
    /\ put[q].pc = "tell" /\ lifetime' = put[q].want[Life] /\ put' = [put EXCEPT ![q].pc = "store"]
    /\ UNCHANGED <<env, table, crossed, puts>>

Reply(q) == put[q].pc = "store" /\ put[q].at > Len(Order) /\ Refuse(q)

\* The manager goes, and is started again with some environment.
Reboot ==
    /\ puts < PutLimit /\ puts' = puts + 1
    /\ env' \in Environments
    /\ put' = [q \in Putters |-> AtRest] /\ crossed' = FALSE /\ UNCHANGED table /\ lifetime' = BootLifetime'

SetNext == Reboot \/ \E q \in Putters : Ask(q) \/ Vet(q) \/ StoreToken(q) \/ Store(q) \/ Tell(q) \/ Reply(q)
SetSpec == SetInit /\ [][SetNext]_setVars

-----------------------------------------------------------------------------
(* Properties.                                                             *)

\* The table holds only values that parse, so nothing a request stores can make
\* a later read of the settings fail (service.go:136-195).
SetTypeOK ==
    /\ env \in [Settable -> Good \cup {Bad, Absent}] /\ lifetime \in Good /\ puts \in 0..PutLimit
    /\ \A k \in Settable : table[k] \in Good \cup {Absent}
    /\ \A q \in Putters : put[q].pc \in {"idle", "vet", "token", "store", "tell"}

\* Once whoever stored a lifetime has told the auth service of it, the service
\* works with the one the settings resolve to, through failing writes, restarts
\* and requests that overlap in any other way.  It is not so after a request
\* stored a lifetime between another's store and its telling: the two may tell in
\* the other order, and the older lifetime then stays in use until the next
\* change or restart (admin.go:449-459, main.go:69).
LifetimeTold ==
    ~crossed /\ (\A q \in Putters : put[q].pc # "tell") => lifetime = BootLifetime

\* A request changes nothing unless all of it may be changed by who asks: a bad
\* value, a key the environment controls or a sensitive key beside operational
\* ones refuses the whole request (admin.go:433-442).  A request that was let
\* through may still fail between two keys, and leaves what it has stored.
VettedAsWhole ==
    \A k \in Settable \cup {Token} : table'[k] # table[k] =>
          \E q \in Putters : /\ table'[k] = put[q].want[k] /\ Vetted(q)
                             /\ (Wanted(q) \cap Sensitive = {} \/ put[q].user)

\* Why LifetimeTold holds: what is stored was vetted as a whole, and unless two
\* stores of the lifetime cross, one request at most is about to tell the service,
\* and has stored what it will tell.
Request == [pc : {"idle", "vet", "token", "store", "tell"}, user : BOOLEAN, at : Int,
            want : [Settable \cup {Token} -> Good \cup {Bad, Absent}]]

StoresVetted ==
    \A q \in Putters : put[q].pc \in {"token", "store", "tell"} => Vetted(q) /\ (NeedsUser(q) => put[q].user)
StoresWanted ==
    \A q \in Putters : (put[q].pc = "tell" => Life \in Wanted(q)) /\ (put[q].pc = "token" => Token \in Wanted(q))
OneTells ==
    ~crossed => \A q \in Putters : put[q].pc = "tell" =>
                   table[Life] = put[q].want[Life] /\ \A o \in Putters : put[o].pc = "tell" => q = o

SetInv ==
    /\ env \in Environments /\ put \in [Putters -> Request] /\ crossed \in BOOLEAN
    /\ table \in [Settable \cup {Token} -> Good \cup {Bad, Absent}]
    /\ SetTypeOK /\ StoresVetted /\ StoresWanted /\ OneTells /\ LifetimeTold
=============================================================================
