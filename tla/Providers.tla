------------------------------ MODULE Providers ------------------------------
(***************************************************************************)
(* The configuration of sign-in providers (auth/oidc.go, api/oidc.go):     *)
(* administrators create, edit, test and delete providers and switch local *)
(* logins off, which needs a provider that is enabled and passed its test. *)
(* policyMu serialises all of it but the creation.                         *)
(*                                                                         *)
(* A configuration is a number: every edit that matters makes a new one.   *)
(***************************************************************************)
EXTENDS Integers, FiniteSets

CONSTANTS
    Ids,          \* providers
    Admins,       \* requests
    Patient,      \* whether a provider is left alone until its creation is answered
    ConfigLimit   \* bound on configurations of a provider

Unlocked == "nobody"

ProviderAssumption == ConfigLimit \in Nat \ {0} /\ Patient \in BOOLEAN /\ Unlocked \notin Admins

VARIABLES
    provider,     \* oidc_providers
    secret,       \* providers with a client secret in the store
    local,        \* LocalLoginEnabled
    policyMu,     \* the request that holds the mutex
    admin,        \* where each request stands
    spent,        \* IDs given out: they are random and not given again
    passed        \* the configuration each provider's last good test saw

providerVars == <<provider, secret, local, policyMu, admin, spent, passed>>

NoProvider == [on |-> FALSE, tested |-> FALSE, config |-> 0]
Row        == [on : BOOLEAN, tested : BOOLEAN, config : 1..ConfigLimit]
Quiet      == [op |-> "none"]
Operation  == [op : {"settings", "test", "update", "delete", "create"},
               pc : {"enter", "read", "probe", "save", "secret", "undo", "leave"},
               id : Ids, row : Row \cup {NoProvider}, ok : BOOLEAN]

ProviderTypeOK ==
    /\ provider \in [Ids -> Row \cup {NoProvider}] /\ secret \subseteq Ids /\ local \in BOOLEAN
    /\ policyMu \in Admins \cup {Unlocked}
    /\ admin \in [Admins -> Operation \cup {Quiet}] /\ spent \subseteq Ids /\ passed \in [Ids -> 0..ConfigLimit]

ProviderInit ==
    /\ provider = [p \in Ids |-> NoProvider] /\ secret = {} /\ local = TRUE
    /\ policyMu = Unlocked /\ admin = [a \in Admins |-> Quiet] /\ spent = {} /\ passed = [p \in Ids |-> 0]

Usable(S) == {p \in S : provider[p].on /\ provider[p].tested}

-----------------------------------------------------------------------------
Goes(a, pc) == admin' = [admin EXCEPT ![a].pc = pc]
Is(a, op, pc) == admin[a] # Quiet /\ admin[a].op = op /\ admin[a].pc = pc

Request(a, op, p) ==
    /\ admin[a] = Quiet
    /\ op = "create" => p \notin spent
    /\ op \in {"test", "update", "delete"} => p \in spent
    /\ Patient => \A b \in Admins : admin[b] # Quiet /\ admin[b].op = "create" => admin[b].id # p
    /\ spent' = IF op = "create" THEN spent \cup {p} ELSE spent
    /\ admin' = [admin EXCEPT ![a] = [op |-> op, pc |-> IF op = "create" THEN "save" ELSE "enter",
                                      id |-> p, row |-> NoProvider, ok |-> FALSE]]
    /\ UNCHANGED <<provider, secret, local, policyMu, passed>>

Enter(a) ==
    /\ admin[a] # Quiet /\ admin[a].pc = "enter" /\ policyMu = Unlocked
    /\ policyMu' = a /\ Goes(a, "read")
    /\ UNCHANGED <<provider, secret, local, passed, spent>>

\* Every return goes through the deferred Unlock.
Leave(a) ==
    /\ admin[a] # Quiet /\ admin[a].pc = "leave" /\ admin' = [admin EXCEPT ![a] = Quiet]
    /\ policyMu' = IF policyMu = a THEN Unlocked ELSE policyMu
    /\ UNCHANGED <<provider, secret, local, passed, spent>>

\* authSettings: local logins may go only if a provider can take them.
ReadSettings(a) ==
    /\ Is(a, "settings", "read")
    /\ \E ok \in BOOLEAN :
          /\ admin' = [admin EXCEPT ![a].pc = IF ok \/ Usable(Ids) # {} THEN "save" ELSE "leave", ![a].ok = ok]
    /\ UNCHANGED <<provider, secret, local, policyMu, passed, spent>>

\* The write may fail; what is written before it stays.
SaveSettings(a) ==
    /\ Is(a, "settings", "save") /\ Goes(a, "leave")
    /\ local' \in {local, admin[a].ok}
    /\ UNCHANGED <<provider, secret, policyMu, passed, spent>>

\* TestProvider: the row is read, the network asked, and the result written
\* to whatever row is there.
ReadTest(a) ==
    /\ Is(a, "test", "read")
    /\ LET p == admin[a].id IN
       admin' = [admin EXCEPT ![a].pc = IF provider[p] = NoProvider THEN "leave" ELSE "probe", ![a].row = provider[p]]
    /\ UNCHANGED <<provider, secret, local, policyMu, passed, spent>>

Probe(a) ==
    /\ Is(a, "test", "probe")
    /\ \E ok \in {FALSE, admin[a].id \in secret} : admin' = [admin EXCEPT ![a].pc = "save", ![a].ok = ok]
    /\ UNCHANGED <<provider, secret, local, policyMu, passed, spent>>

SaveTest(a) ==
    /\ Is(a, "test", "save") /\ Goes(a, "leave")
    /\ LET p == admin[a].id IN
       IF provider[p] = NoProvider THEN UNCHANGED <<provider, passed>>
       ELSE /\ provider' = [provider EXCEPT ![p].tested = admin[a].ok]
            /\ passed' = IF admin[a].ok THEN [passed EXCEPT ![p] = admin[a].row.config] ELSE passed
    /\ UNCHANGED <<secret, local, policyMu, spent>>

\* Faulty edit: the result of the last test is kept.
UpdateKeepsTest(a, changed, on) ==
    /\ Is(a, "update", "read")
    /\ LET p == admin[a].id  r == provider[p]
           row == [on |-> on, tested |-> r.tested, config |-> IF changed THEN r.config + 1 ELSE r.config]
       IN IF r = NoProvider \/ (~on /\ r.on /\ ~local /\ Usable(Ids \ {p}) = {})
          THEN Goes(a, "leave")
          ELSE /\ changed => r.config < ConfigLimit
               /\ admin' = [admin EXCEPT ![a].pc = "save", ![a].row = row, ![a].ok = changed]
    /\ UNCHANGED <<provider, secret, local, policyMu, passed, spent>>

\* UpdateProvider: a change of a tested provider and the disabling of an
\* enabled one need another usable provider while local logins are off.
Update(a, changed, on) ==
    /\ Is(a, "update", "read")
    /\ LET p == admin[a].id  r == provider[p]
           risky == (changed /\ r.tested) \/ (~on /\ r.on)
           row == [on |-> on, tested |-> r.tested /\ ~changed /\ (on \/ ~r.on), config |-> IF changed THEN r.config + 1 ELSE r.config]
       IN IF r = NoProvider \/ (risky /\ ~local /\ Usable(Ids \ {p}) = {})
          THEN Goes(a, "leave")
          ELSE /\ changed => r.config < ConfigLimit
               /\ admin' = [admin EXCEPT ![a].pc = "save", ![a].row = row, ![a].ok = changed]
    /\ UNCHANGED <<provider, secret, local, policyMu, passed, spent>>

SaveUpdate(a) ==
    /\ Is(a, "update", "save")
    /\ LET p == admin[a].id IN provider' = [provider EXCEPT ![p] = IF @ = NoProvider THEN @ ELSE admin[a].row]
    /\ \E pc \in {"leave", "secret"} : (pc = "secret" => admin[a].ok) /\ Goes(a, pc)
    /\ UNCHANGED <<secret, local, policyMu, passed, spent>>

\* A new secret is stored after the row, or is not if the store fails.
StoreSecret(a) ==
    /\ Is(a, "update", "secret") /\ Goes(a, "leave")
    /\ secret' \in {secret, secret \cup {admin[a].id}}
    /\ UNCHANGED <<provider, local, policyMu, passed, spent>>

\* DeleteProvider and its guard.
ReadDelete(a) ==
    /\ Is(a, "delete", "read")
    /\ LET p == admin[a].id IN
       Goes(a, IF provider[p] = NoProvider \/ (~local /\ Usable(Ids \ {p}) = {}) THEN "leave" ELSE "save")
    /\ UNCHANGED <<provider, secret, local, policyMu, passed, spent>>

SaveDelete(a) ==
    /\ Is(a, "delete", "save") /\ Goes(a, "secret")
    /\ provider' = [provider EXCEPT ![admin[a].id] = NoProvider]
    /\ UNCHANGED <<secret, local, policyMu, passed, spent>>

DropSecret(a) ==
    /\ Is(a, "delete", "secret") /\ Goes(a, "leave")
    /\ secret' \in {secret, secret \ {admin[a].id}}
    /\ UNCHANGED <<provider, local, policyMu, passed, spent>>

\* CreateProvider: the row, then the secret; without it the row goes again.
SaveCreate(a) ==
    /\ Is(a, "create", "save") /\ Goes(a, "secret")
    /\ \E on \in BOOLEAN : provider' = [provider EXCEPT ![admin[a].id] = [on |-> on, tested |-> FALSE, config |-> 1]]
    /\ UNCHANGED <<secret, local, policyMu, passed, spent>>

FirstSecret(a) ==
    /\ Is(a, "create", "secret")
    /\ \/ Goes(a, "leave") /\ secret' = secret \cup {admin[a].id}
       \/ Goes(a, "undo") /\ UNCHANGED secret
    /\ UNCHANGED <<provider, local, policyMu, passed, spent>>

Undo(a) ==
    /\ Is(a, "create", "undo") /\ Goes(a, "leave")
    /\ provider' \in {provider, [provider EXCEPT ![admin[a].id] = NoProvider]}
    /\ UNCHANGED <<secret, local, policyMu, passed, spent>>

-----------------------------------------------------------------------------
Proceed(a) ==
    \/ Enter(a) \/ Leave(a) \/ ReadSettings(a) \/ SaveSettings(a) \/ ReadTest(a) \/ Probe(a) \/ SaveTest(a)
    \/ \E changed, on \in BOOLEAN : Update(a, changed, on)
    \/ SaveUpdate(a) \/ StoreSecret(a) \/ ReadDelete(a) \/ SaveDelete(a) \/ DropSecret(a)
    \/ SaveCreate(a) \/ FirstSecret(a) \/ Undo(a)

ProviderNext ==
    \E a \in Admins :
        \/ Proceed(a)
        \/ \E p \in Ids, op \in {"settings", "test", "update", "delete", "create"} : Request(a, op, p)

\* The mutex is handed over in turn, and the network answers.
ProviderSpec == ProviderInit /\ [][ProviderNext]_providerVars /\ \A a \in Admins : SF_providerVars(Proceed(a))

-----------------------------------------------------------------------------
(* Properties.                                                             *)

LockedOut == ~local /\ Usable(Ids) = {}

\* With local logins off the last usable provider is never edited, disabled or
\* deleted away, nor are they switched off without one: only a test that fails
\* can lock everybody out.  (An impatient administrator can: he stores the
\* missing secret of a provider whose creation is about to be undone.)
OnlyTestsLockOut ==
    ~LockedOut /\ LockedOut' => \E a \in Admins : Is(a, "test", "save") /\ admin'[a] # admin[a]

\* A provider is shown as tested only for the configuration that passed, with
\* a client secret in the store.
TestedCurrent == \A p \in Ids : provider[p].tested => passed[p] = provider[p].config /\ p \in secret

\* Every administrator's request is answered.
PolicyEnds == \A a \in Admins : admin[a] # Quiet ~> admin[a] = Quiet

\* Why the last provider stays usable: one request at a time is past the mutex,
\* what it read still holds when it writes, and a provider that is being created
\* is nobody else's business and is not tested.
Inside(a) == admin[a].op \notin {"none", "create"} /\ admin[a].pc # "enter"

OneInside == \A a \in Admins : Inside(a) => policyMu = a

IdsSpent ==
    /\ \A p \in Ids : provider[p] # NoProvider => p \in spent
    /\ \A a \in Admins : admin[a].op \notin {"none", "settings"} => admin[a].id \in spent

CreatedAlone ==
    \A a \in Admins : admin[a].op = "create" =>
        /\ ~provider[admin[a].id].tested
        /\ \A b \in Admins \ {a} : admin[b].op \notin {"none", "settings"} => admin[b].id # admin[a].id

Holds(a) ==
    LET p == admin[a].id  r == admin[a].row IN
    /\ admin[a].op = "settings" /\ admin[a].pc = "save" => admin[a].ok \/ Usable(Ids) # {}
    /\ admin[a].op = "test" /\ admin[a].pc \in {"probe", "save"} =>
          r # NoProvider /\ (provider[p] # NoProvider => provider[p].config = r.config)
    /\ admin[a].op = "test" /\ admin[a].pc = "save" /\ admin[a].ok => p \in secret
    /\ admin[a].op = "update" /\ admin[a].pc = "save" =>
          /\ r # NoProvider /\ (r.tested => passed[p] = r.config /\ p \in secret)
          /\ local \/ Usable(Ids \ {p}) # {} \/ (p \in Usable(Ids) => r.on /\ r.tested)
    /\ admin[a].op = "delete" /\ admin[a].pc = "save" => local \/ Usable(Ids \ {p}) # {}
    /\ admin[a].op = "delete" /\ admin[a].pc = "secret" => provider[p] = NoProvider

ProviderInv ==
    /\ ProviderTypeOK /\ TestedCurrent /\ OneInside /\ IdsSpent /\ CreatedAlone
    /\ \A a \in Admins : Inside(a) => Holds(a)
=============================================================================
