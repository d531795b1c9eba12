------------------------------ MODULE KeyAccess ------------------------------
(***************************************************************************)
(* API keys (auth/api_keys.go, api_keys_cache.go, service_accounts.go):    *)
(* the rows, their owners, the cache in front of them and the requests     *)
(* that are authenticated while administrators edit, rotate and delete.    *)
(*                                                                         *)
(* Every change of a row or of an owner is numbered.  A copy of a row      *)
(* carries the number of the last change it shows; settled is the last     *)
(* change whose caller, or a later one, has emptied the cache.             *)
(***************************************************************************)
EXTENDS Integers, FiniteSets

CONSTANTS
    Keys,       \* key IDs
    Owners,     \* users and service accounts
    Hidden,     \* the service accounts only the LiteLLM integration shows
    Callers,    \* requests that carry a key
    Editors,    \* requests that change keys and owners
    SecretLimit, \* bound on secrets
    EditLimit,  \* bound on changes
    Never       \* no expiry date

ASSUME KeyAssumption == SecretLimit \in Nat /\ EditLimit \in Nat /\ Hidden \subseteq Owners

VARIABLES
    keyRow,     \* api_keys
    ownerRow,   \* enabled of users and service_accounts
    day,        \* today, in UTC
    cached,     \* byHash
    generation, \* of the cache
    caller,     \* where AuthenticateAPIKeyInfo stands
    editor,     \* where the request that changes something stands
    minted,     \* secrets handed out
    ver,        \* number of the last change
    settled     \* the last change whose caller, or a later one, has emptied the cache

keyVars == <<keyRow, ownerRow, day, cached, generation, caller, editor, minted,
             ver, settled>>
tables == <<keyRow, ownerRow, minted, ver>>
cacheVars == <<cached, generation, settled>>

Secrets == 1..SecretLimit
Days    == {0, Never}
NoRow   == [owner |-> "none", on |-> FALSE, secret |-> 0, until |-> Never]
KeyRow  == [owner : Owners, on : BOOLEAN, secret : Secrets, until : Days]
Copy    == [key : Keys, on : BOOLEAN, ownerOn : BOOLEAN, until : Days, ver : 0..EditLimit]
NoCopy  == [ver |-> -1]

AtRest   == [pc |-> "idle"]
Walking  == {"look", "fetch", "remember", "check", "stamp", "use", "granted", "refused"}
CallerState ==
    {AtRest} \cup [pc : Walking, secret : Secrets, gen : Nat, item : Copy \cup {NoCopy}, floor : 0..EditLimit]
EditorState ==
    {AtRest, [pc |-> "clear"]} \cup [pc : {"row"}, key : Keys, to : KeyRow] \cup [pc : {"owner"}, owner : Owners, to : {"on", "off"}]

KeyTypeOK ==
    /\ keyRow \in [Keys -> KeyRow \cup {NoRow}] /\ ownerRow \in [Owners -> {"on", "off", "gone"}]
    /\ day \in 0..1
    /\ cached \in [Secrets -> Copy \cup {NoCopy}] /\ generation \in Nat
    /\ caller \in [Callers -> CallerState] /\ editor \in [Editors -> EditorState]
    /\ minted \in 0..SecretLimit
    /\ ver \in 0..EditLimit /\ settled \in 0..EditLimit

KeyInit ==
    /\ keyRow = [k \in Keys |-> NoRow] /\ ownerRow = [o \in Owners |-> "on"] /\ day = 0
    /\ cached = [s \in Secrets |-> NoCopy] /\ generation = 0
    /\ caller = [c \in Callers |-> AtRest] /\ editor = [e \in Editors |-> AtRest]
    /\ minted = 0 /\ ver = 0 /\ settled = 0

Exists(k)  == keyRow[k] # NoRow
Changed    == ver < EditLimit /\ ver' = ver + 1
Expired(until) == until # Never /\ until < day

-----------------------------------------------------------------------------
(* Administrators.  Each change is one statement; emptying the cache is a  *)
(* step of its own after it.                                               *)

\* normalizeAPIKeyWrite: the owner exists and is enabled, the date is not past.
Writable(o, until) == ownerRow[o] = "on" /\ ~Expired(until)

\* CreateAPIKey needs no clearing: nothing is remembered of a secret without
\* a row.
Create(k) ==
    /\ ~Exists(k) /\ minted < SecretLimit
    /\ \E o \in Owners, u \in Days :
          /\ Writable(o, u) /\ o \notin Hidden
          /\ keyRow' = [keyRow EXCEPT ![k] = [owner |-> o, on |-> TRUE, secret |-> minted + 1, until |-> u]]
    /\ minted' = minted + 1
    /\ UNCHANGED <<ownerRow, day, cacheVars, caller, editor, ver>>

\* What a PATCH makes of the row it read: one field changes, or none.  Only a
\* new date is checked against today and only a new owner for being enabled.
Patched(r) ==
    {r} \cup {[r EXCEPT !.on = b] : b \in BOOLEAN}
        \cup {[r EXCEPT !.until = u] : u \in {u \in Days : ~Expired(u)}}
        \cup {[r EXCEPT !.owner = o] : o \in {o \in Owners \ Hidden : ownerRow[o] = "on"}}

ReadKey(e, k) ==
    /\ editor[e] = AtRest /\ Exists(k)
    /\ \E to \in Patched(keyRow[k]) : editor' = [editor EXCEPT ![e] = [pc |-> "row", key |-> k, to |-> to]]
    /\ UNCHANGED <<tables, day, cacheVars, caller>>

\* UpdateAPIKey writes every column but the secret.  The foreign key refuses
\* an owner who is gone.
WriteKey(e) ==
    /\ editor[e].pc = "row"
    /\ LET k == editor[e].key  to == editor[e].to IN
       IF Exists(k) /\ ownerRow[to.owner] # "gone"
       THEN /\ Changed /\ keyRow' = [keyRow EXCEPT ![k] = [to EXCEPT !.secret = keyRow[k].secret]]
            /\ editor' = [editor EXCEPT ![e] = [pc |-> "clear"]]
       ELSE editor' = [editor EXCEPT ![e] = AtRest] /\ UNCHANGED <<keyRow, ver>>
    /\ UNCHANGED <<ownerRow, minted, day, cacheVars, caller>>

Rotate(e, k) ==
    /\ editor[e] = AtRest /\ Exists(k) /\ Changed
    /\ minted < SecretLimit /\ minted' = minted + 1
    /\ keyRow' = [keyRow EXCEPT ![k].secret = minted + 1]
    /\ editor' = [editor EXCEPT ![e] = [pc |-> "clear"]]
    /\ UNCHANGED <<ownerRow, day, cacheVars, caller>>

\* A user's row is read and written in one transaction.
SetUser(e, o) ==
    /\ editor[e] = AtRest /\ ownerRow[o] # "gone" /\ Changed
    /\ \E to \in {"on", "off"} : ownerRow' = [ownerRow EXCEPT ![o] = to]
    /\ editor' = [editor EXCEPT ![e] = [pc |-> "clear"]]
    /\ UNCHANGED <<keyRow, minted, day, cacheVars, caller>>

\* A service account's is read first: a new name writes the enabled it read.
ReadAccount(e, o) ==
    /\ editor[e] = AtRest /\ ownerRow[o] # "gone" /\ o \notin Hidden
    /\ \E to \in {"on", "off"} : editor' = [editor EXCEPT ![e] = [pc |-> "owner", owner |-> o, to |-> to]]
    /\ UNCHANGED <<tables, day, cacheVars, caller>>

WriteAccount(e) ==
    /\ editor[e].pc = "owner"
    /\ LET o == editor[e].owner IN
       IF ownerRow[o] # "gone"
       THEN /\ Changed /\ ownerRow' = [ownerRow EXCEPT ![o] = editor[e].to]
            /\ editor' = [editor EXCEPT ![e] = [pc |-> "clear"]]
       ELSE editor' = [editor EXCEPT ![e] = AtRest] /\ UNCHANGED <<ownerRow, ver>>
    /\ UNCHANGED <<keyRow, minted, day, cacheVars, caller>>

\* The owner's keys go with the row.
DeleteOwner(e, o) ==
    /\ editor[e] = AtRest /\ ownerRow[o] # "gone" /\ Changed
    /\ ownerRow' = [ownerRow EXCEPT ![o] = "gone"]
    /\ keyRow' = [k \in Keys |-> IF keyRow[k].owner = o THEN NoRow ELSE keyRow[k]]
    /\ editor' = [editor EXCEPT ![e] = [pc |-> "clear"]]
    /\ UNCHANGED <<minted, day, cacheVars, caller>>

ClearCache(e) ==
    /\ editor[e].pc = "clear" /\ editor' = [editor EXCEPT ![e] = AtRest]
    /\ cached' = [s \in Secrets |-> NoCopy] /\ generation' = generation + 1 /\ settled' = ver
    /\ UNCHANGED <<tables, day, caller>>

-----------------------------------------------------------------------------
(* AuthenticateAPIKeyInfo.                                                 *)

Goes(c, pc) == caller' = [caller EXCEPT ![c].pc = pc]

Ask(c) ==
    /\ caller[c] = AtRest
    /\ \E s \in 1..minted :
          caller' = [caller EXCEPT ![c] = [pc |-> "look", secret |-> s, gen |-> generation, item |-> NoCopy, floor |-> settled]]
    /\ UNCHANGED <<tables, day, cacheVars, editor>>

\* cachedAPIKey reads the entry and the generation under one lock.
Look(c) ==
    /\ caller[c].pc = "look"
    /\ LET hit == cached[caller[c].secret] IN
       caller' = [caller EXCEPT ![c].pc = IF hit = NoCopy THEN "fetch" ELSE "check",
                                ![c].gen = generation, ![c].item = hit]
    /\ UNCHANGED <<tables, day, cacheVars, editor>>

\* lookupAPIKeyByHash.
CopyOf(k) ==
    [key |-> k, on |-> keyRow[k].on, ownerOn |-> ownerRow[keyRow[k].owner] = "on",
     until |-> keyRow[k].until, ver |-> ver]
Fetch(c) ==
    /\ caller[c].pc = "fetch"
    /\ \/ \E k \in Keys : /\ Exists(k) /\ keyRow[k].secret = caller[c].secret
                          /\ caller' = [caller EXCEPT ![c].pc = "remember", ![c].item = CopyOf(k)]
       \/ /\ \A k \in Keys : keyRow[k].secret # caller[c].secret
          /\ Goes(c, "refused")
    /\ UNCHANGED <<tables, day, cacheVars, editor>>

\* Faulty cache: whatever was read is kept.
RememberAlways(c) ==
    /\ caller[c].pc = "remember" /\ Goes(c, "check")
    /\ cached' = [cached EXCEPT ![caller[c].secret] = caller[c].item]
    /\ UNCHANGED <<tables, day, generation, settled, editor>>

\* What was read is kept only if nothing was cleared since; otherwise it is
\* read again.
Remember(c) ==
    /\ caller[c].pc = "remember"
    /\ IF caller[c].gen = generation
       THEN cached' = [cached EXCEPT ![caller[c].secret] = caller[c].item] /\ Goes(c, "check")
       ELSE Goes(c, "look") /\ UNCHANGED cached
    /\ UNCHANGED <<tables, day, generation, settled, editor>>

Check(c) ==
    /\ caller[c].pc = "check"
    /\ LET i == caller[c].item IN Goes(c, IF i.on /\ i.ownerOn /\ ~Expired(i.until) THEN "stamp" ELSE "refused")
    /\ UNCHANGED <<tables, day, cacheVars, editor>>

\* stampCachedAPIKey: the entry must still be there under the generation the
\* request began with; what it says now is what the caller gets.
Stamp(c) ==
    /\ caller[c].pc = "stamp"
    /\ LET hit == cached[caller[c].secret] IN
       caller' = IF caller[c].gen = generation /\ hit # NoCopy
                 THEN [caller EXCEPT ![c].pc = "use", ![c].item = hit]
                 ELSE [caller EXCEPT ![c].pc = "look"]
    /\ UNCHANGED <<tables, day, cacheVars, editor>>

\* A use is written unless one was in the last thirty seconds; one that cannot
\* be written fails the request.
Use(c) ==
    /\ caller[c].pc = "use"
    /\ Goes(c, "granted") \/ Goes(c, "refused")
    /\ UNCHANGED <<tables, day, cacheVars, editor>>

Reply(c) ==
    /\ caller[c].pc \in {"granted", "refused"} /\ caller' = [caller EXCEPT ![c] = AtRest]
    /\ UNCHANGED <<tables, day, cacheVars, editor>>

-----------------------------------------------------------------------------
Midnight == day = 0 /\ day' = 1 /\ UNCHANGED <<tables, cacheVars, caller, editor>>

Edit(e) ==
    \/ \E k \in Keys : ReadKey(e, k) \/ Rotate(e, k)
    \/ \E o \in Owners : SetUser(e, o) \/ ReadAccount(e, o) \/ DeleteOwner(e, o)
    \/ WriteKey(e) \/ WriteAccount(e) \/ ClearCache(e)
Authenticate(c) ==
    Look(c) \/ Fetch(c) \/ Remember(c) \/ Check(c) \/ Stamp(c) \/ Use(c)

KeyNext ==
    \/ \E e \in Editors : Edit(e)
    \/ \E k \in Keys : Create(k)
    \/ \E c \in Callers : Ask(c) \/ Authenticate(c) \/ Reply(c)
    \/ Midnight

KeySpec == KeyInit /\ [][KeyNext]_keyVars /\ \A c \in Callers : WF_keyVars(Authenticate(c))

-----------------------------------------------------------------------------
(* Properties.                                                             *)

\* No entry of the cache is older than the last change whose caller has been
\* answered: an edit, a rotation or a delete reaches every later request.
CacheFresh == \A s \in Secrets : cached[s] # NoCopy => cached[s].ver >= settled

\* A request is granted on a row as it was when the request began, or later.
AuthFresh ==
    \A c \in Callers : caller[c].pc = "granted" => caller[c].item.ver >= caller[c].floor

\* While no change is on its way the cache agrees with the tables.
CacheAgrees ==
    ver = settled =>
        \A s \in Secrets : cached[s] # NoCopy =>
            \E k \in Keys : keyRow[k].secret = s /\ [cached[s] EXCEPT !.ver = ver] = CopyOf(k)

\* What a caller is answered never lags behind the changes that were answered
\* before it asked.
KeysFresh == CacheFresh /\ AuthFresh /\ CacheAgrees

\* Every authentication ends, however often the cache is cleared under it.
AuthEnds == \A c \in Callers : caller[c].pc = "look" ~> caller[c].pc \in {"granted", "refused", "idle"}
=============================================================================
